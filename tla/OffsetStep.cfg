SPECIFICATION CountSpec
CONSTANTS
  Mappings <- MCForest
  FactorizedBounds <- MCBounds
  Workloads <- MCWorkloads
  TensorDims <- MCTensorDims
  MaxEvaluations = 1
INVARIANT
  OffsetIsStep
