SPECIFICATION CountSpec
CONSTANTS
  Mappings <- MCForest
  FactorizedBounds <- MCBounds
  Workloads <- MCWorkloads
  TensorDims <- MCTensorDims
  MaxEvaluations = 2
INVARIANT
  AcceptedAgain
