SPECIFICATION Spec
CONSTANTS
  Mappings <- MCWholeForest
  FactorizedBounds <- MCWholeBounds
  Workloads <- MCWorkloads
  TensorDims <- MCTensorDims
  Levels <- MCLevels
  Connections <- MCConnections
  UnsetBandwidths = {1}
  MaxEvaluations = 1
INVARIANTS
  ResidentHoldsBlock
  LoadsWholeTensor
