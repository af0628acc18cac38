SPECIFICATION Spec
CONSTANTS
  Mappings <- MCTailedForest
  FactorizedBounds <- MCBounds
  Workloads <- MCWorkloads
  TensorDims <- MCTensorDims
  Levels <- MCLevels
  Connections <- MCConnections
  UnsetBandwidths = {1}
  MaxEvaluations = 1
INVARIANT
  ResidentHoldsBlock
