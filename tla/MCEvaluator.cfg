SPECIFICATION Spec
CONSTANTS
  Mappings <- MCForest
  FactorizedBounds <- MCBounds
  Workloads <- MCWorkloads
  TensorDims <- MCTensorDims
  Levels <- MCLevels
  Connections <- MCConnections
  UnsetBandwidths = {0, 1, 5}
  MaxEvaluations = 1
INVARIANTS
  TypeOK
  ExecutesEachBlockOnce
  TrafficGrowsInward
  LatencyFloor
PROPERTIES
  WalksEachDim
  LatencyCeiling
  SoundMappingsFinish
  Terminates
