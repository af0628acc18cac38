SPECIFICATION TensorSpec
CONSTANTS
  Mappings <- MCForest
  FactorizedBounds <- MCBounds
  Workloads <- MCWorkloads
  TensorDims <- MCTensorDims
INVARIANTS
  TensorTypeOK
  InputsAreLiveIn
  TransCarriesLive
  ResultLeavesRoot
