SPECIFICATION TensorSpec
CONSTANTS
  Mappings <- MCForest
  FactorizedBounds <- MCBounds
  Workloads <- MCWorkloads
  TensorDims <- MCTensorDims
INVARIANT
  ProducerTilesWriteBack
