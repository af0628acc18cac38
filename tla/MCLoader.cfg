SPECIFICATION Spec
CONSTANTS
  Configs <- MCConfigs
  UnsetValues = {0, 1, 3}
INVARIANTS
  ConnectionsPrintable
  LevelsAsDeclared
  TensorKeepsFirstProjection
  WorkloadsComplete
  ParsedIsTree
  VariablesByName
  OpsReuseVariables
  LoopsHaveBounds
PROPERTY
  LoadEnds
