SPECIFICATION Spec
CONSTANTS
  Loop <- MCLoop
  Top <- MCTop
  Below <- MCBelow
  End <- MCEnd
  Residual <- MCResidual
  Offset <- MCOffset
  LastOffset <- MCLastOffset
  Bound <- MCBound
INVARIANTS
  TypeOK
  SkewIsPosition
  ExactTiling
  InBounds
PROPERTY
  SkewRestored
