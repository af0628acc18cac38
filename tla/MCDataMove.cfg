SPECIFICATION Spec
CONSTANT
  Ranges <- MCRanges
INVARIANT
  TypeOK
PROPERTY
  MovesWhatIsMissing
