SPECIFICATION Spec
CONSTANTS
  Configs <- MCPermutations
  UnsetValues = {0, 1, 3}
INVARIANT
  PermutationMatchesFactors
