SPECIFICATION Spec
CONSTANTS
  Claim <- MCClaim
  Letter <- MCLetter
  Digit <- MCDigit
  toLower <- MCToLower
  MaxClaimName = 3
  spelled <- MCSpelled
  Inputs <- MCInputs
  OptionSets <- MCOptions
INVARIANTS
  TypeOK
  MeaningKept
  ContextDefined
  ContractConsistent
  RoleNoteTruthful
CHECK_DEADLOCK FALSE
