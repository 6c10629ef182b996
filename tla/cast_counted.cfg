SPECIFICATION LexSpec
CONSTANTS
  Word <- MCWord
  MultiOps <- MCMultiOps
  Sources <- MCExpressions
  policyTable <- MCPolicyTable
  Expressions <- MCExpressions
  uuidColumns <- MCUuidColumns
  Definitions <- MCDefinitions
  Bodies <- MCBodies
  Declared <- MCDeclared
INVARIANT CastsSkipped
CHECK_DEADLOCK FALSE
