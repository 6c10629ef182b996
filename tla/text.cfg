SPECIFICATION LexSpec
CONSTANTS
  Word <- MCWord
  MultiOps <- MCMultiOps
  Sources <- MCSources
  policyTable <- MCPolicyTable
  Expressions <- MCExpressions
  uuidColumns <- MCUuidColumns
  Definitions <- MCDefinitions
  Bodies <- MCBodies
  Declared <- MCDeclared
INVARIANTS
  LexTypeOK
  TokensRight
  ValuesRight
  StatementsWhole
  UuidColumnsNamed
  DefinersRead
CHECK_DEADLOCK FALSE
