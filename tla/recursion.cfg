SPECIFICATION Spec
CONSTANTS
  Absent = Absent
  anonymous = anonymous
  user = user
  messages = messages
  rooms = rooms
  Caller <- MCCaller
  roleOf <- MCRoleOf
  hasUser <- MCHasUser
  Table <- MCTable
  ManagedTable = {}
  Name <- MCName
  MaxIdent = 2
  CustomRole = {}
  InternalRole = {"authenticator"}
  Expr <- MCExpr
  Catalogs <- MCCatalogs
  OptionSets <- MCOptions
  Precedes <- MCPrecedes
INVARIANTS
  NoNewRecursion
CHECK_DEADLOCK FALSE
