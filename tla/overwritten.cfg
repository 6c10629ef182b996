SPECIFICATION Spec
CONSTANTS
  Absent = Absent
  anonymous = anonymous
  user = user
  server = server
  robot = robot
  items = items
  users = users
  Caller <- MCCaller
  roleOf <- MCRoleOf
  hasUser <- MCHasUser
  Table <- MCTable
  ManagedTable = {users}
  Name <- MCName
  MaxIdent = 2
  CustomRole = {"reporting"}
  InternalRole = {"authenticator"}
  Expr <- MCExpr
  Catalogs <- Pairs
  OptionSets <- FewOptions
  Precedes <- MCPrecedes
INVARIANTS
  NothingOverwritten
CHECK_DEADLOCK FALSE
