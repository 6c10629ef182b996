SPECIFICATION DeploySpec
CONSTANTS
  Absent = Absent
  anonymous = anonymous
  user = user
  server = server
  items = items
  notes = notes
  Caller <- MCCaller
  roleOf <- MCRoleOf
  hasUser <- MCHasUser
  Table <- MCTable
  ManagedTable = {}
  Name <- MCName
  MaxIdent = 2
  CustomRole = {"reporting"}
  InternalRole = {"authenticator"}
  Expr <- MCExpr
  Catalogs <- MCCatalogs
  OptionSets <- MCOptions
  Precedes <- MCPrecedes
  Grains = {"statement", "file"}
  MaxFailures = 2
  MaxDeploys = 2
INVARIANTS
  DeployTypeOK
  AppliedAsConverted
  NoExposure
  ReapplySafe
PROPERTIES
  EventuallyApplied
CHECK_DEADLOCK FALSE
