SPECIFICATION CLISpec
CONSTANTS
  Absent = Absent
  anonymous = anonymous
  user = user
  server = server
  items = items
  notes = notes
  Caller <- MCCaller
  roleOf <- MCRoleOf
  hasUser <- MCHasUser
  Table <- MCTable
  ManagedTable = {}
  Name <- MCName
  MaxIdent = 2
  CustomRole = {"reporting", "Reporting"}
  InternalRole = {"authenticator"}
  Expr <- MCExpr
  Catalogs <- MCCatalogs
  OptionSets <- MCOptions
  Precedes <- MCPrecedes
  lower <- MCLower
  MaxMigrations = 1
  MaxRuns = 2
INVARIANTS
  CLITypeOK
  NoTornWidening
  UntouchedTablesExact
  ExitTruthful
  ReportNotAhead
  OneBundle
PROPERTIES
  RunsEnd
CHECK_DEADLOCK FALSE
