SPECIFICATION Spec
CONSTANTS
  None = None
  NoDefault = NoDefault
  uuid = uuid
  text = text
  uid = uid
  QName <- MCQName
  RoutineName <- MCRoutineName
  Signature = {"()", "(uuid)"}
  Body <- MCMixedBody
  ManagedSchema <- MCManagedSchema
  PolicyName = {"p", "q"}
  Clause = {"using"}
  Value = {"old", "new"}
  Column = {"id", "owner"}
  Type = {uuid, text}
  Default = {NoDefault, uid}
  AuthDefault = {uid}
  Themes <- MCThemes
INVARIANTS
  TypeOK
  PoliciesTracked
  FlagsTracked
  NoFalseAlarm
  TypesTracked
  AuthDefaultsCovered
  RoutinesReported
PROPERTIES
  Refines
CHECK_DEADLOCK FALSE
