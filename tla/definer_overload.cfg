SPECIFICATION Spec
CONSTANTS
  None = None
  NoDefault = NoDefault
  uuid = uuid
  text = text
  uid = uid
  QName <- MCQName
  RoutineName <- MCRoutineName
  Signature = {"()", "(uuid)"}
  Body <- MCBody
  ManagedSchema <- MCManagedSchema
  PolicyName = {"p", "q"}
  Clause = {"using"}
  Value = {"old", "new"}
  Column = {"id", "owner"}
  Type = {uuid, text}
  Default = {NoDefault, uid}
  AuthDefault = {uid}
  Themes <- MCRoutineThemes
INVARIANTS
  EveryDefinerListed
CHECK_DEADLOCK FALSE
