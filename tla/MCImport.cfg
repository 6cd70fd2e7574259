SPECIFICATION MCSpec
CONSTANTS
  Users = {u1}
  Sessions = {k1}
  Tokens = {t1}
  Requests = {r1, r2}
  Nobody = Nobody
  NoCredential = NoCredential
  Days <- MCDays
  Day = 2
  HalfRange = 7
  Failures = {"db"}
  MaxRequests = 3
  ServiceIds = {1, 2}
  Configurations <- MCConfigurations
  States = {s1}
  Pages = {g1, g2}
  PageCap = 2
  NoState = NoState
INVARIANTS
  ImportInv
  OneRedemption
  DeadStaysOut
  NeverOutlives
  LoadedIsValid
PROPERTIES
  ImplementsImportContract
  EveryRequestEnds
CHECK_DEADLOCK FALSE
