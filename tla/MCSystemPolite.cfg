SPECIFICATION MCSystemSpec
CONSTANTS
  a1 = a1
  a2 = a2
  facebook = facebook
  Posts = {p1}
  Accounts = {a1, a2}
  Services = {facebook}
  ServiceOf <- MCServiceOf
  NoService = NoService
  Required = {facebook}
  Faults = {"db", "crash"}
  Schedulers = {s1, s2}
  ScanLimit = 1
  Workers = {w1}
  NoJob = NoJob
  Pages = {a1}
  Requests = {"create", "update", "delete", "account", "import", "service"}
  Texts <- MCTextsOrNone
  MaxEdits = 2
SYMMETRY Symmetry
INVARIANTS
  OneJobPerAccount
  FinalStatusCorrect
  SettledIsFinal
PROPERTIES
  WithdrawnNeverStarts
  RefusedOnlyWithoutText
