SPECIFICATION MCTokenFairSpec
CONSTANTS
  a1 = a1
  a2 = a2
  facebook = facebook
  Posts = {p1, p2}
  Accounts = {a1}
  Services = {facebook}
  ServiceOf <- MCServiceOf
  NoService = NoService
  Required = {facebook}
  Faults = {}
  Schedulers = {s1}
  ScanLimit = 1
  Workers = {w1}
  NoJob = NoJob
  Pages = {a1}
  Requests = {"create", "update", "delete", "account", "import", "service"}
  Texts <- MCTextsOrNone
  MaxEdits = 1
PROPERTIES
  EventuallyFinalOrWithdrawn
  EventuallyDeauthorized
  DeauthorizedForCause
