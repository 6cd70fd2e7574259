SPECIFICATION MCSpec
CONSTANTS
  a1 = a1
  a2 = a2
  facebook = facebook
  Posts = {p1}
  Accounts = {a1, a2}
  Services = {facebook}
  ServiceOf <- MCServiceOf
  NoService = NoService
  Required = {facebook}
  Faults = {"db", "unknown", "dup"}
  Schedulers = {s1}
  ScanLimit = 1
  Workers = {w1}
  NoJob = NoJob
  Lossless = TRUE
  MaxQueue = 3
  MaxSent = 3
CONSTRAINT MCBound
INVARIANTS
  FinalStatusCorrect
  SettledIsFinal
