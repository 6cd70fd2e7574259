SPECIFICATION MCSpec
CONSTANTS
  a1 = a1
  a2 = a2
  facebook = facebook
  Posts = {p1}
  Accounts = {a1, a2}
  Services = {facebook}
  ServiceOf <- MCServiceOf
  NoService = NoService
  Required = {facebook}
  Faults = {}
  Schedulers = {s1}
  ScanLimit = 1
  Workers = {w1, w2}
  NoJob = NoJob
  Lossless = TRUE
  MaxQueue = 9
  MaxSent = 9
INVARIANTS
  SettledIsFinal
