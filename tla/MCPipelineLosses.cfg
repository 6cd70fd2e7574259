SPECIFICATION MCSpec
CONSTANTS
  a1 = a1
  a2 = a2
  facebook = facebook
  Posts = {p1}
  Accounts = {a1, a2}
  Services = {facebook}
  ServiceOf <- MCServiceOf
  NoService = NoService
  Required = {facebook}
  Faults = {"db", "push", "crash", "redis"}
  Schedulers = {s1, s2}
  ScanLimit = 1
  Workers = {w1, w2}
  NoJob = NoJob
  Lossless = FALSE
  MaxQueue = 9
  MaxSent = 9
SYMMETRY Symmetry
INVARIANTS
  TypeOK
  Inv
  OneJobPerAccount
  FinalStatusCorrect
  DeliveryBounded
PROPERTIES
  ImplementsContract
