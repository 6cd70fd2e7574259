SPECIFICATION MCSystemSpec
CONSTANTS
  a1 = a1
  a2 = a2
  facebook = facebook
  Posts = {p1}
  Accounts = {a1}
  Services = {facebook}
  ServiceOf <- MCServiceOf
  NoService = NoService
  Required = {facebook}
  Faults = {}
  Schedulers = {s1}
  ScanLimit = 1
  Workers = {w1}
  NoJob = NoJob
  Pages = {a1}
  Requests = {"unlink"}
  Texts <- MCTexts
  MaxEdits = 1
PROPERTIES
  PublishedMeansPosted
