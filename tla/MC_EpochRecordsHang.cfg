CONSTANTS
  s1 = s1
  s2 = s2
  s3 = s3
  T1 = T1
  T2 = T2
  r1 = r1
  r2 = r2
  NULL = NULL
  States <- MCStates
  OSThreads <- MCOSThreads
  ThreadOf <- MCThreadOf
  Records <- MCRecords
  MaxMaps <- MCMaxMaps
SPECIFICATION Spec
PROPERTY RegistrationReturns
