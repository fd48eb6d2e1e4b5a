CONSTANTS
  t1 = t1
  t2 = t2
  p1 = p1
  p2 = p2
  p3 = p3
  k1 = k1
  k2 = k2
  NoThread = NoThread
  NoKey = NoKey
  Threads <- MCThreads
  Pairs <- MCPairs
  Keys <- MCKeys
  KeyOf <- MCKeyOf
  MaxOps <- MCMaxOps
SPECIFICATION Spec
INVARIANT TypeOK
INVARIANT CodeAgreement
INVARIANT LocalCacheSound
INVARIANT CustomRoundTrip
PROPERTY PublishedStable
PROPERTY ResolutionReturns
