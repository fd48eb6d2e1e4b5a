CONSTANTS
  t1 = t1
  NoThread = NoThread
  NoKey = NoKey
  Threads <- MCThreads
  Pairs <- MCPairs
  Keys <- MCKeys
  KeyOf <- MCKeyOf
  MaxOps <- MCMaxOps
  Encodable <- MCEncodable
  Decodable <- MCDecodable
SPECIFICATION Spec
CONSTRAINT AllSent
INVARIANT CustomRoundTrip
CHECK_DEADLOCK FALSE
