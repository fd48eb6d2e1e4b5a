CONSTANTS
  a = a
  b = b
  v1 = v1
  v2 = v2
  NULL = NULL
  States <- MCStates
  Values <- MCValues
  MaxBuffers <- MCMaxBuffers
  MaxOps <- MCMaxOps
  StoreBuffering = TRUE
SPECIFICATION MCSpec
INVARIANT
  NoUseAfterFree
