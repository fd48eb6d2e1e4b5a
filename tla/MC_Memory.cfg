\* A single-producer single-consumer ring of 6 slots (not a power of two),
\* the mpmc fifo; md128 with every argument form of new() and four views.
CONSTANTS
  a = a
  b = b
  NULL = NULL
  Word = 65536
  Size = 6
  RingVariants = {"spsc"}
  RingBuffers = 9
  RingOps = 9
  FifoVariants = {"mpmc"}
  FifoBuffers = 2
  FifoEntries = 3
  FifoOps = 3
  Md128Views = {"u8", "u32", "u64", "p"}
  Md128Args = {"none", "string", "numbers", "ptrs"}
  Md128Ops = 2
SPECIFICATION Spec
INVARIANT MemorySafe
