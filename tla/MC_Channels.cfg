\* Every ring variant, a power-of-two ring of 4 slots (capacity 3); both
\* fifo variants with two buffers and three list entries (the stub too).
CONSTANTS
  a = a
  b = b
  NULL = NULL
  Word = 65536
  Size = 4
  RingVariants = {"spsc", "mpmc", "spmc", "mpsc"}
  RingBuffers = 4
  RingOps = 4
  FifoVariants = {"spsc", "mpmc"}
  FifoBuffers = 2
  FifoEntries = 3
  FifoOps = 3
SPECIFICATION Spec
INVARIANTS TypeOK RingFreedOnce RingBuffersAccounted FifoBuffersAccounted
PROPERTIES RingHandlersReturn RingQueue FifoHandlersReturn FifoQueue
