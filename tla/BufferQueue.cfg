CONSTANTS
  Bytes = {a, b}
  Zero = a
  kCheapPrepend = 1
  kInitialSize = 2
  ExtraSize = 2
  MaxChunk = 3
  MaxReadable = 4
SPECIFICATION Spec
INVARIANTS TypeOK SizeIsBounded
PROPERTY IsByteQueue
