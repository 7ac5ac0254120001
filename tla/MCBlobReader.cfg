CONSTANTS
  h1 = h1
  h2 = h2
  b1 = b1
  b2 = b2
  Handles <- MCHandles
  BufIds <- MCBufIds
  StreamLen = 4
  MaxCount = 3
SYMMETRY Symm
SPECIFICATION Spec
INVARIANTS TypeOK ReaderWithinBlob BufferBacked
