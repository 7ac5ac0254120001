---------------------------- MODULE MCBlobReader ----------------------------
EXTENDS BlobReader, TLC

CONSTANTS h1, h2, b1, b2

MCHandles == {h1, h2}
MCBufIds == {b1, b2}
Symm == Permutations(MCHandles) \cup Permutations(MCBufIds)
=============================================================================
