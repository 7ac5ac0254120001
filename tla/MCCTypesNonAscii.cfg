CONSTANTS
  Schema <- StringSchema
  Inputs <- StringInputs
  ScratchInputs <- NoInputs
  ReadLens <- TwoByteReadLens
  ScratchLen <- MainScratchLen
SPECIFICATION Spec
INVARIANT ParseFaithful
