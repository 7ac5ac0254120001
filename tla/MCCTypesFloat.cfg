CONSTANTS
  Schema <- FloatSchema
  Inputs <- FloatInputs
  ScratchInputs <- NoInputs
  ReadLens <- FiveByteReadLens
  ScratchLen <- MainScratchLen
SPECIFICATION Spec
INVARIANT ParseFaithful
