CONSTANTS
  Schema <- IndexKeySchema
  Inputs <- IndexKeyInputs
  ScratchInputs <- NoInputs
  ReadLens <- ThreeByteReadLens
  ScratchLen <- MainScratchLen
SPECIFICATION Spec
INVARIANT WireMatchesDeclaredLayout
