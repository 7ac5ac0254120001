CONSTANTS
  Schema <- MainSchema
  Inputs <- NoInputs
  ScratchInputs <- MainScratchInputs
  ReadLens <- MainReadLens
  ScratchLen <- MainScratchLen
SPECIFICATION Spec
PROPERTY DumpWithinWindow
