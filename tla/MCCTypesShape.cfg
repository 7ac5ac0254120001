CONSTANTS
  Schema <- MainSchema
  Inputs <- MissingFieldInputs
  ScratchInputs <- NoInputs
  ReadLens <- MainReadLens
  ScratchLen <- MainScratchLen
SPECIFICATION Spec
INVARIANT ShapeMismatchThrows
