CONSTANTS
  Schema <- MainSchema
  Inputs <- MainInputs
  ScratchInputs <- NoInputs
  ReadLens <- MainReadLens
  ScratchLen <- MainScratchLen
SPECIFICATION Spec
INVARIANTS ParseFaithful WireMatchesDeclaredLayout
