SPECIFICATION FairSpec
CONSTANTS
  World = 3
  Layers = 2
  Modules = 3
  Holds <- MCHoldsFew
  SizeOf <- MCSizeOf
  PartFileSize = 4
  Leftovers <- MCLeftovers
  Quantized = TRUE
  AdapterWrites = FALSE
  Crashes = TRUE
INVARIANTS
  IndexComplete
  SavedOnce
  MergeAfterClose
  CollectivesMatch
  WithinLimit
PROPERTIES
  NoFileOverwritten
  ImplementsShardedModel
  RunEnds
