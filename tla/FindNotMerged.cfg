SPECIFICATION Spec
CONSTANTS
  World = 3
  Layers = 1
  Modules = 5
  Holds <- MCHolds
  SizeOf <- MCSizeOf
  PartFileSize = 4
  Leftovers <- MCNoLeftovers
  Quantized = TRUE
  AdapterWrites = TRUE
  Crashes = FALSE
INVARIANT MergedAtEnd
