SPECIFICATION LiveSpec
CONSTANTS
  Layers = 3
  Pipelines <- MCPipelines
INVARIANTS
  OneLayerAtATime
  PerceivesFront
  SameLayerFromFront
  AllLayersProcessed
PROPERTIES
  ScheduleEnds
CHECK_DEADLOCK FALSE
