SPECIFICATION Spec
CONSTANTS
  Types <- SomeTypes
  Blocks <- SomeBlocks
  QueueLength = 3
PROPERTIES
  QueueSpec
