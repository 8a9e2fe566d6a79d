SPECIFICATION Spec
CONSTANTS
  MinSlots = 2
  Floor = 4
  FullSlots = 8
  ChunkSlots = 2
  MaxChunks = 8
  LayerCount = 2
  QsaLayers = {1, 2}
  DefaultRows = 2
  AutomaticRows = 4
  MaxRows = 8
  Sink = 1
  ExactSuffix = 2
  Tile = 2
  Ratio = 2
  Cost <- SmallCost
  Reserve <- SmallReserve
  Commands <- SmallCommands
  PackageContext = 9
  DefaultContext = 12
  DefaultRetained = 2
  DefaultPayload = 8
  IoBuffer = 1
  FileOverhead = 2
INVARIANTS WithinBudget LayersAgree PromisesKept
