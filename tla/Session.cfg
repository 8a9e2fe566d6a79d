SPECIFICATION Spec
CONSTANTS
  Layers = 3
  QsaLayers <- MCQsa
  PleLayer = 2
  Sink = 1
  Exact = 1
  Tile = 2
  Ratio = 2
  BlockBudget = 1
  QueryTile = 2
  ShortTile = 1
  WideRows = 3
  Chunks = 2
  AddressedRows = 2
  MaxContext = 7
  MaxFileRows = 35
  Scope = "ours"
  Widths <- MCWidths
  MaxTokens = 7
  RestartCost = 2
  MaxSessions = 2
  Modes <- MCModes
INVARIANTS CommittedState NeverReserved
CHECK_DEADLOCK FALSE
