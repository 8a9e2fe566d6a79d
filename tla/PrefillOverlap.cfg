SPECIFICATION FairSpec
CONSTANTS
  Sources = {1, 2, 3, 4, 5}
  MaxSlots = 4
  TopK = 2
  Capacities = {2, 4}
  Outcomes <- Unreliable
INVARIANTS ReadersIntact BatchComplete
PROPERTIES BatchEnds
