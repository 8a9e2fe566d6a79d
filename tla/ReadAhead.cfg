SPECIFICATION FairSpec
CONSTANTS
  NumWorkers = 2
  NumRows = 3
  Layers <- TwoLayers
  Groups <- MissLists
  Outcomes <- Unreliable
INVARIANTS WindowAgrees
PROPERTIES RowsInOrder OwnerReturns
