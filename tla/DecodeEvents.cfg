SPECIFICATION FairSpec
CONSTANTS
  Sources = {1, 2}
  MaxSlots = 2
  NumLayers = 3
  Window = 2
  TopK = 1
  MaxToken = 2
  Outcomes <- Unreliable
INVARIANTS KernelReadsRows NeverRefused CommitComplete
PROPERTIES TokenEnds
