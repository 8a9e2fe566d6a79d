SPECIFICATION FairOrdinarySpec
CONSTANTS
  SampleInterval = 1
  SampleGapLimit = 1
  ReleaseInterval = 1
  RecoveryCooldown = 2
  ActiveValidation = 2
  RetryLimit = 2
  AgeCap = 3
  MinCapacity = 2
  GrowthStep = 2
  InitialCapacity = 3
  MaximumCapacity = 5
  Phased = FALSE
  WideCapacity = 2
  Inputs <- SightedInputs
  Outcomes <- FaultFree
PROPERTIES RollbackKeepsEarned AdversityKept RecoveryResumes
