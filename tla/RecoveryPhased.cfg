SPECIFICATION FairSpec
CONSTANTS
  SampleInterval = 1
  SampleGapLimit = 1
  ReleaseInterval = 1
  RecoveryCooldown = 1
  ActiveValidation = 1
  RetryLimit = 2
  AgeCap = 2
  MinCapacity = 2
  GrowthStep = 2
  InitialCapacity = 3
  MaximumCapacity = 3
  Phased = TRUE
  WideCapacity = 2
  Inputs <- AlarmInputs
  Outcomes <- FaultFree
PROPERTIES RecoveryResumes
