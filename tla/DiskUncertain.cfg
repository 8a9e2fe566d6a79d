SPECIFICATION Spec
CONSTANTS
  MaxEntries = 2
  KeptAncestors = 1
  Scopes <- OneScope
  Settings <- ManagedOnly
  MaxImages = 4
  Outcomes <- Unreliable
PROPERTIES UncertainFrozen
