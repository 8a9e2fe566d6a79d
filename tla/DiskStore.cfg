SPECIFICATION Spec
CONSTANTS
  MaxEntries = 2
  KeptAncestors = 1
  Scopes <- OneScope
  Settings <- EverySetting
  MaxImages = 4
  Outcomes <- Unreliable
INVARIANTS Durable LimitsHeld EntriesOwnLeaves Reopenable
PROPERTIES ExplicitFrozen
