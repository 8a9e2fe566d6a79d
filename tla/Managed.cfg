SPECIFICATION Spec
CONSTANTS
  Processes = {p, q}
  Native <- MCNative
  Legacy <- MCLegacy
  MaxEntries = 2
  Sizes <- MCSizes
  Limits <- MCLimits
  Founds <- MCFounds
  MaxSaves = 4
SYMMETRY MCSymmetry
INVARIANTS BudgetHeld OwnersKeep NamedPresent
CHECK_DEADLOCK FALSE
