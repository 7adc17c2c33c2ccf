SPECIFICATION Spec
CONSTANTS
  Satellites = {s1, s2}
  Nowhere = Nowhere
  MaxUtterance = 3
  OfflineAfterFailures = 3
  MaxFailures = 3
INVARIANTS
  OfflineIsEarned
PROPERTIES
  DownIsNoticed
