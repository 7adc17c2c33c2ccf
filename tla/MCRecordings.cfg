SPECIFICATION Spec
CONSTANTS
  MaxEvent = 3
  MaxVoice = 1
  MaxRows = 2
  Keep = 2
  NoVoice = NoVoice
  Services = {s1}
  Batches <- MCBatches
INVARIANTS
  ShadowsHaveTheirEvent
  AssignedIsEnrolled
