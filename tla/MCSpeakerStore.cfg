SPECIFICATION Spec
CONSTANTS
  alice = alice
  bob = bob
  kitchen = kitchen
  Names = {alice, bob}
  NoName = NoName
  Mics = {kitchen}
  NoMic = NoMic
  Threads = {t1, t2}
  Free = Free
  Loop = Loop
  MaxSpeaker = 2
  MaxSample = 3
  AutoCap = 1
  WhisperMin = 2
  SatelliteMin = 2
  MaxScore = 1
  Requests <- MCRequests
  Archives <- MCArchives
INVARIANTS
  ProfilesFitSamples
  DoneIsDurable
  AutoSamplesAreCapped
  ChangesAreCalibrated
SYMMETRY MCSymmetry
