SPECIFICATION ServicesSpec
CONSTANTS
  MaxId = 3
  u1 = u1
  u2 = u2
  cloud = cloud
  Wyoming = {u1, u2}
  Cloud = {cloud}
  NoService = NoService
  None = None
  Absent = Absent
  DefaultUri = DefaultUri
  Legacies <- MCLegacies
  Archives <- MCArchives
  Requested <- MCRequested
INVARIANTS
  MainIsAService
  MemoryIsDisk
