SPECIFICATION Spec
CONSTANTS
  alice = alice
  bob = bob
  carol = carol
  kitchen = kitchen
  tv = tv
  Speakers = {alice, bob, carol}
  Nobody = Nobody
  Satellites = {kitchen}
  NoSatellite = NoSatellite
  AreaOf <- MCAreaOf
  Sources = {tv}
  SourceArea <- MCSourceArea
  NoArea = NoArea
  Limit = 2
  Boost = 1
  MaxDelta = 1
  MinAdaptive = 1
  Unset = Unset
  NoVoiceprint = 40
  Utterances <- MCUtterances
  StartSettings <- MCStartSettings
  Edits <- MCEdits
  Midpoints <- MCMidpoints
  MaxEdits = 1
INVARIANTS
  EarlyMatchStands
  RejectedIsNobody
  ExtraVoiceprintsHelpTheirOwner
CHECK_DEADLOCK FALSE
