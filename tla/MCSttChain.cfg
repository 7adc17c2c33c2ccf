SPECIFICATION Spec
CONSTANTS
  main = main
  cloud = cloud
  local = local
  Main = main
  Nobody = Nobody
  Chain <- MCChain
  ShadowOrder <- MCShadows
  Assignments <- MCAssignments
  Public <- MCPublic
  Patience = TRUE
  OnEmpty = TRUE
  MaxUtterances = 2
INVARIANTS
  FirstInOrderAnswers
  RemoteDownIsOwn
  EmptyIsDoubtedToTheEnd
PROPERTIES
  AskedOnce
  NoRemoteOnceDown
  EveryUtteranceIsAnswered
  LateMainIsLogged
CHECK_DEADLOCK FALSE
