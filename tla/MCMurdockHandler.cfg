SPECIFICATION Spec
CONSTANTS
  MaxSessions = 1
  MaxChunks = 3
  EarlyAt = 1
  RejectAt = 2
  SilenceAt = 2
  EarlyReject = TRUE
  SilenceAbort = TRUE
  Buffered = {TRUE, FALSE}
  Abandon = FALSE
  Pending = Pending
INVARIANTS
  OneAnswerPerStop
  SlotFollowsSession
  EarlyMatchIsNotRejected
  MatchIsAnnouncedFirst
  EveryVerdictIsPublished
  UpstreamIsClosed
PROPERTIES
  HeardIsNotLost
  EveryStopIsAnswered
  GatekeeperSpec
CHECK_DEADLOCK FALSE
