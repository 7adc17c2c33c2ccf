SPECIFICATION Spec
CONSTANTS
  MaxSessions = 2
  MaxChunks = 1
  EarlyAt = 1
  RejectAt = 1
  SilenceAt = 1
  EarlyReject = FALSE
  SilenceAbort = FALSE
  Buffered = {FALSE}
  Abandon = FALSE
  Pending = Pending
INVARIANTS
  MatchIsOwnVoice
CHECK_DEADLOCK FALSE
