--------------------------- MODULE MurdockHandler ---------------------------
(***************************************************************************)
(* One Wyoming connection as wyoming_murdock/handler.py serves it.         *)
(*                                                                         *)
(* The main coroutine handles the events of Home Assistant one at a time:  *)
(* AudioStart, AudioChunk ..., AudioStop, again and again.  Beside it, on  *)
(* the same event loop, run the tasks a session starts: the early probe,   *)
(* the early-reject probe and one reader per upstream connection.  Every   *)
(* variable of the handler is shared by all of them; `stage` is the await  *)
(* the main coroutine stands at, and the tasks have states of their own.   *)
(*                                                                         *)
(* Sessions are numbered.  A flag the code keeps as a bare boolean, name   *)
(* or text is kept here as the number of the session whose audio it was    *)
(* derived from (0 when unset): the code cannot tell, the properties can.  *)
(***************************************************************************)
EXTENDS Integers, FiniteSets, Sequences

CONSTANTS
  MaxSessions,  \* AudioStarts on the connection; bounds the model
  MaxChunks,    \* blocks of audio in one session; bounds the model
  EarlyAt,      \* blocks after which the early probe is due (1.5 s)
  RejectAt,     \* blocks after which the reject probe is due (1.5 s + chime)
  SilenceAt,    \* blocks after which silence is looked for (abort window)
  EarlyReject,  \* get_enable_early_reject()
  SilenceAbort, \* get_silence_abort_sec() > 0, with a VAD
  Buffered,     \* modes the main service may have: TRUE is request-on-stop
  Abandon,      \* AudioStart may arrive in a session that got no AudioStop
  Pending       \* the transcript future is not resolved

Sessions == 1 .. MaxSessions
MaxConns == MaxSessions * MaxChunks
Conns == 1 .. MaxConns
Marks == 0 .. MaxSessions

ASSUME HandlerAssumption ==
  /\ MaxSessions \in Nat \ {0} /\ MaxChunks \in Nat \ {0}
  /\ EarlyAt \in Nat \ {0} /\ RejectAt \in Nat /\ SilenceAt \in Nat \ {0}
  /\ EarlyAt <= RejectAt
  /\ EarlyReject \in BOOLEAN /\ SilenceAbort \in BOOLEAN /\ Abandon \in BOOLEAN
  /\ Buffered \subseteq BOOLEAN /\ Buffered # {}
  /\ Pending \notin Marks

VARIABLES
  \* the connection and the main coroutine
  session,      \* sessions begun
  stage,        \* the await the main coroutine stands at
  buffered,     \* _is_voxtral
  blocks,       \* _audio_buffer, in blocks
  responded,    \* _responded
  main_slot_held,
  plan,         \* finish: the outcome it is heading for
  reply,        \* finish: the transcript it is about to write
  \* flags of the probes
  early_match, early_rejected, no_speech, cancelled,
  early_probed, reject_probed, silence_probed,
  earlyTask,    \* session -> its early probe: none, running, done
  rejectTask,   \* session -> its reject probe
  \* the upstream recogniser
  upstream_client, upstream_open, upstream_failed,
  upstream_interim, streaming_upstream, audio_stop_sent,
  opened,       \* connections opened so far
  connSession,  \* connection -> session whose audio it carries
  closed,       \* connections either side has closed
  readers,      \* connection -> its reader task: none, reading, done, crashed
  readsFrom,    \* reader -> connection its pending read is on
  grace,        \* readers whose pending read has the short timeout
  future,       \* session -> its transcript future
  \* what the outside sees
  enrolled,     \* session -> an enrolled voice speaks in it
  answers,      \* session -> transcripts written to Home Assistant
  published,    \* session -> verdicts published: known, unknown
  recorded      \* session -> outcomes in the recognition log

mainVars == <<session, stage, buffered, blocks, responded, main_slot_held>>
finishVars == <<plan, reply>>
probeFlags == <<early_match, early_rejected, no_speech, cancelled>>
probedVars == <<early_probed, reject_probed, silence_probed>>
taskVars == <<earlyTask, rejectTask>>
clientVars == <<upstream_client, upstream_open, upstream_failed>>
interimVars == <<upstream_interim, streaming_upstream, audio_stop_sent>>
connVars == <<opened, connSession, closed>>
readerVars == <<readers, readsFrom, grace, future>>
outsideVars == <<enrolled, answers, published, recorded>>
vars == <<mainVars, finishVars, probeFlags, probedVars, taskVars, clientVars,
          interimVars, connVars, readerVars, outsideVars>>

Stages == {"read",        \* in the server's loop, waiting for an event
           "open",        \* _open_upstream: connect, Transcribe, AudioStart
           "forward",     \* the chunk is being written upstream
           "probe",       \* past the forwarding, at the early probe
           "silence",     \* _probe_for_silence: the VAD runs in a thread
           "arm",         \* at the early reject
           "stop",        \* AudioStop is being written upstream
           "gates",       \* whisper, media and liveness checks
           "verify",      \* extraction, embedding, verification
           "transcribe",  \* _get_transcript
           "publish",     \* publish_recognition_now
           "answer",      \* the transcript is being written
           "enroll",      \* _maybe_auto_enroll
           "closed"}      \* disconnect() has run

Outcomes == {"none", "empty", "early-reject", "no-speech", "cancelled",
             "short", "no-speakers", "no-speakers-blocked", "tv-noise",
             "embed-failed", "early", "match", "forwarded", "blocked"}

MainTypeOK ==
  /\ session \in Marks /\ stage \in Stages /\ buffered \in BOOLEAN
  /\ blocks \in 0 .. MaxChunks /\ responded \in BOOLEAN
  /\ main_slot_held \in BOOLEAN
  /\ plan \in Outcomes /\ reply \in Marks

ProbeTypeOK ==
  /\ early_match \in Marks /\ early_rejected \in Marks
  /\ no_speech \in Marks /\ cancelled \in Marks
  /\ early_probed \in BOOLEAN /\ reject_probed \in BOOLEAN
  /\ silence_probed \in BOOLEAN
  /\ earlyTask \in [Sessions -> {"none", "running", "done"}]
  /\ rejectTask \in [Sessions -> {"none", "embedding", "whisper", "closing",
                                  "capturing", "done"}]

UpstreamTypeOK ==
  /\ upstream_client \in 0 .. MaxConns
  /\ upstream_open \in BOOLEAN /\ upstream_failed \in BOOLEAN
  /\ upstream_interim \in Marks /\ streaming_upstream \in BOOLEAN
  /\ audio_stop_sent \in BOOLEAN
  /\ opened \in 0 .. MaxConns
  /\ connSession \in [Conns -> Marks] /\ closed \subseteq Conns
  /\ readers \in [Conns -> {"none", "reading", "done", "crashed"}]
  /\ readsFrom \in [Conns -> 0 .. MaxConns]
  /\ grace \subseteq Conns
  /\ future \in [Sessions -> Marks \union {Pending}]

OutsideTypeOK ==
  /\ enrolled \in [Sessions -> BOOLEAN]
  /\ answers \in [Sessions -> Seq(Marks)]
  /\ published \in [Sessions -> SUBSET {"known", "unknown"}]
  /\ recorded \in [Sessions -> SUBSET Outcomes]

OpenHasClient == upstream_open => upstream_client # 0

TypeOK ==
  MainTypeOK /\ ProbeTypeOK /\ UpstreamTypeOK /\ OutsideTypeOK /\ OpenHasClient

Init ==
  /\ session = 0 /\ stage = "read" /\ buffered \in Buffered
  /\ blocks = 0 /\ responded = FALSE /\ main_slot_held = FALSE
  /\ plan = "none" /\ reply = 0
  /\ early_match = 0 /\ early_rejected = 0 /\ no_speech = 0 /\ cancelled = 0
  /\ early_probed = FALSE /\ reject_probed = FALSE /\ silence_probed = FALSE
  /\ earlyTask = [n \in Sessions |-> "none"]
  /\ rejectTask = [n \in Sessions |-> "none"]
  /\ upstream_client = 0 /\ upstream_open = FALSE /\ upstream_failed = FALSE
  /\ upstream_interim = 0 /\ streaming_upstream = FALSE
  /\ audio_stop_sent = FALSE
  /\ opened = 0 /\ connSession = [c \in Conns |-> 0] /\ closed = {}
  /\ readers = [c \in Conns |-> "none"]
  /\ readsFrom = [c \in Conns |-> 0]
  /\ grace = {} /\ future = [n \in Sessions |-> Pending]
  /\ enrolled \in [Sessions -> BOOLEAN]
  /\ answers = [n \in Sessions |-> <<>>]
  /\ published = [n \in Sessions |-> {}]
  /\ recorded = [n \in Sessions |-> {}]

-----------------------------------------------------------------------------
(* Building blocks.                                                        *)

\* _close_upstream where nothing else can use the client before it returns.
CloseUpstream ==
  /\ closed' = closed \union ({upstream_client} \ {0})
  /\ upstream_client' = 0
  /\ upstream_open' = FALSE

Resolved(n, text) ==
  [future EXCEPT ![n] = IF @ = Pending THEN text ELSE @]

Publish(n, verdict) ==
  published' = [published EXCEPT ![n] = @ \union {verdict}]

\* _send_transcript_to_satellite up to the write: the main slot goes back.
Reply(outcome, text) ==
  /\ plan' = outcome
  /\ reply' = text
  /\ main_slot_held' = FALSE
  /\ stage' = "answer"
  /\ UNCHANGED <<session, buffered, blocks, responded>>

GoTo(s) ==
  /\ stage' = s
  /\ UNCHANGED <<session, buffered, blocks, responded, main_slot_held>>

-----------------------------------------------------------------------------
(* Events of Home Assistant.  A chunk or an AudioStop that comes when the  *)
(* session is decided or answered changes nothing.                         *)

\* _reset_session_state: the task references are dropped, the tasks go on;
\* the interim, the stop mark, the cancellation and the silence verdict stay.
AudioStart ==
  /\ stage = "read" /\ session < MaxSessions
  /\ session = 0 \/ responded \/ Abandon
  /\ session' = session + 1
  /\ buffered' \in Buffered
  /\ blocks' = 0 /\ responded' = FALSE /\ main_slot_held' = FALSE
  /\ early_match' = 0 /\ early_rejected' = 0
  /\ early_probed' = FALSE /\ reject_probed' = FALSE
  /\ upstream_client' = 0 /\ upstream_open' = FALSE /\ upstream_failed' = FALSE
  /\ UNCHANGED <<stage, finishVars, no_speech, cancelled, silence_probed,
                 taskVars, interimVars, connVars, readerVars, outsideVars>>

TakeChunk ==
  /\ stage = "read" /\ session > 0 /\ blocks < MaxChunks
  /\ blocks' = blocks + 1
  /\ main_slot_held' = TRUE
  /\ stage' = CASE buffered -> "probe"
                [] ~buffered /\ upstream_client = 0 /\ ~upstream_failed -> "open"
                [] OTHER -> IF upstream_open THEN "forward" ELSE "probe"
  /\ UNCHANGED <<session, buffered, responded, finishVars, probeFlags,
                 probedVars, taskVars, clientVars, interimVars, connVars,
                 readerVars, outsideVars>>

\* A bug: the audio after the answer is taken for more of the session.
AudioChunkUnguarded == TakeChunk /\ early_rejected = 0

AudioChunk == TakeChunk /\ early_rejected = 0 /\ ~responded

\* The beginning of _finish_session: the early probe of this session is
\* cancelled, and AudioStop goes upstream if a connection is open.
TakeStop ==
  /\ stage = "read" /\ session > 0
  /\ audio_stop_sent' = (audio_stop_sent \/ (~buffered /\ upstream_open))
  /\ GoTo("stop")
  /\ UNCHANGED <<finishVars, probeFlags, probedVars, rejectTask, clientVars,
                 upstream_interim, streaming_upstream, connVars, readerVars,
                 outsideVars>>

CancelEarlyProbe ==
  earlyTask' = [earlyTask EXCEPT ![session] = IF @ = "running" THEN "done" ELSE @]

\* Bugs: the early probe is left running; a second AudioStop is answered too.
StopWithoutCancel == TakeStop /\ ~responded /\ UNCHANGED earlyTask
StopAgain == TakeStop /\ CancelEarlyProbe

AudioStop == TakeStop /\ ~responded /\ CancelEarlyProbe

\* disconnect(): the tasks the handler still refers to are cancelled - the
\* probes of this session and the reader it started last.
Disconnect ==
  LET reader == {c \in {opened} \ {0} :
                   connSession[c] = session /\ readers[c] = "reading"}
  IN
  /\ stage' = "closed" /\ main_slot_held' = FALSE
  /\ CloseUpstream
  /\ earlyTask' = [n \in Sessions |->
       IF n = session /\ earlyTask[n] = "running" THEN "done" ELSE earlyTask[n]]
  /\ rejectTask' = [n \in Sessions |->
       IF n = session /\ rejectTask[n] # "none" THEN "done" ELSE rejectTask[n]]
  /\ readers' = [c \in Conns |-> IF c \in reader THEN "done" ELSE readers[c]]
  /\ future' = IF reader = {} THEN future ELSE Resolved(session, 0)
  /\ UNCHANGED <<session, buffered, blocks, responded, finishVars, probeFlags,
                 probedVars, upstream_failed, interimVars, opened, connSession,
                 readsFrom, grace, outsideVars>>

Hangup == stage = "read" /\ Disconnect

-----------------------------------------------------------------------------
(* The main coroutine inside _handle_chunk.                                *)

Waits(streams, interim) == audio_stop_sent /\ streams /\ interim # 0

OpenOk ==
  LET c == opened + 1 IN
  /\ stage = "open"
  /\ opened' = c
  /\ connSession' = [connSession EXCEPT ![c] = session]
  /\ upstream_client' = c /\ upstream_open' = TRUE
  /\ readers' = [readers EXCEPT ![c] = "reading"]
  /\ readsFrom' = [readsFrom EXCEPT ![c] = c]
  /\ grace' = IF Waits(streaming_upstream, upstream_interim)
                THEN grace \union {c} ELSE grace
  /\ GoTo("forward")
  /\ UNCHANGED <<finishVars, probeFlags, probedVars, taskVars, upstream_failed,
                 interimVars, closed, future, outsideVars>>

OpenFails ==
  /\ stage = "open"
  /\ upstream_failed' = TRUE /\ upstream_open' = FALSE
  /\ future' = Resolved(session, 0)
  /\ GoTo("probe")
  /\ UNCHANGED <<finishVars, probeFlags, probedVars, taskVars, upstream_client,
                 interimVars, connVars, readers, readsFrom, grace, outsideVars>>

\* The write of the chunk returns, or raises.
Forwarded ==
  /\ stage = "forward"
  /\ \/ UNCHANGED <<upstream_failed, upstream_open>>
     \/ upstream_failed' = TRUE /\ upstream_open' = FALSE
  /\ GoTo("probe")
  /\ UNCHANGED <<finishVars, probeFlags, probedVars, taskVars, upstream_client,
                 interimVars, connVars, readerVars, outsideVars>>

\* The early probe starts once, if anybody is enrolled; then the silence
\* check, once, unless the stream arrives too slowly to judge.
ProbeDue ==
  LET early == ~early_probed /\ blocks >= EarlyAt IN
  /\ stage = "probe"
  /\ early_probed' = (early_probed \/ early)
  /\ \/ early /\ earlyTask' = [earlyTask EXCEPT ![session] = "running"]
     \/ UNCHANGED earlyTask
  /\ \/ /\ SilenceAbort /\ ~silence_probed /\ blocks >= SilenceAt
        /\ silence_probed' = TRUE
        /\ GoTo("silence")
     \/ GoTo("arm") /\ UNCHANGED silence_probed
  /\ UNCHANGED <<finishVars, probeFlags, reject_probed, rejectTask, clientVars,
                 interimVars, connVars, readerVars, outsideVars>>

SpeechHeard ==
  /\ stage = "silence"
  /\ GoTo("arm")
  /\ UNCHANGED <<finishVars, probeFlags, probedVars, taskVars, clientVars,
                 interimVars, connVars, readerVars, outsideVars>>

\* A bug: the reference to the client is dropped, the connection stays up.
NoSpeechForgetsClient ==
  /\ stage = "silence"
  /\ no_speech' = session
  /\ upstream_client' = 0 /\ upstream_open' = FALSE /\ UNCHANGED closed
  /\ GoTo("arm")
  /\ UNCHANGED <<finishVars, early_match, early_rejected, cancelled, probedVars,
                 taskVars, upstream_failed, interimVars, opened, connSession,
                 readerVars, outsideVars>>

NoSpeech ==
  /\ stage = "silence"
  /\ no_speech' = session
  /\ CloseUpstream
  /\ GoTo("arm")
  /\ UNCHANGED <<finishVars, early_match, early_rejected, cancelled, probedVars,
                 taskVars, upstream_failed, interimVars, opened, connSession,
                 readerVars, outsideVars>>

ArmReject ==
  LET due == /\ EarlyReject /\ ~reject_probed /\ early_match = 0
             /\ blocks >= RejectAt
  IN
  /\ stage = "arm"
  /\ reject_probed' = (reject_probed \/ due)
  /\ \/ due /\ rejectTask' = [rejectTask EXCEPT ![session] = "embedding"]
     \/ UNCHANGED rejectTask
  /\ GoTo("read")
  /\ UNCHANGED <<finishVars, probeFlags, early_probed, silence_probed,
                 earlyTask, clientVars, interimVars, connVars, readerVars,
                 outsideVars>>

-----------------------------------------------------------------------------
(* The main coroutine inside _finish_session.                              *)

\* AudioStop is written (or was not; the failure is swallowed): the decisions
\* that need no further await, in the order of the code.
Decided ==
  IF blocks = 0 THEN "empty"
  ELSE IF early_rejected # 0 THEN "early-reject"
  ELSE IF cancelled # 0 THEN "cancelled"
  ELSE IF no_speech # 0 THEN "no-speech"
  ELSE "none"

StopWritten ==
  /\ stage = "stop"
  /\ IF Decided = "none"
       THEN GoTo("gates") /\ UNCHANGED finishVars
       ELSE Reply(Decided, 0)
  /\ UNCHANGED <<probeFlags, probedVars, taskVars, clientVars, interimVars,
                 connVars, readerVars, outsideVars>>

\* Gates 1, 2 and 2b.  Each of them publishes before it answers.
GateCloses ==
  /\ stage = "gates"
  /\ Publish(session, "unknown")
  /\ \/ \E o \in {"short", "no-speakers"} :
          plan' = o /\ GoTo("transcribe") /\ UNCHANGED reply
     \/ \E o \in {"no-speakers-blocked", "tv-noise"} : Reply(o, 0)
  /\ UNCHANGED <<probeFlags, probedVars, taskVars, clientVars, interimVars,
                 connVars, readerVars, enrolled, answers, recorded>>

\* Past the gates: an early match skips the full verification.
GatesPass ==
  /\ stage = "gates"
  /\ IF early_match # 0
       THEN plan' = "early" /\ GoTo("transcribe")
       ELSE plan' = plan /\ GoTo("verify")
  /\ UNCHANGED <<reply, probeFlags, probedVars, taskVars, clientVars,
                 interimVars, connVars, readerVars, outsideVars>>

\* A match is only found where an enrolled voice speaks; it may be missed.
Verified ==
  /\ stage = "verify" /\ enrolled[session]
  /\ plan' = "match"
  /\ GoTo("transcribe")
  /\ UNCHANGED <<reply, probeFlags, probedVars, taskVars, clientVars,
                 interimVars, connVars, readerVars, outsideVars>>

\* Embedding failed, no match, or a match too close to the runner-up; the
\* second of the two goes on only while require_match is off.
NotVerified ==
  /\ stage = "verify"
  /\ Publish(session, "unknown")
  /\ \/ \E o \in {"embed-failed", "blocked"} : Reply(o, 0)
     \/ plan' = "forwarded" /\ GoTo("transcribe") /\ UNCHANGED reply
  /\ UNCHANGED <<probeFlags, probedVars, taskVars, clientVars, interimVars,
                 connVars, readerVars, enrolled, answers, recorded>>

\* An exception other than ValueError (no model file) ends the connection.
VerifyCrashes == stage = "verify" /\ Disconnect

\* What the main service gives: the future of a streaming main, or its last
\* interim after the timeout; a failed or empty one may be replaced by a
\* fallback's transcript of this session's audio.
Primary == IF buffered THEN 0
           ELSE IF future[session] = Pending THEN upstream_interim
           ELSE future[session]

\* A bug: the future is awaited without a timeout.
TranscriptsOnceResolved ==
  IF ~buffered /\ future[session] = Pending THEN {} ELSE {Primary}

Transcripts ==
  {Primary} \union
  (IF buffered \/ upstream_failed \/ Primary = 0 THEN {session} ELSE {})

\* A cancel phrase in the final transcript empties it.
Transcribed ==
  /\ stage = "transcribe"
  /\ \E text \in Transcripts :
       /\ \/ UNCHANGED cancelled /\ reply' = text
          \/ cancelled = 0 /\ text # 0 /\ cancelled' = text /\ reply' = 0
  /\ IF plan = "match"
       THEN GoTo("publish")
       ELSE /\ stage' = "answer" /\ main_slot_held' = FALSE
            /\ UNCHANGED <<session, buffered, blocks, responded>>
  /\ UNCHANGED <<plan, early_match, early_rejected, no_speech, probedVars,
                 taskVars, clientVars, interimVars, connVars, readerVars,
                 outsideVars>>

\* A bug: the verdict is announced, if at all, after the answer.
AnswersFirst ==
  /\ stage = "publish"
  /\ Reply(plan, reply)
  /\ UNCHANGED <<probeFlags, probedVars, taskVars, clientVars, interimVars,
                 connVars, readerVars, outsideVars>>

\* A full match is published, and waited for, before the answer.
PublishedNow ==
  /\ stage = "publish"
  /\ Publish(session, "known")
  /\ Reply(plan, reply)
  /\ UNCHANGED <<probeFlags, probedVars, taskVars, clientVars, interimVars,
                 connVars, readerVars, enrolled, answers, recorded>>

\* The write returned or failed; the rest of the path runs either way.
Answered ==
  /\ stage = "answer"
  /\ answers' = [answers EXCEPT ![session] = Append(@, reply)]
  /\ recorded' = [recorded EXCEPT ![session] = @ \union {plan}]
  /\ responded' = TRUE
  /\ CloseUpstream
  /\ stage' = IF plan \in {"early", "match"} THEN "enroll" ELSE "read"
  /\ plan' = "none" /\ reply' = 0
  /\ UNCHANGED <<session, buffered, blocks, main_slot_held, probeFlags,
                 probedVars, taskVars, upstream_failed, interimVars, opened,
                 connSession, readerVars, enrolled, published>>

AutoEnrolled ==
  /\ stage = "enroll"
  /\ GoTo("read")
  /\ UNCHANGED <<finishVars, probeFlags, probedVars, taskVars, clientVars,
                 interimVars, connVars, readerVars, outsideVars>>

ChunkStep == OpenOk \/ OpenFails \/ Forwarded \/ ProbeDue \/ SpeechHeard
             \/ NoSpeech \/ ArmReject
FinishStep == StopWritten \/ GateCloses \/ GatesPass \/ Verified \/ NotVerified
              \/ VerifyCrashes
              \/ Transcribed \/ PublishedNow \/ Answered \/ AutoEnrolled

-----------------------------------------------------------------------------
(* The probe tasks.  Session n started them; it need not be the present    *)
(* one, and they read and write whatever session the handler serves.       *)

EarlyMatch(n) ==
  /\ earlyTask[n] = "running" /\ enrolled[n]
  /\ earlyTask' = [earlyTask EXCEPT ![n] = "done"]
  /\ early_match' = n
  /\ Publish(n, "known")
  /\ UNCHANGED <<mainVars, finishVars, early_rejected, no_speech, cancelled,
                 probedVars, rejectTask, clientVars, interimVars, connVars,
                 readerVars, enrolled, answers, recorded>>

NoEarlyMatch(n) ==
  /\ earlyTask[n] = "running"
  /\ earlyTask' = [earlyTask EXCEPT ![n] = "done"]
  /\ UNCHANGED <<mainVars, finishVars, probeFlags, probedVars, rejectTask,
                 clientVars, interimVars, connVars, readerVars, outsideVars>>

\* Verified on the snapshot: far from every profile, and no early match.
\* Whispering is looked for in a thread before the verdict falls.
RejectVerifyOutOfTurn(n) ==
  /\ rejectTask[n] = "embedding"
  /\ \/ early_match = 0 /\ rejectTask' = [rejectTask EXCEPT ![n] = "whisper"]
     \/ rejectTask' = [rejectTask EXCEPT ![n] = "done"]
  /\ UNCHANGED <<mainVars, finishVars, probeFlags, probedVars, earlyTask,
                 clientVars, interimVars, connVars, readerVars, outsideVars>>

\* Both probes embed under the model lock, which is granted in the order it
\* was asked for, and the early probe, started first, does not suspend
\* between the lock and its verdict.
RejectVerify(n) ==
  /\ rejectTask[n] = "embedding" /\ earlyTask[n] # "running"
  /\ \/ early_match = 0 /\ rejectTask' = [rejectTask EXCEPT ![n] = "whisper"]
     \/ rejectTask' = [rejectTask EXCEPT ![n] = "done"]
  /\ UNCHANGED <<mainVars, finishVars, probeFlags, probedVars, earlyTask,
                 clientVars, interimVars, connVars, readerVars, outsideVars>>

RejectWhisper(n) ==
  /\ rejectTask[n] = "whisper"
  /\ rejectTask' = [rejectTask EXCEPT ![n] = "done"]
  /\ UNCHANGED <<mainVars, finishVars, probeFlags, probedVars, earlyTask,
                 clientVars, interimVars, connVars, readerVars, outsideVars>>

\* The connection in use is disconnected; the handler's reference to it is
\* only dropped when that has returned (RejectClosed).
Reject(n) ==
  /\ rejectTask[n] = "whisper"
  /\ early_rejected' = n
  /\ closed' = closed \union ({upstream_client} \ {0})
  /\ rejectTask' = [rejectTask EXCEPT ![n] =
                      IF upstream_client = 0 THEN "capturing" ELSE "closing"]
  /\ UNCHANGED <<mainVars, finishVars, early_match, no_speech, cancelled,
                 probedVars, earlyTask, clientVars, interimVars, opened,
                 connSession, readerVars, outsideVars>>

RejectClosed(n) ==
  /\ rejectTask[n] = "closing"
  /\ upstream_client' = 0 /\ upstream_open' = FALSE
  /\ rejectTask' = [rejectTask EXCEPT ![n] = "capturing"]
  /\ UNCHANGED <<mainVars, finishVars, probeFlags, probedVars, earlyTask,
                 upstream_failed, interimVars, connVars, readerVars,
                 outsideVars>>

\* A bug: a session that is thrown out is not announced.
RejectQuietly(n) ==
  /\ rejectTask[n] = "capturing"
  /\ rejectTask' = [rejectTask EXCEPT ![n] = "done"]
  /\ UNCHANGED <<mainVars, finishVars, probeFlags, probedVars, earlyTask,
                 clientVars, interimVars, connVars, readerVars, outsideVars>>

RejectPublish(n) ==
  /\ rejectTask[n] = "capturing"
  /\ rejectTask' = [rejectTask EXCEPT ![n] = "done"]
  /\ Publish(n, "unknown")
  /\ UNCHANGED <<mainVars, finishVars, probeFlags, probedVars, earlyTask,
                 clientVars, interimVars, connVars, readerVars, enrolled,
                 answers, recorded>>

ProbeStep(n) ==
  \/ EarlyMatch(n) \/ NoEarlyMatch(n)
  \/ RejectVerify(n) \/ RejectWhisper(n) \/ Reject(n)
  \/ RejectClosed(n) \/ RejectPublish(n)

-----------------------------------------------------------------------------
(* The upstream server and the readers (_read_upstream_transcript).        *)

UpstreamCloses(c) ==
  /\ c <= opened /\ c \notin closed
  /\ closed' = closed \union {c}
  /\ UNCHANGED <<mainVars, finishVars, probeFlags, probedVars, taskVars,
                 clientVars, interimVars, opened, connSession, readerVars,
                 outsideVars>>

Settle(c, text) ==
  /\ readers' = [readers EXCEPT ![c] = "done"]
  /\ future' = Resolved(connSession[c], text)
  /\ UNCHANGED <<readsFrom, grace>>

\* An exception in the reader leaves the empty text, whatever was heard.
Crash(c) ==
  /\ readers' = [readers EXCEPT ![c] = "crashed"]
  /\ future' = Resolved(connSession[c], 0)
  /\ UNCHANGED <<readsFrom, grace>>

\* The next read is on whatever client the handler has by now; with none,
\* the attribute access raises.
ReadOn(c, streams, interim) ==
  IF upstream_client = 0
    THEN Crash(c)
    ELSE /\ readsFrom' = [readsFrom EXCEPT ![c] = upstream_client]
         /\ grace' = IF Waits(streams, interim) THEN grace \union {c}
                                                ELSE grace \ {c}
         /\ UNCHANGED <<readers, future>>

Text(c) == connSession[readsFrom[c]]
Reading(c) == readers[c] = "reading"
Speaks(c) == Reading(c) /\ readsFrom[c] \notin closed

\* A transcript before AudioStop went upstream: kept, and searched for a
\* cancel phrase.  (An empty one changes nothing.)
Interim(c) ==
  /\ Speaks(c) /\ ~audio_stop_sent
  /\ upstream_interim' = Text(c) /\ streaming_upstream' = TRUE
  /\ \/ UNCHANGED cancelled
     \/ cancelled = 0 /\ cancelled' = Text(c)
  /\ ReadOn(c, TRUE, Text(c))
  /\ UNCHANGED <<mainVars, finishVars, early_match, early_rejected, no_speech,
                 probedVars, taskVars, clientVars, audio_stop_sent, connVars,
                 outsideVars>>

\* A transcript, possibly empty, after AudioStop: from a server that streams
\* it may still grow, from a one-shot server it is final.
Final(c) ==
  /\ Speaks(c) /\ audio_stop_sent
  /\ \E text \in {0, Text(c)} :
       LET interim == IF text # 0 THEN text ELSE upstream_interim IN
       /\ upstream_interim' = interim
       /\ IF streaming_upstream THEN ReadOn(c, TRUE, interim)
                                ELSE Settle(c, interim)
  /\ UNCHANGED <<mainVars, finishVars, probeFlags, probedVars, taskVars,
                 clientVars, streaming_upstream, audio_stop_sent, connVars,
                 outsideVars>>

\* A bug: a stream that ends without a final transcript has said nothing.
ReadEndsEmpty(c) ==
  /\ Reading(c)
  /\ c \in grace \/ readsFrom[c] \in closed
  /\ Settle(c, 0)
  /\ UNCHANGED <<mainVars, finishVars, probeFlags, probedVars, taskVars,
                 clientVars, interimVars, connVars, outsideVars>>

\* The read ends without a transcript: the short timeout, or end of stream.
ReadEnds(c) ==
  /\ Reading(c)
  /\ c \in grace \/ readsFrom[c] \in closed
  /\ Settle(c, upstream_interim)
  /\ UNCHANGED <<mainVars, finishVars, probeFlags, probedVars, taskVars,
                 clientVars, interimVars, connVars, outsideVars>>

\* The connection is reset rather than closed, and the read raises.
ReadFails(c) ==
  /\ Speaks(c)
  /\ closed' = closed \union {readsFrom[c]}
  /\ Crash(c)
  /\ UNCHANGED <<mainVars, finishVars, probeFlags, probedVars, taskVars,
                 clientVars, interimVars, opened, connSession, outsideVars>>

ReaderStep(c) == Interim(c) \/ Final(c) \/ ReadEnds(c) \/ ReadFails(c)

-----------------------------------------------------------------------------
Next ==
  \/ AudioStart \/ AudioChunk \/ AudioStop \/ Hangup
  \/ ChunkStep \/ FinishStep
  \/ \E n \in Sessions : ProbeStep(n)
  \/ \E c \in Conns : UpstreamCloses(c) \/ ReaderStep(c)

\* The loop resumes the main coroutine and the probes: their awaits are on
\* threads that end, on writes, and on requests with timeouts.  Nothing
\* obliges Home Assistant or the upstream server to send anything.
Fairness ==
  /\ WF_vars(ChunkStep) /\ WF_vars(FinishStep)
  /\ \A n \in Sessions : WF_vars(ProbeStep(n))

Spec == Init /\ [][Next]_vars /\ Fairness

-----------------------------------------------------------------------------
(* Properties.                                                             *)

\* An utterance logged as a match was spoken by an enrolled voice: neither
\* path to a match rests on another session's audio.  (The early match is a
\* bare name; only the cancellation at AudioStop keeps a probe of the session
\* before from writing it into this one.)
MatchIsOwnVoice ==
  \A n \in Sessions :
    recorded[n] \intersect {"early", "match"} # {} => enrolled[n]

\* One transcript and one log row per AudioStop, whichever of the probes, the
\* gates and the phrase decided the session.
OneAnswerPerStop ==
  \A n \in Sessions :
    /\ Len(answers[n]) <= 1
    /\ Cardinality(recorded[n]) = Len(answers[n])

\* The main slot in the shadow gate is held exactly from the first chunk of a
\* session to its answer, on every path that ends one.
SlotFollowsSession ==
  main_slot_held <=>
    blocks > 0 /\ ~responded /\ stage \notin {"answer", "closed"}

\* After the answer no upstream connection of the session is left open, also
\* when the silence abort closed one and a later chunk opened another.
UpstreamIsClosed ==
  responded /\ stage = "read"
    => \A c \in 1 .. opened : connSession[c] = session => c \in closed

\* "Half an answer beats none" (test_upstream_interim.py:95): once a word was
\* heard, a session that reaches its transcript is not answered with nothing,
\* unless a cancel phrase asked for it or the reader died of an exception.
HeardIsNotLost ==
  [][stage = "transcribe" /\ stage' # "transcribe"
       /\ ~buffered /\ upstream_interim = session /\ cancelled' = 0
       /\ (\A c \in Conns : connSession[c] = session => readers[c] # "crashed")
       => reply' # 0]_vars

\* A session whose speaker was recognised early, and announced, is not thrown
\* out by the reject probe of the same session: the order of the model lock
\* stands between the two verdicts.
EarlyMatchIsNotRejected == early_match # 0 => early_match # early_rejected

\* "Publish BEFORE answering" (handler.py:2013): whichever path found the
\* match, the speaker was handed to the publishers before the transcript goes
\* out.  (Only the full match also waits for them to finish.)
MatchIsAnnouncedFirst ==
  stage = "answer" /\ plan \in {"early", "match"} => "known" \in published[session]

\* The recognition event "fires on every utterance including
\* non-recognitions" (CHANGELOG.md:864): a session that was verified, gated or
\* thrown out, and whose reject probe is through, has its verdict published.
\* (One called off by a phrase or without speech publishes nothing.)
EveryVerdictIsPublished ==
  stage # "closed" =>
    \A n \in Sessions :
      /\ recorded[n] \ {"empty", "no-speech", "cancelled"} # {}
      /\ rejectTask[n] \in {"none", "done"}
      => published[n] # {}

\* Every AudioStop is answered, unless the model file is missing and the
\* connection goes down: no probe, no reader and no upstream server can hang
\* the session for ever.
EveryStopIsAnswered ==
  stage = "stop" ~> responded \/ stage = "closed"

\* The connection keeps what it promises to Home Assistant.
Phase ==
  CASE stage = "closed" -> "gone"
    [] stage # "closed" /\ responded -> "answered"
    [] stage # "closed" /\ ~responded /\ session = 0 -> "idle"
    [] OTHER -> IF stage \in {"stop", "gates", "verify", "transcribe",
                              "publish", "answer"}
                  THEN "deciding" ELSE "listening"

Gate == INSTANCE Gatekeeper
          WITH serving <- session, phase <- Phase, log <- recorded,
               words <- [n \in Sessions |->
                           [i \in 1 .. Len(answers[n]) |-> answers[n][i] # 0]]

\* One answer to each session that is stopped, words only under a verdict that
\* lets them pass, a speaker named only where an enrolled voice spoke; and no
\* stopped session stays undecided.
GatekeeperSpec == Gate!Spec

=============================================================================
