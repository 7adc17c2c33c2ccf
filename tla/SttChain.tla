------------------------------ MODULE SttChain ------------------------------
(***************************************************************************)
(* How an utterance gets its transcript (wyoming_murdock/handler.py): the  *)
(* main service, overtaken after the patience by the first fallback that   *)
(* can answer, the fallback chain, and afterwards the shadows that         *)
(* transcribe the utterance again for comparison.                          *)
(*                                                                         *)
(* Requests are tasks of their own.  They outlive the utterance that       *)
(* started them, so each is kept under its utterance; the flags of the     *)
(* answer belong to the handler and are reset by AudioStart.               *)
(***************************************************************************)
EXTENDS Naturals, Sequences, SequencesExt

CONSTANTS
  Main,           \* the service in the role main
  Chain,          \* the fallback services, in order
  ShadowOrder,    \* the shadow services, in order
  Assignments,    \* what kind each service may be
  Public,         \* services whose address is not on the local network
  Patience,       \* get_stt_patience() > 0
  OnEmpty,        \* get_fallback_on_empty()
  MaxUtterances,  \* utterances on the connection; bounds the model
  Nobody          \* no service

Fallbacks == ToSet(Chain)
Services == {Main} \union Fallbacks \union ToSet(ShadowOrder)
Kinds == {"wyoming", "openai", "voxtral", "ha"}
Utterances == 1 .. MaxUtterances

ASSUME ChainAssumption ==
  /\ Chain \in Seq(Fallbacks) /\ ShadowOrder \in Seq(ToSet(ShadowOrder))
  /\ IsInjective(Chain) /\ Main \notin Fallbacks
  /\ Assignments \subseteq [Services -> Kinds] /\ Public \subseteq Services
  /\ Nobody \notin Services /\ MaxUtterances \in Nat \ {0}
  /\ Patience \in BOOLEAN /\ OnEmpty \in BOOLEAN

VARIABLES
  kind,         \* service -> its kind, which is not edited
  utterance,    \* utterances begun
  stage,        \* the await the main coroutine stands at
  ready,        \* services build_stt_backend can build
  hedge,        \* the fallback standing by, or Nobody
  at,           \* position in the chain
  reason,       \* why the chain runs: error, empty
  spoken,       \* who the transcript in hand is from, or Nobody
  main_failed, remote_down, rescued_by,
  request,      \* utterance, service -> its request for the answer
  prefetch,     \* utterance -> services asked before the chain reached them
  late_main,    \* utterance -> overtaken main: none, running, logged
  shadowAt      \* utterance -> position of its shadow run, 0 before it

answerVars == <<kind, utterance, ready, hedge, at, reason>>
flagVars == <<main_failed, remote_down, rescued_by>>
logVars == <<late_main, shadowAt>>
vars == <<answerVars, stage, spoken, flagVars, request, prefetch, logVars>>

Stages == {"idle", "primary", "main", "patience", "backup", "rest",
           "chain", "fallback", "answer"}
Failures == {"error", "network"}
Ended == {"text", "empty"} \union Failures

TypeOK ==
  /\ kind \in Assignments
  /\ utterance \in 0 .. MaxUtterances /\ stage \in Stages
  /\ ready \subseteq Services
  /\ hedge \in Fallbacks \union {Nobody} /\ spoken \in Services \union {Nobody}
  /\ at \in 1 .. Len(Chain) + 1 /\ reason \in {"error", "empty"}
  /\ main_failed \in BOOLEAN /\ remote_down \in BOOLEAN
  /\ rescued_by \in Fallbacks \union {Nobody}
  /\ request \in [Utterances -> [Services -> {"none", "running"} \union Ended]]
  /\ prefetch \in [Utterances -> SUBSET Fallbacks]
  /\ late_main \in [Utterances -> {"none", "running", "logged"}]
  /\ shadowAt \in [Utterances -> 0 .. Len(ShadowOrder) + 1]

-----------------------------------------------------------------------------
(* Services and their backends.                                            *)

\* is_remote: whether reaching the service needs the internet.
Remote == {s \in Services : kind[s] = "voxtral" \/ s \in Public}

\* Only a Wyoming main is fed while the user speaks.
Streamed == kind[Main] = "wyoming"

\* What build_stt_backend asks of a configuration.  An entity that is Murdock
\* itself counts as none.
Needs == [wyoming |-> {"uri"}, openai |-> {"model"}, voxtral |-> {"api_key"},
          ha |-> {"entity", "home assistant"}]

\* The sets of services that can be built, whatever one thing each may lack.
Buildable ==
  LET Lacking == [Services -> UNION {Needs[k] : k \in Kinds} \union {"nothing"}]
      Built(a, lacks) == {s \in Services : lacks[s] \notin Needs[a[s]]}
  IN [a \in Assignments |-> {Built(a, lacks) : lacks \in Lacking}]

\* An HTTP service: only a host that was not reached tells of the network.
HttpResult(reply) ==
  CASE reply = "unreachable" -> "network"
    [] reply \in {"slow", "broken", "refused"} -> "error"
    [] reply \in {"text", "empty"} -> reply

\* transcribe_via_wyoming: the last text counts, after a grace in which none
\* follows.  Every OSError, also of a connection that breaks, is taken for a
\* host that was not reached.  A server that has said nothing, or an empty
\* transcript, and keeps the connection open is waited for until the timeout.
WyomingResult(heard, ends) ==
  CASE ends = "broken" -> "network"
    [] ends # "broken" /\ heard = "text" -> "text"
    [] ends = "open" /\ heard # "text" -> "error"
    [] ends = "closed" /\ heard = "empty" -> "empty"
    [] ends = "closed" /\ heard = "nothing" -> "hung up"

\* WyomingBackend tries once more if the server hung up quickly.
WyomingResults ==
  LET Once == {WyomingResult(heard, ends) :
                 heard \in {"nothing", "empty", "text"},
                 ends \in {"broken", "closed", "open"}}
      Twice == [quick : BOOLEAN, first : Once, second : Once]
      Final(t) == IF t.first = "hung up" /\ t.quick THEN t.second ELSE t.first
  IN {IF Final(t) = "hung up" THEN "error" ELSE Final(t) : t \in Twice}

Results ==
  [k \in Kinds |->
     IF k = "wyoming" THEN WyomingResults
     ELSE {HttpResult(reply) : reply \in
             {"unreachable", "slow", "broken", "refused", "text", "empty"}}]

-----------------------------------------------------------------------------
Init ==
  /\ kind \in Assignments
  /\ utterance = 0 /\ stage = "idle" /\ ready = {}
  /\ hedge = Nobody /\ at = 1 /\ reason = "error" /\ spoken = Nobody
  /\ main_failed = FALSE /\ remote_down = FALSE /\ rescued_by = Nobody
  /\ request = [u \in Utterances |-> [s \in Services |-> "none"]]
  /\ prefetch = [u \in Utterances |-> {}]
  /\ late_main = [u \in Utterances |-> "none"]
  /\ shadowAt = [u \in Utterances |-> 0]

Result(s) == request[utterance][s]
IsDown(s) == s \in Remote /\ remote_down

Asking(requests, s) == [requests EXCEPT ![utterance][s] = "running"]

Prefetched(s) ==
  IF s \in prefetch[utterance]
    THEN UNCHANGED <<request, prefetch>>
    ELSE /\ request' = Asking(request, s)
         /\ prefetch' = [prefetch EXCEPT ![utterance] = @ \union {s}]

\* A request to s failed to connect.
NetworkFailed(s) == remote_down' = (remote_down \/ s \in Remote)

-----------------------------------------------------------------------------
(* The main service.                                                       *)

\* A bug: the new session starts with what the last one learnt.
BeginRemembering ==
  /\ stage = "idle" /\ utterance < MaxUtterances
  /\ utterance' = utterance + 1 /\ stage' = "primary"
  /\ ready' \in Buildable[kind]
  /\ hedge' = Nobody /\ at' = 1 /\ spoken' = Nobody
  /\ main_failed' = FALSE /\ rescued_by' = Nobody
  /\ UNCHANGED <<kind, reason, remote_down, request, prefetch, logVars>>

\* _reset_session_state at AudioStart; the audio comes and goes.
Begin ==
  /\ stage = "idle" /\ utterance < MaxUtterances
  /\ utterance' = utterance + 1 /\ stage' = "primary"
  /\ ready' \in Buildable[kind]
  /\ hedge' = Nobody /\ at' = 1 /\ spoken' = Nobody
  /\ main_failed' = FALSE /\ remote_down' = FALSE /\ rescued_by' = Nobody
  /\ UNCHANGED <<kind, reason, request, prefetch, logVars>>

\* What follows the main's answer: its text, or the chain.
AfterMain(result) ==
  /\ main_failed' = (result \in Failures)
  /\ reason' = IF result \in Failures THEN "error" ELSE "empty"
  /\ stage' = IF result \in Failures \/ (result = "empty" /\ OnEmpty)
                THEN "chain" ELSE "answer"
  /\ UNCHANGED <<kind, utterance, ready, hedge, at, rescued_by>>

\* A streaming main has been decoding all along: its final text, nothing, a
\* connection that broke - the interim is kept then - or one that failed.
StreamedMain ==
  /\ stage = "primary" /\ Streamed
  /\ \E result \in Ended :
       /\ AfterMain(result)
       /\ \/ spoken' = Main /\ result \in {"text", "error"}
          \/ spoken' = Nobody /\ result # "text"
       /\ IF result = "network" THEN NetworkFailed(Main) ELSE UNCHANGED remote_down
  /\ UNCHANGED <<request, prefetch, logVars>>

MainNotReady ==
  /\ stage = "primary" /\ ~Streamed /\ Main \notin ready
  /\ AfterMain("error")
  /\ UNCHANGED <<spoken, remote_down, request, prefetch, logVars>>

\* The first of a set of services in the user's order.
FirstOf(able) ==
  IF Fallbacks \intersect able = {} THEN Nobody
  ELSE Chain[CHOOSE i \in DOMAIN Chain :
               Chain[i] \in able /\ \A j \in 1 .. i - 1 : Chain[j] \notin able]

HedgeLocal == IF Patience THEN FirstOf(ready \ Remote) ELSE Nobody

\* _hedge_candidate, before anything is known of the internet.
HedgeCandidate == IF Patience THEN FirstOf(ready) ELSE Nobody

\* A buffered main is asked; a local fallback is asked beside it.
AskMain ==
  /\ stage = "primary" /\ ~Streamed /\ Main \in ready
  /\ hedge' = HedgeCandidate
  /\ LET beside == {HedgeCandidate} \ (Remote \union {Nobody}) IN
       /\ request' = [request EXCEPT ![utterance] =
                        [s \in Services |->
                           IF s \in {Main} \union beside THEN "running" ELSE @[s]]]
       /\ prefetch' = [prefetch EXCEPT ![utterance] = beside]
  /\ stage' = IF HedgeCandidate = Nobody THEN "main" ELSE "patience"
  /\ UNCHANGED <<kind, utterance, ready, at, reason, spoken, flagVars, logVars>>

\* _take_main.  It goes first whenever both it and the stand-in are done.
TakeMain ==
  /\ stage \in {"main", "patience", "backup", "rest"}
  /\ Result(Main) \in Ended
  /\ AfterMain(Result(Main))
  /\ spoken' = IF Result(Main) = "text" THEN Main ELSE Nobody
  /\ IF Result(Main) = "network" THEN NetworkFailed(Main) ELSE UNCHANGED remote_down
  /\ UNCHANGED <<request, prefetch, logVars>>

PatienceRunsOut ==
  /\ stage = "patience" /\ Result(Main) = "running"
  /\ Prefetched(hedge)
  /\ stage' = "backup"
  /\ UNCHANGED <<answerVars, spoken, flagVars, logVars>>

\* The stand-in answers for the main, whose request goes on.
Overtake ==
  /\ stage = "backup" /\ Result(Main) = "running" /\ Result(hedge) = "text"
  /\ spoken' = hedge /\ rescued_by' = hedge
  /\ late_main' = [late_main EXCEPT ![utterance] = "running"]
  /\ stage' = "answer"
  /\ UNCHANGED <<answerVars, main_failed, remote_down, request, prefetch,
                 shadowAt>>

StandInHasNothing ==
  /\ stage = "backup" /\ Result(Main) = "running"
  /\ Result(hedge) \in Ended \ {"text"}
  /\ IF Result(hedge) = "network" THEN NetworkFailed(hedge)
                                  ELSE UNCHANGED remote_down
  /\ stage' = "rest"
  /\ UNCHANGED <<answerVars, spoken, main_failed, rescued_by, request, prefetch,
                 logVars>>

-----------------------------------------------------------------------------
(* The fallback chain.                                                     *)

ChainSkips ==
  /\ stage = "chain" /\ at <= Len(Chain)
  /\ IsDown(Chain[at]) \/ Chain[at] \notin ready
  /\ at' = at + 1
  /\ UNCHANGED <<kind, utterance, ready, hedge, reason, stage, spoken, flagVars,
                 request, prefetch, logVars>>

\* Bugs: a service that was asked already is asked again; the state of the
\* internet is not looked at.
ChainAsksAgain ==
  /\ stage = "chain" /\ at <= Len(Chain)
  /\ ~IsDown(Chain[at]) /\ Chain[at] \in ready
  /\ request' = Asking(request, Chain[at])
  /\ stage' = "fallback"
  /\ UNCHANGED <<answerVars, spoken, flagVars, prefetch, logVars>>

ChainAsksRegardless ==
  /\ stage = "chain" /\ at <= Len(Chain)
  /\ Chain[at] \in ready
  /\ request' = IF Chain[at] \in prefetch[utterance] THEN request
                                                     ELSE Asking(request, Chain[at])
  /\ stage' = "fallback"
  /\ UNCHANGED <<answerVars, spoken, flagVars, prefetch, logVars>>

ChainAsks ==
  /\ stage = "chain" /\ at <= Len(Chain)
  /\ ~IsDown(Chain[at]) /\ Chain[at] \in ready
  /\ request' = IF Chain[at] \in prefetch[utterance] THEN request
                                                     ELSE Asking(request, Chain[at])
  /\ stage' = "fallback"
  /\ UNCHANGED <<answerVars, spoken, flagVars, prefetch, logVars>>

\* A bug: an empty answer ends the chain whatever started it.
FallbackSettlesOnEmpty ==
  /\ stage = "fallback" /\ Result(Chain[at]) \in {"text", "empty"}
  /\ rescued_by' = Chain[at] /\ stage' = "answer"
  /\ spoken' = IF Result(Chain[at]) = "text" THEN Chain[at] ELSE spoken
  /\ UNCHANGED <<answerVars, main_failed, remote_down, request, prefetch, logVars>>

\* A text ends the chain; so does a working service that heard nothing, if
\* the main failed: then nobody said anything.
FallbackSettles ==
  /\ stage = "fallback"
  /\ \/ Result(Chain[at]) = "text" /\ spoken' = Chain[at]
     \/ Result(Chain[at]) = "empty" /\ reason = "error" /\ UNCHANGED spoken
  /\ rescued_by' = Chain[at] /\ stage' = "answer"
  /\ UNCHANGED <<answerVars, main_failed, remote_down, request, prefetch, logVars>>

\* A bug: a service that cannot be reached is tried for ever.
FallbackRetries ==
  /\ stage = "fallback"
  /\ Result(Chain[at]) \in Failures \/ (Result(Chain[at]) = "empty" /\ reason = "empty")
  /\ IF Result(Chain[at]) = "network" THEN NetworkFailed(Chain[at])
                                      ELSE UNCHANGED remote_down
  /\ stage' = "chain"
  /\ UNCHANGED <<answerVars, spoken, main_failed, rescued_by, request, prefetch,
                 logVars>>

FallbackPasses ==
  /\ stage = "fallback"
  /\ Result(Chain[at]) \in Failures \/ (Result(Chain[at]) = "empty" /\ reason = "empty")
  /\ IF Result(Chain[at]) = "network" THEN NetworkFailed(Chain[at])
                                      ELSE UNCHANGED remote_down
  /\ at' = at + 1 /\ stage' = "chain"
  /\ UNCHANGED <<kind, utterance, ready, hedge, reason, spoken, main_failed, rescued_by,
                 request, prefetch, logVars>>

ChainEnds ==
  /\ stage = "chain" /\ at = Len(Chain) + 1
  /\ stage' = "answer"
  /\ UNCHANGED <<answerVars, spoken, flagVars, request, prefetch, logVars>>

\* The answer is written.  Only an utterance that made it into the
\* recognition log gets its late main and its shadows.
Answered ==
  /\ stage = "answer" /\ stage' = "idle"
  /\ \/ shadowAt' = [shadowAt EXCEPT ![utterance] = 1] /\ UNCHANGED late_main
     \/ /\ late_main' = [late_main EXCEPT ![utterance] = "none"]
        /\ UNCHANGED shadowAt
  /\ UNCHANGED <<answerVars, spoken, flagVars, request, prefetch>>

AnswerStep ==
  \/ StreamedMain \/ MainNotReady \/ AskMain \/ TakeMain
  \/ PatienceRunsOut \/ Overtake \/ StandInHasNothing
  \/ ChainSkips \/ ChainAsks \/ FallbackSettles \/ FallbackPasses \/ ChainEnds
  \/ Answered

-----------------------------------------------------------------------------
(* Tasks beside the main coroutine.                                        *)

RequestEnds(u, s) ==
  /\ request[u][s] = "running"
  /\ \E result \in Results[kind[s]] : request' = [request EXCEPT ![u][s] = result]
  /\ UNCHANGED <<answerVars, stage, spoken, flagVars, prefetch, logVars>>

\* A bug: the result is looked for in the utterance being served.
LateMainOfPresent(u) ==
  /\ u = utterance
  /\ late_main[u] = "running" /\ shadowAt[u] > 0 /\ request[u][Main] \in Ended
  /\ late_main' = [late_main EXCEPT ![u] = "logged"]
  /\ UNCHANGED <<answerVars, stage, spoken, flagVars, request, prefetch,
                 shadowAt>>

\* _log_late_main, started with the shadows; a crash would leave no row.
LateMainLogged(u) ==
  /\ late_main[u] = "running" /\ shadowAt[u] > 0 /\ request[u][Main] \in Ended
  /\ late_main' = [late_main EXCEPT ![u] = "logged"]
  /\ UNCHANGED <<answerVars, stage, spoken, flagVars, request, prefetch,
                 shadowAt>>

\* _run_shadows: a service asked in advance for the answer is not asked again,
\* its result is waited for; another is asked, if it is configured, by a request
\* of the shadow's own that nothing here depends on.
ShadowStep(u) ==
  /\ shadowAt[u] \in 1 .. Len(ShadowOrder)
  /\ shadowAt' = [shadowAt EXCEPT ![u] = @ + 1]
  /\ LET s == ShadowOrder[shadowAt[u]] IN
       \/ s \in prefetch[u] /\ request[u][s] \in Ended
       \/ s \notin prefetch[u]
  /\ UNCHANGED <<answerVars, stage, spoken, flagVars, request, prefetch, late_main>>

Next ==
  \/ Begin \/ AnswerStep
  \/ \E u \in Utterances, s \in Services : RequestEnds(u, s)
  \/ \E u \in Utterances : LateMainLogged(u) \/ ShadowStep(u)

\* The loop resumes what is ready, a request ends by its timeout.
Fairness ==
  /\ WF_vars(AnswerStep)
  /\ \A u \in Utterances :
       /\ \A s \in Services : WF_vars(RequestEnds(u, s))
       /\ WF_vars(LateMainLogged(u)) /\ WF_vars(ShadowStep(u))

Spec == Init /\ [][Next]_vars /\ Fairness

-----------------------------------------------------------------------------
(* Properties.                                                             *)

\* Whoever answers for the main - the stand-in or a service the chain reached -
\* is the first in the user's order that could: each one before it is not
\* configured, out of reach with the internet, or was asked and had no text.
FirstInOrderAnswers ==
  \A i \in DOMAIN Chain : rescued_by = Chain[i] =>
    \A j \in 1 .. i - 1 :
      \/ Chain[j] \notin ready \/ IsDown(Chain[j])
      \/ Result(Chain[j]) \in Ended \ {"text"}

\* The internet is taken for down only on the evidence of this utterance:
\* a request of an earlier one that fails late, or the flag it left, does not
\* cost this one its remote services.
RemoteDownIsOwn ==
  remote_down =>
    \/ \E s \in Remote : Result(s) = "network"
    \/ Main \in Remote /\ Result(Main) = "none"

\* One request serves the stand-in and the chain: once it was sent, the answer
\* is not waiting for another from the same service.
AskedOnce ==
  [][\A u \in Utterances, s \in Services :
       request[u][s] # "none" => request'[u][s] \in {request[u][s]} \union Ended]_vars

\* "Once a remote service has failed to connect at all ... the remaining
\* remote services are skipped" (_run_fallback_chain).
NoRemoteOnceDown ==
  [][\A s \in Remote :
       remote_down /\ utterance' = utterance /\ Result(s) = "none"
         => request'[utterance][s] = "none"]_vars

\* If the main heard nothing, a fallback that hears nothing either does not end
\* the search: a text is missed only when nobody configured has one.
EmptyIsDoubtedToTheEnd ==
  stage = "answer" /\ spoken = Nobody /\ reason = "empty" /\ OnEmpty
    => at = Len(Chain) + 1 /\ rescued_by = Nobody

\* Every utterance is answered, whatever the services do.
EveryUtteranceIsAnswered == stage # "idle" ~> stage = "idle"

\* The main that was overtaken is logged under its own utterance in the end,
\* also when the next utterances are being served by then.
LateMainIsLogged ==
  \A u \in Utterances :
    late_main[u] = "running" /\ shadowAt[u] > 0 ~> late_main[u] = "logged"
=============================================================================
