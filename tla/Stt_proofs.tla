------------------------------ MODULE Stt_proofs ------------------------------
(***************************************************************************)
(* Proofs about speech-to-text.  The answer to an utterance, for any chain *)
(* of fallbacks, any number of utterances whose requests overlap, and      *)
(* whatever each service is, lacks and replies.  The services and their    *)
(* roles, for any operations and a crash between any two commits.  And the *)
(* upstream's languages, for any number of requests that wait for them.    *)
(***************************************************************************)
EXTENDS SttChain, SttServices, InfoCache, WellFoundedInduction, SequenceTheorems, TLAPS

\* The awaits before the chain is walked.
BeforeChain == {"primary", "main", "patience", "backup", "rest"}

\* Before the first utterance nothing has happened.
InUtterance ==
  /\ utterance = 0 => stage = "idle" /\ ~remote_down /\ rescued_by = Nobody
  /\ stage \in BeforeChain => at = 1
  /\ stage = "fallback" => at <= Len(Chain)
  /\ stage \notin {"idle", "answer"} => rescued_by = Nobody

\* Nothing is asked for an utterance that has not got to its main.
Unasked ==
  \A u \in Utterances : u > utterance \/ (u = utterance /\ stage = "primary")
    => \A s \in Services : request[u][s] = "none"

\* What has been asked: the main, a service in advance, or one that the chain
\* has come to.
Reached(s) ==
  \E j \in DOMAIN Chain :
    s = Chain[j] /\ (j < at \/ (j = at /\ stage = "fallback"))

AskedInOrder ==
  stage \notin {"idle", "answer"} =>
    \A s \in Services : Result(s) # "none" =>
      s = Main \/ s \in prefetch[utterance] \/ Reached(s)

\* The stand-in is the first that can be asked.
FirstReady(i) == Chain[i] \in ready /\ \A j \in 1 .. i - 1 : Chain[j] \notin ready

HedgeIsFirst ==
  /\ stage \in {"patience", "backup", "rest"} => hedge # Nobody
  /\ hedge # Nobody => \E i \in DOMAIN Chain : hedge = Chain[i] /\ FirstReady(i)
  /\ stage \in BeforeChain \ {"rest"} => ~remote_down

\* The chain passes a service for one of three reasons.
Passed(j) ==
  Chain[j] \notin ready \/ IsDown(Chain[j]) \/ Result(Chain[j]) \in Ended \ {"text"}

PassedInOrder == stage \in {"chain", "fallback"} => \A j \in 1 .. at - 1 : Passed(j)

InOrder ==
  InUtterance /\ Unasked /\ AskedInOrder /\ HedgeIsFirst /\ PassedInOrder

IInv ==
  /\ TypeOK /\ InOrder
  /\ FirstInOrderAnswers /\ RemoteDownIsOwn /\ EmptyIsDoubtedToTheEnd

-----------------------------------------------------------------------------
(* Lemmas about the chain and the services.                                *)

LEMMA ChainFacts ==
  /\ Len(Chain) \in Nat /\ DOMAIN Chain = 1 .. Len(Chain)
  /\ \A i \in DOMAIN Chain : Chain[i] \in Fallbacks
  /\ \A i, j \in DOMAIN Chain : Chain[i] = Chain[j] => i = j
  /\ \A s \in Fallbacks : \E i \in DOMAIN Chain : s = Chain[i]
  /\ Fallbacks \subseteq Services /\ Main \in Services \ Fallbacks
  /\ Nobody \notin Services
<1>1. Len(Chain) \in Nat /\ DOMAIN Chain = 1 .. Len(Chain)
  BY ChainAssumption
<1>2. \A i, j \in DOMAIN Chain : Chain[i] = Chain[j] => i = j
  BY ChainAssumption DEF IsInjective
<1>. QED
  BY <1>1, <1>2, ChainAssumption DEF Services, Fallbacks, ToSet

\* A set of natural numbers has a least element.
LEMMA LeastNatural ==
  ASSUME NEW T, T \subseteq Nat, T # {}
  PROVE  \E m \in T : \A k \in T : m <= k
<1> DEFINE R == OpToRel(<, Nat)
<1>1. IsWellFoundedOn(R, Nat)
  BY NatLessThanWellFounded
<1>2. \A a, b \in Nat : a < b => <<a, b>> \in R
  BY DEF OpToRel
<1> HIDE DEF R
<1>3. PICK m \in T : \A k \in T : ~ (<<k, m>> \in R)
  BY <1>1, WFMin
<1>4. ASSUME NEW k \in T PROVE m <= k
  <2>1. k \in Nat /\ m \in Nat /\ ~ (k < m)
    BY <1>2, <1>3
  <2>. QED
    BY <2>1
<1>. QED
  BY <1>4

\* FirstOf finds the first service of a set in the user's order.
LEMMA FirstOfIsFirst ==
  ASSUME NEW able
  PROVE  \/ FirstOf(able) = Nobody
         \/ \E i \in DOMAIN Chain :
              /\ FirstOf(able) = Chain[i] /\ Chain[i] \in able
              /\ \A j \in 1 .. i - 1 : Chain[j] \notin able
<1>1. CASE Fallbacks \intersect able = {}
  BY <1>1 DEF FirstOf
<1>2. CASE Fallbacks \intersect able # {}
  <2> DEFINE Able == {i \in DOMAIN Chain : Chain[i] \in able}
             Least(i) == Chain[i] \in able /\ \A j \in 1 .. i - 1 : Chain[j] \notin able
  <2>1. Able # {} /\ Able \subseteq Nat
    BY <1>2, ChainFacts
  <2> HIDE DEF Able
  <2>2. PICK m \in Able : \A k \in Able : m <= k
    BY <2>1, LeastNatural
  <2>3. m \in DOMAIN Chain /\ Least(m)
    <3>1. m \in 1 .. Len(Chain) /\ Chain[m] \in able
      BY ChainFacts DEF Able
    <3>2. ASSUME NEW j \in 1 .. m - 1, Chain[j] \in able PROVE FALSE
      <4>1. j \in DOMAIN Chain /\ ~ (m <= j)
        BY <3>1, ChainFacts
      <4>. QED
        BY <2>2, <3>2, <4>1 DEF Able
    <3>. QED
      BY <3>1, <3>2, ChainFacts
  <2>4. FirstOf(able) = Chain[CHOOSE i \in DOMAIN Chain : Least(i)]
    BY <1>2 DEF FirstOf
  <2>. QED
    BY <2>3, <2>4
<1>. QED
  BY <1>1, <1>2

\* What can be built are services, and what a service replies is an end.
LEMMA BuildableType == ASSUME TypeOK, NEW r \in Buildable[kind] PROVE r \subseteq Services
BY DEF Buildable, TypeOK

LEMMA WyomingEnds == WyomingResults \subseteq Ended
<1>1. \A h \in {"nothing", "empty", "text"}, e \in {"broken", "closed", "open"} :
        WyomingResult(h, e) \in Ended \union {"hung up"}
  BY DEF WyomingResult, Ended, Failures
<1> DEFINE Once == {WyomingResult(heard, ends) :
                      heard \in {"nothing", "empty", "text"},
                      ends \in {"broken", "closed", "open"}}
           Twice == [quick : BOOLEAN, first : Once, second : Once]
           Final(t) == IF t.first = "hung up" /\ t.quick THEN t.second ELSE t.first
<1>2. ASSUME NEW x \in Once PROVE x \in Ended \union {"hung up"}
  <2>1. PICK h \in {"nothing", "empty", "text"}, e \in {"broken", "closed", "open"} :
          x = WyomingResult(h, e)
    OBVIOUS
  <2> HIDE DEF Once
  <2>. QED
    BY <1>1, <2>1
<1>3. WyomingResults = {IF Final(t) = "hung up" THEN "error" ELSE Final(t) : t \in Twice}
  BY DEF WyomingResults
<1>4. "error" \in Ended
  BY DEF Ended, Failures
<1> HIDE DEF Once
<1>5. ASSUME NEW t \in Twice PROVE Final(t) \in Ended \union {"hung up"}
  BY <1>2
<1>. QED
  BY <1>3, <1>4, <1>5

LEMMA ResultsEnd ==
  ASSUME TypeOK, NEW s \in Services PROVE Results[kind[s]] \subseteq Ended
<1>1. kind[s] \in Kinds
  BY ChainAssumption DEF TypeOK
<1>2. ASSUME NEW reply \in {"unreachable", "slow", "broken", "refused", "text", "empty"}
      PROVE  HttpResult(reply) \in Ended
  BY DEF HttpResult, Ended, Failures
<1>3. CASE kind[s] = "wyoming"
  BY <1>1, <1>3, WyomingEnds DEF Results
<1>4. CASE kind[s] # "wyoming"
  BY <1>1, <1>2, <1>4 DEF Results
<1>. QED
  BY <1>3, <1>4

\* The stand-in is a fallback or nobody.
LEMMA HedgeType == HedgeCandidate \in Fallbacks \union {Nobody}
<1>1. CASE Patience
  BY <1>1, FirstOfIsFirst, ChainFacts DEF HedgeCandidate
<1>2. CASE ~Patience
  BY <1>2 DEF HedgeCandidate
<1>. QED
  BY <1>1, <1>2

-----------------------------------------------------------------------------
(* Type correctness.                                                       *)

LEMMA TypeInit == Init => TypeOK
<1> SUFFICES ASSUME Init PROVE TypeOK
  OBVIOUS
<1>1. 0 \in 0 .. MaxUtterances /\ 1 \in 1 .. Len(Chain) + 1
      /\ 0 \in 0 .. Len(ShadowOrder) + 1
  <2>1. MaxUtterances \in Nat /\ Len(Chain) \in Nat /\ Len(ShadowOrder) \in Nat
    BY ChainAssumption
  <2>. QED
    BY <2>1
<1>. QED
  BY <1>1 DEF Init, TypeOK, Stages

\* An utterance that is being served is one of those that are modelled.
LEMMA Serving ==
  ASSUME TypeOK, InUtterance, stage # "idle" PROVE utterance \in Utterances
BY ChainAssumption DEF TypeOK, InUtterance, Utterances

LEMMA TypeStep == TypeOK /\ InUtterance /\ HedgeIsFirst /\ [Next]_vars => TypeOK'
<1> SUFFICES ASSUME TypeOK, InUtterance, HedgeIsFirst, [Next]_vars PROVE TypeOK'
  OBVIOUS
<1> USE DEF answerVars, flagVars, logVars
<1>1. /\ MaxUtterances \in Nat /\ Len(Chain) \in Nat /\ Len(ShadowOrder) \in Nat
      /\ \A i \in 1 .. Len(Chain) : Chain[i] \in Fallbacks
      /\ Fallbacks \subseteq Services /\ Main \in Services
  BY ChainAssumption, ChainFacts
<1>2. stage # "idle" => utterance \in Utterances
  BY Serving
<1>3. CASE Begin
  <2>1. ready' \subseteq Services
    BY <1>3, BuildableType DEF Begin
  <2>2. utterance' \in 0 .. MaxUtterances
    BY <1>1, <1>3 DEF Begin, TypeOK
  <2>3. at' \in 1 .. Len(Chain) + 1
    BY <1>1, <1>3 DEF Begin
  <2>. QED
    BY <1>3, <2>1, <2>2, <2>3 DEF Begin, TypeOK, Stages
<1>4. ASSUME NEW s, NetworkFailed(s) PROVE remote_down' \in BOOLEAN
  BY <1>4 DEF NetworkFailed
<1>5. ASSUME NEW result, AfterMain(result)
      PROVE  /\ stage' \in Stages /\ reason' \in {"error", "empty"} /\ main_failed' \in BOOLEAN
             /\ UNCHANGED <<kind, utterance, ready, hedge, at, rescued_by>>
  BY <1>5 DEF AfterMain, Stages
<1>6. CASE StreamedMain
  <2>1. PICK result \in Ended : AfterMain(result)
    BY <1>6 DEF StreamedMain
  <2>2. remote_down' \in BOOLEAN
    BY <1>4, <1>6 DEF StreamedMain, TypeOK
  <2>3. spoken' \in Services \union {Nobody}
    BY <1>1, <1>6 DEF StreamedMain
  <2>. QED
    BY <1>5, <1>6, <2>1, <2>2, <2>3 DEF StreamedMain, TypeOK
<1>7. CASE MainNotReady
  BY <1>5, <1>7 DEF MainNotReady, TypeOK
<1>8. CASE AskMain
  <2>1. hedge' \in Fallbacks \union {Nobody} /\ {HedgeCandidate} \ (Remote \union {Nobody}) \subseteq Fallbacks
    BY <1>8, HedgeType DEF AskMain
  <2>2. request' \in [Utterances -> [Services -> {"none", "running"} \union Ended]]
    BY <1>2, <1>8 DEF AskMain, TypeOK
  <2>3. prefetch' \in [Utterances -> SUBSET Fallbacks]
    BY <1>2, <1>8, <2>1 DEF AskMain, TypeOK
  <2>. QED
    BY <1>8, <2>1, <2>2, <2>3 DEF AskMain, TypeOK, Stages
<1>9. CASE TakeMain
  <2>1. remote_down' \in BOOLEAN
    BY <1>4, <1>9 DEF TakeMain, TypeOK
  <2>. QED
    BY <1>1, <1>5, <1>9, <2>1 DEF TakeMain, TypeOK
<1>10. ASSUME NEW s \in Fallbacks
       PROVE  Asking(request, s) \in [Utterances -> [Services -> {"none", "running"} \union Ended]]
  BY <1>1 DEF Asking, TypeOK
<1>11. CASE PatienceRunsOut
  <2>1. hedge \in Fallbacks
    BY <1>11 DEF PatienceRunsOut, HedgeIsFirst, TypeOK
  <2>2. request' \in [Utterances -> [Services -> {"none", "running"} \union Ended]]
    BY <1>10, <1>11, <2>1 DEF PatienceRunsOut, Prefetched, TypeOK
  <2>3. prefetch' \in [Utterances -> SUBSET Fallbacks]
    BY <1>2, <1>11, <2>1 DEF PatienceRunsOut, Prefetched, TypeOK
  <2>. QED
    BY <1>11, <2>2, <2>3 DEF PatienceRunsOut, TypeOK, Stages
<1>12. CASE Overtake
  BY <1>1, <1>2, <1>12 DEF Overtake, TypeOK, Stages
<1>13. CASE StandInHasNothing
  <2>1. remote_down' \in BOOLEAN
    BY <1>4, <1>13 DEF StandInHasNothing, TypeOK
  <2>. QED
    BY <1>13, <2>1 DEF StandInHasNothing, TypeOK, Stages
<1>14. CASE ChainSkips
  BY <1>1, <1>14 DEF ChainSkips, TypeOK
<1>15. CASE ChainAsks
  <2>1. at \in 1 .. Len(Chain)
    BY <1>1, <1>15 DEF ChainAsks, TypeOK
  <2>2. request' \in [Utterances -> [Services -> {"none", "running"} \union Ended]]
    BY <1>1, <1>10, <1>15, <2>1 DEF ChainAsks, TypeOK
  <2>. QED
    BY <1>15, <2>2 DEF ChainAsks, TypeOK, Stages
<1>16. CASE FallbackSettles
  <2>1. Chain[at] \in Fallbacks
    BY <1>1, <1>16 DEF FallbackSettles, InUtterance, TypeOK
  <2>. QED
    BY <1>1, <1>16, <2>1 DEF FallbackSettles, TypeOK, Stages
<1>17. CASE FallbackPasses
  <2>1. remote_down' \in BOOLEAN
    BY <1>4, <1>17 DEF FallbackPasses, TypeOK
  <2>2. at' \in 1 .. Len(Chain) + 1
    BY <1>1, <1>17 DEF FallbackPasses, InUtterance, TypeOK
  <2>. QED
    BY <1>17, <2>1, <2>2 DEF FallbackPasses, TypeOK, Stages
<1>18. CASE ChainEnds \/ Answered
  <2>1. /\ late_main' \in [Utterances -> {"none", "running", "logged"}]
        /\ shadowAt' \in [Utterances -> 0 .. Len(ShadowOrder) + 1]
    <3>1. 1 \in 0 .. Len(ShadowOrder) + 1
      BY <1>1
    <3>. QED
      BY <1>18, <3>1 DEF ChainEnds, Answered, TypeOK
  <2>. QED
    BY <1>18, <2>1 DEF ChainEnds, Answered, TypeOK, Stages
<1>19. ASSUME NEW u \in Utterances, NEW s \in Services, RequestEnds(u, s) PROVE TypeOK'
  <2>1. request' \in [Utterances -> [Services -> {"none", "running"} \union Ended]]
    BY <1>19, ResultsEnd DEF RequestEnds, TypeOK
  <2>. QED
    BY <1>19, <2>1 DEF RequestEnds, TypeOK
<1>20. ASSUME NEW u \in Utterances, LateMainLogged(u) \/ ShadowStep(u) PROVE TypeOK'
  <2>1. shadowAt' \in [Utterances -> 0 .. Len(ShadowOrder) + 1]
    <3>1. \A n \in 1 .. Len(ShadowOrder) : n + 1 \in 0 .. Len(ShadowOrder) + 1
      BY <1>1
    <3>. QED
      BY <1>20, <3>1 DEF LateMainLogged, ShadowStep, TypeOK
  <2>2. late_main' \in [Utterances -> {"none", "running", "logged"}]
    BY <1>20 DEF LateMainLogged, ShadowStep, TypeOK
  <2>. QED
    BY <1>20, <2>1, <2>2 DEF LateMainLogged, ShadowStep, TypeOK
<1>21. CASE UNCHANGED vars
  BY <1>21 DEF vars, TypeOK
<1>. QED
  BY <1>3, <1>6, <1>7, <1>8, <1>9, <1>11, <1>12, <1>13, <1>14, <1>15, <1>16,
     <1>17, <1>18, <1>19, <1>20, <1>21 DEF Next, AnswerStep

-----------------------------------------------------------------------------
(* Requests: one is only sent to a service that was not asked before and   *)
(* is not out of reach, and otherwise only ends.                           *)

Sent(u, s) ==
  /\ request[u][s] = "none" /\ request'[u][s] = "running"
  /\ u = utterance /\ utterance' = utterance
  /\ stage \notin {"idle", "answer"} /\ stage' # "primary" /\ ~IsDown(s)

Progress(u, s) ==
  \/ request'[u][s] = request[u][s]
  \/ request[u][s] = "running" /\ request'[u][s] \in Ended
  \/ Sent(u, s)

LEMMA RequestKeeps ==
  TypeOK /\ InOrder /\ [Next]_vars
    => \A u \in Utterances, s \in Services : Progress(u, s)
<1> SUFFICES ASSUME TypeOK, InOrder, [Next]_vars,
                    NEW u \in Utterances, NEW s \in Services
             PROVE  Progress(u, s)
  OBVIOUS
<1> USE DEF answerVars, flagVars, logVars
<1>1. stage # "idle" => utterance \in Utterances
  BY Serving DEF InOrder
<1>2. request \in [Utterances -> [Services -> {"none", "running"} \union Ended]]
  BY DEF TypeOK
<1>3. CASE AskMain
  <2>1. u = utterance => request[u][s] = "none"
    BY <1>3 DEF AskMain, InOrder, Unasked
  <2>2. ~IsDown(s) /\ stage = "primary"
    BY <1>3 DEF AskMain, InOrder, HedgeIsFirst, BeforeChain, IsDown
  <2>3. stage' # "primary" /\ utterance' = utterance
    BY <1>3 DEF AskMain
  <2>4. u = utterance => request'[u][s] \in {"running", request[u][s]}
    BY <1>2, <1>3 DEF AskMain
  <2>5. u # utterance => request'[u][s] = request[u][s]
    BY <1>2, <1>3 DEF AskMain
  <2>. QED
    BY <2>1, <2>2, <2>3, <2>4, <2>5 DEF Progress, Sent
<1>4. ASSUME NEW t \in Fallbacks, request' = Asking(request, t),
             utterance \in Utterances, Result(t) = "none", utterance' = utterance,
             stage \notin {"idle", "answer"}, stage' # "primary", ~IsDown(t)
      PROVE  Progress(u, s)
  <2>1. CASE u = utterance /\ s = t
    BY <1>2, <1>4, <2>1 DEF Progress, Sent, Asking, Result
  <2>2. CASE ~(u = utterance /\ s = t)
    BY <1>2, <1>4, <2>2 DEF Progress, Asking
  <2>. QED
    BY <2>1, <2>2
<1>5. CASE PatienceRunsOut
  <2>1. stage = "patience" /\ at = 1 /\ utterance \in Utterances
    BY <1>1, <1>5 DEF PatienceRunsOut, InOrder, InUtterance, BeforeChain
  <2>2. hedge \in Fallbacks /\ ~IsDown(hedge)
    BY <2>1 DEF InOrder, HedgeIsFirst, BeforeChain, IsDown, TypeOK
  <2>3. ~Reached(hedge)
    BY <2>1, ChainFacts DEF Reached
  <2>4. CASE hedge \in prefetch[utterance]
    BY <1>5, <2>4 DEF PatienceRunsOut, Prefetched, Progress
  <2>5. CASE hedge \notin prefetch[utterance]
    <3>1. Result(hedge) = "none"
      BY <2>1, <2>2, <2>3, <2>5, ChainFacts DEF InOrder, AskedInOrder
    <3>2. request' = Asking(request, hedge) /\ utterance' = utterance /\ stage' = "backup"
      BY <1>5, <2>5 DEF PatienceRunsOut, Prefetched
    <3>. QED
      BY <1>4, <2>1, <2>2, <3>1, <3>2
  <2>. QED
    BY <2>4, <2>5
<1>6. CASE ChainAsks
  <2>1. stage = "chain" /\ at \in DOMAIN Chain /\ utterance \in Utterances
    BY <1>1, <1>6, ChainFacts DEF ChainAsks, TypeOK
  <2>2. Chain[at] \in Fallbacks /\ ~IsDown(Chain[at])
    BY <1>6, <2>1, ChainFacts DEF ChainAsks
  <2>3. ~Reached(Chain[at])
    BY <2>1, ChainFacts DEF Reached
  <2>4. CASE Chain[at] \in prefetch[utterance]
    BY <1>6, <2>4 DEF ChainAsks, Progress
  <2>5. CASE Chain[at] \notin prefetch[utterance]
    <3>1. Result(Chain[at]) = "none"
      BY <2>1, <2>2, <2>3, <2>5, ChainFacts DEF InOrder, AskedInOrder
    <3>2. request' = Asking(request, Chain[at]) /\ utterance' = utterance /\ stage' = "fallback"
      BY <1>6, <2>5 DEF ChainAsks
    <3>. QED
      BY <1>4, <2>1, <2>2, <3>1, <3>2
  <2>. QED
    BY <2>4, <2>5
<1>7. ASSUME NEW v \in Utterances, NEW t \in Services, RequestEnds(v, t)
      PROVE  Progress(u, s)
  <2>1. PICK result \in Results[kind[t]] :
          request[v][t] = "running" /\ request' = [request EXCEPT ![v][t] = result]
    BY <1>7 DEF RequestEnds
  <2>2. result \in Ended
    BY ResultsEnd
  <2>. QED
    BY <1>2, <2>1, <2>2 DEF Progress
<1>8. UNCHANGED request => Progress(u, s)
  BY DEF Progress
<1>. QED
  BY <1>3, <1>5, <1>6, <1>7, <1>8
     DEF Next, AnswerStep, vars, Begin, StreamedMain, MainNotReady, TakeMain,
         Overtake, StandInHasNothing, ChainSkips, FallbackSettles, FallbackPasses,
         ChainEnds, Answered, LateMainLogged, ShadowStep

-----------------------------------------------------------------------------
(* The parts of the invariant.                                             *)

LEMMA InUtteranceStep == TypeOK /\ InOrder /\ [Next]_vars => InUtterance'
<1> SUFFICES ASSUME TypeOK, InOrder, [Next]_vars PROVE InUtterance'
  OBVIOUS
<1> USE DEF answerVars, flagVars, logVars
<1>1. InUtterance /\ utterance \in Nat /\ Len(Chain) \in Nat /\ at \in 1 .. Len(Chain) + 1
  BY ChainFacts, ChainAssumption DEF InOrder, TypeOK
<1>2. CASE Begin
  BY <1>1, <1>2 DEF Begin, InUtterance, BeforeChain
<1>3. ASSUME NEW result, AfterMain(result), stage \notin {"idle", "answer", "fallback"}
      PROVE  InUtterance'
  <2>1. utterance # 0 /\ utterance' = utterance /\ rescued_by' = Nobody /\ stage' \in {"chain", "answer"}
    BY <1>1, <1>3 DEF AfterMain, InUtterance
  <2>. QED
    BY <2>1 DEF InUtterance, BeforeChain
<1>4. CASE StreamedMain \/ MainNotReady \/ TakeMain
  BY <1>3, <1>4 DEF StreamedMain, MainNotReady, TakeMain
<1>5. CASE AskMain \/ PatienceRunsOut \/ StandInHasNothing
  BY <1>1, <1>5 DEF AskMain, PatienceRunsOut, StandInHasNothing, InUtterance, BeforeChain
<1>6. CASE Overtake \/ FallbackSettles \/ ChainEnds \/ Answered
  BY <1>1, <1>6 DEF Overtake, FallbackSettles, ChainEnds, Answered, InUtterance, BeforeChain
<1>7. CASE ChainSkips \/ ChainAsks \/ FallbackPasses
  BY <1>1, <1>7 DEF ChainSkips, ChainAsks, FallbackPasses, InUtterance, BeforeChain
<1>8. ASSUME NEW u \in Utterances, NEW s \in Services,
             RequestEnds(u, s) \/ LateMainLogged(u) \/ ShadowStep(u)
      PROVE  InUtterance'
  BY <1>1, <1>8 DEF RequestEnds, LateMainLogged, ShadowStep, InUtterance
<1>9. CASE UNCHANGED vars
  BY <1>1, <1>9 DEF vars, InUtterance
<1>10. ASSUME NEW u \in Utterances, LateMainLogged(u) \/ ShadowStep(u) PROVE InUtterance'
  BY <1>1, <1>10 DEF LateMainLogged, ShadowStep, InUtterance
<1>. QED
  BY <1>2, <1>4, <1>5, <1>6, <1>7, <1>8, <1>9, <1>10 DEF Next, AnswerStep

\* The utterance moves on only when the last one is answered.
LEMMA UtteranceStep ==
  TypeOK /\ [Next]_vars =>
    \/ utterance' = utterance /\ (stage' = "primary" => stage = "primary")
    \/ utterance' = utterance + 1 /\ UNCHANGED request
<1> USE DEF answerVars, flagVars, logVars
<1>. QED
  BY DEF Next, AnswerStep, vars, Begin, StreamedMain, MainNotReady, TakeMain, AfterMain,
         AskMain, PatienceRunsOut, Overtake, StandInHasNothing, ChainSkips,
         ChainAsks, FallbackSettles, FallbackPasses, ChainEnds, Answered,
         RequestEnds, LateMainLogged, ShadowStep

LEMMA UnaskedStep == TypeOK /\ InOrder /\ [Next]_vars => Unasked'
<1> SUFFICES ASSUME TypeOK, InOrder, [Next]_vars,
                    NEW u \in Utterances, NEW s \in Services,
                    u > utterance' \/ (u = utterance' /\ stage' = "primary")
             PROVE  request'[u][s] = "none"
  BY DEF Unasked
<1>1. utterance \in Nat /\ u \in Nat
  BY ChainAssumption DEF TypeOK, Utterances
<1>2. CASE utterance' = utterance /\ (stage' = "primary" => stage = "primary")
  <2>1. request[u][s] = "none"
    BY <1>2 DEF InOrder, Unasked
  <2>2. ~Sent(u, s)
    BY <1>1, <1>2 DEF Sent
  <2>3. Progress(u, s)
    BY RequestKeeps
  <2>. QED
    BY <2>1, <2>2, <2>3 DEF Progress
<1>3. CASE utterance' = utterance + 1 /\ UNCHANGED request
  BY <1>1, <1>3 DEF InOrder, Unasked
<1>. QED
  BY <1>2, <1>3, UtteranceStep

LEMMA AskedInOrderStep == TypeOK /\ InOrder /\ [Next]_vars => AskedInOrder'
<1> SUFFICES ASSUME TypeOK, InOrder, [Next]_vars, stage' \notin {"idle", "answer"},
                    NEW s \in Services, Result(s)' # "none"
             PROVE  s = Main \/ s \in prefetch'[utterance'] \/ Reached(s)'
  BY DEF AskedInOrder
<1> USE DEF answerVars, flagVars, logVars
<1>1. AskedInOrder /\ (stage # "idle" => utterance \in Utterances)
  BY Serving DEF InOrder
<1>2. Len(Chain) \in Nat /\ DOMAIN Chain = 1 .. Len(Chain) /\ at \in 1 .. Len(Chain) + 1
  BY ChainFacts DEF TypeOK
<1>3. CASE Begin
  <2>1. utterance \in Nat /\ utterance' \in Utterances /\ utterance' > utterance
    BY <1>3, ChainAssumption DEF Begin, TypeOK, Utterances
  <2>2. request[utterance'][s] = "none"
    BY <2>1 DEF InOrder, Unasked
  <2>. QED
    BY <1>3, <2>2 DEF Begin, Result
<1>4. ASSUME UNCHANGED <<utterance, request, prefetch>>, stage \notin {"idle", "answer"},
             Reached(s) => Reached(s)'
      PROVE  s = Main \/ s \in prefetch'[utterance'] \/ Reached(s)'
  BY <1>1, <1>4 DEF AskedInOrder, Result
<1>5. CASE StreamedMain \/ MainNotReady \/ TakeMain
  <2>1. UNCHANGED <<utterance, request, prefetch, at>> /\ stage \in BeforeChain
    BY <1>5 DEF StreamedMain, MainNotReady, TakeMain, AfterMain, BeforeChain
  <2>2. Reached(s) => Reached(s)'
    BY <2>1 DEF Reached, BeforeChain
  <2>. QED
    BY <1>4, <2>1, <2>2 DEF BeforeChain
<1>6. CASE AskMain
  <2>1. request[utterance][s] = "none" /\ utterance \in Utterances /\ utterance' = utterance
    BY <1>1, <1>6 DEF AskMain, InOrder, Unasked
  <2> DEFINE beside == {HedgeCandidate} \ (Remote \union {Nobody})
  <2>2. request' = [request EXCEPT ![utterance] =
                      [t \in Services |-> IF t \in {Main} \union beside THEN "running" ELSE @[t]]]
        /\ prefetch' = [prefetch EXCEPT ![utterance] = beside]
    BY <1>6 DEF AskMain
  <2> HIDE DEF beside
  <2>3. s \in {Main} \union beside
    BY <2>1, <2>2 DEF Result, TypeOK
  <2>4. prefetch'[utterance'] = beside
    BY <2>1, <2>2 DEF TypeOK
  <2>. QED
    BY <2>3, <2>4
<1>7. CASE PatienceRunsOut
  <2>1. /\ stage = "patience" /\ stage' = "backup" /\ UNCHANGED <<utterance, at>>
        /\ utterance \in Utterances
    BY <1>1, <1>7 DEF PatienceRunsOut
  <2>2. Reached(s) => Reached(s)'
    BY <2>1 DEF Reached
  <2>3. CASE hedge \in prefetch[utterance]
    BY <1>4, <1>7, <2>1, <2>2, <2>3 DEF PatienceRunsOut, Prefetched
  <2>4. CASE hedge \notin prefetch[utterance]
    <3>1. /\ request' = Asking(request, hedge)
          /\ prefetch' = [prefetch EXCEPT ![utterance] = @ \union {hedge}]
      BY <1>7, <2>4 DEF PatienceRunsOut, Prefetched
    <3>2. prefetch'[utterance] = prefetch[utterance] \union {hedge}
      BY <2>1, <3>1 DEF TypeOK
    <3>3. s # hedge => Result(s) # "none"
      BY <2>1, <3>1 DEF Asking, Result, TypeOK
    <3>. QED
      BY <1>1, <2>1, <2>2, <3>2, <3>3 DEF AskedInOrder
  <2>. QED
    BY <2>3, <2>4
<1>8. CASE StandInHasNothing \/ ChainSkips
  <2>1. /\ UNCHANGED <<utterance, request, prefetch>>
        /\ stage \in {"backup", "chain"} /\ stage' \in {"rest", "chain"}
        /\ at' \in {at, at + 1}
    BY <1>8 DEF StandInHasNothing, ChainSkips
  <2>2. Reached(s) => Reached(s)'
    BY <1>2, <2>1 DEF Reached
  <2>. QED
    BY <1>4, <2>1, <2>2
<1>9. CASE FallbackPasses
  <2>1. /\ UNCHANGED <<utterance, request, prefetch>>
        /\ stage = "fallback" /\ stage' = "chain" /\ at' = at + 1
    BY <1>9 DEF FallbackPasses
  <2>2. Reached(s) => Reached(s)'
    BY <1>2, <2>1 DEF Reached
  <2>. QED
    BY <1>4, <2>1, <2>2
<1>10. CASE ChainAsks
  <2>1. /\ stage = "chain" /\ stage' = "fallback" /\ UNCHANGED <<utterance, at, prefetch>>
        /\ utterance \in Utterances /\ at \in DOMAIN Chain
    BY <1>1, <1>2, <1>10 DEF ChainAsks
  <2>2. Reached(s) => Reached(s)'
    BY <2>1 DEF Reached
  <2>3. s = Chain[at] => Reached(s)'
    BY <2>1 DEF Reached
  <2>4. s # Chain[at] => Result(s) # "none"
    BY <1>10, <2>1 DEF ChainAsks, Asking, Result, TypeOK
  <2>. QED
    BY <1>1, <2>1, <2>2, <2>3, <2>4 DEF AskedInOrder
<1>11. CASE Overtake \/ FallbackSettles \/ ChainEnds \/ Answered
  BY <1>11 DEF Overtake, FallbackSettles, ChainEnds, Answered
<1>12. ASSUME NEW u \in Utterances, NEW t \in Services, RequestEnds(u, t)
       PROVE  s = Main \/ s \in prefetch'[utterance'] \/ Reached(s)'
  <2>1. UNCHANGED <<stage, utterance, at, prefetch>> /\ utterance \in Utterances
    BY <1>1, <1>12 DEF RequestEnds
  <2>2. Result(s) # "none"
    BY <1>12, <2>1 DEF RequestEnds, Result, TypeOK
  <2>3. Reached(s) => Reached(s)'
    BY <2>1 DEF Reached
  <2>. QED
    BY <1>1, <2>1, <2>2, <2>3 DEF AskedInOrder
<1>13. CASE UNCHANGED <<stage, utterance, at, prefetch, request>>
  <2>1. Reached(s) => Reached(s)'
    BY <1>13 DEF Reached
  <2>. QED
    BY <1>4, <1>13, <2>1
<1>14. ASSUME NEW u \in Utterances, LateMainLogged(u) \/ ShadowStep(u)
       PROVE  UNCHANGED <<stage, utterance, at, prefetch, request>>
  BY <1>14 DEF LateMainLogged, ShadowStep
<1>15. UNCHANGED vars => UNCHANGED <<stage, utterance, at, prefetch, request>>
  BY DEF vars
<1>. QED
  BY <1>3, <1>5, <1>6, <1>7, <1>8, <1>9, <1>10, <1>11, <1>12, <1>13, <1>14, <1>15
     DEF Next, AnswerStep

\* While an utterance is served, what is known of it stays known.
Later ==
  /\ UNCHANGED <<kind, utterance, ready, hedge>>
  /\ remote_down => remote_down'

LEMMA LaterStep ==
  TypeOK /\ [Next]_vars =>
    \/ Begin
    \/ stage = "primary" /\ AskMain
    \/ Later
<1> USE DEF answerVars, flagVars, logVars
<1>1. ASSUME NEW s, NetworkFailed(s) PROVE remote_down => remote_down'
  BY <1>1 DEF NetworkFailed
<1>. QED
  BY <1>1 DEF Next, AnswerStep, vars, Later, StreamedMain, MainNotReady, TakeMain,
         AfterMain, AskMain, PatienceRunsOut, Overtake, StandInHasNothing, ChainSkips,
         ChainAsks, FallbackSettles, FallbackPasses, ChainEnds, Answered,
         RequestEnds, LateMainLogged, ShadowStep

LEMMA HedgeIsFirstStep == TypeOK /\ InOrder /\ [Next]_vars => HedgeIsFirst'
<1> SUFFICES ASSUME TypeOK, InOrder, [Next]_vars PROVE HedgeIsFirst'
  OBVIOUS
<1> USE DEF answerVars, flagVars, logVars
<1>1. HedgeIsFirst
  BY DEF InOrder
<1>2. CASE Begin
  BY <1>2 DEF Begin, HedgeIsFirst, BeforeChain
<1>3. CASE AskMain
  <2>1. /\ hedge' = HedgeCandidate /\ ready' = ready /\ remote_down' = remote_down
        /\ ~remote_down
        /\ stage' = IF HedgeCandidate = Nobody THEN "main" ELSE "patience"
    BY <1>1, <1>3 DEF AskMain, HedgeIsFirst, BeforeChain
  <2>2. HedgeCandidate # Nobody => \E i \in DOMAIN Chain : HedgeCandidate = Chain[i] /\ FirstReady(i)
    BY FirstOfIsFirst DEF HedgeCandidate, FirstReady
  <2>3. ASSUME NEW i, FirstReady(i) PROVE FirstReady(i)'
    BY <2>1, <2>3 DEF FirstReady
  <2>. QED
    BY <2>1, <2>2, <2>3 DEF HedgeIsFirst, BeforeChain
<1>4. CASE Later
  <2>1. (hedge # Nobody => \E i \in DOMAIN Chain : hedge = Chain[i] /\ FirstReady(i))'
    BY <1>1, <1>4 DEF Later, HedgeIsFirst, FirstReady
  <2>2. \/ stage' = stage /\ remote_down' = remote_down
        \/ /\ stage = "patience" /\ stage' = "backup" /\ remote_down' = remote_down
        \/ /\ stage \in {"patience", "backup"} /\ stage' = "rest"
        \/ /\ stage' \notin BeforeChain
        \/ Begin \/ AskMain
    BY DEF Next, AnswerStep, vars, StreamedMain, MainNotReady, TakeMain,
         AfterMain, PatienceRunsOut, Overtake, StandInHasNothing, ChainSkips,
         ChainAsks, FallbackSettles, FallbackPasses, ChainEnds, Answered,
         RequestEnds, LateMainLogged, ShadowStep, BeforeChain
  <2>3. CASE ~(Begin \/ AskMain)
    BY <1>1, <1>4, <2>1, <2>2, <2>3 DEF Later, HedgeIsFirst, BeforeChain
  <2>. QED
    BY <1>2, <1>3, <2>3
<1>. QED
  BY <1>2, <1>3, <1>4, LaterStep

\* A service that was passed with good reason stays passed.
LEMMA PassedStays ==
  ASSUME TypeOK, InOrder, [Next]_vars, Later, utterance \in Utterances,
         NEW j \in DOMAIN Chain, Passed(j)
  PROVE  Passed(j)'
<1>1. Chain[j] \in Services
  BY ChainFacts
<1>2. CASE Chain[j] \notin ready
  BY <1>2 DEF Later, Passed
<1>3. CASE IsDown(Chain[j])
  BY <1>3 DEF Later, Passed, IsDown, Remote
<1>4. CASE Result(Chain[j]) \in Ended \ {"text"}
  <2>1. Progress(utterance, Chain[j])
    BY <1>1, RequestKeeps
  <2>2. Result(Chain[j]) \notin {"none", "running"}
    BY <1>4 DEF Ended, Failures
  <2>3. Result(Chain[j])' = Result(Chain[j])
    BY <2>1, <2>2 DEF Progress, Sent, Result, Later
  <2>. QED
    BY <1>4, <2>3 DEF Passed
<1>. QED
  BY <1>2, <1>3, <1>4 DEF Passed

LEMMA PassedInOrderStep == TypeOK /\ InOrder /\ [Next]_vars => PassedInOrder'
<1> SUFFICES ASSUME TypeOK, InOrder, [Next]_vars, stage' \in {"chain", "fallback"},
                    NEW j \in 1 .. at' - 1
             PROVE  Passed(j)'
  BY DEF PassedInOrder
<1> USE DEF answerVars, flagVars, logVars
<1>1. Len(Chain) \in Nat /\ DOMAIN Chain = 1 .. Len(Chain) /\ at \in 1 .. Len(Chain) + 1
  BY ChainFacts DEF TypeOK
<1>2. CASE stage \in {"chain", "fallback"} /\ Later /\ at' = at
  <2>1. utterance \in Utterances /\ j \in DOMAIN Chain /\ Passed(j)
    BY <1>1, <1>2, Serving DEF InOrder, PassedInOrder
  <2>. QED
    BY <1>2, <2>1, PassedStays
<1>3. CASE at' = 1
  BY <1>3
<1>4. CASE (ChainSkips \/ FallbackPasses) /\ Later
  <2>1. stage \in {"chain", "fallback"} /\ at' = at + 1 /\ at \in DOMAIN Chain
        /\ utterance \in Utterances
    BY <1>1, <1>4, Serving DEF ChainSkips, FallbackPasses, InOrder, InUtterance
  <2>2. Passed(at)
    <3>1. CASE ChainSkips
      BY <3>1 DEF ChainSkips, Passed
    <3>2. CASE FallbackPasses
      BY <3>2 DEF FallbackPasses, Passed, Ended, Failures
    <3>. QED
      BY <1>4, <3>1, <3>2
  <2>3. Passed(j) /\ j \in DOMAIN Chain
    <3>1. j \in DOMAIN Chain /\ (j = at \/ j \in 1 .. at - 1)
      BY <1>1, <2>1
    <3>. QED
      BY <2>1, <2>2, <3>1 DEF InOrder, PassedInOrder
  <2>. QED
    BY <1>4, <2>1, <2>3, PassedStays
<1>5. CASE stage \in BeforeChain /\ at' = at
  BY <1>3, <1>5 DEF InOrder, InUtterance
<1>6. \/ stage \in {"chain", "fallback"} /\ at' = at
      \/ stage \in BeforeChain /\ at' = at
      \/ Begin \/ ChainSkips \/ FallbackPasses
  BY DEF Next, AnswerStep, vars, StreamedMain, MainNotReady, TakeMain,
       AfterMain, AskMain, PatienceRunsOut, Overtake, StandInHasNothing,
       ChainAsks, FallbackSettles, ChainEnds, Answered, BeforeChain,
       RequestEnds, LateMainLogged, ShadowStep
<1>7. Later
  BY LaterStep DEF Begin, AskMain
<1>. QED
  BY <1>2, <1>4, <1>5, <1>6, <1>7 DEF Begin

-----------------------------------------------------------------------------
(* The properties.                                                         *)

LEMMA FirstInOrderStep ==
  TypeOK /\ InOrder /\ FirstInOrderAnswers /\ [Next]_vars => FirstInOrderAnswers'
<1> SUFFICES ASSUME TypeOK, InOrder, FirstInOrderAnswers, [Next]_vars,
                    NEW i \in DOMAIN Chain, rescued_by' = Chain[i],
                    NEW j \in 1 .. i - 1
             PROVE  Passed(j)'
  BY DEF FirstInOrderAnswers, Passed
<1> USE DEF answerVars, flagVars, logVars
<1>1. /\ Len(Chain) \in Nat /\ DOMAIN Chain = 1 .. Len(Chain) /\ at \in 1 .. Len(Chain) + 1
      /\ Chain[i] \in Services /\ Chain[i] # Nobody /\ j \in DOMAIN Chain
      /\ \A k \in DOMAIN Chain : Chain[k] = Chain[i] => k = i
  BY ChainFacts DEF TypeOK
<1>2. ~Begin /\ ~AskMain
  <2>1. Begin => rescued_by' = Nobody
    BY DEF Begin
  <2>2. AskMain => rescued_by' = Nobody
    BY DEF AskMain, InOrder, InUtterance
  <2>. QED
    BY <1>1, <2>1, <2>2
<1>3. Later
  BY <1>2, LaterStep
<1>4. CASE rescued_by' = rescued_by
  <2>1. utterance \in Utterances
    BY <1>1, <1>4, ChainAssumption DEF InOrder, InUtterance, TypeOK, Utterances
  <2>2. Passed(j)
    BY <1>4 DEF FirstInOrderAnswers, Passed
  <2>. QED
    BY <1>1, <1>3, <2>1, <2>2, PassedStays
<1>5. CASE Overtake
  <2>1. hedge = Chain[i] /\ stage = "backup"
    BY <1>5 DEF Overtake
  <2>2. Chain[j] \notin ready
    BY <1>1, <2>1 DEF InOrder, HedgeIsFirst, FirstReady
  <2>. QED
    BY <1>3, <2>2 DEF Passed, Later
<1>6. CASE FallbackSettles
  <2>1. stage = "fallback" /\ Chain[at] = Chain[i] /\ at \in DOMAIN Chain
    BY <1>1, <1>6 DEF FallbackSettles, InOrder, InUtterance
  <2>2. utterance \in Utterances /\ Passed(j)
    BY <1>1, <2>1, Serving DEF InOrder, PassedInOrder
  <2>. QED
    BY <1>1, <1>3, <2>2, PassedStays
<1>7. rescued_by' = rescued_by \/ Overtake \/ FallbackSettles
  BY <1>2 DEF Next, AnswerStep, vars, StreamedMain, MainNotReady, TakeMain,
       AfterMain, PatienceRunsOut, StandInHasNothing, ChainSkips,
       ChainAsks, FallbackPasses, ChainEnds, Answered,
       RequestEnds, LateMainLogged, ShadowStep
<1>. QED
  BY <1>4, <1>5, <1>6, <1>7

\* The evidence that the internet is down.
Evidence ==
  \/ \E s \in Remote : Result(s) = "network"
  \/ Main \in Remote /\ Result(Main) = "none"

LEMMA EvidenceStays ==
  ASSUME TypeOK, InOrder, [Next]_vars, Later, utterance \in Utterances,
         remote_down, Evidence
  PROVE  Evidence'
<1>1. Remote' = Remote /\ Remote \subseteq Services
  BY DEF Later, Remote
<1>2. CASE \E s \in Remote : Result(s) = "network"
  <2>1. PICK s \in Remote : Result(s) = "network"
    BY <1>2
  <2>2. Progress(utterance, s)
    BY <1>1, RequestKeeps
  <2>3. Result(s)' = "network"
    BY <2>1, <2>2 DEF Progress, Sent, Result, Later
  <2>. QED
    BY <1>1, <2>3 DEF Evidence
<1>3. CASE Main \in Remote /\ Result(Main) = "none"
  <2>1. Progress(utterance, Main)
    BY <1>1, <1>3, RequestKeeps
  <2>2. Result(Main)' = "none"
    BY <1>3, <2>1 DEF Progress, Sent, Result, Later, IsDown
  <2>. QED
    BY <1>1, <1>3, <2>2 DEF Evidence
<1>. QED
  BY <1>2, <1>3 DEF Evidence

LEMMA RemoteDownStep ==
  TypeOK /\ InOrder /\ RemoteDownIsOwn /\ [Next]_vars => RemoteDownIsOwn'
<1> SUFFICES ASSUME TypeOK, InOrder, RemoteDownIsOwn, [Next]_vars, remote_down'
             PROVE  Evidence'
  BY DEF RemoteDownIsOwn, Evidence
<1> USE DEF answerVars, flagVars, logVars
<1>1. ~Begin /\ ~AskMain
  BY DEF Begin, AskMain, InOrder, HedgeIsFirst, BeforeChain
<1>2. Later
  BY <1>1, LaterStep
<1>3. CASE remote_down
  <2>1. utterance \in Utterances
    BY <1>3, ChainAssumption DEF InOrder, InUtterance, TypeOK, Utterances
  <2>2. Evidence
    BY <1>3 DEF RemoteDownIsOwn, Evidence
  <2>. QED
    BY <1>2, <1>3, <2>1, <2>2, EvidenceStays
<1>4. CASE ~remote_down
  <2>1. \/ StreamedMain /\ NetworkFailed(Main)
        \/ TakeMain /\ Result(Main) = "network" /\ NetworkFailed(Main)
        \/ StandInHasNothing /\ Result(hedge) = "network" /\ NetworkFailed(hedge)
        \/ FallbackPasses /\ Result(Chain[at]) = "network" /\ NetworkFailed(Chain[at])
    BY <1>1, <1>4 DEF Next, AnswerStep, vars, StreamedMain, MainNotReady, TakeMain,
       PatienceRunsOut, Overtake, StandInHasNothing, ChainSkips, ChainAsks,
       FallbackSettles, FallbackPasses, ChainEnds, Answered,
       RequestEnds, LateMainLogged, ShadowStep
  <2>2. CASE StreamedMain /\ NetworkFailed(Main)
    <3>1. stage = "primary" /\ Main \in Remote /\ UNCHANGED request
      BY <1>4, <2>2 DEF StreamedMain, NetworkFailed
    <3>2. Result(Main) = "none"
      BY <3>1, Serving, ChainFacts DEF InOrder, Unasked, Result
    <3>. QED
      BY <1>2, <3>1, <3>2 DEF Evidence, Result, Later, Remote
  <2>3. ASSUME NEW s, Result(s) = "network", NetworkFailed(s), UNCHANGED request
        PROVE  Evidence'
    <3>1. s \in Remote
      BY <1>4, <2>3 DEF NetworkFailed
    <3>. QED
      BY <1>2, <2>3, <3>1 DEF Evidence, Result, Later, Remote
  <2>. QED
    BY <2>1, <2>2, <2>3 DEF TakeMain, StandInHasNothing, FallbackPasses
<1>. QED
  BY <1>3, <1>4

LEMMA EmptyIsDoubtedStep ==
  TypeOK /\ InOrder /\ EmptyIsDoubtedToTheEnd /\ [Next]_vars => EmptyIsDoubtedToTheEnd'
<1> SUFFICES ASSUME TypeOK, InOrder, EmptyIsDoubtedToTheEnd, [Next]_vars,
                    stage' = "answer", spoken' = Nobody, reason' = "empty", OnEmpty
             PROVE  at' = Len(Chain) + 1 /\ rescued_by' = Nobody
  BY DEF EmptyIsDoubtedToTheEnd
<1> USE DEF answerVars, flagVars, logVars
<1>1. Main # Nobody /\ InUtterance /\ "text" \notin Failures /\ "empty" \notin Failures
  BY ChainFacts DEF InOrder, Failures
<1>2. ASSUME NEW result \in Ended, AfterMain(result) PROVE result = "text"
  BY <1>2 DEF AfterMain, Ended
<1>3. ~StreamedMain
  BY <1>1, <1>2 DEF StreamedMain
<1>4. ~MainNotReady
  BY <1>2 DEF MainNotReady, AfterMain, Failures
<1>5. ~TakeMain
  BY <1>1, <1>2 DEF TakeMain
<1>6. ~Overtake
  BY DEF Overtake, InOrder, HedgeIsFirst
<1>7. ~FallbackSettles
  <2>1. stage = "fallback" => Chain[at] # Nobody
    BY <1>1, ChainFacts DEF InUtterance, TypeOK
  <2>. QED
    BY <2>1 DEF FallbackSettles
<1>8. CASE ChainEnds
  BY <1>1, <1>8 DEF ChainEnds, InUtterance
<1>9. CASE UNCHANGED <<stage, spoken, reason, at, rescued_by>>
  BY <1>9 DEF EmptyIsDoubtedToTheEnd
<1>10. ChainEnds \/ UNCHANGED <<stage, spoken, reason, at, rescued_by>>
  BY <1>3, <1>4, <1>5, <1>6, <1>7
     DEF Next, AnswerStep, vars, Begin, AskMain, PatienceRunsOut, StandInHasNothing,
       ChainSkips, ChainAsks, FallbackPasses, Answered,
       RequestEnds, LateMainLogged, ShadowStep
<1>. QED
  BY <1>8, <1>9, <1>10

-----------------------------------------------------------------------------
(* The theorems.                                                           *)

LEMMA Inductive == Spec => []IInv
<1>1. Init => IInv
  <2> SUFFICES ASSUME Init PROVE IInv
    OBVIOUS
  <2>1. TypeOK
    BY TypeInit
  <2>2. InOrder
    BY DEF Init, InOrder, InUtterance, Unasked, AskedInOrder, HedgeIsFirst, PassedInOrder,
           BeforeChain
  <2>3. FirstInOrderAnswers
    BY ChainFacts DEF Init, FirstInOrderAnswers
  <2>. QED
    BY <2>1, <2>2, <2>3 DEF Init, IInv, RemoteDownIsOwn, EmptyIsDoubtedToTheEnd
<1>2. IInv /\ [Next]_vars => IInv'
  <2> SUFFICES ASSUME IInv, [Next]_vars PROVE IInv'
    OBVIOUS
  <2>1. TypeOK /\ InOrder /\ FirstInOrderAnswers /\ RemoteDownIsOwn /\ EmptyIsDoubtedToTheEnd
    BY DEF IInv
  <2>2. TypeOK'
    BY <2>1, TypeStep DEF InOrder
  <2>3. InOrder'
    BY <2>1, InUtteranceStep, UnaskedStep, AskedInOrderStep, HedgeIsFirstStep,
       PassedInOrderStep DEF InOrder
  <2>4. FirstInOrderAnswers' /\ RemoteDownIsOwn' /\ EmptyIsDoubtedToTheEnd'
    BY <2>1, FirstInOrderStep, RemoteDownStep, EmptyIsDoubtedStep
  <2>. QED
    BY <2>2, <2>3, <2>4 DEF IInv
<1>. QED
  BY <1>1, <1>2, PTL DEF Spec

\* Every variable keeps its type; in particular the chain is left at its end.
THEOREM TypeCorrect == Spec => []TypeOK
BY Inductive, PTL DEF IInv

\* Whoever answers for the main is the first in the user's order that could:
\* for any chain, whoever stands in, and whatever fails on the way.
THEOREM OrderIsTheUsers == Spec => []FirstInOrderAnswers
BY Inductive, PTL DEF IInv

\* The internet is taken for down on evidence of the utterance itself, with
\* requests of any number of earlier ones still running.
THEOREM DownOnOwnEvidence == Spec => []RemoteDownIsOwn
BY Inductive, PTL DEF IInv

\* An empty answer of the main is doubted down to the end of the chain.
THEOREM EmptyIsDoubted == Spec => []EmptyIsDoubtedToTheEnd
BY Inductive, PTL DEF IInv

\* A service is asked once for the answer to an utterance, by the stand-in or
\* by the chain: its request is sent once and then only ends.
THEOREM OneRequestEach == Spec => AskedOnce
<1>1. ASSUME IInv, [Next]_vars, NEW u \in Utterances, NEW s \in Services,
             request[u][s] # "none"
      PROVE  request'[u][s] \in {request[u][s]} \union Ended
  <2>1. Progress(u, s)
    BY <1>1, RequestKeeps DEF IInv
  <2>. QED
    BY <1>1, <2>1 DEF Progress, Sent
<1>2. IInv /\ [Next]_vars
        => [\A u \in Utterances, s \in Services :
              request[u][s] # "none" => request'[u][s] \in {request[u][s]} \union Ended]_vars
  BY <1>1
<1>. QED
  BY <1>2, Inductive, PTL DEF Spec, AskedOnce

\* After the first remote service could not be reached, no other remote one is
\* asked for this answer.
THEOREM RemoteIsSpared == Spec => NoRemoteOnceDown
<1>1. ASSUME IInv, [Next]_vars, NEW s \in Remote,
             remote_down, utterance' = utterance, Result(s) = "none"
      PROVE  request'[utterance][s] = "none"
  <2>1. utterance \in Utterances /\ s \in Services
    BY <1>1, ChainAssumption DEF IInv, InOrder, InUtterance, TypeOK, Utterances, Remote
  <2>2. Progress(utterance, s)
    BY <1>1, <2>1, RequestKeeps DEF IInv
  <2>. QED
    BY <1>1, <2>2 DEF Progress, Sent, IsDown, Result
<1>2. IInv /\ [Next]_vars
        => [\A s \in Remote :
              remote_down /\ utterance' = utterance /\ Result(s) = "none"
                => request'[utterance][s] = "none"]_vars
  BY <1>1
<1>. QED
  BY <1>2, Inductive, PTL DEF Spec, NoRemoteOnceDown

-----------------------------------------------------------------------------
(* The services and their roles.                                           *)

Tables == [Ids -> Configs \union {NoService}]

\* What the operations write.  How a list of roles is cleaned does not matter.
IsCommit(c) ==
  /\ c.key \in {"rows", "main", "fallbacks", "shadows"}
  /\ c.key = "rows" => c.value \in Tables
  /\ c.key = "main" => c.value \in Ids \union {None}

Names == {"idle", "down", "create", "update", "delete", "roles", "restore", "migrate"}

ServicesTyped ==
  /\ rows \in Tables
  /\ DOMAIN disk = {"main", "fallbacks", "shadows"}
  /\ disk.main \in Ids \union {None, Absent}
  /\ op.name \in Names
  /\ \E S : todo \in Seq(S)
  /\ \A k \in 1 .. Len(todo) : IsCommit(todo[k])
  /\ torn \in BOOLEAN

\* Without an operation nothing is left to commit, and an operation that
\* leaves a cache alone leaves the tables behind it alone.
AtRest ==
  /\ op.name = "idle" => op = Idle
  /\ op.name = "down" => op = Down
  /\ op \in {Idle, Down} => todo = <<>>
  /\ op \notin {Idle, Down} /\ "services" \notin op.drops =>
       /\ services = rows
       /\ \A k \in 1 .. Len(todo) : todo[k].key # "rows"
  /\ op \notin {Idle, Down} /\ "roles" \notin op.drops =>
       roles = ReadRoles(disk) /\ todo = <<>>

\* Except in a restore services are only added to the table by what is left,
\* and a main is written after its service.
MainAfterItsService(t, r) ==
  \A k \in 1 .. Len(t) :
    /\ t[k].key = "rows" =>
         /\ Live(r) \subseteq Live(t[k].value)
         /\ \A j \in 1 .. k - 1 :
              t[j].key = "rows" => Live(t[j].value) \subseteq Live(t[k].value)
    /\ t[k].key = "main" =>
         \/ t[k].value \in Live(r) \union {None}
         \/ \E j \in 1 .. k - 1 :
              t[j].key = "rows" /\ t[k].value \in Live(t[j].value)

\* A restore has written the archive's main, and ends with its table.
Restoring(a) ==
  /\ disk.main = a.roles.main
  /\ \A k \in 1 .. Len(todo) : todo[k].key # "main"
  /\ todo = <<>> => rows = a.rows
  /\ todo # <<>> => todo[Len(todo)] = Commit("rows", a.rows)

MainWritten ==
  /\ op \notin {Idle, Down} /\ "roles" \in op.drops
  /\ todo # <<>> => todo[1].key # "main"

MainHolds == disk.main \in Live(rows) \union {None, Absent}

Roled ==
  /\ op.name = "restore" =>
       "roles" \in op.drops /\ \E a \in Archives : Restoring(a)
  /\ op.name # "restore" =>
       /\ MainAfterItsService(todo, rows)
       /\ ~torn \/ MainWritten => MainHolds

ServicesIInv == ServicesTyped /\ AtRest /\ MemoryIsDisk /\ Roled

-----------------------------------------------------------------------------
LEMMA TailFacts ==
  ASSUME NEW S, NEW s \in Seq(S), s # <<>>
  PROVE  /\ Head(s) = s[1] /\ Tail(s) \in Seq(S)
         /\ Len(s) \in Nat \ {0} /\ Len(Tail(s)) = Len(s) - 1
         /\ \A k \in 1 .. Len(s) - 1 : Tail(s)[k] = s[k + 1]
  OBVIOUS

LEMMA ConsFacts ==
  ASSUME NEW S, NEW c \in S, NEW s \in Seq(S)
  PROVE  /\ <<c>> \o s \in Seq(S)
         /\ Len(<<c>> \o s) = Len(s) + 1 /\ (<<c>> \o s)[1] = c
         /\ \A k \in 1 .. Len(s) : (<<c>> \o s)[k + 1] = s[k]
  OBVIOUS

\* set_roles stores a main that exists, or none.
LEMMA CleanedMain ==
  ASSUME NEW r, NEW live
  PROVE  Cleaned(r, live).main \in live \union {None}
  BY DEF Cleaned

\* set_roles writes the main first.
LEMMA RoleCommitsFacts ==
  ASSUME NEW r, r.main \in Ids \union {None}
  PROVE  /\ \E S : RoleCommits(r) \in Seq(S)
         /\ Len(RoleCommits(r)) = 3
         /\ RoleCommits(r)[1].key = "main" /\ RoleCommits(r)[1].value = r.main
         /\ RoleCommits(r)[2].key = "fallbacks" /\ RoleCommits(r)[3].key = "shadows"
         /\ \A k \in 1 .. 3 : IsCommit(RoleCommits(r)[k])
  <1> DEFINE m == Commit("main", r.main)
             f == Commit("fallbacks", r.fallbacks)
             s == Commit("shadows", r.shadows)
  <1>1. <<m, f, s>> \in Seq({m, f, s})
    OBVIOUS
  <1>2. IsCommit(m) /\ IsCommit(f) /\ IsCommit(s)
    BY DEF IsCommit, Commit
  <1>3. RoleCommits(r) = <<m, f, s>>
    BY DEF RoleCommits
  <1> HIDE DEF m, f, s
  <1>4. /\ \E S : <<m, f, s>> \in Seq(S)
        /\ Len(<<m, f, s>>) = 3
        /\ <<m, f, s>>[1] = m /\ <<m, f, s>>[2] = f /\ <<m, f, s>>[3] = s
    BY <1>1
  <1>5. \A k \in 1 .. 3 : k = 1 \/ k = 2 \/ k = 3
    OBVIOUS
  <1>6. \A k \in 1 .. 3 : IsCommit(<<m, f, s>>[k])
    BY <1>2, <1>4, <1>5
  <1>7. /\ m.key = "main" /\ m.value = r.main
        /\ f.key = "fallbacks" /\ s.key = "shadows"
    BY DEF m, f, s, Commit
  <1> QED BY <1>3, <1>4, <1>6, <1>7

\* What one commit does.
LEMMA ApplyFacts ==
  ASSUME ServicesTyped, NEW c, IsCommit(c), Apply(c)
  PROVE  /\ rows' \in Tables
         /\ DOMAIN disk' = {"main", "fallbacks", "shadows"}
         /\ disk'.main \in Ids \union {None, Absent}
         /\ c.key = "rows" => rows' = c.value /\ disk' = disk
         /\ c.key # "rows" => rows' = rows
         /\ c.key = "main" => disk'.main = c.value
         /\ c.key # "main" => disk'.main = disk.main
  BY DEF ServicesTyped, IsCommit, Apply

\* How an operation starts.
LEMMA StartFacts ==
  ASSUME ServicesTyped, NEW S, NEW commits \in Seq(S), commits # <<>>,
         \A k \in 1 .. Len(commits) : IsCommit(commits[k]),
         NEW name \in Names, NEW drops, StartWith(name, drops, commits),
         torn' = torn
  PROVE  /\ ServicesTyped'
         /\ Apply(commits[1]) /\ IsCommit(commits[1])
         /\ op'.name = name /\ op'.drops = drops
         /\ Len(commits) \in Nat \ {0} /\ Len(todo') = Len(commits) - 1
         /\ (todo' = <<>>) <=> (Len(commits) = 1)
         /\ \A k \in 1 .. Len(todo') : todo'[k] = commits[k + 1]
  <1>1. /\ Head(commits) = commits[1] /\ Tail(commits) \in Seq(S)
        /\ Len(commits) \in Nat \ {0} /\ Len(Tail(commits)) = Len(commits) - 1
        /\ \A k \in 1 .. Len(commits) - 1 : Tail(commits)[k] = commits[k + 1]
    BY TailFacts
  <1>2. Apply(commits[1]) /\ IsCommit(commits[1])
    BY <1>1 DEF StartWith
  <1>3. /\ rows' \in Tables /\ DOMAIN disk' = {"main", "fallbacks", "shadows"}
        /\ disk'.main \in Ids \union {None, Absent}
    BY <1>2, ApplyFacts
  <1>4. \A k \in 1 .. Len(todo') : todo'[k] = commits[k + 1] /\ IsCommit(todo'[k])
    BY <1>1 DEF StartWith
  <1>5. (todo' = <<>>) <=> (Len(commits) = 1)
    <2>1. Tail(commits) # <<>> => Len(Tail(commits)) \in Nat \ {0}
      BY <1>1, EmptySeq
    <2>2. Tail(commits) = <<>> => Len(Tail(commits)) = 0
      BY EmptySeq
    <2> QED BY <1>1, <2>1, <2>2 DEF StartWith
  <1>6. ServicesTyped'
    BY <1>1, <1>3, <1>4 DEF ServicesTyped, StartWith, Names
  <1> QED BY <1>1, <1>2, <1>4, <1>5, <1>6 DEF StartWith

\* At rest the disk has the main that the memory has.
LEMMA RestFacts ==
  ASSUME ServicesIInv, op = Idle
  PROVE  /\ services = rows /\ roles = ReadRoles(disk) /\ todo = <<>>
         /\ disk.main \in {roles.main, Absent} /\ roles.main # Absent
         /\ ~torn => MainHolds
  <1>1. disk.main \in {ReadRoles(disk).main, Absent} /\ ReadRoles(disk).main # Absent
    BY SttServicesAssumption DEF ServicesIInv, ServicesTyped, ReadRoles
  <1> QED BY <1>1 DEF ServicesIInv, MemoryIsDisk, AtRest, Roled, Idle, MainWritten

-----------------------------------------------------------------------------
\* An operation that changes the table and then writes the roles.
LEMMA RowThenRoles ==
  ASSUME ServicesTyped, NEW name \in Names \ {"idle", "down", "restore"}, NEW drops,
         {"services", "roles"} \subseteq drops,
         NEW table \in Tables, NEW r, r.main \in Live(table) \union {None},
         StartWith(name, drops, <<Commit("rows", table)>> \o RoleCommits(r)),
         torn' = torn, ~torn => disk.main \in Live(table) \union {None, Absent}
  PROVE  ServicesIInv'
  <1> DEFINE first == Commit("rows", table)
             set == RoleCommits(r)
             all == <<first>> \o set
  <1>1. Live(table) \subseteq Ids
    BY DEF Live
  <1>2. first.key = "rows" /\ first.value = table /\ IsCommit(first)
    BY DEF Commit, IsCommit
  <1>3. PICK S0 : set \in Seq(S0)
    BY <1>1, RoleCommitsFacts
  <1> DEFINE S == S0 \union {first}
  <1>4. set \in Seq(S) /\ first \in S
    BY <1>3
  <1>5. /\ Len(set) = 3 /\ \A k \in 1 .. 3 : IsCommit(set[k])
        /\ set[1].key = "main" /\ set[1].value \in Live(table) \union {None}
        /\ set[2].key = "fallbacks" /\ set[3].key = "shadows"
    <2>1. r.main \in Ids \union {None}
      BY <1>1
    <2> QED BY <2>1, RoleCommitsFacts
  <1> HIDE DEF set, first, S
  <1>6. /\ all \in Seq(S) /\ Len(all) = 4 /\ all[1] = first
        /\ \A k \in 1 .. 3 : all[k + 1] = set[k]
    <2>1. /\ all \in Seq(S) /\ Len(all) = Len(set) + 1 /\ all[1] = first
          /\ \A k \in 1 .. Len(set) : all[k + 1] = set[k]
      BY <1>4, ConsFacts
    <2> QED BY <1>5, <2>1
  <1>7. StartWith(name, drops, all)
    BY DEF first, set
  <1> HIDE DEF all
  <1>8. all # <<>> /\ \A k \in 1 .. Len(all) : IsCommit(all[k])
    <2>1. \A k \in 1 .. 4 : k = 1 \/ (k - 1 \in 1 .. 3 /\ all[k] = set[k - 1])
      BY <1>6
    <2>2. \A k \in 1 .. 4 : IsCommit(all[k])
      BY <1>2, <1>5, <1>6, <2>1
    <2> QED BY <1>6, <2>2
  <1>9. /\ ServicesTyped' /\ Apply(first)
        /\ op'.name = name /\ op'.drops = drops
        /\ Len(todo') = 3 /\ todo' # <<>>
        /\ \A k \in 1 .. 3 : todo'[k] = all[k + 1]
    <2>1. /\ ServicesTyped' /\ Apply(all[1]) /\ IsCommit(all[1])
          /\ op'.name = name /\ op'.drops = drops
          /\ Len(todo') = Len(all) - 1 /\ ((todo' = <<>>) <=> (Len(all) = 1))
          /\ \A k \in 1 .. Len(todo') : todo'[k] = all[k + 1]
      BY <1>6, <1>7, <1>8, StartFacts
    <2> QED BY <1>6, <2>1
  <1>10. rows' = table /\ disk' = disk
    BY <1>2, <1>9, ApplyFacts
  <1>11. /\ todo'[1].key = "main" /\ todo'[1].value \in Live(table) \union {None}
         /\ todo'[2].key = "fallbacks" /\ todo'[3].key = "shadows"
    BY <1>5, <1>6, <1>9
  <1>12. op' \notin {Idle, Down}
    BY <1>9 DEF Idle, Down
  <1>13. AtRest'
    BY <1>9, <1>12 DEF AtRest
  <1>14. MemoryIsDisk'
    BY <1>12 DEF MemoryIsDisk
  <1>15. MainAfterItsService(todo, rows)'
    BY <1>9, <1>10, <1>11 DEF MainAfterItsService
  <1>16. Roled'
    BY <1>9, <1>10, <1>11, <1>15 DEF Roled, MainWritten, MainHolds
  <1> QED BY <1>9, <1>13, <1>14, <1>16 DEF ServicesIInv

\* An operation whose one commit changes the table, and not the roles.
LEMMA RowAlone ==
  ASSUME ServicesIInv, op = Idle, NEW name \in Names \ {"idle", "down", "restore"},
         NEW table \in Tables, Live(rows) \subseteq Live(table),
         StartWith(name, {"services"}, <<Commit("rows", table)>>),
         torn' = torn, roles' = roles
  PROVE  ServicesIInv'
  <1> DEFINE first == Commit("rows", table)
             all == <<first>>
  <1>1. ServicesTyped
    BY DEF ServicesIInv
  <1>2. first.key = "rows" /\ first.value = table /\ IsCommit(first)
    BY DEF Commit, IsCommit
  <1> HIDE DEF first
  <1>3. all \in Seq({first}) /\ Len(all) = 1 /\ all[1] = first /\ all # <<>>
    OBVIOUS
  <1>4. StartWith(name, {"services"}, all)
    BY DEF first
  <1> HIDE DEF all
  <1>5. \A k \in 1 .. Len(all) : IsCommit(all[k])
    BY <1>2, <1>3
  <1>6. /\ ServicesTyped' /\ Apply(first)
        /\ op'.name = name /\ op'.drops = {"services"} /\ todo' = <<>>
    BY <1>1, <1>3, <1>4, <1>5, StartFacts
  <1>7. rows' = table /\ disk' = disk
    BY <1>1, <1>2, <1>6, ApplyFacts
  <1>8. op' \notin {Idle, Down}
    BY <1>6 DEF Idle, Down
  <1>9. roles' = ReadRoles(disk')
    BY <1>7, RestFacts
  <1>10. AtRest' /\ MemoryIsDisk'
    BY <1>6, <1>8, <1>9 DEF AtRest, MemoryIsDisk
  <1>11. MainAfterItsService(todo, rows)'
    BY <1>6 DEF MainAfterItsService
  <1>12. ~torn => disk.main \in Live(table) \union {None, Absent}
    BY RestFacts DEF MainHolds
  <1>13. Roled'
    BY <1>6, <1>7, <1>8, <1>11, <1>12 DEF Roled, MainWritten, MainHolds
  <1> QED BY <1>6, <1>10, <1>13 DEF ServicesIInv

LEMMA CreateKeepsRoles ==
  ASSUME ServicesIInv, NEW conf \in Configs, create(conf)
  PROVE  ServicesIInv'
  <1> DEFINE with == [rows EXCEPT ![nextId] = conf]
             cleaned == Cleaned([roles EXCEPT !.main = nextId], Live(with))
             drops == IF roles.main = None THEN {"services", "roles"} ELSE {"services"}
  <1>1. /\ op = Idle /\ nextId \in Ids /\ torn' = torn /\ roles' = roles
        /\ StartWith("create", drops, CreateCommits(roles, conf))
    BY DEF create
  <1>2. ServicesTyped
    BY DEF ServicesIInv
  <1>3. with \in Tables /\ Live(rows) \subseteq Live(with)
    BY <1>1, <1>2, SttServicesAssumption DEF ServicesTyped, Tables, Live
  <1>4. ~torn => disk.main \in Live(with) \union {None, Absent}
    BY <1>1, <1>3, RestFacts DEF MainHolds
  <1>5. CASE roles.main = None
    <2>1. cleaned.main \in Live(with) \union {None}
      BY CleanedMain
    <2>2. StartWith("create", {"services", "roles"},
                    <<Commit("rows", with)>> \o RoleCommits(cleaned))
      BY <1>1, <1>5 DEF CreateCommits
    <2> HIDE DEF with, cleaned, drops
    <2> QED BY <1>1, <1>2, <1>3, <1>4, <2>1, <2>2, RowThenRoles DEF Names
  <1>6. CASE roles.main # None
    <2>1. CreateCommits(roles, conf) = <<Commit("rows", with)>> \o <<>>
      BY <1>6 DEF CreateCommits
    <2> HIDE DEF with
    <2>2. <<Commit("rows", with)>> \o <<>> = <<Commit("rows", with)>>
      OBVIOUS
    <2>3. StartWith("create", {"services"}, <<Commit("rows", with)>>)
      BY <1>1, <1>6, <2>1, <2>2
    <2> QED BY <1>1, <1>3, <2>3, RowAlone DEF Names
  <1> QED BY <1>5, <1>6

LEMMA UpdateKeepsRoles ==
  ASSUME ServicesIInv, NEW i \in Ids, NEW conf \in Configs, update(i, conf)
  PROVE  ServicesIInv'
  <1> DEFINE with == [rows EXCEPT ![i] = conf]
  <1>1. /\ op = Idle /\ torn' = torn /\ roles' = roles
        /\ StartWith("update", {"services"}, <<Commit("rows", with)>>)
    BY DEF update, UpdateCommits
  <1>2. with \in Tables /\ Live(rows) \subseteq Live(with)
    BY SttServicesAssumption DEF ServicesIInv, ServicesTyped, Tables, Live
  <1> HIDE DEF with
  <1> QED BY <1>1, <1>2, RowAlone DEF Names

LEMMA DeleteKeepsRoles ==
  ASSUME ServicesIInv, NEW i \in Ids, delete(i)
  PROVE  ServicesIInv'
  <1> DEFINE without == [rows EXCEPT ![i] = NoService]
             cleaned == Cleaned(roles, Live(without))
  <1>1. /\ op = Idle /\ roles.main # i /\ torn' = torn
        /\ StartWith("delete", {"services", "roles"},
                     <<Commit("rows", without)>> \o RoleCommits(cleaned))
    BY DEF delete, DeleteCommits
  <1>2. ServicesTyped
    BY DEF ServicesIInv
  <1>3. without \in Tables /\ Live(rows) \ {i} \subseteq Live(without)
    BY <1>2 DEF ServicesTyped, Tables, Live
  <1>4. ~torn => disk.main \in Live(without) \union {None, Absent}
    BY <1>1, <1>3, RestFacts, SttServicesAssumption DEF MainHolds
  <1>5. cleaned.main \in Live(without) \union {None}
    BY CleanedMain
  <1> HIDE DEF without, cleaned
  <1> QED BY <1>1, <1>2, <1>3, <1>4, <1>5, RowThenRoles DEF Names

\* An operation that only writes roles commits the main first.
LEMMA RolesAlone ==
  ASSUME ServicesTyped, NEW name \in Names \ {"idle", "down", "restore"}, NEW drops,
         "roles" \in drops, "services" \notin drops => services' = rows,
         NEW r, r.main \in Live(rows) \union {None},
         StartWith(name, drops, RoleCommits(r)), torn' = torn
  PROVE  ServicesIInv'
  <1> DEFINE set == RoleCommits(r)
  <1>1. r.main \in Ids \union {None}
    BY DEF Live
  <1>2. PICK S : set \in Seq(S)
    BY <1>1, RoleCommitsFacts
  <1>3. /\ Len(set) = 3 /\ \A k \in 1 .. 3 : IsCommit(set[k])
        /\ set[1].key = "main" /\ set[1].value \in Live(rows) \union {None}
        /\ set[2].key = "fallbacks" /\ set[3].key = "shadows"
    BY <1>1, RoleCommitsFacts
  <1>4. StartWith(name, drops, set)
    OBVIOUS
  <1> HIDE DEF set
  <1>5. set # <<>>
    BY <1>3
  <1>6. /\ ServicesTyped' /\ Apply(set[1]) /\ IsCommit(set[1])
        /\ op'.name = name /\ op'.drops = drops
        /\ Len(todo') = 2 /\ todo' # <<>> /\ \A k \in 1 .. 2 : todo'[k] = set[k + 1]
    <2>1. /\ ServicesTyped' /\ Apply(set[1]) /\ IsCommit(set[1])
          /\ op'.name = name /\ op'.drops = drops
          /\ Len(todo') = Len(set) - 1 /\ ((todo' = <<>>) <=> (Len(set) = 1))
          /\ \A k \in 1 .. Len(todo') : todo'[k] = set[k + 1]
      BY <1>2, <1>3, <1>4, <1>5, StartFacts
    <2> QED BY <1>3, <2>1
  <1>7. rows' = rows /\ disk'.main \in Live(rows) \union {None}
    BY <1>3, <1>6, ApplyFacts
  <1>8. todo'[1].key = "fallbacks" /\ todo'[2].key = "shadows"
    BY <1>3, <1>6
  <1>9. op' \notin {Idle, Down}
    BY <1>6 DEF Idle, Down
  <1>10. \A k \in 1 .. Len(todo') : todo'[k].key \notin {"rows", "main"}
    BY <1>6, <1>8
  <1>11. AtRest' /\ MemoryIsDisk'
    BY <1>6, <1>7, <1>9, <1>10 DEF AtRest, MemoryIsDisk
  <1>12. MainAfterItsService(todo, rows)'
    BY <1>10 DEF MainAfterItsService
  <1>13. Roled'
    BY <1>6, <1>7, <1>9, <1>12 DEF Roled, MainHolds
  <1> QED BY <1>6, <1>11, <1>13 DEF ServicesIInv

LEMMA SetRolesKeepsRoles ==
  ASSUME ServicesIInv, NEW r, set_roles(r)
  PROVE  ServicesIInv'
  <1> DEFINE cleaned == Cleaned(r, Live(services))
  <1>1. /\ op = Idle /\ torn' = torn /\ services' = services
        /\ StartWith("roles", {"roles"}, RoleCommits(cleaned))
    BY DEF set_roles
  <1>2. ServicesTyped
    BY DEF ServicesIInv
  <1>3. services = rows
    BY <1>1, RestFacts
  <1>4. cleaned.main \in Live(rows) \union {None}
    BY <1>3, CleanedMain
  <1> HIDE DEF cleaned
  <1> QED BY <1>1, <1>2, <1>3, <1>4, RolesAlone DEF Names

LEMMA RestoreKeepsRoles ==
  ASSUME ServicesIInv, NEW a \in Archives, restore(a)
  PROVE  ServicesIInv'
  <1> DEFINE set == RoleCommits(a.roles)
             empty == Commit("rows", [i \in Ids |-> NoService])
             last == Commit("rows", a.rows)
             rest == <<empty, last>>
             all == set \o rest
  <1>1. /\ op = Idle /\ torn' = torn
        /\ StartWith("restore", {"services", "roles"}, all)
    BY DEF restore, RestoreCommits
  <1>2. ServicesTyped
    BY DEF ServicesIInv
  <1>3. a.rows \in Tables /\ a.roles.main \in Ids \union {None}
    BY SttServicesAssumption DEF Tables, Live
  <1>4. /\ IsCommit(empty) /\ IsCommit(last) /\ empty.key = "rows" /\ last.key = "rows"
        /\ [i \in Ids |-> NoService] \in Tables
    BY <1>3 DEF IsCommit, Commit, Tables
  <1>5. PICK S0 : set \in Seq(S0)
    BY <1>3, RoleCommitsFacts
  <1>6. /\ Len(set) = 3 /\ \A k \in 1 .. 3 : IsCommit(set[k])
        /\ set[1].key = "main" /\ set[1].value = a.roles.main
        /\ set[2].key = "fallbacks" /\ set[3].key = "shadows"
    BY <1>3, RoleCommitsFacts
  <1> DEFINE S == S0 \union {empty, last}
  <1>7. last = Commit("rows", a.rows)
    OBVIOUS
  <1> HIDE DEF set, empty, last
  <1>8. /\ set \in Seq(S) /\ rest \in Seq(S) /\ Len(rest) = 2
        /\ rest[1] = empty /\ rest[2] = last
    BY <1>5
  <1> HIDE DEF rest, S
  <1>9. /\ all \in Seq(S) /\ Len(all) = 5
        /\ \A k \in 1 .. 3 : all[k] = set[k]
        /\ all[4] = empty /\ all[5] = last
    <2>1. /\ all \in Seq(S) /\ Len(all) = Len(set) + Len(rest)
          /\ \A k \in 1 .. Len(set) + Len(rest) :
               all[k] = IF k <= Len(set) THEN set[k] ELSE rest[k - Len(set)]
      BY <1>8, ConcatProperties
    <2> HIDE DEF all
    <2> QED BY <1>6, <1>8, <2>1
  <1> HIDE DEF all
  <1>10. all # <<>> /\ \A k \in 1 .. 5 : IsCommit(all[k])
    <2>1. \A k \in 1 .. 5 : k \in 1 .. 3 \/ k = 4 \/ k = 5
      OBVIOUS
    <2>2. \A k \in 1 .. 5 : IsCommit(all[k])
      BY <1>4, <1>6, <1>9, <2>1
    <2>3. all # <<>>
      BY <1>9
    <2> QED BY <1>9, <2>2, <2>3
  <1>11. /\ ServicesTyped' /\ Apply(all[1]) /\ IsCommit(all[1])
         /\ op'.name = "restore" /\ op'.drops = {"services", "roles"}
         /\ Len(todo') = 4 /\ todo' # <<>>
         /\ \A k \in 1 .. 4 : todo'[k] = all[k + 1]
    <2>1. /\ ServicesTyped' /\ Apply(all[1]) /\ IsCommit(all[1])
          /\ op'.name = "restore" /\ op'.drops = {"services", "roles"}
          /\ Len(todo') = Len(all) - 1 /\ ((todo' = <<>>) <=> (Len(all) = 1))
          /\ \A k \in 1 .. Len(todo') : todo'[k] = all[k + 1]
      BY <1>1, <1>2, <1>9, <1>10, StartFacts DEF Names
    <2> QED BY <1>9, <2>1
  <1>12. disk'.main = a.roles.main
    BY <1>2, <1>6, <1>9, <1>11, ApplyFacts
  <1>13. /\ todo'[1] = set[2] /\ todo'[2] = set[3]
         /\ todo'[3] = empty /\ todo'[4] = last
    BY <1>9, <1>11
  <1>14. \A k \in 1 .. 4 : todo'[k].key # "main"
    <2>1. \A k \in 1 .. 4 : k = 1 \/ k = 2 \/ k = 3 \/ k = 4
      OBVIOUS
    <2> QED BY <1>4, <1>6, <1>13, <2>1
  <1>15. Restoring(a)'
    BY <1>7, <1>11, <1>12, <1>13, <1>14 DEF Restoring
  <1>16. op' \notin {Idle, Down}
    BY <1>11 DEF Idle, Down
  <1>17. AtRest' /\ MemoryIsDisk'
    BY <1>11, <1>16 DEF AtRest, MemoryIsDisk
  <1>18. Roled'
    BY <1>11, <1>15 DEF Roled
  <1> QED BY <1>11, <1>17, <1>18 DEF ServicesIInv

\* What is left after the next commit.
LEMMA MainAfterTail ==
  ASSUME NEW S, NEW t \in Seq(S), t # <<>>, NEW r, MainAfterItsService(t, r),
         NEW r2, t[1].key = "rows" => r2 = t[1].value, t[1].key # "rows" => r2 = r
  PROVE  MainAfterItsService(Tail(t), r2)
  <1> DEFINE u == Tail(t)
  <1>1. /\ Len(t) \in Nat \ {0} /\ Len(u) = Len(t) - 1
        /\ \A k \in 1 .. Len(t) - 1 : u[k] = t[k + 1]
    BY TailFacts
  <1> HIDE DEF u
  <1>2. SUFFICES ASSUME NEW k \in 1 .. Len(u)
                 PROVE  /\ u[k].key = "rows" =>
                             /\ Live(r2) \subseteq Live(u[k].value)
                             /\ \A j \in 1 .. k - 1 : u[j].key = "rows" =>
                                  Live(u[j].value) \subseteq Live(u[k].value)
                        /\ u[k].key = "main" =>
                             \/ u[k].value \in Live(r2) \union {None}
                             \/ \E j \in 1 .. k - 1 :
                                  u[j].key = "rows" /\ u[k].value \in Live(u[j].value)
    BY DEF MainAfterItsService, u
  <1>3. k + 1 \in 1 .. Len(t) /\ u[k] = t[k + 1] /\ 1 \in 1 .. (k + 1) - 1
    BY <1>1
  <1>4. \A j \in 1 .. k - 1 : j + 1 \in 1 .. (k + 1) - 1 /\ u[j] = t[j + 1]
    BY <1>1, <1>3
  <1>5. ASSUME u[k].key = "rows"
        PROVE  /\ Live(r2) \subseteq Live(u[k].value)
               /\ \A j \in 1 .. k - 1 : u[j].key = "rows" =>
                    Live(u[j].value) \subseteq Live(u[k].value)
    <2>1. /\ Live(r) \subseteq Live(t[k + 1].value)
          /\ \A j \in 1 .. (k + 1) - 1 : t[j].key = "rows" =>
               Live(t[j].value) \subseteq Live(t[k + 1].value)
      BY <1>3, <1>5 DEF MainAfterItsService
    <2> QED BY <1>3, <1>4, <2>1
  <1>6. ASSUME u[k].key = "main"
        PROVE  \/ u[k].value \in Live(r2) \union {None}
               \/ \E j \in 1 .. k - 1 :
                    u[j].key = "rows" /\ u[k].value \in Live(u[j].value)
    <2>1. \/ t[k + 1].value \in Live(r) \union {None}
          \/ \E j \in 1 .. (k + 1) - 1 :
               t[j].key = "rows" /\ t[k + 1].value \in Live(t[j].value)
      BY <1>3, <1>6 DEF MainAfterItsService
    <2>2. CASE t[k + 1].value \in Live(r) \union {None}
      <3>1. 1 \in 1 .. Len(t) /\ (t[1].key = "rows" => Live(r) \subseteq Live(t[1].value))
        BY <1>1 DEF MainAfterItsService
      <3> QED BY <1>3, <2>2, <3>1
    <2>3. ASSUME NEW j \in 1 .. (k + 1) - 1,
                 t[j].key = "rows", t[k + 1].value \in Live(t[j].value)
          PROVE  \/ u[k].value \in Live(r2) \union {None}
                 \/ \E i \in 1 .. k - 1 :
                      u[i].key = "rows" /\ u[k].value \in Live(u[i].value)
      <3>1. CASE j = 1
        BY <1>3, <2>3, <3>1
      <3>2. CASE j # 1
        <4>1. j - 1 \in 1 .. k - 1 /\ u[j - 1] = t[j]
          BY <1>1, <1>3, <3>2
        <4> QED BY <1>3, <2>3, <4>1
      <3> QED BY <3>1, <3>2
    <2> QED BY <2>1, <2>2, <2>3
  <1> QED BY <1>5, <1>6

LEMMA NextCommitKeepsRoles ==
  ASSUME ServicesIInv, NextCommit
  PROVE  ServicesIInv'
  <1> DEFINE c == todo[1]
  <1>1. ServicesTyped /\ AtRest /\ Roled
    BY DEF ServicesIInv
  <1>2. PICK S : todo \in Seq(S)
    BY <1>1 DEF ServicesTyped
  <1>3. /\ todo # <<>> /\ todo' = Tail(todo) /\ op' = op /\ torn' = torn
        /\ services' = services /\ roles' = roles
        /\ Apply(c)
    BY <1>2, TailFacts DEF NextCommit
  <1>4. /\ todo' \in Seq(S) /\ Len(todo) \in Nat \ {0} /\ Len(todo') = Len(todo) - 1
        /\ \A k \in 1 .. Len(todo) - 1 : todo'[k] = todo[k + 1]
    BY <1>2, <1>3, TailFacts
  <1>5. IsCommit(c)
    BY <1>1, <1>4 DEF ServicesTyped
  <1> HIDE DEF c
  <1>6. /\ rows' \in Tables
        /\ DOMAIN disk' = {"main", "fallbacks", "shadows"}
        /\ disk'.main \in Ids \union {None, Absent}
        /\ c.key = "rows" => rows' = c.value /\ disk' = disk
        /\ c.key # "rows" => rows' = rows
        /\ c.key = "main" => disk'.main = c.value
        /\ c.key # "main" => disk'.main = disk.main
    BY <1>1, <1>3, <1>5, ApplyFacts
  <1>7. ServicesTyped'
    <2>1. \A k \in 1 .. Len(todo') : IsCommit(todo'[k])
      BY <1>1, <1>4 DEF ServicesTyped
    <2> QED BY <1>1, <1>3, <1>4, <1>6, <2>1 DEF ServicesTyped
  <1>8. op \notin {Idle, Down} /\ "roles" \in op.drops
    BY <1>1, <1>3 DEF AtRest
  <1>9. AtRest' /\ MemoryIsDisk'
    <2>1. "services" \notin op.drops =>
             services = rows /\ \A k \in 1 .. Len(todo) : todo[k].key # "rows"
      BY <1>1, <1>8 DEF AtRest
    <2>2. "services" \notin op.drops =>
             services = rows' /\ \A k \in 1 .. Len(todo') : todo'[k].key # "rows"
      BY <1>4, <1>6, <2>1 DEF c
    <2> QED BY <1>1, <1>3, <1>8, <2>2 DEF AtRest, MemoryIsDisk
  <1>10. CASE op.name = "restore"
    <2>1. PICK a \in Archives : Restoring(a)
      BY <1>1, <1>10 DEF Roled
    <2>2. c.key # "main" /\ disk'.main = a.roles.main
      BY <1>4, <1>6, <2>1 DEF Restoring, c
    <2>3. \A k \in 1 .. Len(todo') : todo'[k].key # "main"
      BY <1>4, <2>1 DEF Restoring
    <2>4. todo[Len(todo)] = Commit("rows", a.rows)
      BY <1>3, <2>1 DEF Restoring
    <2>5. todo' = <<>> => rows' = a.rows
      <3>1. todo' = <<>> => Len(todo) = 1
        BY <1>4
      <3>2. Len(todo) = 1 => c = Commit("rows", a.rows)
        BY <2>4 DEF c
      <3> QED BY <1>6, <3>1, <3>2 DEF Commit
    <2>6. todo' # <<>> => todo'[Len(todo')] = Commit("rows", a.rows)
      <3>1. todo' # <<>> => Len(todo') \in Nat \ {0}
        BY <1>4, EmptySeq
      <3> QED BY <1>4, <2>4, <3>1
    <2>7. Restoring(a)'
      BY <2>2, <2>3, <2>5, <2>6 DEF Restoring
    <2> QED BY <1>3, <1>7, <1>8, <1>9, <1>10, <2>7 DEF ServicesIInv, Roled
  <1>11. CASE op.name # "restore"
    <2>1. MainAfterItsService(todo, rows)
      BY <1>1, <1>11 DEF Roled
    <2>2. MainAfterItsService(Tail(todo), rows')
      BY <1>2, <1>3, <1>6, <2>1, MainAfterTail DEF c
    <2>3. /\ c.key = "rows" => Live(rows) \subseteq Live(c.value)
          /\ c.key = "main" => c.value \in Live(rows) \union {None}
      <3>1. 1 \in 1 .. Len(todo) /\ 1 .. 1 - 1 = {}
        BY <1>4
      <3> QED BY <2>1, <3>1 DEF MainAfterItsService, c
    <2>4. MainHolds'
      BY <1>1, <1>3, <1>6, <1>8, <1>11, <2>3 DEF Roled, MainHolds, MainWritten, c
    <2> QED BY <1>3, <1>7, <1>9, <1>11, <2>2, <2>4 DEF ServicesIInv, Roled
  <1> QED BY <1>10, <1>11

\* The settings of an older version name at most three services.
LEMMA WantedFacts ==
  ASSUME NEW l \in Legacies
  PROVE  /\ Wanted(l) \in Seq(Configs) /\ Len(Wanted(l)) \in 0 .. 3
         /\ Wanted(l) # <<>> => Len(Wanted(l)) \in 1 .. 3
  <1> DEFINE New(c, before) ==
        IF c = NoService \/ c \in Wyoming \intersect before THEN <<>> ELSE <<c>>
  <1>1. ASSUME NEW c \in Configs \union {NoService}, NEW before
        PROVE  New(c, before) \in Seq(Configs) /\ Len(New(c, before)) \in 0 .. 1
    OBVIOUS
  <1> DEFINE a == New(l.main, {})
             b == New(l.fallback, {l.main})
             c == New(l.shadow, {l.main, l.fallback})
  <1>2. /\ l.main \in Configs \union {NoService}
        /\ l.fallback \in Configs \union {NoService}
        /\ l.shadow \in Configs \union {NoService}
    BY SttServicesAssumption DEF Configs
  <1>3. /\ a \in Seq(Configs) /\ Len(a) \in 0 .. 1
        /\ b \in Seq(Configs) /\ Len(b) \in 0 .. 1
        /\ c \in Seq(Configs) /\ Len(c) \in 0 .. 1
    BY <1>1, <1>2
  <1>4. Wanted(l) = a \o b \o c
    BY DEF Wanted
  <1> HIDE DEF New, a, b, c
  <1>5. a \o b \in Seq(Configs) /\ Len(a \o b) = Len(a) + Len(b)
    BY <1>3, ConcatProperties
  <1>6. Wanted(l) \in Seq(Configs) /\ Len(Wanted(l)) = Len(a) + Len(b) + Len(c)
    BY <1>3, <1>4, <1>5, ConcatProperties
  <1>7. Len(Wanted(l)) \in 0 .. 3
    <2>1. \A i, j, k \in 0 .. 1 : i + j + k \in 0 .. 3
      OBVIOUS
    <2>2. Len(a) \in 0 .. 1 /\ Len(b) \in 0 .. 1 /\ Len(c) \in 0 .. 1
      BY <1>3
    <2>3. Len(a) + Len(b) + Len(c) \in 0 .. 3
      BY <2>1, <2>2
    <2> QED BY <1>6, <2>3
  <1>8. Wanted(l) # <<>> => Len(Wanted(l)) # 0
    BY <1>6, EmptySeq
  <1> QED BY <1>6, <1>7, <1>8

\* What a migration commits: each table, of the first n services, and between
\* the first two of them the first service as the main; at last the roles.
LEMMA MigrateCommitsFacts ==
  ASSUME NEW l \in Legacies, Wanted(l) # <<>>
  PROVE  \E S, all, final :
           /\ all \in Seq(S) /\ MigrateCommits(l) = all
           /\ final.main \in 1 .. Len(Wanted(l)) \union {None}
           /\ Len(all) = Len(Wanted(l)) + 6
           /\ all[1] = Commit("rows", [i \in Ids |-> IF i <= 1 THEN Wanted(l)[i] ELSE NoService])
           /\ all[2].key = "main" /\ all[2].value = 1
           /\ all[3].key = "fallbacks" /\ all[4].key = "shadows"
           /\ \A n \in 2 .. Len(Wanted(l)) :
                all[n + 3] = Commit("rows", [i \in Ids |-> IF i <= n THEN Wanted(l)[i] ELSE NoService])
           /\ all[Len(Wanted(l)) + 4].key = "main"
           /\ all[Len(Wanted(l)) + 4].value = final.main
           /\ all[Len(Wanted(l)) + 5].key = "fallbacks"
           /\ all[Len(Wanted(l)) + 6].key = "shadows"
           /\ \A k \in {2, 3, 4, Len(Wanted(l)) + 4, Len(Wanted(l)) + 5, Len(Wanted(l)) + 6} :
                IsCommit(all[k])
  <1> DEFINE wanted == Wanted(l)
             Id(c) == IF c \in Wyoming THEN CHOOSE i \in DOMAIN wanted : wanted[i] = c
                      ELSE Len(wanted)
             Table(n) == [i \in Ids |-> IF i <= n THEN wanted[i] ELSE NoService]
             Fallback == IF l.fallback = NoService THEN <<>> ELSE <<Id(l.fallback)>>
             Shadow == IF l.shadow = NoService THEN <<>> ELSE <<Id(l.shadow)>>
             Created == [n \in 1 .. Len(wanted) |-> Commit("rows", Table(n))]
             one == [main |-> 1, fallbacks |-> <<>>, shadows |-> <<>>]
             last == Cleaned([main |-> IF l.main = NoService THEN None ELSE 1,
                              fallbacks |-> Fallback \o IF l.rescues THEN Shadow ELSE <<>>,
                              shadows |-> Shadow], 1 .. Len(wanted))
             F == RoleCommits(one)
             R == RoleCommits(last)
             all == <<Created[1]>> \o F \o Tail(Created) \o R
  <1>1. MigrateCommits(l) = all
    BY DEF MigrateCommits
  <1>2. last.main \in 1 .. Len(wanted) \union {None}
    BY CleanedMain
  <1>3. one.main = 1
    OBVIOUS
  <1> HIDE DEF last, one
  <1>4. wanted \in Seq(Configs) /\ Len(wanted) \in 1 .. 3
    BY WantedFacts
  <1> HIDE DEF wanted
  <1>5. one.main \in Ids \union {None} /\ last.main \in Ids \union {None}
    <2>1. MaxId \in Nat /\ 3 <= MaxId
      BY SttServicesAssumption
    <2>2. 1 .. Len(wanted) \subseteq Ids
      <3>1. \A n \in 1 .. 3 : 1 .. n \subseteq 1 .. MaxId
        BY <2>1
      <3> QED BY <1>4, <3>1 DEF Ids
    <2>3. 1 \in 1 .. Len(wanted)
      BY <1>4
    <2> QED BY <1>2, <1>3, <2>2, <2>3
  <1>6. /\ Len(F) = 3 /\ F[1].key = "main" /\ F[1].value = 1
        /\ F[2].key = "fallbacks" /\ F[3].key = "shadows"
        /\ \A k \in 1 .. 3 : IsCommit(F[k])
        /\ \E S : F \in Seq(S)
    BY <1>3, <1>5, RoleCommitsFacts
  <1>7. /\ Len(R) = 3 /\ R[1].key = "main" /\ R[1].value = last.main
        /\ R[2].key = "fallbacks" /\ R[3].key = "shadows"
        /\ \A k \in 1 .. 3 : IsCommit(R[k])
        /\ \E S : R \in Seq(S)
    BY <1>5, RoleCommitsFacts
  <1>8. PICK SF : F \in Seq(SF)
    BY <1>6
  <1>9. PICK SR : R \in Seq(SR)
    BY <1>7
  <1> HIDE DEF F, R, Table
  <1> DEFINE SC == {Commit("rows", Table(n)) : n \in 1 .. Len(wanted)}
             S == SC \union SF \union SR
  <1>10. Created \in Seq(S) /\ Len(Created) = Len(wanted) /\ Created # <<>>
         /\ \A n \in 1 .. Len(wanted) : Created[n] = Commit("rows", Table(n))
    <2>1. \A n \in 1 .. Len(wanted) : Created[n] \in SC
      OBVIOUS
    <2>2. Created \in [1 .. Len(wanted) -> SC]
      BY <2>1
    <2>3. Created \in Seq(S) /\ Len(Created) = Len(wanted)
      BY <1>4, <2>2
    <2> QED BY <1>4, <2>3, EmptySeq
  <1>11. F \in Seq(S) /\ R \in Seq(S) /\ Created[1] \in S
    BY <1>4, <1>8, <1>9, <1>10
  <1> HIDE DEF Created, S
  <1>12. /\ Tail(Created) \in Seq(S) /\ Len(Tail(Created)) = Len(wanted) - 1
         /\ \A k \in 1 .. Len(wanted) - 1 : Tail(Created)[k] = Created[k + 1]
    BY <1>10, TailFacts
  <1> DEFINE A == <<Created[1]>> \o F
             B == A \o Tail(Created)
  <1>13. /\ A \in Seq(S) /\ Len(A) = 4 /\ A[1] = Created[1]
         /\ \A k \in 1 .. 3 : A[k + 1] = F[k]
    <2>1. /\ A \in Seq(S) /\ Len(A) = Len(F) + 1 /\ A[1] = Created[1]
          /\ \A k \in 1 .. Len(F) : A[k + 1] = F[k]
      BY <1>11, ConsFacts
    <2> QED BY <1>6, <2>1
  <1> HIDE DEF A
  <1>14. /\ B \in Seq(S) /\ Len(B) = Len(wanted) + 3
         /\ \A k \in 1 .. Len(wanted) + 3 :
              B[k] = IF k <= 4 THEN A[k] ELSE Tail(Created)[k - 4]
    <2>1. /\ B \in Seq(S) /\ Len(B) = Len(A) + Len(Tail(Created))
          /\ \A k \in 1 .. Len(A) + Len(Tail(Created)) :
               B[k] = IF k <= Len(A) THEN A[k] ELSE Tail(Created)[k - Len(A)]
      BY <1>12, <1>13, ConcatProperties
    <2> HIDE DEF B
    <2> QED BY <1>4, <1>12, <1>13, <2>1
  <1>15. all = B \o R
    BY DEF A
  <1> HIDE DEF B, all
  <1>16. /\ all \in Seq(S) /\ Len(all) = Len(wanted) + 6
         /\ \A k \in 1 .. Len(wanted) + 6 :
              all[k] = IF k <= Len(wanted) + 3 THEN B[k] ELSE R[k - (Len(wanted) + 3)]
    <2>1. /\ all \in Seq(S) /\ Len(all) = Len(B) + Len(R)
          /\ \A k \in 1 .. Len(B) + Len(R) :
               all[k] = IF k <= Len(B) THEN B[k] ELSE R[k - Len(B)]
      BY <1>11, <1>14, <1>15, ConcatProperties
    <2> QED BY <1>4, <1>7, <1>14, <2>1
  <1>17. \A k \in 1 .. 4 : all[k] = A[k]
    <2>1. \A n \in 1 .. 3 : \A k \in 1 .. 4 :
            k \in 1 .. n + 6 /\ k \in 1 .. n + 3 /\ k <= n + 3 /\ k <= 4
      OBVIOUS
    <2>2. \A k \in 1 .. 4 :
            /\ k \in 1 .. Len(wanted) + 6 /\ k \in 1 .. Len(wanted) + 3
            /\ k <= Len(wanted) + 3 /\ k <= 4
      BY <1>4, <2>1
    <2> QED BY <1>14, <1>16, <2>2
  <1>18. all[1] = Commit("rows", Table(1))
    BY <1>4, <1>10, <1>13, <1>17
  <1>19. all[2] = F[1] /\ all[3] = F[2] /\ all[4] = F[3]
    <2>1. A[1 + 1] = F[1] /\ A[2 + 1] = F[2] /\ A[3 + 1] = F[3]
      BY <1>13
    <2> QED BY <1>17, <2>1
  <1>20. ASSUME NEW n \in 2 .. Len(wanted)
         PROVE  all[n + 3] = Commit("rows", Table(n))
    <2>1. n + 3 \in 1 .. Len(wanted) + 3 /\ n + 3 > 4 /\ n - 1 \in 1 .. Len(wanted) - 1
      BY <1>4
    <2>2. all[n + 3] = Tail(Created)[n - 1]
      <3>1. n + 3 \in 1 .. Len(wanted) + 6 /\ n + 3 <= Len(wanted) + 3
            /\ ~(n + 3 <= 4) /\ (n + 3) - 4 = n - 1
        BY <1>4, <2>1
      <3> QED BY <1>14, <1>16, <2>1, <3>1
    <2>3. Tail(Created)[n - 1] = Created[n]
      BY <1>4, <1>12, <2>1
    <2> QED BY <1>4, <1>10, <2>2, <2>3
  <1>21. /\ all[Len(wanted) + 4] = R[1] /\ all[Len(wanted) + 5] = R[2]
         /\ all[Len(wanted) + 6] = R[3]
    BY <1>4, <1>16
  <1>22. \A k \in {2, 3, 4, Len(wanted) + 4, Len(wanted) + 5, Len(wanted) + 6} :
            IsCommit(all[k])
    BY <1>6, <1>7, <1>19, <1>21
  <1>23. /\ MigrateCommits(l) = all
         /\ last.main \in 1 .. Len(wanted) \union {None}
         /\ Len(all) = Len(wanted) + 6
         /\ all[1] = Commit("rows", Table(1))
         /\ all[2].key = "main" /\ all[2].value = 1
         /\ all[3].key = "fallbacks" /\ all[4].key = "shadows"
         /\ \A n \in 2 .. Len(wanted) : all[n + 3] = Commit("rows", Table(n))
         /\ all[Len(wanted) + 4].key = "main"
         /\ all[Len(wanted) + 4].value = last.main
         /\ all[Len(wanted) + 5].key = "fallbacks"
         /\ all[Len(wanted) + 6].key = "shadows"
         /\ \A k \in {2, 3, 4, Len(wanted) + 4, Len(wanted) + 5, Len(wanted) + 6} :
              IsCommit(all[k])
    BY <1>1, <1>2, <1>6, <1>7, <1>16, <1>18, <1>19, <1>20, <1>21, <1>22
  <1> QED BY <1>16, <1>23 DEF wanted, Table

\* Settings that name no service leave the roles empty.
LEMMA MigrateNothing ==
  ASSUME NEW l, Wanted(l) = <<>>
  PROVE  \E r : r.main = None /\ MigrateCommits(l) = RoleCommits(r)
  <1> DEFINE wanted == Wanted(l)
             Id(c) == IF c \in Wyoming THEN CHOOSE i \in DOMAIN wanted : wanted[i] = c
                      ELSE Len(wanted)
             Fallback == IF l.fallback = NoService THEN <<>> ELSE <<Id(l.fallback)>>
             Shadow == IF l.shadow = NoService THEN <<>> ELSE <<Id(l.shadow)>>
             last == Cleaned([main |-> IF l.main = NoService THEN None ELSE 1,
                              fallbacks |-> Fallback \o IF l.rescues THEN Shadow ELSE <<>>,
                              shadows |-> Shadow], 1 .. Len(wanted))
  <1>1. MigrateCommits(l) = RoleCommits(last)
    BY DEF MigrateCommits
  <1>2. last.main \in 1 .. Len(wanted) \union {None}
    BY CleanedMain
  <1> HIDE DEF last
  <1>3. 1 .. Len(wanted) = {}
    BY EmptySeq
  <1> QED BY <1>1, <1>2, <1>3

\* The tables of a migration grow service by service.
LEMMA TableFacts ==
  ASSUME NEW w \in Seq(Configs), Len(w) \in 1 .. 3, NEW m \in 1 .. Len(w)
  PROVE  LET table == [i \in Ids |-> IF i <= m THEN w[i] ELSE NoService]
         IN table \in Tables /\ Live(table) = 1 .. m
  <1> DEFINE table == [i \in Ids |-> IF i <= m THEN w[i] ELSE NoService]
  <1>1. \A n \in 1 .. 3 : 1 .. n \subseteq 1 .. MaxId
    BY SttServicesAssumption
  <1>2. 1 .. m \subseteq Ids /\ \A i \in 1 .. m : w[i] \in Configs
    <2>1. m \in 1 .. 3
      <3>1. \A n \in 1 .. 3 : 1 .. n \subseteq 1 .. 3
        OBVIOUS
      <3> QED BY <3>1
    <2>2. \A i \in 1 .. m : i \in 1 .. Len(w)
      OBVIOUS
    <2>3. \A i \in 1 .. Len(w) : w[i] \in Configs
      OBVIOUS
    <2> QED BY <1>1, <2>1, <2>2, <2>3 DEF Ids
  <1>3. \A i \in Ids : i <= m <=> i \in 1 .. m
    BY SttServicesAssumption DEF Ids
  <1>4. \A i \in Ids : table[i] = IF i \in 1 .. m THEN w[i] ELSE NoService
    BY <1>3
  <1>5. table \in Tables
    BY <1>2, <1>3 DEF Tables
  <1> HIDE DEF table
  <1>6. Live(table) = 1 .. m
    BY <1>2, <1>4, SttServicesAssumption DEF Live
  <1> QED BY <1>5, <1>6 DEF table

LEMMA MigrateKeepsRoles ==
  ASSUME ServicesIInv, op = Down, ~IsConfigured, NEW l \in Legacies,
         StartWith("migrate", {"services", "roles"}, MigrateCommits(l)), torn' = torn
  PROVE  ServicesIInv'
  <1>1. /\ ServicesTyped
        /\ Live(rows) = {} /\ disk.main = Absent
    BY DEF ServicesIInv, IsConfigured
  <1>2. CASE Wanted(l) = <<>>
    <2>1. PICK r : r.main = None /\ MigrateCommits(l) = RoleCommits(r)
      BY <1>2, MigrateNothing
    <2>2. StartWith("migrate", {"services", "roles"}, RoleCommits(r))
      BY <2>1
    <2> QED BY <1>1, <2>1, <2>2, RolesAlone DEF Names
  <1>3. CASE Wanted(l) # <<>>
    <2> DEFINE w == Wanted(l)
               n == Len(w)
               Table(m) == [i \in Ids |-> IF i <= m THEN w[i] ELSE NoService]
    <2>1. w \in Seq(Configs) /\ n \in 1 .. 3
      BY <1>3, WantedFacts
    <2>2. \E S, all, final :
            /\ all \in Seq(S) /\ MigrateCommits(l) = all
            /\ final.main \in 1 .. n \union {None}
            /\ Len(all) = n + 6
            /\ all[1] = Commit("rows", Table(1))
            /\ all[2].key = "main" /\ all[2].value = 1
            /\ all[3].key = "fallbacks" /\ all[4].key = "shadows"
            /\ \A m \in 2 .. n : all[m + 3] = Commit("rows", Table(m))
            /\ all[n + 4].key = "main"
            /\ all[n + 4].value = final.main
            /\ all[n + 5].key = "fallbacks"
            /\ all[n + 6].key = "shadows"
            /\ \A k \in {2, 3, 4, n + 4, n + 5, n + 6} : IsCommit(all[k])
      BY <1>3, MigrateCommitsFacts
    <2>3. \A m \in 1 .. n : Table(m) \in Tables /\ Live(Table(m)) = 1 .. m
      <3>1. \A m \in 1 .. n : [i \in Ids |-> IF i <= m THEN w[i] ELSE NoService] \in Tables
        BY <2>1, TableFacts
      <3>2. \A m \in 1 .. n :
              Live([i \in Ids |-> IF i <= m THEN w[i] ELSE NoService]) = 1 .. m
        BY <2>1, TableFacts
      <3> QED BY <3>1, <3>2
    <2> HIDE DEF w, n, Table
    <2>4. PICK S, all, final :
            /\ all \in Seq(S) /\ MigrateCommits(l) = all
            /\ final.main \in 1 .. n \union {None}
            /\ Len(all) = n + 6
            /\ all[1] = Commit("rows", Table(1))
            /\ all[2].key = "main" /\ all[2].value = 1
            /\ all[3].key = "fallbacks" /\ all[4].key = "shadows"
            /\ \A m \in 2 .. n : all[m + 3] = Commit("rows", Table(m))
            /\ all[n + 4].key = "main"
            /\ all[n + 4].value = final.main
            /\ all[n + 5].key = "fallbacks"
            /\ all[n + 6].key = "shadows"
            /\ \A k \in {2, 3, 4, n + 4, n + 5, n + 6} : IsCommit(all[k])
      BY <2>2
    <2>5. \A m \in 1 .. n : /\ IsCommit(Commit("rows", Table(m)))
                            /\ Commit("rows", Table(m)).key = "rows"
                            /\ Commit("rows", Table(m)).value = Table(m)
      BY <2>3 DEF IsCommit, Commit
    <2>6. \A k \in 1 .. n + 6 :
            \/ k \in {1, 2, 3, 4, n + 4, n + 5, n + 6}
            \/ k - 3 \in 2 .. n /\ all[k] = Commit("rows", Table(k - 3))
      BY <2>1, <2>4
    <2>7. \A k \in 1 .. n + 6 : IsCommit(all[k])
      BY <2>1, <2>4, <2>5, <2>6
    <2>8. /\ ServicesTyped' /\ Apply(all[1]) /\ IsCommit(all[1])
          /\ op'.name = "migrate" /\ op'.drops = {"services", "roles"}
          /\ Len(todo') = n + 5 /\ todo' # <<>>
          /\ \A k \in 1 .. n + 5 : todo'[k] = all[k + 1]
      <3>1. all # <<>>
        BY <2>1, <2>4, EmptySeq
      <3>2. StartWith("migrate", {"services", "roles"}, all)
        BY <2>4
      <3>3. /\ ServicesTyped' /\ Apply(all[1]) /\ IsCommit(all[1])
            /\ op'.name = "migrate" /\ op'.drops = {"services", "roles"}
            /\ Len(todo') = Len(all) - 1 /\ ((todo' = <<>>) <=> (Len(all) = 1))
            /\ \A k \in 1 .. Len(todo') : todo'[k] = all[k + 1]
        BY <1>1, <2>4, <2>7, <3>1, <3>2, StartFacts DEF Names
      <3> QED BY <2>1, <2>4, <3>3
    <2>9. rows' = Table(1) /\ disk' = disk
      BY <1>1, <2>1, <2>4, <2>5, <2>8, ApplyFacts
    <2>10. op' \notin {Idle, Down}
      BY <2>8 DEF Idle, Down
    <2>11. AtRest' /\ MemoryIsDisk'
      BY <2>8, <2>10 DEF AtRest, MemoryIsDisk
    \* What is left: the main, a table for each further service, the roles.
    <2>12. \A k \in 1 .. n + 5 :
             /\ todo'[k].key = "rows" =>
                  k - 2 \in 2 .. n /\ todo'[k].value = Table(k - 2)
             /\ todo'[k].key = "main" =>
                  \/ k = 1 /\ todo'[k].value = 1
                  \/ k = n + 3 /\ todo'[k].value \in 1 .. n \union {None}
      <3>1. SUFFICES ASSUME NEW k \in 1 .. n + 5
                     PROVE  /\ todo'[k].key = "rows" =>
                                 k - 2 \in 2 .. n /\ todo'[k].value = Table(k - 2)
                            /\ todo'[k].key = "main" =>
                                 \/ k = 1 /\ todo'[k].value = 1
                                 \/ k = n + 3 /\ todo'[k].value \in 1 .. n \union {None}
        OBVIOUS
      <3>2. k + 1 \in 1 .. n + 6 /\ todo'[k] = all[k + 1] /\ (k + 1) - 3 = k - 2 /\ k + 1 # 1
        BY <2>1, <2>8
      <3>3. CASE k - 2 \in 2 .. n /\ all[k + 1] = Commit("rows", Table(k - 2))
        <4>1. k - 2 \in 1 .. n
          BY <2>1, <3>3
        <4> QED BY <2>5, <3>2, <3>3, <4>1
      <3>4. CASE k + 1 \in {2, 3, 4, n + 4, n + 5, n + 6}
        <4>1. k \in {1, 2, 3, n + 3, n + 4, n + 5}
          BY <2>1, <3>4
        <4>2. k = 1 => todo'[k].key = "main" /\ todo'[k].value = 1
          BY <2>4, <3>2
        <4>3. k \in {2, 3, n + 4, n + 5} => todo'[k].key \in {"fallbacks", "shadows"}
          BY <2>1, <2>4, <3>2
        <4>4. k = n + 3 => todo'[k].key = "main" /\ todo'[k].value = final.main
          BY <2>1, <2>4, <3>2
        <4> QED BY <2>4, <4>1, <4>2, <4>3, <4>4
      <3> QED BY <2>6, <3>2, <3>3, <3>4
    <2>13. ASSUME NEW k \in 1 .. n + 5, todo'[k].key = "rows"
           PROVE  /\ Live(rows') \subseteq Live(todo'[k].value)
                  /\ \A j \in 1 .. k - 1 : todo'[j].key = "rows" =>
                       Live(todo'[j].value) \subseteq Live(todo'[k].value)
      <3>1. k - 2 \in 1 .. n /\ Live(todo'[k].value) = 1 .. k - 2
        <4>1. k - 2 \in 2 .. n /\ todo'[k].value = Table(k - 2)
          BY <2>12, <2>13
        <4>2. k - 2 \in 1 .. n
          BY <2>1, <4>1
        <4> QED BY <2>3, <4>1, <4>2
      <3>2. Live(rows') = 1 .. 1
        BY <2>1, <2>3, <2>9
      <3>3. ASSUME NEW j \in 1 .. k - 1, todo'[j].key = "rows"
            PROVE  Live(todo'[j].value) \subseteq Live(todo'[k].value)
        <4>1. j \in 1 .. n + 5
          BY <2>1
        <4>2. j - 2 \in 2 .. n /\ todo'[j].value = Table(j - 2)
          BY <2>12, <3>3, <4>1
        <4>3. j - 2 \in 1 .. n
          BY <2>1, <4>2
        <4>4. Live(todo'[j].value) = 1 .. j - 2
          BY <2>3, <4>2, <4>3
        <4> QED BY <3>1, <4>3, <4>4
      <3> QED BY <3>1, <3>2, <3>3
    <2>14. ASSUME NEW k \in 1 .. n + 5, todo'[k].key = "main"
           PROVE  \/ todo'[k].value \in Live(rows') \union {None}
                  \/ \E j \in 1 .. k - 1 :
                       todo'[j].key = "rows" /\ todo'[k].value \in Live(todo'[j].value)
      <3>1. Live(rows') = 1 .. 1
        BY <2>1, <2>3, <2>9
      <3>2. CASE k = 1 /\ todo'[k].value = 1
        BY <3>1, <3>2
      <3>3. CASE k = n + 3 /\ todo'[k].value \in 1 .. n \union {None}
        <4>1. CASE n = 1
          BY <3>1, <3>3, <4>1
        <4>2. CASE n # 1
          <5>1. n \in 2 .. n /\ n + 2 \in 1 .. n + 5 /\ n + 2 \in 1 .. k - 1
            BY <2>1, <3>3, <4>2
          <5>2. todo'[n + 2] = all[n + 3]
            BY <2>1, <2>8, <5>1
          <5>3. todo'[n + 2].key = "rows" /\ Live(todo'[n + 2].value) = 1 .. n
            BY <2>1, <2>3, <2>4, <2>5, <5>1, <5>2
          <5> QED BY <3>3, <5>1, <5>3
        <4> QED BY <4>1, <4>2
      <3> QED BY <2>12, <2>14, <3>2, <3>3
    <2>15. MainAfterItsService(todo, rows)'
      BY <2>8, <2>13, <2>14 DEF MainAfterItsService
    <2>16. Roled'
      BY <1>1, <2>8, <2>9, <2>15 DEF Roled, MainHolds
    <2> QED BY <2>8, <2>11, <2>16 DEF ServicesIInv
  <1> QED BY <1>2, <1>3

LEMMA BootKeepsRoles ==
  ASSUME ServicesIInv, Boot
  PROVE  ServicesIInv'
  <1>1. /\ op = Down /\ torn' = torn
        /\ services' = rows /\ roles' = ReadRoles(disk)
        /\ upstream' = UpstreamUri(rows, ReadRoles(disk).main)
    BY DEF Boot
  <1>2. CASE IsConfigured
    <2>1. op' = Idle /\ rows' = rows /\ disk' = disk /\ todo' = todo
      BY <1>2 DEF Boot
    <2>2. todo = <<>>
      BY <1>1 DEF ServicesIInv, AtRest
    <2>3. op'.name = "idle"
      BY <2>1 DEF Idle
    <2>4. ServicesTyped'
      BY <1>1, <2>1, <2>3 DEF ServicesIInv, ServicesTyped, Names
    <2>5. AtRest' /\ MemoryIsDisk'
      BY <1>1, <2>1, <2>2, <2>3 DEF AtRest, MemoryIsDisk
    <2>6. Roled
      BY DEF ServicesIInv
    <2>7. op.name # "restore"
      BY <1>1 DEF Down
    <2>8. ~torn => MainHolds
      BY <2>6, <2>7 DEF Roled
    <2>9. Roled'
      BY <1>1, <2>1, <2>3, <2>6, <2>7, <2>8 DEF Roled, MainWritten, MainHolds
    <2> QED BY <2>4, <2>5, <2>9 DEF ServicesIInv
  <1>3. CASE ~IsConfigured
    BY <1>1, <1>3, MigrateKeepsRoles DEF Boot
  <1> QED BY <1>2, <1>3

LEMMA FinishKeepsRoles ==
  ASSUME ServicesIInv, Finish
  PROVE  ServicesIInv'
  <1>1. ServicesTyped /\ AtRest /\ Roled
    BY DEF ServicesIInv
  <1>2. /\ op \notin {Idle, Down} /\ todo = <<>> /\ op' = Idle
        /\ services' = IF "services" \in op.drops THEN rows ELSE services
        /\ roles' = IF "roles" \in op.drops THEN ReadRoles(disk) ELSE roles
        /\ upstream' = UpstreamUri(services', roles'.main)
        /\ torn' = (torn /\ "roles" \notin op.drops)
        /\ rows' = rows /\ disk' = disk /\ todo' = todo
    BY DEF Finish
  <1>3. op'.name = "idle"
    BY <1>2 DEF Idle
  <1>4. ServicesTyped'
    BY <1>1, <1>2, <1>3 DEF ServicesTyped, Names
  <1>5. services' = rows /\ roles' = ReadRoles(disk)
    BY <1>1, <1>2 DEF AtRest
  <1>6. AtRest' /\ MemoryIsDisk'
    BY <1>2, <1>3, <1>5 DEF AtRest, MemoryIsDisk
  <1>7. ~torn' => MainHolds
    <2>1. CASE op.name = "restore"
      <3>1. PICK a \in Archives : Restoring(a)
        BY <1>1, <2>1 DEF Roled
      <3> QED BY <1>2, <3>1, SttServicesAssumption DEF Restoring, MainHolds
    <2>2. CASE op.name # "restore"
      BY <1>1, <1>2, <2>2 DEF Roled, MainWritten
    <2> QED BY <2>1, <2>2
  <1>8. MainAfterItsService(todo, rows)'
    BY <1>2, EmptySeq DEF MainAfterItsService
  <1>9. Roled'
    BY <1>2, <1>3, <1>7, <1>8 DEF Roled, MainWritten, MainHolds, Idle
  <1> QED BY <1>4, <1>6, <1>9 DEF ServicesIInv

LEMMA CrashKeepsRoles ==
  ASSUME ServicesIInv, Crash
  PROVE  ServicesIInv'
  <1>1. ServicesTyped /\ AtRest /\ Roled
    BY DEF ServicesIInv
  <1>2. /\ op' = Down /\ todo' = <<>> /\ rows' = rows /\ disk' = disk
        /\ torn' = IF todo = <<>> THEN torn /\ "roles" \notin op.drops
                   ELSE op.name = "restore" \/ (torn /\ Head(todo).key = "main")
    BY DEF Crash
  <1>3. op'.name = "down" /\ Down # Idle
    BY <1>2 DEF Down, Idle
  <1>4. ServicesTyped'
    <2>1. Len(todo') = 0 /\ \E S : todo' \in Seq(S)
      BY <1>2, EmptySeq
    <2>2. torn' \in BOOLEAN
      BY <1>1, <1>2 DEF ServicesTyped
    <2> QED BY <1>1, <1>2, <1>3, <2>1, <2>2 DEF ServicesTyped, Names
  <1>5. AtRest' /\ MemoryIsDisk'
    BY <1>2, <1>3 DEF AtRest, MemoryIsDisk
  <1>6. ~torn' => MainHolds
    <2>1. CASE op.name = "restore"
      <3>1. PICK a \in Archives : Restoring(a)
        BY <1>1, <2>1 DEF Roled
      <3> QED BY <1>2, <2>1, <3>1, SttServicesAssumption DEF Restoring, MainHolds
    <2>2. CASE op.name # "restore" /\ todo = <<>>
      <3>1. CASE op \in {Idle, Down}
        <4>1. op.drops = {}
          BY <3>1 DEF Idle, Down
        <4>2. torn' = torn
          BY <1>1, <1>2, <2>2, <4>1 DEF ServicesTyped
        <4> QED BY <1>1, <2>2, <4>2 DEF Roled
      <3>2. CASE op \notin {Idle, Down}
        BY <1>1, <1>2, <2>2, <3>2 DEF Roled, MainWritten, ServicesTyped
      <3> QED BY <3>1, <3>2
    <2>3. CASE op.name # "restore" /\ todo # <<>>
      <3>1. Head(todo) = todo[1]
        OBVIOUS
      <3>2. op \notin {Idle, Down} /\ "roles" \in op.drops
        BY <1>1, <2>3 DEF AtRest
      <3> QED BY <1>1, <1>2, <2>3, <3>1, <3>2 DEF Roled, MainWritten
    <2> QED BY <2>1, <2>2, <2>3
  <1>7. MainAfterItsService(todo, rows)'
    BY <1>2, EmptySeq DEF MainAfterItsService
  <1>8. Roled'
    BY <1>2, <1>3, <1>6, <1>7 DEF Roled, MainWritten, MainHolds, Down
  <1> QED BY <1>4, <1>5, <1>8 DEF ServicesIInv

LEMMA ServicesInitOK == ServicesInit => ServicesIInv
  <1> SUFFICES ASSUME ServicesInit PROVE ServicesIInv
    OBVIOUS
  <1>1. /\ op = Down /\ op.name = "down" /\ todo = <<>> /\ torn = FALSE /\ Down # Idle
        /\ disk.main = Absent
    BY DEF ServicesInit, Down, Idle
  <1>2. Len(todo) = 0 /\ \E S : todo \in Seq(S)
    BY <1>1, EmptySeq
  <1>3. ServicesTyped
    <2>1. rows \in Tables /\ DOMAIN disk = {"main", "fallbacks", "shadows"}
      BY DEF ServicesInit, Tables
    <2>2. \A k \in 1 .. Len(todo) : IsCommit(todo[k])
      BY <1>2
    <2> QED BY <1>1, <1>2, <2>1, <2>2 DEF ServicesTyped, Names
  <1>4. AtRest /\ MemoryIsDisk
    BY <1>1 DEF AtRest, MemoryIsDisk
  <1>5. MainAfterItsService(todo, rows)
    BY <1>2 DEF MainAfterItsService
  <1>6. Roled
    BY <1>1, <1>5 DEF Roled, MainHolds
  <1> QED BY <1>3, <1>4, <1>6 DEF ServicesIInv

\* Every commit, every start and end of an operation and every crash keeps it.
THEOREM RolesInductive == ServicesSpec => []ServicesIInv
  <1>1. ServicesInit => ServicesIInv
    BY ServicesInitOK
  <1>2. ServicesIInv /\ [ServicesNext]_servicesVars => ServicesIInv'
    <2> SUFFICES ASSUME ServicesIInv, [ServicesNext]_servicesVars
                 PROVE  ServicesIInv'
      OBVIOUS
    <2>1. ASSUME NEW conf \in Configs, create(conf) PROVE ServicesIInv'
      BY <2>1, CreateKeepsRoles
    <2>2. ASSUME NEW i \in Ids, NEW conf \in Configs, update(i, conf) PROVE ServicesIInv'
      BY <2>2, UpdateKeepsRoles
    <2>3. ASSUME NEW i \in Ids, delete(i) PROVE ServicesIInv'
      BY <2>3, DeleteKeepsRoles
    <2>4. ASSUME NEW r \in Requested, set_roles(r) PROVE ServicesIInv'
      BY <2>4, SetRolesKeepsRoles
    <2>5. ASSUME NEW a \in Archives, restore(a) PROVE ServicesIInv'
      BY <2>5, RestoreKeepsRoles
    <2>6. CASE UNCHANGED servicesVars
      BY <2>6 DEF servicesVars, ServicesIInv, ServicesTyped, AtRest, MemoryIsDisk,
                  Roled, MainAfterItsService, Restoring, MainWritten, MainHolds
    <2> QED BY <2>1, <2>2, <2>3, <2>4, <2>5, <2>6, BootKeepsRoles, NextCommitKeepsRoles,
               FinishKeepsRoles, CrashKeepsRoles DEF ServicesNext
  <1> QED BY <1>1, <1>2, PTL DEF ServicesSpec

\* MainIsAService: whatever commit a crash cuts an operation short at, the main
\* on disk is a service or there is none, unless it was a restore.
THEOREM MainIsKept == ServicesSpec => []MainIsAService
  <1>1. ServicesIInv => MainIsAService
    BY DEF ServicesIInv, Roled, MainHolds, MainIsAService
  <1> QED BY <1>1, RolesInductive, PTL

\* MemoryIsDisk: between operations no cache is stale, and the languages are
\* asked for from the server that the roles on disk imply.
THEOREM MemoryIsKept == ServicesSpec => []MemoryIsDisk
  <1>1. ServicesIInv => MemoryIsDisk
    BY DEF ServicesIInv
  <1> QED BY <1>1, RolesInductive, PTL
-----------------------------------------------------------------------------
(* The languages of the upstream.                                          *)

\* The lock serves one at a time, and keeps in its queue exactly the requests
\* that wait, each once.
InLine ==
  /\ \A r, q \in Requests : pc[r] = "querying" /\ pc[q] = "querying" => r = q
  /\ \A r \in Requests : pc[r] = "queued" <=> \E i \in 1 .. Len(queue) : queue[i] = r
  /\ \A i, j \in 1 .. Len(queue) : queue[i] = queue[j] => i = j

\* Who queries has noted whom it asked.
AskedByQuery == \A r \in Requests : pc[r] = "querying" <=> asked[r] # Nothing

InfoIInv == InfoTypeOK /\ InLine /\ AskedByQuery

LEMMA JoinsQueue ==
  ASSUME InfoIInv, NEW r \in Requests, pc[r] = "idle",
         pc' = [pc EXCEPT ![r] = "queued"], queue' = Append(queue, r)
  PROVE  /\ pc' \in [Requests -> {"idle", "queued", "querying"}]
         /\ queue' \in Seq(Requests) /\ InLine'
  <1>1. /\ pc \in [Requests -> {"idle", "queued", "querying"}]
        /\ queue \in Seq(Requests) /\ Len(queue) \in Nat
    BY DEF InfoIInv, InfoTypeOK
  <1>2. /\ queue' \in Seq(Requests) /\ Len(queue') = Len(queue) + 1
        /\ queue'[Len(queue) + 1] = r
        /\ \A i \in 1 .. Len(queue) : queue'[i] = queue[i]
    BY <1>1
  <1>3. /\ pc' \in [Requests -> {"idle", "queued", "querying"}]
        /\ \A q \in Requests : pc'[q] = IF q = r THEN "queued" ELSE pc[q]
    BY <1>1
  <1>4. \A i \in 1 .. Len(queue) : queue[i] # r
    BY DEF InfoIInv, InLine
  <1>5. \A i \in 1 .. Len(queue') : i \in 1 .. Len(queue) \/ i = Len(queue) + 1
    BY <1>1, <1>2
  <1>6. \A i \in 1 .. Len(queue) : i \in 1 .. Len(queue')
    BY <1>1, <1>2
  <1>7. Len(queue) + 1 \in 1 .. Len(queue')
    BY <1>1, <1>2
  <1>8. InLine'
    <2>1. \A q \in Requests :
            pc'[q] = "queued" <=> \E i \in 1 .. Len(queue') : queue'[i] = q
      BY <1>2, <1>3, <1>5, <1>6, <1>7 DEF InfoIInv, InLine
    <2>2. \A i, j \in 1 .. Len(queue') : queue'[i] = queue'[j] => i = j
      BY <1>2, <1>4, <1>5 DEF InfoIInv, InLine
    <2> QED BY <1>3, <2>1, <2>2 DEF InfoIInv, InLine
  <1> QED BY <1>2, <1>3, <1>8

LEMMA LeavesFront ==
  ASSUME InfoIInv, queue # <<>>, NEW r, r = Head(queue), NEW to \in {"idle", "querying"},
         to = "querying" => LockFree,
         pc' = [pc EXCEPT ![r] = to], queue' = Tail(queue)
  PROVE  /\ pc' \in [Requests -> {"idle", "queued", "querying"}]
         /\ queue' \in Seq(Requests) /\ InLine' /\ r \in Requests /\ pc[r] = "queued"
  <1>1. /\ pc \in [Requests -> {"idle", "queued", "querying"}]
        /\ queue \in Seq(Requests)
    BY DEF InfoIInv, InfoTypeOK
  <1>2. /\ r = queue[1] /\ queue' \in Seq(Requests)
        /\ Len(queue) \in Nat \ {0} /\ Len(queue') = Len(queue) - 1
        /\ \A k \in 1 .. Len(queue) - 1 : queue'[k] = queue[k + 1]
    BY <1>1, TailFacts
  <1>3. r \in Requests /\ 1 \in 1 .. Len(queue)
    BY <1>1, <1>2
  <1>4. pc[r] = "queued"
    BY <1>2, <1>3 DEF InfoIInv, InLine
  <1>5. /\ pc' \in [Requests -> {"idle", "queued", "querying"}]
        /\ \A q \in Requests : pc'[q] = IF q = r THEN to ELSE pc[q]
    BY <1>1, <1>3
  <1>6. /\ \A k \in 1 .. Len(queue') : k + 1 \in 1 .. Len(queue) /\ k + 1 # 1
        /\ \A k \in 1 .. Len(queue') : queue'[k] = queue[k + 1]
        /\ \A i \in 1 .. Len(queue) : i = 1 \/ (i - 1 \in 1 .. Len(queue') /\ i - 1 + 1 = i)
        /\ \A k, l \in 1 .. Len(queue') : k + 1 = l + 1 => k = l
    BY <1>2
  <1>7. InLine'
    <2>1. \A q \in Requests :
            pc'[q] = "queued" <=> \E i \in 1 .. Len(queue') : queue'[i] = q
      <3> SUFFICES ASSUME NEW q \in Requests
                   PROVE  pc'[q] = "queued" <=> \E i \in 1 .. Len(queue') : queue'[i] = q
        OBVIOUS
      <3>1. CASE q = r
        <4>1. \A i \in 1 .. Len(queue) : queue[i] = r => i = 1
          BY <1>2, <1>3 DEF InfoIInv, InLine
        <4> QED BY <1>5, <1>6, <3>1, <4>1
      <3>2. CASE q # r
        <4>1. pc'[q] = "queued" <=> \E i \in 1 .. Len(queue) : queue[i] = q
          BY <1>5, <3>2 DEF InfoIInv, InLine
        <4>2. ASSUME NEW i \in 1 .. Len(queue), queue[i] = q
              PROVE  \E k \in 1 .. Len(queue') : queue'[k] = q
          <5>1. i - 1 \in 1 .. Len(queue') /\ i - 1 + 1 = i
            BY <1>2, <1>6, <3>2, <4>2
          <5>2. queue'[i - 1] = queue[i]
            BY <1>6, <5>1
          <5> QED BY <4>2, <5>1, <5>2
        <4>3. ASSUME NEW k \in 1 .. Len(queue'), queue'[k] = q
              PROVE  \E i \in 1 .. Len(queue) : queue[i] = q
          BY <1>6, <4>3
        <4> QED BY <4>1, <4>2, <4>3
      <3> QED BY <3>1, <3>2
    <2>2. \A i, j \in 1 .. Len(queue') : queue'[i] = queue'[j] => i = j
      BY <1>6 DEF InfoIInv, InLine
    <2>3. \A q, p \in Requests : pc'[q] = "querying" /\ pc'[p] = "querying" => q = p
      BY <1>5 DEF InfoIInv, InLine, LockFree
    <2> QED BY <2>1, <2>2, <2>3 DEF InLine
  <1> QED BY <1>2, <1>3, <1>4, <1>5, <1>7

\* Edits and the clock touch no request.
LEMMA EditKeepsLine ==
  ASSUME InfoIInv,
         (\E u \in Upstreams : EditUpstream(u)) \/ EditOverride \/ TtlExpires
  PROVE  InfoIInv'
  <1>1. UNCHANGED <<pc, queue, asked, tries>>
    BY DEF EditUpstream, EditOverride, TtlExpires
  <1>2. InfoTypeOK'
    BY <1>1 DEF InfoIInv, InfoTypeOK, EditUpstream, EditOverride, TtlExpires, invalidate
  <1> QED BY <1>1, <1>2 DEF InfoIInv, InLine, AskedByQuery

LEMMA AskKeepsLine ==
  ASSUME InfoIInv, (\E c \in Clients : Describe(c)) \/ PrimeAttempt
  PROVE  InfoIInv'
  <1>1. CASE UNCHANGED <<pc, queue>>
    <2>1. tries' \in 0 .. Attempts /\ UNCHANGED <<uri, override, languages, fresh, asked>>
      <3>1. CASE \E c \in Clients : Describe(c)
        BY <3>1 DEF Describe, InfoIInv, InfoTypeOK
      <3>2. CASE PrimeAttempt
        BY <3>2, InfoCacheAssumption DEF PrimeAttempt, InfoIInv, InfoTypeOK
      <3> QED BY <3>1, <3>2
    <2> QED BY <1>1, <2>1 DEF InfoIInv, InfoTypeOK, InLine, AskedByQuery
  <1>2. CASE ~UNCHANGED <<pc, queue>>
    <2>1. PICK r \in Requests :
            /\ pc[r] = "idle"
            /\ pc' = [pc EXCEPT ![r] = "queued"] /\ queue' = Append(queue, r)
      BY <1>2 DEF Describe, PrimeAttempt, Requests
    <2>2. /\ pc' \in [Requests -> {"idle", "queued", "querying"}]
          /\ queue' \in Seq(Requests) /\ InLine'
      BY <2>1, JoinsQueue
    <2>3. tries' \in 0 .. Attempts /\ UNCHANGED <<uri, override, languages, fresh, asked>>
      BY InfoCacheAssumption DEF Describe, PrimeAttempt, InfoIInv, InfoTypeOK
    <2>4. AskedByQuery'
      BY <2>1, <2>3 DEF AskedByQuery, InfoIInv, InfoTypeOK
    <2> QED BY <2>2, <2>3, <2>4 DEF InfoIInv, InfoTypeOK
  <1> QED BY <1>1, <1>2

LEMMA ServedKeepsLine ==
  ASSUME InfoIInv, NEW r \in Requests, AnsweredMeanwhile(r) \/ StartQuery(r)
  PROVE  InfoIInv'
  <1>1. PICK to \in {"idle", "querying"} :
          /\ pc' = [pc EXCEPT ![r] = to] /\ LockFree
          /\ asked' = IF to = "querying" THEN [asked EXCEPT ![r] = uri] ELSE asked
    BY DEF AnsweredMeanwhile, StartQuery
  <1>2. /\ queue # <<>> /\ r = Head(queue) /\ queue' = Tail(queue)
        /\ UNCHANGED <<uri, override, languages, fresh, tries>>
    BY DEF AnsweredMeanwhile, StartQuery
  <1>3. /\ pc' \in [Requests -> {"idle", "queued", "querying"}]
        /\ queue' \in Seq(Requests) /\ InLine' /\ pc[r] = "queued"
    BY <1>1, <1>2, LeavesFront
  <1>4. /\ pc \in [Requests -> {"idle", "queued", "querying"}]
        /\ asked \in [Requests -> Upstreams \union {Nothing}] /\ uri \in Upstreams
        /\ uri # Nothing
    BY InfoCacheAssumption DEF InfoIInv, InfoTypeOK
  <1>5. asked' \in [Requests -> Upstreams \union {Nothing}] /\ AskedByQuery'
    BY <1>1, <1>3, <1>4 DEF InfoIInv, AskedByQuery
  <1> QED BY <1>2, <1>3, <1>5 DEF InfoIInv, InfoTypeOK

LEMMA ReturnKeepsLine ==
  ASSUME InfoIInv, NEW r \in Requests, QuerySucceeds(r) \/ QueryFails(r)
  PROVE  InfoIInv'
  <1>1. /\ pc[r] = "querying" /\ pc' = [pc EXCEPT ![r] = "idle"]
        /\ asked' = [asked EXCEPT ![r] = Nothing]
        /\ tries' = 0 \/ tries' = tries
        /\ UNCHANGED <<uri, override, queue>>
    BY DEF QuerySucceeds, QueryFails, QueryReturns
  <1>2. /\ pc \in [Requests -> {"idle", "queued", "querying"}]
        /\ asked \in [Requests -> Upstreams \union {Nothing}]
    BY DEF InfoIInv, InfoTypeOK
  <1>3. languages' \in Upstreams \union {Nothing} /\ fresh' \in BOOLEAN
    BY <1>2 DEF QuerySucceeds, QueryFails, InfoIInv, InfoTypeOK
  <1>4. tries' \in 0 .. Attempts
    BY <1>1, InfoCacheAssumption DEF InfoIInv, InfoTypeOK
  <1>5. InfoTypeOK'
    BY <1>1, <1>2, <1>3, <1>4 DEF InfoIInv, InfoTypeOK
  <1>6. InLine' /\ AskedByQuery'
    BY <1>1, <1>2 DEF InfoIInv, InLine, AskedByQuery
  <1> QED BY <1>5, <1>6 DEF InfoIInv

\* The lock's queue holds exactly the requests that wait, each once, and at
\* most one queries at a time, however edits, expiries and failures fall
\* between: no Describe drops out of the line it stands in.
THEOREM NobodyDropsOut == InfoSpec => []InfoIInv
  <1>1. InfoInit => InfoIInv
    <2> SUFFICES ASSUME InfoInit PROVE InfoIInv
      OBVIOUS
    <2>1. queue = <<>> /\ queue \in Seq(Requests) /\ Len(queue) = 0
      BY DEF InfoInit
    <2>2. InfoTypeOK
      <3>1. /\ pc \in [Requests -> {"idle", "queued", "querying"}]
            /\ asked \in [Requests -> Upstreams \union {Nothing}]
        BY DEF InfoInit
      <3>2. tries \in 0 .. Attempts /\ uri \in Upstreams /\ override \in BOOLEAN
        BY InfoCacheAssumption DEF InfoInit
      <3>3. languages = Nothing /\ fresh \in BOOLEAN
        BY DEF InfoInit
      <3> QED BY <2>1, <3>1, <3>2, <3>3 DEF InfoTypeOK
    <2> QED BY <2>1, <2>2 DEF InfoInit, InfoIInv, InLine, AskedByQuery
  <1>2. InfoIInv /\ [InfoNext]_infoVars => InfoIInv'
    <2> SUFFICES ASSUME InfoIInv, [InfoNext]_infoVars PROVE InfoIInv'
      OBVIOUS
    <2>1. CASE UNCHANGED infoVars
      BY <2>1 DEF infoVars, InfoIInv, InfoTypeOK, InLine, AskedByQuery
    <2> QED BY <2>1, EditKeepsLine, AskKeepsLine, ServedKeepsLine, ReturnKeepsLine
            DEF InfoNext, RequestStep
  <1> QED BY <1>1, <1>2, PTL DEF InfoSpec

\* FreshCacheIsNotRefetched: a client that waited for the lock asks the
\* upstream only if nobody before it filled the cache.
THEOREM WaitersUseTheCache == InfoSpec => FreshCacheIsNotRefetched
  <1>1. InfoIInv /\ [InfoNext]_infoVars =>
          [\A c \in Clients :
             pc[c] # "querying" /\ pc'[c] = "querying" => ~CacheValid]_infoVars
    <2> SUFFICES ASSUME InfoIInv, InfoNext, NEW c \in Clients,
                        pc[c] # "querying", pc'[c] = "querying"
                 PROVE  ~CacheValid
      OBVIOUS
    <2>1. c \in Requests /\ c # Prime
      BY InfoCacheAssumption DEF Requests
    <2>2. pc \in [Requests -> {"idle", "queued", "querying"}]
      BY DEF InfoIInv, InfoTypeOK
    <2>3. PICK r \in Requests : StartQuery(r)
      BY <2>1, <2>2 DEF InfoNext, EditUpstream, EditOverride, TtlExpires, Describe,
         PrimeAttempt, RequestStep, AnsweredMeanwhile, QuerySucceeds, QueryFails, QueryReturns
    <2>4. r = c
      BY <2>1, <2>2, <2>3 DEF StartQuery
    <2> QED BY <2>1, <2>3, <2>4 DEF StartQuery
  <1> QED BY <1>1, NobodyDropsOut, PTL DEF InfoSpec, FreshCacheIsNotRefetched
=============================================================================
