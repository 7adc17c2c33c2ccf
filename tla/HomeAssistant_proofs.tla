------------------------ MODULE HomeAssistant_proofs ------------------------
(***************************************************************************)
(* Proofs about the two parts that meet at the MQTT broker: Home           *)
(* Assistant's coordinator and the proxy's client.                         *)
(*                                                                         *)
(* The coordinator, for any number of satellites and recognitions and any  *)
(* threshold of failed polls.  OfflineIsEarned is not inductive: it        *)
(* compares what the code counts with what the history counts.  The        *)
(* strengthening says that the code never counts more than there was, and  *)
(* that nothing is counted before the initial sync is over.                *)
(*                                                                         *)
(* The client, for any prefixes and any number of edits, sessions and      *)
(* messages.  OnlineIsBacked needs to know what an edit that stops the     *)
(* client has told the broker by the time the session is closed,           *)
(* NeverBlind that nobody edits under a running loop without ending it.    *)
(***************************************************************************)
EXTENDS Coordinator, MqttClient, FiniteSetTheorems, SequenceTheorems, TLAPS

USE DEF vars, proxyVars

-----------------------------------------------------------------------------
(* Type correctness.                                                       *)

LEMMA OneMore ==
  ASSUME NEW n \in 0 .. MaxFailures PROVE CountUp(n) \in 0 .. MaxFailures
BY CoordinatorAssumption DEF CountUp

LEMMA NoStatesType == NoStates \in [Satellites -> Utterances \union {None}]
BY DEF NoStates

LEMMA ApplyType ==
  ASSUME TypeOK, NEW m \in Message, Apply(m)
  PROVE  /\ available' \in BOOLEAN /\ heard' \in BOOLEAN /\ refused' \in BOOLEAN
         /\ failures' \in 0 .. MaxFailures /\ silent' \in 0 .. MaxFailures
         /\ states' \in [Satellites -> Utterances \union {None}]
         /\ last_seen' \in Message \union {Nothing}
<1>1. CASE m.satellite = Nowhere \/ m = last_seen
  BY <1>1 DEF Apply, TypeOK
<1>2. CASE ~(m.satellite = Nowhere \/ m = last_seen)
  <2>1. /\ last_seen' = m
        /\ states' = [states EXCEPT ![m.satellite] = m.utterance]
        /\ available' = TRUE /\ failures' = 0 /\ heard' = TRUE
        /\ silent' = 0 /\ refused' = FALSE
    BY <1>2 DEF Apply
  <2>2. m.satellite \in Satellites /\ m.utterance \in Utterances
    BY <1>2 DEF Message, Origins
  <2>3. states' \in [Satellites -> Utterances \union {None}]
    BY <2>1, <2>2 DEF TypeOK
  <2>4. 0 \in 0 .. MaxFailures
    BY CoordinatorAssumption
  <2>. QED
    BY <2>1, <2>3, <2>4
<1>. QED
  BY <1>1, <1>2

LEMMA TypeInit == Init => TypeOK
<1> SUFFICES ASSUME Init PROVE TypeOK
  OBVIOUS
<1>1. mqtt \in Seq(Message)
  BY DEF Init
<1>2. 0 \in 0 .. MaxFailures
  BY CoordinatorAssumption
<1>3. sync \in [at : {"idle", "asked", "answered"},
               rows : [Satellites -> Utterances \union {None}]]
  BY NoStatesType DEF Init, NoSync
<1>4. rows \in [Origins -> Utterances \union {None}]
  BY DEF Init
<1>. QED
  BY <1>1, <1>2, <1>3, <1>4, NoStatesType DEF Init, TypeOK

LEMMA TypeStep == TypeOK /\ [Next]_vars => TypeOK'
<1> SUFFICES ASSUME TypeOK, [Next]_vars PROVE TypeOK'
  OBVIOUS
<1>1. 0 \in 0 .. MaxFailures
  BY CoordinatorAssumption
<1>2. ASSUME NEW s \in Origins, NEW paths \in SUBSET Paths, Recognise(s, paths)
      PROVE  TypeOK'
  <2> DEFINE u == Max({rows[r] : r \in Origins}) + 1
             On(path) == [satellite |-> s, utterance |-> u, path |-> path]
  <2>1. /\ u \in Utterances
        /\ rows' = [rows EXCEPT ![s] = u]
        /\ IF "mqtt" \in paths THEN Published(On("mqtt"))
           ELSE UNCHANGED <<retained, mqtt>>
        /\ IF "bus" \in paths THEN Pushed(On("bus")) ELSE UNCHANGED bus
    BY <1>2 DEF Recognise
  <2>2. On("mqtt") \in Message /\ On("bus") \in Message
    BY <2>1 DEF Message, Paths
  <2> HIDE DEF u, On
  <2>3. retained' \in Message \union {Nothing} /\ mqtt' \in Seq(Message)
    <3>1. Append(mqtt, On("mqtt")) \in Seq(Message)
      BY <2>2, AppendProperties DEF TypeOK
    <3>. QED
      BY <2>1, <2>2, <3>1 DEF Published, TypeOK
  <2>4. bus' \subseteq Message
    BY <2>1, <2>2 DEF Pushed, TypeOK
  <2>5. rows' \in [Origins -> Utterances \union {None}]
    BY <2>1 DEF TypeOK
  <2>. QED
    BY <1>2, <2>3, <2>4, <2>5 DEF Recognise, TypeOK
<1>3. CASE ProxyChanges
  BY <1>3 DEF ProxyChanges, TypeOK
<1>4. CASE async_setup
  <2>1. mqtt' \in Seq(Message)
    <3>1. retained # Nothing => <<retained>> \in Seq(Message)
      BY DEF TypeOK
    <3>. QED
      BY <1>4, <3>1, EmptySeq DEF async_setup
  <2>. QED
    BY <1>1, <1>4, <2>1, NoStatesType DEF async_setup, TypeOK
<1>5. CASE async_shutdown
  BY <1>5, NoStatesType, EmptySeq DEF async_shutdown, TypeOK, NoSync
<1>6. CASE SyncRead
  <2>1. [s \in Satellites |-> rows[s]] \in [Satellites -> Utterances \union {None}]
    BY DEF TypeOK, Origins
  <2>. QED
    BY <1>6, <2>1 DEF SyncRead, TypeOK
<1>7. CASE SyncApplied
  <2>1. states' \in [Satellites -> Utterances \union {None}]
    BY <1>7 DEF SyncApplied, TypeOK
  <2>. QED
    BY <1>1, <1>7, <2>1, NoStatesType DEF SyncApplied, TypeOK, NoSync
<1>8. CASE SyncFails
  BY <1>8, NoStatesType DEF SyncFails, TypeOK, NoSync
<1>9. CASE PollAsks
  BY <1>9 DEF PollAsks, TypeOK
<1>10. CASE PollFails
  <2>1. failures' \in 0 .. MaxFailures /\ silent' \in 0 .. MaxFailures
    BY <1>10, OneMore DEF PollFails, TypeOK
  <2>2. available' \in BOOLEAN
    BY <1>10, Zenon DEF PollFails, TypeOK
  <2>. QED
    BY <1>10, <2>1, <2>2 DEF PollFails, TypeOK
<1>11. CASE PollSucceeds
  BY <1>1, <1>11 DEF PollSucceeds, TypeOK
<1>12. CASE HeardFades
  BY <1>12 DEF HeardFades, TypeOK
<1>13. CASE handle_mqtt_message
  <2>1. Head(mqtt) \in Message /\ Tail(mqtt) \in Seq(Message)
    BY <1>13, HeadTailProperties DEF handle_mqtt_message, TypeOK
  <2>. QED
    BY <1>13, <2>1, ApplyType DEF handle_mqtt_message, TypeOK
<1>14. ASSUME NEW m \in bus, handle_event(m) PROVE TypeOK'
  <2>1. m \in Message
    BY DEF TypeOK
  <2>. QED
    BY <1>14, <2>1, ApplyType DEF handle_event, TypeOK
<1>15. ASSUME NEW m \in bus, fire_speaker_event_fails(m) PROVE TypeOK'
  BY <1>15 DEF fire_speaker_event_fails, TypeOK
<1>16. CASE UNCHANGED vars
  BY <1>16 DEF TypeOK
<1>. QED
  BY <1>2, <1>3, <1>4, <1>5, <1>6, <1>7, <1>8, <1>9, <1>10, <1>11, <1>12, <1>13,
     <1>14, <1>15, <1>16 DEF Next

\* Every variable of the coordinator keeps its type, for any number of
\* satellites and recognitions; no failure is counted beyond its bound.
THEOREM TypeCorrect == Spec => []TypeOK
BY TypeInit, TypeStep, PTL DEF Spec

-----------------------------------------------------------------------------
(* What the code counts is no more than what happened.                     *)

CountedHonestly ==
  /\ failures <= silent
  /\ sync.at # "idle" => failures = 0 /\ poll = "idle"

LEMMA CountUpMonotone ==
  ASSUME NEW m \in 0 .. MaxFailures, NEW n \in 0 .. MaxFailures, m <= n
  PROVE  CountUp(m) <= CountUp(n) /\ n <= CountUp(n)
BY CoordinatorAssumption DEF CountUp

LEMMA CountedStep ==
  TypeOK /\ CountedHonestly /\ [Next]_vars => CountedHonestly'
<1> SUFFICES ASSUME TypeOK, CountedHonestly, [Next]_vars PROVE CountedHonestly'
  OBVIOUS
<1>1. CASE PollFails
  <2>1. failures' <= silent'
    BY <1>1, CountUpMonotone DEF PollFails, TypeOK, CountedHonestly
  <2>. QED
    BY <1>1, <2>1 DEF PollFails, CountedHonestly
<1>2. ASSUME NEW m \in Message, Apply(m), UNCHANGED <<sync, poll>>
      PROVE  CountedHonestly'
  <2>1. CASE m.satellite = Nowhere \/ m = last_seen
    BY <1>2, <2>1 DEF Apply, CountedHonestly
  <2>2. CASE ~(m.satellite = Nowhere \/ m = last_seen)
    BY <1>2, <2>2 DEF Apply, CountedHonestly
  <2>. QED
    BY <2>1, <2>2
<1>3. CASE handle_mqtt_message
  BY <1>2, <1>3, HeadTailProperties DEF handle_mqtt_message, TypeOK
<1>4. ASSUME NEW m \in bus, handle_event(m) PROVE CountedHonestly'
  BY <1>2, <1>4 DEF handle_event, TypeOK
<1>5. CASE async_setup \/ async_shutdown
  BY <1>5 DEF async_setup, async_shutdown, NoSync, CountedHonestly
<1>6. CASE SyncRead \/ SyncApplied \/ SyncFails
  BY <1>6 DEF SyncRead, SyncApplied, SyncFails, NoSync, CountedHonestly
<1>7. CASE PollAsks \/ PollSucceeds
  BY <1>7 DEF PollAsks, PollSucceeds, CountedHonestly
<1>8. CASE \/ \E s \in Origins, paths \in SUBSET Paths : Recognise(s, paths)
           \/ ProxyChanges \/ HeardFades
           \/ \E m \in bus : fire_speaker_event_fails(m)
           \/ UNCHANGED vars
  BY <1>8 DEF Recognise, ProxyChanges, HeardFades, fire_speaker_event_fails,
              CountedHonestly
<1>. QED
  BY <1>1, <1>3, <1>4, <1>5, <1>6, <1>7, <1>8 DEF Next

LEMMA EarnedStep ==
  TypeOK /\ CountedHonestly /\ OfflineIsEarned /\ [Next]_vars => OfflineIsEarned'
<1> SUFFICES ASSUME TypeOK, CountedHonestly, OfflineIsEarned, [Next]_vars
             PROVE  OfflineIsEarned'
  OBVIOUS
<1>1. CASE PollFails
  <2>1. failures' <= silent' /\ silent <= silent' /\ silent' \in Nat /\
        failures' \in Nat
    BY <1>1, CountUpMonotone, OneMore DEF PollFails, TypeOK, CountedHonestly
  <2>2. CASE available
    <3>1. ~available' => ~heard /\ ~(failures' < OfflineAfterFailures)
      BY <1>1, <2>2, Zenon DEF PollFails
    <3>. QED
      BY <1>1, <2>1, <3>1, CoordinatorAssumption DEF PollFails, OfflineIsEarned
  <2>3. CASE ~available
    BY <1>1, <2>1, <2>3, CoordinatorAssumption DEF PollFails, OfflineIsEarned,
       TypeOK
  <2>. QED
    BY <2>2, <2>3
<1>2. ASSUME NEW m \in Message, Apply(m), UNCHANGED running PROVE OfflineIsEarned'
  <2>1. CASE m.satellite = Nowhere \/ m = last_seen
    BY <1>2, <2>1 DEF Apply, OfflineIsEarned
  <2>2. CASE ~(m.satellite = Nowhere \/ m = last_seen)
    BY <1>2, <2>2 DEF Apply, OfflineIsEarned
  <2>. QED
    BY <2>1, <2>2
<1>3. CASE handle_mqtt_message
  BY <1>2, <1>3, HeadTailProperties DEF handle_mqtt_message, TypeOK
<1>4. ASSUME NEW m \in bus, handle_event(m) PROVE OfflineIsEarned'
  BY <1>2, <1>4 DEF handle_event, TypeOK
<1>5. CASE async_setup \/ async_shutdown
  BY <1>5 DEF async_setup, async_shutdown, OfflineIsEarned
<1>6. CASE SyncRead \/ SyncApplied \/ SyncFails
  BY <1>6 DEF SyncRead, SyncApplied, SyncFails, OfflineIsEarned
<1>7. CASE PollAsks \/ PollSucceeds
  BY <1>7 DEF PollAsks, PollSucceeds, OfflineIsEarned
<1>8. CASE \/ \E s \in Origins, paths \in SUBSET Paths : Recognise(s, paths)
           \/ ProxyChanges \/ HeardFades
           \/ \E m \in bus : fire_speaker_event_fails(m)
           \/ UNCHANGED vars
  BY <1>8 DEF Recognise, ProxyChanges, HeardFades, fire_speaker_event_fails,
              OfflineIsEarned
<1>. QED
  BY <1>1, <1>3, <1>4, <1>5, <1>6, <1>7, <1>8 DEF Next

\* The proxy is declared offline for nothing less than a failed sync or the
\* full number of silent polls, however recognitions, restarts and polls
\* interleave.
THEOREM OfflineOnlyIfEarned == Spec => []OfflineIsEarned
<1>1. Init => CountedHonestly /\ OfflineIsEarned
  BY DEF Init, CountedHonestly, OfflineIsEarned, NoSync
<1>. QED
  BY <1>1, TypeInit, TypeStep, CountedStep, EarnedStep, PTL DEF Spec

-----------------------------------------------------------------------------
(* The proxy's MQTT client, with the broker and the edits that restart it. *)

\* There is always a number for a new task.
LEMMA NewTaskIsNew ==
  ASSUME ClientTypeOK
  PROVE  /\ NewTask \in Tasks /\ NewTask # loop.task
         /\ \A e \in Editors : editor[e].at # "idle" =>
            editor[e].task # NewTask
<1> DEFINE Busy == {e \in Editors : editor[e] # Idle}
           f == [e \in Busy |-> editor[e].task]
           Taken == {f[e] : e \in Busy}
<1>1. IsFiniteSet(Busy) /\ Cardinality(Busy) <= Cardinality(Editors)
  BY MqttClientAssumption, FS_Subset
<1>2. /\ IsFiniteSet(Taken) /\ Cardinality(Taken) \in Nat
      /\ Cardinality(Taken) <= Cardinality(Editors)
  <2>1. f \in Surjection(Busy, Taken)
    BY DEF Surjection
  <2>2. IsFiniteSet(Taken) /\ Cardinality(Taken) <= Cardinality(Busy)
    BY <1>1, <2>1, FS_Surjection
  <2>. QED
    BY <2>2, <1>1, MqttClientAssumption, FS_CardinalityType
<1>3. /\ IsFiniteSet(Taken \union {loop.task})
      /\ Cardinality(Taken \union {loop.task}) <= Cardinality(Editors) + 1
  <2> HIDE DEF Taken
  <2>1. /\ IsFiniteSet(Taken \union {loop.task})
        /\ Cardinality(Taken \union {loop.task}) \in
             {Cardinality(Taken), Cardinality(Taken) + 1}
    <3>1. IsFiniteSet(Taken)
      BY <1>2
    <3>2. /\ IsFiniteSet(Taken \union {loop.task})
          /\ Cardinality(Taken \union {loop.task}) =
               IF loop.task \in Taken
                 THEN Cardinality(Taken) ELSE Cardinality(Taken) + 1
      BY <3>1, FS_AddElement
    <3>. QED
      BY <3>2
  <2>2. Cardinality(Taken) \in Nat /\ Cardinality(Editors) \in Nat
    BY <1>2, MqttClientAssumption, FS_CardinalityType
  <2>3. Cardinality(Taken \union {loop.task}) \in Nat
    BY <2>1, FS_CardinalityType
  <2>. QED
    BY <2>1, <2>2, <2>3, <1>2
<1>4. IsFiniteSet(Tasks) /\
      Cardinality(Tasks) = Cardinality(Editors) + 2
  <2>1. Cardinality(Editors) \in Nat
    BY MqttClientAssumption, FS_CardinalityType
  <2>. QED
    BY <2>1, FS_Interval DEF Tasks
<1>5. PICK t \in Tasks : t \notin Taken \union {loop.task}
  <2>1. ~ (Tasks \subseteq Taken \union {loop.task})
    BY <1>3, <1>4, FS_Subset, MqttClientAssumption, FS_CardinalityType
  <2>. QED
    BY <2>1
<1>6. t \in Tasks \ {loop.task} /\
      \A e \in Editors : editor[e] # Idle => editor[e].task # t
  BY <1>5
<1>7. /\ NewTask \in Tasks \ {loop.task}
      /\ \A e \in Editors : editor[e] # Idle =>
         editor[e].task # NewTask
  BY <1>6 DEF NewTask
<1>. QED
  BY <1>7 DEF Idle

-----------------------------------------------------------------------------
(* Type correctness.                                                       *)

LoopTypeOK ==
  loop \in [at : {"none", "connecting", "up", "pumping", "backoff"},
            task : Tasks, cancelled : BOOLEAN,
            session : Sessions \union {NoSession}, listens : Prefixes]
EditorTypeOK == editor \in [Editors -> {Idle} \union Stopping]

\* The loop and the edits have their types, which start and stop keep.
LEMMA LoopType ==
  NoLoop \in [at : {"none", "connecting", "up", "pumping", "backoff"},
              task : Tasks, cancelled : BOOLEAN,
              session : Sessions \union {NoSession}, listens : Prefixes]
<1>1. 0 \in Tasks
  <2>1. Cardinality(Editors) \in Nat
    BY MqttClientAssumption, FS_CardinalityType
  <2>. QED
    BY <2>1 DEF Tasks
<1>. QED
  BY <1>1, MqttClientAssumption DEF NoLoop

LEMMA FinishedType ==
  ASSUME ClientTypeOK, NEW e \in Editors, NEW restart,
         NEW was \in BOOLEAN,
         Finished(e, restart, was)
  PROVE  LoopTypeOK' /\ EditorTypeOK' /\ stop_event' \in BOOLEAN /\ context' = Empty
<1>1. CASE restart /\ loop.at = "none"
  BY <1>1, NewTaskIsNew, LoopType DEF Finished, ClientTypeOK, LoopTypeOK,
     EditorTypeOK, NoLoop
<1>2. CASE ~ (restart /\ loop.at = "none")
  BY <1>2 DEF Finished, ClientTypeOK, LoopTypeOK, EditorTypeOK
<1>. QED
  BY <1>1, <1>2

LEMMA CancelType ==
  ASSUME ClientTypeOK, NEW e \in Editors,
         NEW restart \in BOOLEAN, NEW was \in BOOLEAN,
         CancelOrFinish(e, restart, was)
  PROVE  /\ LoopTypeOK' /\ EditorTypeOK' /\ stop_event' \in BOOLEAN
         /\ context' \in {context, Empty}
<1>1. CASE loop.at # "none"
  <2>1. [at |-> "ending", restart |-> restart, task |-> loop.task] \in Stopping
    BY DEF ClientTypeOK, Stopping
  <2>2. /\ stop_event' = was /\ UNCHANGED context
        /\ editor' = [editor EXCEPT ![e] = [at |-> "ending", restart |-> restart,
                                            task |-> loop.task]]
        /\ loop' = [loop EXCEPT !.cancelled = TRUE]
    BY <1>1 DEF CancelOrFinish
  <2>3. LoopTypeOK'
    BY <2>2 DEF ClientTypeOK, LoopTypeOK
  <2>4. EditorTypeOK'
    BY <2>1, <2>2 DEF ClientTypeOK, EditorTypeOK
  <2>. QED
    BY <2>2, <2>3, <2>4
<1>2. CASE loop.at = "none"
  BY <1>2, FinishedType DEF CancelOrFinish
<1>. QED
  BY <1>1, <1>2

LEMMA ClientTypeStep ==
  ClientTypeOK /\ [ClientNext]_clientVars => ClientTypeOK'
<1> SUFFICES ASSUME ClientTypeOK,
                    [ClientNext]_clientVars PROVE ClientTypeOK'
  OBVIOUS
<1>1. ASSUME NEW e \in Editors,
             NEW new \in [mode : Modes, prefix : Prefixes],
             Edit(e, new)
      PROVE  ClientTypeOK'
  <2>1. /\ settings' \in [mode : Modes, prefix : Prefixes] /\
           topic_prefix' \in Prefixes
        /\ left' \subseteq Prefixes
    BY <1>1 DEF Edit, Change, ClientTypeOK
  <2>2. CASE connected
    <3>1. [at |-> "offline", restart |-> new.mode = "on", task |-> loop.task] \in Stopping
      BY DEF ClientTypeOK, Stopping
    <3>. QED
      BY <1>1, <2>1, <2>2, <3>1 DEF Edit, ClientTypeOK, Announced,
         broker
  <2>3. CASE ~ connected
    BY <1>1, <2>1, <2>3, CancelType DEF Edit, ClientTypeOK, LoopTypeOK,
       EditorTypeOK
  <2>. QED
    BY <2>2, <2>3
<1>2. ASSUME NEW e \in Editors, OfflineSent(e) PROVE ClientTypeOK'
  <2>1. editor[e].restart \in BOOLEAN
    BY <1>2 DEF OfflineSent, ClientTypeOK, Idle, Stopping
  <2>2. left' \subseteq Prefixes
    BY <1>2 DEF OfflineSent, ClientTypeOK
  <2>. QED
    BY <1>2, <2>1, <2>2, CancelType DEF OfflineSent, ClientTypeOK,
       LoopTypeOK, EditorTypeOK, broker
<1>3. ASSUME NEW e \in Editors, StopEnds(e) PROVE ClientTypeOK'
  <2>1. stop_event \in BOOLEAN
    BY DEF ClientTypeOK
  <2>. QED
    BY <1>3, <2>1, FinishedType DEF StopEnds, ClientTypeOK, LoopTypeOK,
       EditorTypeOK, broker
<1>4. CASE Connect
  <2>1. opened' \in Sessions /\ opened' \in 0 .. MaxSession
    BY <1>4, MqttClientAssumption DEF Connect, ClientTypeOK, Sessions
  <2>2. [id |-> opened', will |-> topic_prefix] \in Session
    BY <2>1 DEF Session, ClientTypeOK
  <2>3. loop' = [loop EXCEPT !.at = "up", !.session = opened']
    BY <1>4 DEF Connect
  <2>4. LoopTypeOK'
    BY <2>1, <2>3 DEF ClientTypeOK, LoopTypeOK
  <2>. QED
    BY <1>4, <2>1, <2>2, <2>4 DEF Connect, ClientTypeOK, LoopTypeOK,
       Announced
<1>5. CASE Subscribe
  <2>1. inbox' \in Seq(Values \union {Empty})
    <3>1. contexts[topic_prefix] \in Values \union {Empty}
      BY DEF ClientTypeOK
    <3>2. <<contexts[topic_prefix]>> \in Seq(Values \union {Empty})
      BY <3>1
    <3>. QED
      BY <1>5, <3>2, EmptySeq DEF Subscribe
  <2>. QED
    BY <1>5, <2>1 DEF Subscribe, ClientTypeOK, broker
<1>6. CASE Receive
  <2>1. Head(inbox) \in Values \union {Empty} /\
        Tail(inbox) \in Seq(Values \union {Empty})
    BY <1>6, HeadTailProperties DEF Receive, ClientTypeOK
  <2>. QED
    BY <1>6, <2>1 DEF Receive, ClientTypeOK, broker
<1>7. CASE Fail
  BY <1>7, EmptySeq DEF Fail, ClientTypeOK, broker
<1>8. CASE Raises
  <2>1. \A s \in sessions : s.will \in Prefixes
    BY DEF ClientTypeOK, Session
  <2>2. left' \subseteq Prefixes
    BY <1>8, <2>1 DEF Raises, ClientTypeOK
  <2>. QED
    BY <1>8, <2>2, EmptySeq DEF Raises, ClientTypeOK
<1>9. CASE Retry
  BY <1>9 DEF Retry, ClientTypeOK, broker
<1>10. CASE TaskEnds
  BY <1>10, EmptySeq DEF TaskEnds, ClientTypeOK
<1>11. CASE LinkBreaks
  BY <1>11 DEF LinkBreaks, ClientTypeOK, broker
<1>12. ASSUME NEW s \in sessions, SessionExpires(s) PROVE ClientTypeOK'
  BY <1>12 DEF SessionExpires, ClientTypeOK, Announced,
     Session
<1>13. ASSUME NEW p \in Prefixes, NEW v \in Values \union {Empty},
              HomeAssistantPublishes(p, v)
       PROVE  ClientTypeOK'
  <2>1. Append(inbox, v) \in Seq(Values \union {Empty})
    BY AppendProperties DEF ClientTypeOK
  <2>. QED
    BY <1>13, <2>1 DEF HomeAssistantPublishes, ClientTypeOK
<1>14. CASE Boot
  BY <1>14, NewTaskIsNew, LoopType DEF Boot, ClientTypeOK, broker,
     NoLoop
<1>15. CASE Crash
  BY <1>15, LoopType, EmptySeq DEF Crash, ClientTypeOK, broker
<1>16. CASE UNCHANGED clientVars
  BY <1>16 DEF clientVars, ClientTypeOK
<1>. QED
  BY <1>1, <1>2, <1>3, <1>4, <1>5, <1>6, <1>7, <1>9, <1>10, <1>11, <1>12, <1>13,
     <1>14, <1>15, <1>16, <1>8 DEF ClientNext, EditorStep, LoopStep

LEMMA ClientTypeInit == ClientInit => ClientTypeOK
<1> SUFFICES ASSUME ClientInit PROVE ClientTypeOK
  OBVIOUS
<1>1. settings \in [mode : Modes, prefix : Prefixes] /\
      topic_prefix \in Prefixes
  BY MqttClientAssumption DEF ClientInit, Modes
<1>2. inbox \in Seq(Values \union {Empty})
  BY EmptySeq DEF ClientInit
<1>3. editor \in [Editors -> {Idle} \union Stopping]
  BY DEF ClientInit
<1>4. opened \in 0 .. MaxSession
  BY MqttClientAssumption DEF ClientInit
<1>. QED
  BY <1>1, <1>2, <1>3, <1>4, LoopType DEF ClientInit, ClientTypeOK

-----------------------------------------------------------------------------
(* A status that says online is backed by a session.                       *)

\* The client has a session while it is connected; the broker keeps it while
\* the link carries messages, with the will of the prefix there is, or of one
\* left behind.
LinkIsOwn ==
  /\ connected <=> loop.session # NoSession
  /\ link => connected /\ \E s \in sessions : Own(s)
  /\ \A s \in sessions : s.id \in 1 .. opened
  /\ link => \A s \in sessions : Own(s) => s.will = topic_prefix \/
     s.will \in left

\* An edit has stopped the task that is still there.
Stops(e) ==
  editor[e].at = "offline" /\ loop.at # "none" /\ editor[e].task = loop.task

SaidGoodbye ==
  \A s \in sessions : Own(s) => s.will \in left \/ status[s.will] # "online"

\* A task that is being stopped connects no more, and its session has said
\* goodbye, when there was a link to say it over; so has one that is cancelled.
StoppedForGood ==
  /\ \A e \in Editors : Stops(e) => stop_event /\ connected /\
     (link => SaidGoodbye)
  /\ loop.at # "none" /\ loop.cancelled /\ link => SaidGoodbye

Backed == LinkIsOwn /\ StoppedForGood /\ OnlineIsBacked

\* An edit that is through leaves a loop alone, or starts one without a session.
LEMMA FinishedBacked ==
  ASSUME ClientTypeOK, Backed, NEW e \in Editors, NEW restart,
         NEW was,
         Finished(e, restart, was), was = stop_event \/ was = TRUE,
         UNCHANGED <<link, opened, sessions, status>>,
         topic_prefix' = topic_prefix \/ ~link, left \subseteq left'
  PROVE  Backed'
<1>1. OnlineIsBacked'
  BY DEF Backed, OnlineIsBacked
<1>2. CASE restart /\ loop.at = "none"
  <2>1. /\ loop' = [NoLoop EXCEPT !.at = "connecting", !.task = NewTask]
        /\ editor' = [editor EXCEPT ![e] = Idle]
    BY <1>2 DEF Finished
  <2>2. loop'.at = "connecting" /\ loop'.task = NewTask /\ ~loop'.cancelled
        /\ loop'.session = NoSession /\ ~link
    BY <1>2, <2>1 DEF NoLoop, Backed, LinkIsOwn, connected
  <2>3. \A d \in Editors : ~Stops(d)'
    BY <2>1, <2>2, NewTaskIsNew DEF Stops, ClientTypeOK, Idle
  <2>4. LinkIsOwn'
    BY <2>2 DEF Backed, LinkIsOwn, connected
  <2>. QED
    BY <1>1, <2>2, <2>3, <2>4 DEF Backed, StoppedForGood
<1>3. CASE ~ (restart /\ loop.at = "none")
  <2>1. loop' = loop /\ stop_event' = was /\
        editor' = [editor EXCEPT ![e] = Idle]
    BY <1>3 DEF Finished
  <2>2. LinkIsOwn'
    BY <2>1 DEF Backed, LinkIsOwn, connected, Own
  <2>3. SaidGoodbye => SaidGoodbye'
    BY <2>1 DEF SaidGoodbye, Own
  <2>4. \A d \in Editors : Stops(d)' => Stops(d)
    BY <2>1 DEF Stops, ClientTypeOK, Idle
  <2>5. StoppedForGood'
    BY <2>1, <2>3, <2>4 DEF Backed, StoppedForGood, connected
  <2>. QED
    BY <1>1, <2>2, <2>5 DEF Backed
<1>. QED
  BY <1>2, <1>3

\* An edit cancels a loop whose session has said goodbye.
LEMMA CancelBacked ==
  ASSUME ClientTypeOK, Backed, NEW e \in Editors, NEW restart,
         NEW was,
         CancelOrFinish(e, restart, was), was = stop_event \/ was = TRUE,
         UNCHANGED <<link, opened, sessions, status>>,
         topic_prefix' = topic_prefix \/ ~link, left \subseteq left',
         link => SaidGoodbye'
  PROVE  Backed'
<1>1. CASE loop.at = "none"
  BY <1>1, FinishedBacked DEF CancelOrFinish
<1>2. CASE loop.at # "none"
  <2>1. /\ stop_event' = was
        /\ editor' = [editor EXCEPT ![e] = [at |-> "ending", restart |-> restart,
                                            task |-> loop.task]]
        /\ loop' = [loop EXCEPT !.cancelled = TRUE]
    BY <1>2 DEF CancelOrFinish
  <2>2. loop'.at = loop.at /\ loop'.session = loop.session /\ loop'.task = loop.task
    BY <2>1 DEF ClientTypeOK
  <2>3. LinkIsOwn'
    BY <2>2 DEF Backed, LinkIsOwn, connected, Own
  <2>4. \A d \in Editors : Stops(d)' => Stops(d)
    BY <2>1, <2>2 DEF Stops, ClientTypeOK
  <2>5. StoppedForGood'
    BY <2>1, <2>2, <2>4 DEF Backed, StoppedForGood, connected
  <2>6. OnlineIsBacked'
    BY DEF Backed, OnlineIsBacked
  <2>. QED
    BY <2>3, <2>5, <2>6 DEF Backed
<1>. QED
  BY <1>1, <1>2

LEMMA BackedStep ==
  ClientTypeOK /\ Backed /\ [ClientNext]_clientVars =>
    Backed'
<1> SUFFICES ASSUME ClientTypeOK, Backed,
                    [ClientNext]_clientVars PROVE Backed'
  OBVIOUS
<1>. USE DEF Backed
<1>1. ASSUME NEW e \in Editors,
             NEW new \in [mode : Modes, prefix : Prefixes],
             Edit(e, new)
      PROVE  Backed'
  <2>1. /\ left \subseteq left' /\ topic_prefix' \in Prefixes
        /\ topic_prefix' # topic_prefix /\ sessions # {} => topic_prefix \in left'
        /\ UNCHANGED <<link, opened, sessions>>
    BY <1>1 DEF Edit, Change, ClientTypeOK
  <2>2. CASE connected
    <3>1. /\ editor' = [editor EXCEPT ![e] = [at |-> "offline", restart |-> new.mode = "on",
                                              task |-> loop.task]]
          /\ status' = IF link
             THEN Announced(topic_prefix', "offline") ELSE status
          /\ stop_event' = TRUE /\ loop' = loop
      BY <1>1, <2>2 DEF Edit
    <3>2. \A p \in Prefixes : status'[p] = "online" => status[p] = "online"
      BY <2>1, <3>1 DEF Announced, ClientTypeOK
    <3>3. link => SaidGoodbye'
      <4>1. ASSUME link, NEW s \in sessions, Own(s) PROVE s.will \in left' \/
                   status'[s.will] # "online"
        BY <2>1, <3>1, <4>1 DEF LinkIsOwn, Announced, ClientTypeOK
      <4>. QED
        BY <2>1, <3>1, <4>1 DEF SaidGoodbye, Own
    <3>4. LinkIsOwn'
      BY <2>1, <3>1 DEF LinkIsOwn, connected, Own
    <3>5. StoppedForGood'
      BY <2>1, <2>2, <3>1, <3>3 DEF StoppedForGood, connected
    <3>6. OnlineIsBacked'
      BY <2>1, <3>2 DEF OnlineIsBacked
    <3>. QED
      BY <3>4, <3>5, <3>6
  <2>3. CASE ~ connected
    <3>1. CancelOrFinish(e, new.mode = "on", TRUE) /\ UNCHANGED status
      BY <1>1, <2>3 DEF Edit
    <3>2. ~ link
      BY <2>3 DEF LinkIsOwn
    <3>. QED
      BY <2>1, <3>1, <3>2, CancelBacked
  <2>. QED
    BY <2>2, <2>3
<1>2. ASSUME NEW e \in Editors, OfflineSent(e) PROVE Backed'
  <2>1. /\ CancelOrFinish(e, editor[e].restart, stop_event)
        /\ UNCHANGED <<topic_prefix, link, opened, sessions, status>>
        /\ left \subseteq left'
        /\ connected /\ loop.task # editor[e].task => topic_prefix \in left'
    BY <1>2 DEF OfflineSent, broker
  <2>2. link => SaidGoodbye'
    <3> SUFFICES ASSUME link, NEW s \in sessions, Own(s)'
                 PROVE  s.will \in left' \/ status[s.will] # "online"
      BY <2>1 DEF SaidGoodbye
    <3>1. connected
      BY DEF LinkIsOwn
    <3>2. Own(s)
      BY <2>1, <3>1 DEF CancelOrFinish, connected, Own,
         ClientTypeOK
    <3>3. CASE loop.task # editor[e].task
      BY <2>1, <3>1, <3>2, <3>3 DEF LinkIsOwn
    <3>4. CASE loop.task = editor[e].task
      <4>1. Stops(e)
        BY <1>2, <3>1, <3>4 DEF OfflineSent, Stops, connected
      <4>. QED
        BY <2>1, <3>2, <4>1 DEF StoppedForGood, SaidGoodbye
    <3>. QED
      BY <3>3, <3>4
  <2>. QED
    BY <2>1, <2>2, CancelBacked
<1>3. ASSUME NEW e \in Editors, StopEnds(e) PROVE Backed'
  BY <1>3, FinishedBacked DEF StopEnds, broker
<1>4. CASE Connect
  <2>1. /\ loop.at = "connecting" /\ ~loop.cancelled
        /\ opened' = opened + 1 /\ opened \in Nat
        /\ loop' = [loop EXCEPT !.at = "up", !.session = opened']
        /\ link' = TRUE
        /\ sessions' = sessions \union {[id |-> opened', will |-> topic_prefix]}
        /\ status' = Announced(topic_prefix, "online")
        /\ left' = left \ {topic_prefix}
        /\ UNCHANGED <<topic_prefix, stop_event, editor>>
    BY <1>4 DEF Connect, Runs, ClientTypeOK
  <2>2. loop'.at = "up" /\ loop'.session = opened' /\ loop'.task = loop.task /\
        ~loop'.cancelled
    BY <2>1 DEF ClientTypeOK
  <2>3. \A s \in sessions : ~Own(s)'
    BY <2>1, <2>2 DEF LinkIsOwn, Own
  <2>4. PICK mine \in sessions' :
          /\ mine.id = opened' /\ mine.will = topic_prefix
          /\ sessions' = sessions \union {mine}
    BY <2>1
  <2>5. LinkIsOwn'
    <3>1. \A s \in sessions' : s.id \in 1 .. opened'
      BY <2>1 DEF LinkIsOwn
    <3>2. connected' /\ loop'.session # NoSession
      BY <2>1, <2>2 DEF connected, NoSession
    <3>3. \E s \in sessions' : Own(s)'
      BY <2>2, <2>4 DEF Own
    <3>4. \A s \in sessions' : Own(s)' => s.will = topic_prefix'
      BY <2>1, <2>3, <2>4
    <3>. QED
      BY <3>1, <3>2, <3>3, <3>4 DEF LinkIsOwn
  <2>6. \A e \in Editors : ~Stops(e)'
    BY <2>1, <2>2 DEF Stops, StoppedForGood, connected
  <2>7. OnlineIsBacked'
    <3>1. ASSUME NEW p \in Prefixes, p \notin left', status'[p] = "online"
          PROVE  \E s \in sessions' : s.will = p
      <4>1. CASE p = topic_prefix
        BY <2>4, <4>1
      <4>2. CASE p # topic_prefix
        <5>1. status[p] = "online"
          BY <2>1, <3>1, <4>2 DEF Announced, ClientTypeOK
        <5>2. p \notin left
          BY <2>1, <3>1, <4>2
        <5>. QED
          BY <2>1, <5>1, <5>2 DEF OnlineIsBacked
      <4>. QED
        BY <4>1, <4>2
    <3>. QED
      BY <2>1, <3>1 DEF OnlineIsBacked
  <2>. QED
    BY <2>2, <2>5, <2>6, <2>7 DEF StoppedForGood
<1>5. CASE Subscribe
  <2>1. /\ loop.at = "up" /\
           loop' = [loop EXCEPT !.at = "pumping", !.listens = topic_prefix]
        /\ UNCHANGED <<topic_prefix, stop_event, editor, link, sessions, status,
           opened, left>>
    BY <1>5 DEF Subscribe, broker
  <2>2. loop'.at = "pumping" /\ loop'.session = loop.session /\
        loop'.task = loop.task
        /\ loop'.cancelled = loop.cancelled
    BY <2>1 DEF ClientTypeOK
  <2>. QED
    BY <2>1, <2>2 DEF LinkIsOwn, StoppedForGood, OnlineIsBacked, Stops,
       SaidGoodbye, Own, connected
<1>6. CASE Receive
  BY <1>6 DEF Receive, broker, LinkIsOwn, StoppedForGood,
     OnlineIsBacked, Stops, SaidGoodbye,
     Own, connected
<1>7. CASE Fail
  <2>1. /\ ~link /\ ~loop.cancelled
        /\ loop' = [loop EXCEPT !.at = IF stop_event THEN "none" ELSE "backoff",
                                !.session = NoSession]
        /\ UNCHANGED <<topic_prefix, stop_event, editor, link, sessions, status,
           opened, left>>
    BY <1>7 DEF Fail, broker, Runs, LinkIsOwn, connected
  <2>2. /\ loop'.at = IF stop_event THEN "none" ELSE "backoff"
        /\ loop'.session = NoSession /\ loop'.task = loop.task
    BY <2>1 DEF ClientTypeOK
  <2>3. \A e \in Editors : Stops(e)' => Stops(e) /\ ~stop_event
    BY <1>7, <2>1, <2>2 DEF Stops, Fail, connected
  <2>. QED
    BY <2>1, <2>2, <2>3 DEF LinkIsOwn, StoppedForGood, OnlineIsBacked,
       connected
<1>8. CASE Raises
  <2>1. /\ connected /\ ~loop.cancelled
        /\ sessions' = {s \in sessions : ~Own(s)}
        /\ left' = left \union {s.will : s \in {t \in sessions : Own(t)}}
        /\ link' = FALSE
        /\ UNCHANGED <<topic_prefix, stop_event, loop, editor, status, opened>>
    BY <1>8 DEF Raises, Runs
  <2>2. LinkIsOwn'
    BY <2>1 DEF LinkIsOwn, connected
  <2>3. StoppedForGood'
    BY <2>1 DEF StoppedForGood, Stops, connected
  <2>4. OnlineIsBacked'
    BY <2>1 DEF OnlineIsBacked
  <2>. QED
    BY <2>2, <2>3, <2>4
<1>9. CASE Retry
  <2>1. /\ loop.at = "backoff" /\ ~link
        /\ loop' = [loop EXCEPT !.at = IF stop_event THEN "none" ELSE "connecting"]
        /\ UNCHANGED <<topic_prefix, stop_event, editor, link, sessions, status,
           opened, left>>
    BY <1>9 DEF Retry, broker, LinkIsOwn, connected
  <2>2. /\ loop'.at = IF stop_event THEN "none" ELSE "connecting"
        /\ loop'.session = loop.session /\ loop'.task = loop.task
    BY <2>1 DEF ClientTypeOK
  <2>3. \A e \in Editors : ~Stops(e)'
    BY <2>1, <2>2 DEF Stops, StoppedForGood, connected
  <2>. QED
    BY <2>1, <2>2, <2>3 DEF LinkIsOwn, StoppedForGood, OnlineIsBacked,
       connected
<1>10. CASE TaskEnds
  <2>1. /\ loop.at # "none" /\ loop.cancelled
        /\ loop' = [loop EXCEPT !.at = "none", !.cancelled = FALSE, !.session = NoSession]
        /\ sessions' = IF link THEN {s \in sessions : ~Own(s)} ELSE sessions
        /\ link' = FALSE
        /\ UNCHANGED <<status, opened, left>>
    BY <1>10 DEF TaskEnds
  <2>2. loop'.at = "none" /\ loop'.session = NoSession /\ ~loop'.cancelled
    BY <2>1 DEF ClientTypeOK
  <2>3. LinkIsOwn'
    BY <2>1, <2>2 DEF LinkIsOwn, connected
  <2>4. OnlineIsBacked'
    BY <2>1 DEF OnlineIsBacked, StoppedForGood, SaidGoodbye
  <2>. QED
    BY <2>2, <2>3, <2>4 DEF StoppedForGood, Stops
<1>11. CASE LinkBreaks
  BY <1>11 DEF LinkBreaks, broker, LinkIsOwn, StoppedForGood,
     OnlineIsBacked, Stops, connected
<1>12. ASSUME NEW s \in sessions, SessionExpires(s) PROVE Backed'
  <2>1. /\ ~ (Own(s) /\ link)
        /\ sessions' = sessions \ {s} /\
           status' = Announced(s.will, "offline")
        /\ UNCHANGED <<topic_prefix, stop_event, loop, editor, link, opened, left>>
    BY <1>12 DEF SessionExpires
  <2>2. \A p \in Prefixes : status'[p] = "online" => status[p] = "online" /\
        p # s.will
    BY <2>1 DEF Announced, ClientTypeOK
  <2>3. \A t \in sessions : t.will \in Prefixes
    BY DEF ClientTypeOK, Session
  <2>4. SaidGoodbye => SaidGoodbye'
    BY <2>1, <2>2, <2>3 DEF SaidGoodbye, Own
  <2>5. LinkIsOwn'
    BY <2>1 DEF LinkIsOwn, connected, Own
  <2>6. OnlineIsBacked'
    BY <2>1, <2>2 DEF OnlineIsBacked
  <2>. QED
    BY <2>1, <2>4, <2>5, <2>6 DEF StoppedForGood, Stops, connected
<1>13. ASSUME NEW p \in Prefixes, NEW v \in Values \union {Empty},
              HomeAssistantPublishes(p, v)
       PROVE  Backed'
  BY <1>13 DEF HomeAssistantPublishes, LinkIsOwn, StoppedForGood,
     OnlineIsBacked, Stops,
     SaidGoodbye, Own, connected
<1>14. CASE Boot
  <2>1. /\ loop' = [NoLoop EXCEPT !.at = "connecting", !.task = NewTask]
        /\ \A e \in Editors : editor[e] = Idle
        /\ ~link /\ UNCHANGED <<editor, link, sessions, status, opened, left>>
    BY <1>14 DEF Boot, BootDue, Quiet, broker,
       LinkIsOwn, connected
  <2>2. loop'.at = "connecting" /\ loop'.session = NoSession /\
        ~loop'.cancelled
    BY <2>1 DEF NoLoop
  <2>. QED
    BY <2>1, <2>2 DEF LinkIsOwn, StoppedForGood, OnlineIsBacked, Stops,
       connected, Idle
<1>15. CASE Crash
  <2>1. /\ loop' = NoLoop /\ link' = FALSE /\ left \subseteq left'
        /\ UNCHANGED <<sessions, status, opened>>
    BY <1>15 DEF Crash, broker
  <2>2. loop'.at = "none" /\ loop'.session = NoSession
    BY <2>1 DEF NoLoop
  <2>. QED
    BY <2>1, <2>2 DEF LinkIsOwn, StoppedForGood, OnlineIsBacked, Stops,
       connected
<1>16. CASE UNCHANGED clientVars
  BY <1>16 DEF clientVars, LinkIsOwn, StoppedForGood, OnlineIsBacked, Stops,
     SaidGoodbye, Own, connected
<1>. QED
  BY <1>1, <1>2, <1>3, <1>4, <1>5, <1>6, <1>7, <1>9, <1>10, <1>11, <1>12, <1>13,
     <1>14, <1>15, <1>16, <1>8 DEF ClientNext, EditorStep, LoopStep

LEMMA BackedInit == ClientInit => Backed
BY DEF ClientInit, Backed, LinkIsOwn, StoppedForGood, OnlineIsBacked, Stops,
   connected, NoLoop, Idle

-----------------------------------------------------------------------------
(* A client that has read its inbox knows what is retained.                *)

\* A loop runs only after those who waited for the last one.
WaitersFirst ==
  \A e \in Editors :
    editor[e].at = "ending" /\ ~Waits(e) => loop.at \in {"none",
      "connecting"}

\* No edit is about to end the loop.
Undisturbed == \A e \in Editors : editor[e].at # "offline" /\ ~Waits(e)

\* The last message on its way says what is retained; when none is, the last
\* one received did.
KnowsLast ==
  IF inbox = <<>>
    THEN contexts[topic_prefix] # Empty =>
      context = contexts[topic_prefix]
    ELSE inbox[Len(inbox)] = contexts[topic_prefix]

KnowsRetained ==
  loop.at = "pumping" /\ Undisturbed =>
    loop.listens = topic_prefix /\ (link => KnowsLast)

Informed == WaitersFirst /\ KnowsRetained

\* An edit that ends while a loop runs has waited for it.
LEMMA FinishedInformed ==
  ASSUME ClientTypeOK, Informed, NEW e \in Editors, NEW restart,
         NEW was,
         Finished(e, restart, was), loop.at \in {"none", "connecting"}
  PROVE  Informed'
<1>1. editor' = [editor EXCEPT ![e] = Idle]
      /\ (loop' = loop \/ (loop.at = "none" /\ loop'.at = "connecting"))
  BY DEF Finished, NoLoop
<1>2. loop'.at \in {"none", "connecting"}
  BY <1>1
<1>. QED
  BY <1>2 DEF Informed, WaitersFirst, KnowsRetained

\* One that does not end, waits.
LEMMA CancelInformed ==
  ASSUME ClientTypeOK, Informed, NEW e \in Editors, NEW restart,
         NEW was,
         CancelOrFinish(e, restart, was)
  PROVE  Informed'
<1>1. CASE loop.at = "none"
  BY <1>1, FinishedInformed DEF CancelOrFinish
<1>2. CASE loop.at # "none"
  <2>1. /\ editor' = [editor EXCEPT ![e] = [at |-> "ending", restart |-> restart,
                                            task |-> loop.task]]
        /\ loop' = [loop EXCEPT !.cancelled = TRUE]
    BY <1>2 DEF CancelOrFinish
  <2>2. loop'.at = loop.at /\ loop'.task = loop.task
    BY <2>1 DEF ClientTypeOK
  <2>3. Waits(e)'
    BY <1>2, <2>1, <2>2 DEF Waits, ClientTypeOK
  <2>4. WaitersFirst'
    BY <2>1, <2>2, <2>3 DEF Informed, WaitersFirst, Waits, ClientTypeOK
  <2>. QED
    BY <2>3, <2>4 DEF Informed, KnowsRetained, Undisturbed
<1>. QED
  BY <1>1, <1>2

\* Nobody's wait and no edit changes with the loop's own steps.
LEMMA SameWaits ==
  ASSUME loop'.at # "none" <=> loop.at # "none", loop'.task = loop.task,
         UNCHANGED editor
  PROVE  (\A e \in Editors : Waits(e)' <=> Waits(e)) /\
         (Undisturbed' <=> Undisturbed)
<1>1. \A e \in Editors : Waits(e)' <=> Waits(e)
  BY DEF Waits
<1>. QED
  BY <1>1 DEF Undisturbed

LEMMA InformedStep ==
  ClientTypeOK /\ Informed /\ [ClientNext]_clientVars =>
    Informed'
<1> SUFFICES ASSUME ClientTypeOK, Informed,
                    [ClientNext]_clientVars PROVE Informed'
  OBVIOUS
<1>. USE DEF Informed
<1>1. ASSUME NEW e \in Editors,
             NEW new \in [mode : Modes, prefix : Prefixes],
             Edit(e, new)
      PROVE  Informed'
  <2>1. CASE connected
    <3>1. /\ editor' = [editor EXCEPT ![e] = [at |-> "offline", restart |-> new.mode = "on",
                                              task |-> loop.task]]
          /\ loop' = loop
      BY <1>1, <2>1 DEF Edit
    <3>2. editor'[e].at = "offline"
      BY <3>1 DEF ClientTypeOK
    <3>3. WaitersFirst'
      BY <3>1 DEF WaitersFirst, Waits, ClientTypeOK
    <3>. QED
      BY <3>2, <3>3 DEF KnowsRetained, Undisturbed
  <2>2. CASE ~ connected
    BY <1>1, <2>2, CancelInformed DEF Edit
  <2>. QED
    BY <2>1, <2>2
<1>2. ASSUME NEW e \in Editors, OfflineSent(e) PROVE Informed'
  BY <1>2, CancelInformed DEF OfflineSent
<1>3. ASSUME NEW e \in Editors, StopEnds(e) PROVE Informed'
  BY <1>3, FinishedInformed DEF StopEnds, WaitersFirst
<1>4. CASE Connect
  <2>1. /\ loop.at = "connecting" /\ UNCHANGED editor
        /\ loop' = [loop EXCEPT !.at = "up", !.session = opened']
        /\ \A e \in Editors : editor[e].at = "ending" => Waits(e)
    BY <1>4 DEF Connect, Runs
  <2>2. loop'.at = "up" /\ loop'.task = loop.task
    BY <2>1 DEF ClientTypeOK
  <2>. QED
    BY <2>1, <2>2, SameWaits DEF WaitersFirst, KnowsRetained
<1>5. CASE Subscribe
  <2>1. /\ loop.at = "up" /\ UNCHANGED <<editor, topic_prefix, contexts>>
        /\ loop' = [loop EXCEPT !.at = "pumping", !.listens = topic_prefix]
        /\ inbox' = IF contexts[topic_prefix] = Empty
           THEN <<>> ELSE <<contexts[topic_prefix]>>
        /\ \A e \in Editors : editor[e].at = "ending" => Waits(e)
    BY <1>5 DEF Subscribe, Runs, broker
  <2>2. loop'.at = "pumping" /\ loop'.task = loop.task /\
        loop'.listens = topic_prefix
    BY <2>1 DEF ClientTypeOK
  <2>3. KnowsLast'
    BY <2>1 DEF KnowsLast
  <2>. QED
    BY <2>1, <2>2, <2>3, SameWaits DEF WaitersFirst, KnowsRetained
<1>6. CASE Receive
  <2>1. /\ loop.at = "pumping" /\ inbox # <<>> /\ inbox' = Tail(inbox)
        /\ context' = IF loop.listens = topic_prefix THEN Head(inbox) ELSE context
        /\ UNCHANGED <<editor, loop, link, topic_prefix, contexts>>
    BY <1>6 DEF Receive, broker
  <2>2. ASSUME loop.listens = topic_prefix, KnowsLast PROVE KnowsLast'
    <3>1. inbox \in Seq(Values \union {Empty}) /\ Len(inbox) \in Nat \ {0}
      BY <2>1, EmptySeq DEF ClientTypeOK
    <3>2. /\ Len(inbox') = Len(inbox) - 1 /\ Head(inbox) = inbox[1]
          /\ \A i \in 1 .. Len(inbox') : inbox'[i] = inbox[i + 1]
      BY <2>1, <3>1, HeadTailProperties
    <3>3. inbox[Len(inbox)] = contexts[topic_prefix]
      BY <2>1, <2>2 DEF KnowsLast
    <3>4. CASE inbox' = <<>>
      <4>1. Len(inbox) = 1
        BY <3>1, <3>2, <3>4
      <4>. QED
        BY <2>1, <2>2, <3>2, <3>3, <3>4, <4>1 DEF KnowsLast
    <3>5. CASE inbox' # <<>>
      <4>1. inbox' \in Seq(Values \union {Empty})
        BY <2>1, <3>1, HeadTailProperties
      <4>2. Len(inbox') >= 1
        BY <3>1, <3>2, <3>5, <4>1, EmptySeq
      <4>3. inbox'[Len(inbox')] = inbox[Len(inbox)]
        BY <3>1, <3>2, <4>2
      <4>. QED
        BY <2>1, <3>3, <3>5, <4>3 DEF KnowsLast
    <3>. QED
      BY <3>4, <3>5
  <2>. QED
    BY <2>1, <2>2, SameWaits DEF WaitersFirst, KnowsRetained
<1>7. CASE Fail
  <2>1. /\ UNCHANGED editor /\ \A e \in Editors : editor[e].at = "ending" =>
           Waits(e)
        /\ loop' = [loop EXCEPT !.at = IF stop_event THEN "none" ELSE "backoff",
                                !.session = NoSession]
        /\ loop.at # "none"
    BY <1>7 DEF Fail, Runs, connected
  <2>2. loop'.at = (IF stop_event THEN "none" ELSE "backoff") /\
        loop'.task = loop.task
    BY <2>1 DEF ClientTypeOK
  <2>. QED
    BY <2>1, <2>2 DEF WaitersFirst, KnowsRetained, Waits
<1>8. CASE Raises
  <2>1. ~link' /\ UNCHANGED <<editor, loop, topic_prefix>>
    BY <1>8 DEF Raises
  <2>. QED
    BY <2>1, SameWaits DEF WaitersFirst, KnowsRetained
<1>9. CASE Retry
  <2>1. /\ UNCHANGED editor
        /\ loop' = [loop EXCEPT !.at = IF stop_event THEN "none" ELSE "connecting"]
    BY <1>9 DEF Retry
  <2>2. loop'.at \in {"none", "connecting"}
    BY <2>1 DEF ClientTypeOK
  <2>. QED
    BY <2>2 DEF WaitersFirst, KnowsRetained
<1>10. CASE TaskEnds
  <2>1. loop'.at = "none"
    BY <1>10 DEF TaskEnds, ClientTypeOK
  <2>. QED
    BY <2>1 DEF WaitersFirst, KnowsRetained
<1>11. CASE LinkBreaks
  BY <1>11 DEF LinkBreaks, WaitersFirst, KnowsRetained, Undisturbed,
     Waits
<1>12. ASSUME NEW s \in sessions, SessionExpires(s) PROVE Informed'
  BY <1>12 DEF SessionExpires, WaitersFirst, KnowsRetained, KnowsLast,
     Undisturbed, Waits
<1>13. ASSUME NEW p \in Prefixes, NEW v \in Values \union {Empty},
              HomeAssistantPublishes(p, v)
       PROVE  Informed'
  <2>1. /\ contexts' = [contexts EXCEPT ![p] = v]
        /\ inbox' = IF loop.at = "pumping" /\ link /\ loop.listens = p
                      THEN Append(inbox, v) ELSE inbox
        /\ UNCHANGED <<topic_prefix, context, loop, editor, link>>
    BY <1>13 DEF HomeAssistantPublishes
  <2>2. ASSUME loop.at = "pumping", link, loop.listens = topic_prefix, KnowsLast
        PROVE  KnowsLast'
    <3>1. CASE p = topic_prefix
      <4>1. /\ inbox' = Append(inbox, v) /\ inbox \in Seq(Values \union {Empty})
            /\ contexts'[topic_prefix] = v
        BY <2>1, <2>2, <3>1 DEF ClientTypeOK
      <4>2. inbox' # <<>> /\ inbox'[Len(inbox')] = v
        BY <4>1, AppendProperties
      <4>. QED
        BY <2>1, <4>1, <4>2 DEF KnowsLast
    <3>2. CASE p # topic_prefix
      BY <2>1, <2>2, <3>2 DEF KnowsLast, ClientTypeOK
    <3>. QED
      BY <3>1, <3>2
  <2>. QED
    BY <2>1, <2>2, SameWaits DEF WaitersFirst, KnowsRetained
<1>14. CASE Boot
  <2>1. loop'.at = "connecting"
    BY <1>14 DEF Boot, NoLoop
  <2>. QED
    BY <2>1 DEF WaitersFirst, KnowsRetained
<1>15. CASE Crash
  <2>1. loop'.at = "none"
    BY <1>15 DEF Crash, NoLoop
  <2>. QED
    BY <2>1 DEF WaitersFirst, KnowsRetained
<1>16. CASE UNCHANGED clientVars
  BY <1>16 DEF clientVars, WaitersFirst, KnowsRetained, KnowsLast, Undisturbed,
     Waits
<1>. QED
  BY <1>1, <1>2, <1>3, <1>4, <1>5, <1>6, <1>7, <1>9, <1>10, <1>11, <1>12, <1>13,
     <1>14, <1>15, <1>16, <1>8 DEF ClientNext, EditorStep, LoopStep

LEMMA InformedInit == ClientInit => Informed
BY DEF ClientInit, Informed, WaitersFirst, KnowsRetained, NoLoop,
   Idle

-----------------------------------------------------------------------------
(* Theorems.                                                               *)

\* Every variable of the client and the broker keeps its type, whatever edits,
\* links and crashes do; in particular there is always a number for a new task.
THEOREM ClientTypeCorrect == ClientSpec => []ClientTypeOK
BY ClientTypeInit, ClientTypeStep, PTL DEF ClientSpec

\* A status that says online has a session behind it whose end takes it back,
\* for any number of edits that overlap and sessions that expire late.
THEOREM OnlineStaysBacked == ClientSpec => []OnlineIsBacked
<1>1. Backed => OnlineIsBacked
  BY DEF Backed
<1>. QED
  BY <1>1, ClientTypeCorrect, BackedInit, BackedStep, PTL DEF ClientSpec

\* A client that is connected and has read its inbox knows what Home Assistant
\* retains under its prefix, whatever it missed while it was away.
THEOREM NotBlindAfterRestart == ClientSpec => []NeverBlind
<1>1. Informed => NeverBlind
  BY DEF Informed, KnowsRetained, KnowsLast, NeverBlind, Quiet, Undisturbed,
     Waits, Idle
<1>. QED
  BY <1>1, ClientTypeCorrect, InformedInit, InformedStep, PTL DEF ClientSpec
=============================================================================
