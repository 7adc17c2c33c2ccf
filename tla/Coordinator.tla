----------------------------- MODULE Coordinator -----------------------------
(***************************************************************************)
(* The Home Assistant side (custom_components/murdock/coordinator.py): who *)
(* spoke at each satellite, and whether the proxy is there.                *)
(*                                                                         *)
(* A recognition comes over MQTT, whose last message is retained, over the *)
(* event bus, or over both.  Home Assistant may be restarted or the entry  *)
(* reloaded at any time; the new coordinator subscribes first and then     *)
(* asks the proxy for its rows.  A poll every minute tells whether the     *)
(* proxy answers; a recognition tells, too.                                *)
(***************************************************************************)
EXTENDS Naturals, Sequences, FiniteSetsExt

CONSTANTS
  Satellites,
  Nowhere,                \* no satellite: neither Home Assistant nor its signal named one
  MaxUtterance,           \* bound on the recognitions
  OfflineAfterFailures,   \* OFFLINE_AFTER_FAILURES
  MaxFailures             \* bound: the failures are counted no further

Utterances == 1 .. MaxUtterance
None == 0
Origins == Satellites \union {Nowhere}
Paths == {"mqtt", "bus"}

ASSUME CoordinatorAssumption ==
  /\ Nowhere \notin Satellites
  /\ MaxUtterance \in Nat
  /\ OfflineAfterFailures \in Nat \ {0} /\ MaxFailures \in Nat
  /\ MaxFailures >= OfflineAfterFailures

VARIABLES
  proxy,      \* whether the proxy answers
  rows,       \* the last utterance of each origin in the proxy's log
  retained,   \* the message the broker retains
  mqtt,       \* messages from the broker to the coordinator, in order
  bus,        \* requests of the proxy to Home Assistant, in no order
  running,    \* whether there is a coordinator
  sync,       \* its initial sync: where it is, and the rows it was given
  poll,       \* its health poll
  available,
  failures,   \* _failures
  heard,      \* whether last_event_at is within three intervals
  states,     \* _states: the utterance each satellite's state is of
  last_seen,  \* _last_seen: the path of the last message stands for its stamp
  silent,     \* history: failed polls since the last sign of life, which is
              \* an answer, or a recognition that names its satellite
  refused     \* history: no sign of life since a failed sync

vars == <<proxy, rows, retained, mqtt, bus, running, sync, poll, available,
          failures, heard, states, last_seen, silent, refused>>
proxyVars == <<proxy, rows, retained>>

Message == [satellite : Origins, utterance : Utterances, path : Paths]
Nothing == [satellite |-> None, utterance |-> None, path |-> None]
NoStates == [s \in Satellites |-> None]
NoSync == [at |-> "idle", rows |-> NoStates]

TypeOK ==
  /\ proxy \in BOOLEAN
  /\ rows \in [Origins -> Utterances \union {None}]
  /\ retained \in Message \union {Nothing}
  /\ mqtt \in Seq(Message) /\ bus \subseteq Message
  /\ running \in BOOLEAN
  /\ sync \in [at : {"idle", "asked", "answered"},
               rows : [Satellites -> Utterances \union {None}]]
  /\ poll \in {"idle", "asked"}
  /\ available \in BOOLEAN /\ heard \in BOOLEAN /\ refused \in BOOLEAN
  /\ failures \in 0 .. MaxFailures /\ silent \in 0 .. MaxFailures
  /\ states \in [Satellites -> Utterances \union {None}]
  /\ last_seen \in Message \union {Nothing}

-----------------------------------------------------------------------------
(* The proxy.                                                              *)

\* Over MQTT: after the sensors' topics the event, which the broker retains.
Published(m) ==
  /\ retained' = m
  /\ mqtt' = IF running THEN Append(mqtt, m) ELSE mqtt

\* Over REST: requests of which one fires the event.
Pushed(m) == bus' = IF running THEN bus \union {m} ELSE bus

\* A recognition is logged and sent over the paths that are set up, also if
\* nothing says which satellite heard it.
Recognise(s, paths) ==
  LET u == Max({rows[r] : r \in Origins}) + 1
      On(path) == [satellite |-> s, utterance |-> u, path |-> path]
  IN /\ proxy /\ u \in Utterances
     /\ rows' = [rows EXCEPT ![s] = u]
     /\ IF "mqtt" \in paths THEN Published(On("mqtt")) ELSE UNCHANGED <<retained, mqtt>>
     /\ IF "bus" \in paths THEN Pushed(On("bus")) ELSE UNCHANGED bus
     /\ UNCHANGED <<proxy, running, sync, poll, available, failures, heard, states,
                    last_seen, silent, refused>>

ProxyChanges ==
  /\ proxy' = ~proxy
  /\ UNCHANGED <<rows, retained, mqtt, bus, running, sync, poll, available,
                 failures, heard, states, last_seen, silent, refused>>

-----------------------------------------------------------------------------
(* Set-up and the initial sync.                                            *)

\* async_setup: a new coordinator.  The broker sends what it retains, whatever
\* its age.
async_setup ==
  /\ ~running
  /\ running' = TRUE
  /\ mqtt' = IF retained = Nothing THEN <<>> ELSE <<retained>>
  /\ sync' = [at |-> "asked", rows |-> NoStates]
  /\ poll' = "idle"
  /\ available' = FALSE /\ failures' = 0 /\ heard' = FALSE
  /\ states' = NoStates /\ last_seen' = Nothing
  /\ silent' = 0 /\ refused' = TRUE
  /\ UNCHANGED <<proxyVars, bus>>

\* Reload, restart, and the reload that a better address asks for.
async_shutdown ==
  /\ running
  /\ running' = FALSE
  /\ mqtt' = <<>> /\ bus' = {}
  /\ sync' = NoSync /\ poll' = "idle"
  /\ UNCHANGED <<proxyVars, available, failures, heard, states, last_seen, silent,
                 refused>>

\* The proxy reads the rows that name a satellite, and the answer is on its way.
SyncRead ==
  /\ sync.at = "asked" /\ proxy
  /\ sync' = [at |-> "answered", rows |-> [s \in Satellites |-> rows[s]]]
  /\ UNCHANGED <<proxyVars, mqtt, bus, running, poll, available, failures, heard,
                 states, last_seen, silent, refused>>

\* What it brings replaces the states, also newer ones.
SyncApplied ==
  /\ sync.at = "answered"
  /\ available' = TRUE
  /\ states' = [s \in Satellites |->
                 IF sync.rows[s] = None THEN states[s] ELSE sync.rows[s]]
  /\ sync' = NoSync
  /\ silent' = 0 /\ refused' = FALSE
  /\ UNCHANGED <<proxyVars, mqtt, bus, running, poll, failures, heard, last_seen>>

SyncFails ==
  /\ sync.at \in {"asked", "answered"}
  /\ available' = FALSE
  /\ sync' = NoSync
  /\ refused' = TRUE
  /\ UNCHANGED <<proxyVars, mqtt, bus, running, poll, failures, heard, states,
                 last_seen, silent>>

-----------------------------------------------------------------------------
(* The health poll.  It comes once a minute; a request takes ten seconds    *)
(* at most, so neither another poll nor the sync is still going on.         *)

PollAsks ==
  /\ running /\ poll = "idle" /\ sync.at = "idle"
  /\ poll' = "asked"
  /\ UNCHANGED <<proxyVars, mqtt, bus, running, sync, available, failures, heard,
                 states, last_seen, silent, refused>>

CountUp(n) == IF n < MaxFailures THEN n + 1 ELSE n

\* A bug: what was heard does not count.
PollFailsDeaf ==
  /\ poll = "asked"
  /\ failures' = CountUp(failures)
  /\ silent' = CountUp(silent)
  /\ available' = (available /\ failures' < OfflineAfterFailures - 1)
  /\ poll' = "idle"
  /\ UNCHANGED <<proxyVars, mqtt, bus, running, sync, heard, states, last_seen,
                 refused>>

\* A bug: as long as anything was ever heard, the poll is not believed.
PollFailsTrusting ==
  /\ poll = "asked"
  /\ failures' = CountUp(failures)
  /\ silent' = CountUp(silent)
  /\ available' = (available /\ (last_seen # Nothing \/ failures' < OfflineAfterFailures))
  /\ poll' = "idle"
  /\ UNCHANGED <<proxyVars, mqtt, bus, running, sync, heard, states, last_seen,
                 refused>>

\* A poll may fail although the proxy is there.
PollFails ==
  /\ poll = "asked"
  /\ failures' = CountUp(failures)
  /\ silent' = CountUp(silent)
  /\ available' = (available /\ (heard \/ failures' < OfflineAfterFailures))
  /\ poll' = "idle"
  /\ UNCHANGED <<proxyVars, mqtt, bus, running, sync, heard, states, last_seen,
                 refused>>

PollSucceeds ==
  /\ poll = "asked" /\ proxy
  /\ failures' = 0 /\ available' = TRUE
  /\ silent' = 0 /\ refused' = FALSE
  /\ poll' = "idle"
  /\ UNCHANGED <<proxyVars, mqtt, bus, running, sync, heard, states, last_seen>>

\* Three intervals pass without a recognition.
HeardFades ==
  /\ heard
  /\ heard' = FALSE
  /\ UNCHANGED <<proxyVars, mqtt, bus, running, sync, poll, available, failures,
                 states, last_seen, silent, refused>>

-----------------------------------------------------------------------------
(* Recognitions.                                                           *)

\* _apply_payload: a message that names no satellite, or repeats the last one,
\* is dropped, and is no sign of life.  The two paths stamp a recognition each
\* for itself.
Apply(m) ==
  IF m.satellite = Nowhere \/ m = last_seen
    THEN UNCHANGED <<available, failures, heard, states, last_seen, silent, refused>>
    ELSE /\ last_seen' = m
         /\ states' = [states EXCEPT ![m.satellite] = m.utterance]
         /\ available' = TRUE /\ failures' = 0 /\ heard' = TRUE
         /\ silent' = 0 /\ refused' = FALSE

handle_mqtt_message ==
  /\ running /\ mqtt # <<>>
  /\ mqtt' = Tail(mqtt)
  /\ Apply(Head(mqtt))
  /\ UNCHANGED <<proxyVars, bus, running, sync, poll>>

\* The request fails, and is not repeated.
fire_speaker_event_fails(m) ==
  /\ m \in bus
  /\ bus' = bus \ {m}
  /\ UNCHANGED <<proxyVars, mqtt, running, sync, poll, available, failures, heard,
                 states, last_seen, silent, refused>>

\* It arrives.
handle_event(m) ==
  /\ running /\ m \in bus
  /\ bus' = bus \ {m}
  /\ Apply(m)
  /\ UNCHANGED <<proxyVars, mqtt, running, sync, poll>>

-----------------------------------------------------------------------------
Init ==
  /\ proxy = TRUE
  /\ rows = [s \in Origins |-> None] /\ retained = Nothing
  /\ mqtt = <<>> /\ bus = {}
  /\ running = FALSE
  /\ sync = NoSync /\ poll = "idle"
  /\ available = FALSE /\ failures = 0 /\ heard = FALSE
  /\ states = NoStates /\ last_seen = Nothing
  /\ silent = 0 /\ refused = TRUE

Next ==
  \/ \E s \in Origins, paths \in SUBSET Paths : Recognise(s, paths)
  \/ ProxyChanges
  \/ async_setup \/ async_shutdown
  \/ SyncRead \/ SyncApplied \/ SyncFails
  \/ PollAsks \/ PollFails \/ PollSucceeds
  \/ HeardFades
  \/ handle_mqtt_message
  \/ \E m \in bus : handle_event(m) \/ fire_speaker_event_fails(m)

\* Requests end, messages arrive, the interval and the clock go on.
Spec ==
  /\ Init /\ [][Next]_vars
  /\ WF_vars(SyncApplied \/ SyncFails)
  /\ WF_vars(PollAsks) /\ WF_vars(PollFails \/ PollSucceeds)
  /\ WF_vars(HeardFades)
  /\ WF_vars(handle_mqtt_message)
  /\ WF_vars(\E m \in bus : handle_event(m) \/ fire_speaker_event_fails(m))

-----------------------------------------------------------------------------
(* Properties.                                                             *)

\* The proxy is declared offline only after that many polls in a row have
\* failed without any sign of life between them and none in the last three
\* intervals, whichever path it came over; or after a failed initial sync.  A
\* recognition is a sign of life if it names its satellite.
OfflineIsEarned ==
  running /\ ~available =>
    refused \/ (silent >= OfflineAfterFailures /\ ~heard)

\* A proxy that is gone for good is seen to be offline, however many messages
\* were still on their way when it died.
DownIsNoticed == <>[](running /\ ~proxy) => <>[](~available)
=============================================================================
