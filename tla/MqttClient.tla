------------------------------ MODULE MqttClient ------------------------------
(***************************************************************************)
(* The MQTT client (core/mqtt_integration.py), the edits of its settings   *)
(* that restart it (core/context.py, api/routes_settings.py), and the      *)
(* broker it talks to.                                                     *)
(*                                                                         *)
(* One task runs the connection loop.  An edit stops it and starts another *)
(* across two awaits, and a second edit may come between.  A connection    *)
(* that breaks is noticed late, by the client and by the broker, each on   *)
(* its own: the broker then publishes the session's will.  An exception on *)
(* a connection that works closes it cleanly, and no will is published.    *)
(*                                                                         *)
(* What every specification has is named after the client here, so that    *)
(* proofs may extend Coordinator, the other end of the broker, beside it.  *)
(***************************************************************************)
EXTENDS Naturals, Sequences, FiniteSets

CONSTANTS
  Prefixes,    \* topic prefixes, one of them the default
  Default,
  Values,      \* what a context topic may say
  Empty,       \* no message, or an empty one: the topic is cleared
  Editors,     \* requests that edit the settings
  MaxSession,  \* bounds: sessions opened at the broker, edits, messages
  MaxEdit,
  MaxMessage

Sessions == 1 .. MaxSession
Modes == {"off", "on"}
NoSession == 0

ASSUME MqttClientAssumption ==
  /\ Default \in Prefixes /\ Empty \notin Values /\ IsFiniteSet(Editors)
  /\ MaxSession \in Nat /\ MaxEdit \in Nat /\ MaxMessage \in Nat

VARIABLES
  settings,      \* the stored settings
  topic_prefix,  \* the client's fields
  stop_event,
  context,       \* _context, here of one topic
  loop,          \* the connection loop: where it is, which task it is, whether
                 \* it is cancelled, its session, and the prefix it listens to
  editor,        \* the edits that are being applied
  link,          \* whether the loop's connection still carries messages
  inbox,         \* messages on their way to the loop
  sessions,      \* the broker: the sessions it keeps, and their wills,
  status,        \* the retained status of each prefix,
  contexts,      \* and the retained context message of each
  opened, edits, messages,  \* counters for the bounds
  left           \* history: prefixes left behind by a change under a session,
                 \* or whose session an overtaken edit or an exception closed,
                 \* until the client connects under them again

clientVars == <<settings, topic_prefix, stop_event, context, loop, editor, link, inbox,
          sessions, status, contexts, opened, edits, messages, left>>
broker == <<sessions, status, contexts>>

Session == [id : Sessions, will : Prefixes]
Idle == [at |-> "idle"]
NoLoop == [at |-> "none", task |-> 0, cancelled |-> FALSE,
           session |-> NoSession, listens |-> Default]

\* A new task: one that nobody waits for.
Tasks == 0 .. Cardinality(Editors) + 1
NewTask ==
  CHOOSE t \in Tasks \ {loop.task} :
    \A e \in Editors : editor[e] # Idle => editor[e].task # t

Stopping == [at : {"offline", "ending"}, restart : BOOLEAN, task : Tasks]

ClientTypeOK ==
  /\ settings \in [mode : Modes, prefix : Prefixes]
  /\ topic_prefix \in Prefixes /\ stop_event \in BOOLEAN
  /\ context \in Values \union {Empty}
  /\ loop \in [at : {"none", "connecting", "up", "pumping", "backoff"}, task : Tasks,
               cancelled : BOOLEAN, session : Sessions \union {NoSession},
               listens : Prefixes]
  /\ editor \in [Editors -> {Idle} \union Stopping]
  /\ link \in BOOLEAN /\ inbox \in Seq(Values \union {Empty})
  /\ sessions \subseteq Session
  /\ status \in [Prefixes -> {"none", "online", "offline"}]
  /\ contexts \in [Prefixes -> Values \union {Empty}]
  /\ opened \in 0 .. MaxSession /\ left \subseteq Prefixes

connected == loop.at \in {"up", "pumping"}
Own(s) == s.id = loop.session

\* No edit is being applied.
Quiet == \A e \in Editors : editor[e] = Idle

-----------------------------------------------------------------------------
(* Start and stop.                                                         *)

\* The end of stop, and start, which does nothing if another edit has
\* started the loop.  Otherwise the stop event is what it was.
Finished(e, restart, was) ==
  /\ context' = Empty
  /\ IF restart /\ loop.at = "none"
       THEN /\ stop_event' = FALSE
            /\ loop' = [NoLoop EXCEPT !.at = "connecting", !.task = NewTask]
       ELSE stop_event' = was /\ UNCHANGED loop
  /\ editor' = [editor EXCEPT ![e] = Idle]

\* stop, after its publication: it cancels the task that is there now, and
\* waits for that one.  Without a task nothing is waited for.
CancelOrFinish(e, restart, was) ==
  \/ /\ loop.at # "none"
     /\ stop_event' = was
     /\ editor' = [editor EXCEPT ![e] = [at |-> "ending", restart |-> restart,
                                         task |-> loop.task]]
     /\ loop' = [loop EXCEPT !.cancelled = TRUE]
     /\ UNCHANGED context
  \/ loop.at = "none" /\ Finished(e, restart, was)

\* At start-up, before the web API is there, the settings are applied.
BootDue == settings.mode = "on" /\ loop.at = "none" /\ ~stop_event /\ Quiet

\* The fields change first, those of a client that is switched off stay.
Change(e, new) ==
  /\ editor[e] = Idle /\ ~BootDue /\ edits < MaxEdit
  /\ edits' = edits + 1
  /\ settings' = new
  /\ topic_prefix' = IF new.mode = "off" THEN topic_prefix ELSE new.prefix
  /\ left' = IF topic_prefix' # topic_prefix /\ sessions # {}
               THEN left \union {topic_prefix} ELSE left

\* A bug: stop leaves it to the will, which a clean end never sends.
EditSilently(e, new) ==
  /\ Change(e, new)
  /\ CancelOrFinish(e, new.mode = "on", TRUE)
  /\ UNCHANGED <<link, inbox, broker, opened, messages>>

\* What the broker retains of a status the client, or its will, publishes.
Announced(p, word) == [status EXCEPT ![p] = word]

\* apply_mqtt_settings: then stop publishes "offline" if there is a
\* connection, under the prefix there is now.
Edit(e, new) ==
  /\ Change(e, new)
  /\ IF connected
       THEN /\ editor' = [editor EXCEPT ![e] =
                           [at |-> "offline", restart |-> new.mode = "on",
                            task |-> loop.task]]
            /\ status' = IF link THEN Announced(topic_prefix', "offline")
                         ELSE status
            /\ stop_event' = TRUE
            /\ UNCHANGED <<loop, context>>
       ELSE /\ CancelOrFinish(e, new.mode = "on", TRUE)
            /\ UNCHANGED status
  /\ UNCHANGED <<link, inbox, sessions, contexts, opened, messages>>

\* The publication is acknowledged, fails or times out.  By then the loop may
\* be another one, that another edit has started: its session gets no such
\* message.
OfflineSent(e) ==
  /\ editor[e].at = "offline"
  /\ CancelOrFinish(e, editor[e].restart, stop_event)
  /\ left' = IF connected /\ loop.task # editor[e].task
               THEN left \union {topic_prefix} ELSE left
  /\ UNCHANGED <<settings, topic_prefix, link, inbox, broker, opened, edits, messages>>

\* The cancelled task ends.  A working connection is closed cleanly: the
\* broker forgets the session and its will.
TaskEnds ==
  /\ loop.at # "none" /\ loop.cancelled
  /\ loop' = [loop EXCEPT !.at = "none", !.cancelled = FALSE, !.session = NoSession]
  /\ sessions' = IF link THEN {s \in sessions : ~Own(s)} ELSE sessions
  /\ link' = FALSE /\ inbox' = <<>>
  /\ UNCHANGED <<settings, topic_prefix, stop_event, context, editor, status,
                 contexts, opened, edits, messages, left>>

Waits(e) ==
  editor[e].at = "ending" /\ loop.at # "none" /\ loop.task = editor[e].task

StopEnds(e) ==
  /\ editor[e].at = "ending" /\ ~Waits(e)
  /\ Finished(e, editor[e].restart, stop_event)
  /\ UNCHANGED <<settings, topic_prefix, link, inbox, broker, opened, edits,
                 messages, left>>

-----------------------------------------------------------------------------
(* The connection loop.                                                    *)

\* Everybody who waited for the last task goes on before the next one runs.
Runs == ~loop.cancelled /\ \A e \in Editors : editor[e].at = "ending" => Waits(e)

\* The session is open and "online" is on its way before anything else runs.
Connect ==
  /\ loop.at = "connecting" /\ Runs /\ opened < MaxSession
  /\ opened' = opened + 1
  /\ loop' = [loop EXCEPT !.at = "up", !.session = opened']
  /\ link' = TRUE
  /\ sessions' = sessions \union {[id |-> opened', will |-> topic_prefix]}
  /\ status' = Announced(topic_prefix, "online")
  /\ left' = left \ {topic_prefix}
  /\ UNCHANGED <<settings, topic_prefix, stop_event, context, editor, inbox,
                 contexts, edits, messages>>

\* A bug: the subscription of the connection before is taken to last.
SubscribeOnce ==
  /\ loop.at = "up" /\ Runs /\ link
  /\ loop' = [loop EXCEPT !.at = "pumping", !.listens = topic_prefix]
  /\ inbox' = IF contexts[topic_prefix] = Empty \/ opened > 1 THEN <<>>
              ELSE <<contexts[topic_prefix]>>
  /\ UNCHANGED <<settings, topic_prefix, stop_event, context, editor, link,
                 broker, opened, edits, messages, left>>

\* Discovery and subscription: what is retained comes at once.
Subscribe ==
  /\ loop.at = "up" /\ Runs /\ link
  /\ loop' = [loop EXCEPT !.at = "pumping", !.listens = topic_prefix]
  /\ inbox' = IF contexts[topic_prefix] = Empty THEN <<>>
              ELSE <<contexts[topic_prefix]>>
  /\ UNCHANGED <<settings, topic_prefix, stop_event, context, editor, link,
                 broker, opened, edits, messages, left>>

\* _handle_context_message: what is not under the prefix there is now is
\* ignored; an empty message clears the entry.
Receive ==
  /\ loop.at = "pumping" /\ Runs /\ inbox # <<>>
  /\ context' = IF loop.listens = topic_prefix THEN Head(inbox) ELSE context
  /\ inbox' = Tail(inbox)
  /\ UNCHANGED <<settings, topic_prefix, stop_event, loop, editor, link,
                 broker, opened, edits, messages, left>>

\* An exception on a working connection: a publication or a subscription that
\* nobody acknowledges in time, a message that cannot be handled.  On the way
\* out the client disconnects: the broker forgets the session and its will, and
\* nobody says "offline".
Raises ==
  /\ connected /\ link /\ Runs
  /\ sessions' = {s \in sessions : ~Own(s)}
  /\ left' = left \union {s.will : s \in {t \in sessions : Own(t)}}
  /\ link' = FALSE /\ inbox' = <<>>
  /\ UNCHANGED <<settings, topic_prefix, stop_event, context, loop, editor, status,
                 contexts, opened, edits, messages>>

\* The loop fails: the broker is not there, or the connection is broken, which
\* is noticed, or closed.  It waits, or, asked to stop, it ends.
Fail ==
  /\ loop.at = "connecting" \/ (connected /\ ~link)
  /\ Runs
  /\ loop' = [loop EXCEPT !.at = IF stop_event THEN "none" ELSE "backoff",
                          !.session = NoSession]
  /\ inbox' = <<>>
  /\ UNCHANGED <<settings, topic_prefix, stop_event, context, editor, link,
                 broker, opened, edits, messages, left>>

Retry ==
  /\ loop.at = "backoff" /\ Runs
  /\ loop' = [loop EXCEPT !.at = IF stop_event THEN "none" ELSE "connecting"]
  /\ UNCHANGED <<settings, topic_prefix, stop_event, context, editor, link, inbox,
                 broker, opened, edits, messages, left>>

-----------------------------------------------------------------------------
(* The network, the broker, Home Assistant, and the process.               *)

LinkBreaks ==
  /\ connected /\ link
  /\ link' = FALSE
  /\ UNCHANGED <<settings, topic_prefix, stop_event, context, loop, editor, inbox,
                 broker, opened, edits, messages, left>>

\* The broker gives a session up: its will is published.
SessionExpires(s) ==
  /\ s \in sessions /\ ~(Own(s) /\ link)
  /\ sessions' = sessions \ {s}
  /\ status' = Announced(s.will, "offline")
  /\ UNCHANGED <<settings, topic_prefix, stop_event, context, loop, editor, link,
                 inbox, contexts, opened, edits, messages, left>>

HomeAssistantPublishes(p, v) ==
  /\ messages < MaxMessage
  /\ messages' = messages + 1
  /\ contexts' = [contexts EXCEPT ![p] = v]
  /\ inbox' = IF loop.at = "pumping" /\ link /\ loop.listens = p
                THEN Append(inbox, v) ELSE inbox
  /\ UNCHANGED <<settings, topic_prefix, stop_event, context, loop, editor, link,
                 sessions, status, opened, edits, left>>

\* The process dies; its session stays until it expires.
Crash ==
  /\ loop.at # "none"
  /\ loop' = NoLoop
  /\ editor' = [e \in Editors |-> Idle]
  /\ context' = Empty /\ inbox' = <<>> /\ link' = FALSE
  /\ topic_prefix' = settings.prefix
  /\ left' = IF topic_prefix' # topic_prefix THEN left \union {topic_prefix} ELSE left
  /\ stop_event' = FALSE
  /\ UNCHANGED <<settings, broker, opened, edits, messages>>

Boot ==
  /\ BootDue
  /\ loop' = [NoLoop EXCEPT !.at = "connecting", !.task = NewTask]
  /\ UNCHANGED <<settings, topic_prefix, stop_event, context, editor, link, inbox,
                 broker, opened, edits, messages, left>>

-----------------------------------------------------------------------------
ClientInit ==
  /\ settings \in [mode : {"off", "on"}, prefix : {Default}]
  /\ topic_prefix = Default
  /\ stop_event = FALSE
  /\ context = Empty
  /\ loop = NoLoop
  /\ editor = [e \in Editors |-> Idle]
  /\ link = FALSE /\ inbox = <<>>
  /\ sessions = {}
  /\ status = [p \in Prefixes |-> "none"]
  /\ contexts = [p \in Prefixes |-> Empty]
  /\ opened = 0 /\ edits = 0 /\ messages = 0
  /\ left = {}

LoopStep == Connect \/ Subscribe \/ Receive \/ Raises \/ Fail \/ Retry \/ TaskEnds
EditorStep(e) == OfflineSent(e) \/ StopEnds(e)

ClientNext ==
  \/ \E e \in Editors, new \in [mode : Modes, prefix : Prefixes] : Edit(e, new)
  \/ \E e \in Editors : EditorStep(e)
  \/ LoopStep
  \/ LinkBreaks
  \/ \E s \in sessions : SessionExpires(s)
  \/ \E p \in Prefixes, v \in Values \union {Empty} : HomeAssistantPublishes(p, v)
  \/ Boot
  \/ Crash

ClientSpec == ClientInit /\ [][ClientNext]_clientVars

-----------------------------------------------------------------------------
(* Properties.                                                             *)

\* A status that says online is backed by a session whose end will make it
\* offline, by the client's own message or by the will, however often the
\* client was restarted, disconnected or killed.  Only a prefix that was
\* changed under a session, or whose session is closed by an edit that the
\* one before had overtaken, or by an exception, may be left behind saying
\* online, and no longer than until the client is connected under it again.
OnlineIsBacked ==
  \A p \in Prefixes \ left :
    status[p] = "online" => \E s \in sessions : s.will = p

\* "Murdock pulls the last known state immediately on (re)connect - never
\* blind after a restart": a loop that has read its inbox knows what Home
\* Assistant retains under its prefix, whatever it missed in between.
NeverBlind ==
  loop.at = "pumping" /\ link /\ Quiet /\ inbox = <<>>
      /\ contexts[topic_prefix] # Empty =>
    context = contexts[topic_prefix]
=============================================================================
