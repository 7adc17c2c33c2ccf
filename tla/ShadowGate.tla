----------------------------- MODULE ShadowGate -----------------------------
(***************************************************************************)
(* The process-wide _ShadowGate of wyoming_murdock/handler.py and the two  *)
(* kinds of task that use it on one asyncio event loop:                    *)
(*                                                                         *)
(*  - a connection handler holds a main slot from the first audio chunk of *)
(*    an utterance until its answer goes out, a new AudioStart resets it,  *)
(*    or the connection closes;                                            *)
(*  - a shadow run (one task per answered utterance) asks its benchmark    *)
(*    services one after the other, each behind the gate.                  *)
(*                                                                         *)
(* asyncio.Event.wait does not look at the flag again once set() has       *)
(* resolved the waiter's future: between set() and the resumption of the   *)
(* waiter (state "woken") the flag may have been cleared.  asyncio.Lock is *)
(* fair: a newcomer queues behind the tasks already waiting.               *)
(***************************************************************************)
EXTENDS Integers, FiniteSets, Sequences, SequencesExt

CONSTANTS
  Handlers,     \* connection handlers
  Runs,         \* shadow-run tasks alive at once; bounds the model
  MaxShadows,   \* shadow services one run asks
  NoRun         \* the lock has no owner

ASSUME GateAssumption ==
  /\ IsFiniteSet(Handlers)
  /\ MaxShadows \in Nat \ {0}
  /\ NoRun \notin Runs

VARIABLES
  active,       \* _active: mains in flight, as the gate counts them
  idle,         \* _idle: the Event's flag
  lockOwner,    \* _lock: the run inside run(), or NoRun
  lockQueue,    \* _lock: the runs waiting for it, first come first served
  held,         \* handler -> _main_slot_held
  pc,           \* run -> where its task is
  todo          \* run -> shadow services it has yet to ask

gateVars == <<active, idle, lockOwner, lockQueue>>
vars == <<gateVars, held, pc, todo>>

PCs == {"free",      \* no such task
        "next",      \* at the head of the loop over the shadow services
        "queued",    \* in _lock.acquire()
        "waiting",   \* in _idle.wait(), owns the lock
        "woken",     \* its waiter future is resolved, not yet resumed
        "running"}   \* in the factory: the service is transcribing

TypeOK ==
  /\ active \in Nat
  /\ idle \in BOOLEAN
  /\ lockOwner \in Runs \union {NoRun}
  /\ lockQueue \in Seq(Runs)
  /\ held \in [Handlers -> BOOLEAN]
  /\ pc \in [Runs -> PCs]
  /\ todo \in [Runs -> 0 .. MaxShadows]

Init ==
  /\ active = 0
  /\ idle = TRUE
  /\ lockOwner = NoRun
  /\ lockQueue = <<>>
  /\ held = [h \in Handlers |-> FALSE]
  /\ pc = [r \in Runs |-> "free"]
  /\ todo = [r \in Runs |-> 0]

-----------------------------------------------------------------------------
(* The gate's two synchronous calls.                                       *)

\* A bug: the waiters are not told.
WakeNobody == pc

\* set() resolves the future of every waiter; a resolved waiter resumes later.
Wake == [r \in Runs |-> IF pc[r] = "waiting" THEN "woken" ELSE pc[r]]

acquire_main ==
  /\ active' = active + 1
  /\ idle' = FALSE

Released(n) == IF n > 0 THEN n - 1 ELSE 0

release_main ==
  /\ active' = Released(active)
  /\ idle' = (Released(active) = 0 \/ idle)
  /\ pc' = IF Released(active) = 0 THEN Wake ELSE pc

-----------------------------------------------------------------------------
(* Handlers.                                                               *)

FirstChunk(h) ==
  /\ ~held[h]
  /\ acquire_main
  /\ held' = [held EXCEPT ![h] = TRUE]
  /\ UNCHANGED <<lockOwner, lockQueue, pc, todo>>

\* A bug: the flag is reset, the gate is not told.
ForgetSlot(h) ==
  /\ held[h]
  /\ held' = [held EXCEPT ![h] = FALSE]
  /\ UNCHANGED <<gateVars, pc, todo>>

\* The slot goes back when the answer is about to be written, when AudioStart
\* finds it still held by a session that never answered, and in disconnect().
ReleaseSlot(h) ==
  /\ held[h]
  /\ held' = [held EXCEPT ![h] = FALSE]
  /\ release_main
  /\ UNCHANGED <<lockOwner, lockQueue, todo>>

\* _spawn_shadow: only after the answer, and only for an utterance that was
\* logged and has audio; n is the number of shadow services configured.
SpawnShadows(h, r) ==
  /\ ~held[h]
  /\ pc[r] = "free"
  /\ \E n \in 1 .. MaxShadows : todo' = [todo EXCEPT ![r] = n]
  /\ pc' = [pc EXCEPT ![r] = "next"]
  /\ UNCHANGED <<gateVars, held>>

-----------------------------------------------------------------------------
(* Shadow runs.                                                            *)

\* The next service was asked during the answer already, or is not fully
\* configured: its result is recorded without passing the gate.
SkipService(r) ==
  /\ pc[r] = "next" /\ todo[r] > 0
  /\ todo' = [todo EXCEPT ![r] = @ - 1]
  /\ UNCHANGED <<gateVars, held, pc>>

QueueService(r) ==
  /\ pc[r] = "next" /\ todo[r] > 0
  /\ pc' = [pc EXCEPT ![r] = "queued"]
  /\ lockQueue' = Append(lockQueue, r)
  /\ UNCHANGED <<active, idle, lockOwner, held, todo>>

\* A bug: without the wait.
EnterWithoutWait(r) ==
  /\ lockOwner = NoRun
  /\ lockQueue # <<>>
  /\ r = Head(lockQueue)
  /\ lockOwner' = r
  /\ lockQueue' = Tail(lockQueue)
  /\ pc' = [pc EXCEPT ![r] = "running"]
  /\ UNCHANGED <<active, idle, held, todo>>

\* `async with self._lock`, then `await self._idle.wait()`: a set flag lets
\* the run through without giving up control.
EnterGate(r) ==
  /\ lockOwner = NoRun
  /\ lockQueue # <<>>
  /\ r = Head(lockQueue)
  /\ lockOwner' = r
  /\ lockQueue' = Tail(lockQueue)
  /\ pc' = [pc EXCEPT ![r] = IF idle THEN "running" ELSE "waiting"]
  /\ UNCHANGED <<active, idle, held, todo>>

Resume(r) ==
  /\ pc[r] = "woken"
  /\ pc' = [pc EXCEPT ![r] = "running"]
  /\ UNCHANGED <<gateVars, held, todo>>

\* The service answered, failed or timed out; the lock is released either way.
ServiceDone(r) ==
  /\ pc[r] = "running"
  /\ pc' = [pc EXCEPT ![r] = "next"]
  /\ todo' = [todo EXCEPT ![r] = @ - 1]
  /\ lockOwner' = NoRun
  /\ UNCHANGED <<active, idle, lockQueue, held>>

RunEnds(r) ==
  /\ pc[r] = "next" /\ todo[r] = 0
  /\ pc' = [pc EXCEPT ![r] = "free"]
  /\ UNCHANGED <<gateVars, held, todo>>

RunStep(r) ==
  \/ SkipService(r)
  \/ QueueService(r)
  \/ EnterGate(r)
  \/ Resume(r)
  \/ ServiceDone(r)
  \/ RunEnds(r)

Next ==
  \/ \E h \in Handlers : FirstChunk(h)
  \/ \E h \in Handlers : ReleaseSlot(h)
  \/ \E h \in Handlers, r \in Runs : SpawnShadows(h, r)
  \/ \E r \in Runs : RunStep(r)

\* The event loop runs every ready task; a service request ends because it
\* carries a timeout.  Nothing obliges a satellite to speak or to be quiet.
Fairness == \A r \in Runs : WF_vars(RunStep(r))

Spec == Init /\ [][Next]_vars /\ Fairness

-----------------------------------------------------------------------------
(* Properties.                                                             *)

\* Shadows run one at a time ("shadows run one at a time", class docstring):
\* a run is past the lock exactly when it owns it, and no run that waits its
\* turn is lost from the queue or stands in it twice.
OneShadowAtATime ==
  /\ \A r \in Runs :
       pc[r] \in {"waiting", "woken", "running"} <=> lockOwner = r
  /\ \A r \in Runs :
       pc[r] = "queued" <=> \E i \in 1 .. Len(lockQueue) : lockQueue[i] = r
  /\ IsInjective(lockQueue)

\* The gate's counter never drifts from the slots the handlers hold, and the
\* flag says exactly whether it is zero: a slot lost by an abandoned session
\* would hold every later shadow back for ever.
SlotsAreCounted ==
  /\ active = Cardinality({h \in Handlers : held[h]})
  /\ idle <=> active = 0

\* A run that waits on the event is not let through by anything but the
\* moment the last main went: while a main is in flight no run that still
\* waits, and none that reaches the gate, starts its service.
MainHoldsShadowsBack ==
  [][\A r \in Runs :
       active > 0 /\ pc[r] # "woken" /\ pc[r] # "running"
         => pc'[r] # "running"]_vars

\* If the process is quiet again and again, no shadow run waits for ever:
\* the wake-up is kept even when the next main comes before the run resumes.
QuietLetsShadowsFinish ==
  []<>(active = 0) => \A r \in Runs : pc[r] = "queued" ~> pc[r] = "free"
=============================================================================
