------------------------------ MODULE ModelLock ------------------------------
(***************************************************************************)
(* The two locks around the speaker-embedding model.                       *)
(*                                                                         *)
(* Coroutines of the connections (the early probes, the full verification, *)
(* extraction, auto-enroll, training capture) take the asyncio lock        *)
(* _MODEL_LOCK, hand embed_pcm to a thread of the executor and await it.   *)
(* Cancelling such a coroutine - AudioStop cancels the early probe, a      *)
(* hang-up cancels both probes - releases the asyncio lock at once; a      *)
(* thread that already runs cannot be cancelled and goes on.  Requests of  *)
(* the web API that score samples, and recalibration, embed in threads of  *)
(* their own, without _MODEL_LOCK.                                         *)
(*                                                                         *)
(* Inside embed_pcm the features are computed outside, and the ONNX        *)
(* session is run inside, the embedder's own threading lock.               *)
(***************************************************************************)
EXTENDS Integers, FiniteSets, Sequences, SequencesExt

CONSTANTS
  Probes,       \* coroutines a handler may cancel
  Verifiers,    \* coroutines nobody cancels
  ApiRequests,  \* threads of the web API and of recalibration
  Nobody        \* a lock has no owner

Coroutines == Probes \union Verifiers
Callers == Coroutines \union ApiRequests

ASSUME ModelLockAssumption ==
  /\ Probes \intersect Verifiers = {}
  /\ Coroutines \intersect ApiRequests = {}
  /\ Nobody \notin Callers
  /\ IsFiniteSet(Callers)

VARIABLES
  pc,           \* coroutine -> idle, queued, embedding, verifying
  owner,        \* _MODEL_LOCK: the coroutine inside `async with`
  queue,        \* _MODEL_LOCK: the coroutines waiting, first come first served
  thread,       \* caller -> what its executor thread does
  sessionLock   \* CAMPPlusEmbedder._lock: the caller whose thread holds it

vars == <<pc, owner, queue, thread, sessionLock>>

TypeOK ==
  /\ pc \in [Coroutines -> {"idle", "queued", "embedding", "verifying"}]
  /\ owner \in Coroutines \union {Nobody}
  /\ queue \in Seq(Coroutines) /\ Len(queue) <= Cardinality(Coroutines)
  /\ thread \in [Callers -> {"none", "submitted", "features", "inference"}]
  /\ sessionLock \in Callers \union {Nobody}

Init ==
  /\ pc = [c \in Coroutines |-> "idle"]
  /\ owner = Nobody
  /\ queue = <<>>
  /\ thread = [c \in Callers |-> "none"]
  /\ sessionLock = Nobody

-----------------------------------------------------------------------------
(* Coroutines on the event loop.                                           *)

\* A coroutine name stands for its successors too; it is used again once the
\* thread of the one before has ended.
WantModel(c) ==
  /\ pc[c] = "idle" /\ thread[c] = "none"
  /\ pc' = [pc EXCEPT ![c] = "queued"]
  /\ queue' = Append(queue, c)
  /\ UNCHANGED <<owner, thread, sessionLock>>

TakeModel(c) ==
  /\ owner = Nobody
  /\ queue # <<>> /\ c = Head(queue)
  /\ owner' = c
  /\ queue' = Tail(queue)
  /\ pc' = [pc EXCEPT ![c] = "embedding"]
  /\ thread' = [thread EXCEPT ![c] = "submitted"]
  /\ UNCHANGED sessionLock

\* verify_embedding returned, or the embedding failed: leave `async with`.
LeaveModel(c) ==
  /\ \/ pc[c] = "verifying"
     \/ pc[c] = "embedding" /\ thread[c] = "none"
  /\ pc' = [pc EXCEPT ![c] = "idle"]
  /\ owner' = Nobody
  /\ UNCHANGED <<queue, thread, sessionLock>>

LeavesQueue(c) ==
  \/ pc[c] # "queued" /\ UNCHANGED queue
  \/ \E i \in 1 .. Len(queue) : queue[i] = c /\ queue' = RemoveAt(queue, i)

\* A bug: _MODEL_LOCK is acquired and released by hand.
CancelKeepingLock(c) ==
  /\ pc[c] # "idle"
  /\ pc' = [pc EXCEPT ![c] = "idle"]
  /\ LeavesQueue(c)
  /\ thread' = [thread EXCEPT ![c] = IF @ = "submitted" THEN "none" ELSE @]
  /\ UNCHANGED <<owner, sessionLock>>

\* A submitted call that no thread has picked up yet is cancelled with its
\* coroutine; one that runs is not.
Cancel(c) ==
  /\ pc[c] # "idle"
  /\ pc' = [pc EXCEPT ![c] = "idle"]
  /\ LeavesQueue(c)
  /\ owner' = IF owner = c THEN Nobody ELSE owner
  /\ thread' = [thread EXCEPT ![c] = IF @ = "submitted" THEN "none" ELSE @]
  /\ UNCHANGED sessionLock

-----------------------------------------------------------------------------
(* Threads.                                                                *)

ApiEmbed(a) ==
  /\ thread[a] = "none"
  /\ thread' = [thread EXCEPT ![a] = "submitted"]
  /\ UNCHANGED <<pc, owner, queue, sessionLock>>

StartEmbed(c) ==
  /\ thread[c] = "submitted"
  /\ thread' = [thread EXCEPT ![c] = "features"]
  /\ UNCHANGED <<pc, owner, queue, sessionLock>>

\* Empty audio, or too few frames: ValueError before the session is touched.
TooShort(c) ==
  /\ thread[c] = "features"
  /\ thread' = [thread EXCEPT ![c] = "none"]
  /\ UNCHANGED <<pc, owner, queue, sessionLock>>

\* A bug: session.run outside the embedder's lock.
InferUnlocked(c) ==
  /\ thread[c] = "features"
  /\ sessionLock' = c
  /\ thread' = [thread EXCEPT ![c] = "inference"]
  /\ UNCHANGED <<pc, owner, queue>>

Infer(c) ==
  /\ thread[c] = "features"
  /\ sessionLock = Nobody
  /\ sessionLock' = c
  /\ thread' = [thread EXCEPT ![c] = "inference"]
  /\ UNCHANGED <<pc, owner, queue>>

\* The coroutine that awaits the call, if it still does, goes on to verify.
Embedded(c) ==
  /\ thread[c] = "inference"
  /\ thread' = [thread EXCEPT ![c] = "none"]
  /\ sessionLock' = Nobody
  /\ pc' = [d \in Coroutines |->
              IF d = c /\ pc[d] = "embedding" THEN "verifying" ELSE pc[d]]
  /\ UNCHANGED <<owner, queue>>

ThreadStep(c) == StartEmbed(c) \/ TooShort(c) \/ Infer(c) \/ Embedded(c)

Next ==
  \/ \E c \in Coroutines : WantModel(c) \/ TakeModel(c) \/ LeaveModel(c)
  \/ \E p \in Probes : Cancel(p)
  \/ \E a \in ApiRequests : ApiEmbed(a)
  \/ \E c \in Callers : ThreadStep(c)

\* The executor runs what it was given, a thread blocked on the embedder's
\* lock is not overtaken for ever, and the loop resumes what is ready.
Fairness ==
  /\ \A c \in Coroutines : WF_vars(TakeModel(c)) /\ WF_vars(LeaveModel(c))
  /\ \A c \in Callers : SF_vars(ThreadStep(c))

Spec == Init /\ [][Next]_vars /\ Fairness

-----------------------------------------------------------------------------
(* Properties.                                                             *)

\* _MODEL_LOCK is owned by the one coroutine inside its block and by nobody
\* else, and exactly the waiting coroutines stand in its queue, once each -
\* also after cancellations in the queue and inside the block.
ModelLockIsOwned ==
  /\ \A c \in Coroutines :
       /\ pc[c] \in {"embedding", "verifying"} <=> owner = c
       /\ pc[c] = "queued" <=> \E i \in DOMAIN queue : queue[i] = c
  /\ IsInjective(queue)

\* The ONNX session is never run by two threads: what the embedder's own lock
\* still guarantees when a cancelled probe has given _MODEL_LOCK away and
\* when the web API embeds beside the connections.
SessionRunsAlone ==
  Cardinality({c \in Callers : thread[c] = "inference"}) <= 1

\* A coroutine that wants the model gets it or is cancelled.
ModelIsNotLost ==
  \A c \in Coroutines : pc[c] = "queued" ~> pc[c] # "queued"
=============================================================================
