-------------------------- MODULE ModelLock_proofs --------------------------
(***************************************************************************)
(* Proofs about the locks around the embedding model, for any finite set   *)
(* of coroutines and threads and any pattern of cancellations.             *)
(***************************************************************************)
EXTENDS ModelLock, FiniteSetTheorems, SequenceTheorems, TLAPS

\* What TypeOK says but for the bound on the queue, which follows from
\* ModelLockIsOwned.
Typed ==
  /\ pc \in [Coroutines -> {"idle", "queued", "embedding", "verifying"}]
  /\ owner \in Coroutines \union {Nobody}
  /\ queue \in Seq(Coroutines)
  /\ thread \in [Callers -> {"none", "submitted", "features", "inference"}]
  /\ sessionLock \in Callers \union {Nobody}

\* A coroutine in the queue has no thread: its predecessor's has ended.
QueuedHaveNoThread ==
  \A c \in Coroutines : pc[c] = "queued" => thread[c] = "none"

\* The embedder's lock is held by the caller whose thread runs the session.
SessionLockIsOwned ==
  \A c \in Callers : thread[c] = "inference" <=> sessionLock = c

IInv == Typed /\ QueuedHaveNoThread /\ SessionLockIsOwned /\ ModelLockIsOwned

-----------------------------------------------------------------------------
(* Removing a position from a sequence.                                    *)

LEMMA RemoveAtProperties ==
  ASSUME NEW S, NEW s \in Seq(S), NEW i \in 1 .. Len(s)
  PROVE  /\ RemoveAt(s, i) \in Seq(S)
         /\ Len(RemoveAt(s, i)) = Len(s) - 1
         /\ \A j \in 1 .. Len(s) - 1 :
              RemoveAt(s, i)[j] = IF j < i THEN s[j] ELSE s[j + 1]
<1> DEFINE a == SubSeq(s, 1, i - 1)
           b == SubSeq(s, i + 1, Len(s))
<1>1. Len(s) \in Nat /\ i \in Int /\ 1 <= i /\ i <= Len(s)
  BY LenProperties
<1>2. \A j \in 1 .. Len(s) : s[j] \in S
  BY ElementOfSeq
<1>3. /\ a \in Seq(S) /\ Len(a) = i - 1
      /\ \A j \in 1 .. i - 1 : a[j] = s[j]
  <2>1. \A j \in 1 .. i - 1 : s[j] \in S
    BY <1>1, <1>2
  <2>2. /\ a \in Seq(S) /\ Len(a) = IF 1 <= i - 1 THEN (i - 1) - 1 + 1 ELSE 0
        /\ \A j \in 1 .. (i - 1) - 1 + 1 : a[j] = s[1 + j - 1]
    BY <1>1, <2>1, SubSeqProperties
  <2>. QED
    BY <1>1, <2>2
<1>4. /\ b \in Seq(S) /\ Len(b) = Len(s) - i
      /\ \A j \in 1 .. Len(s) - i : b[j] = s[i + j]
  <2>1. \A j \in i + 1 .. Len(s) : s[j] \in S
    BY <1>1, <1>2
  <2>2. /\ b \in Seq(S)
        /\ Len(b) = IF i + 1 <= Len(s) THEN Len(s) - (i + 1) + 1 ELSE 0
        /\ \A j \in 1 .. Len(s) - (i + 1) + 1 : b[j] = s[(i + 1) + j - 1]
    BY <1>1, <2>1, SubSeqProperties
  <2>. QED
    BY <1>1, <2>2
<1>5. /\ a \o b \in Seq(S) /\ Len(a \o b) = Len(a) + Len(b)
      /\ \A j \in 1 .. Len(a) + Len(b) :
           (a \o b)[j] = IF j <= Len(a) THEN a[j] ELSE b[j - Len(a)]
  BY <1>3, <1>4, ConcatProperties
<1>6. RemoveAt(s, i) = a \o b
  BY DEF RemoveAt
<1> HIDE DEF a, b
<1>7. ASSUME NEW j \in 1 .. Len(s) - 1
      PROVE  (a \o b)[j] = IF j < i THEN s[j] ELSE s[j + 1]
  <2>1. CASE j < i
    BY <1>1, <1>3, <1>4, <1>5, <2>1
  <2>2. CASE ~(j < i)
    <3>1. j - (i - 1) \in 1 .. Len(s) - i /\ i + (j - (i - 1)) = j + 1
      BY <1>1, <2>2
    <3>2. j \in 1 .. Len(a) + Len(b) /\ ~(j <= Len(a)) /\ j - Len(a) = j - (i - 1)
      BY <1>1, <1>3, <1>4, <2>2
    <3>3. (a \o b)[j] = b[j - (i - 1)]
      BY <1>5, <3>2
    <3>4. b[j - (i - 1)] = s[j + 1]
      BY <1>4, <3>1
    <3>. QED
      BY <2>2, <3>3, <3>4
  <2>. QED
    BY <2>1, <2>2
<1>8. Len(a) + Len(b) = Len(s) - 1
  BY <1>1, <1>3, <1>4
<1>. QED
  BY <1>5, <1>6, <1>7, <1>8

-----------------------------------------------------------------------------
(* The queue of _MODEL_LOCK: how it changes, and that the waiting          *)
(* coroutines stand in it, once each.                                      *)

InQueue(c) == \E i \in 1 .. Len(queue) : queue[i] = c

LEMMA QueueDomain ==
  ASSUME Typed PROVE DOMAIN queue = 1 .. Len(queue) /\ Len(queue) \in Nat
BY LenProperties DEF Typed

LEMMA QueueGrows ==
  ASSUME Typed, IsInjective(queue), NEW c \in Coroutines, ~InQueue(c),
         queue' = Append(queue, c)
  PROVE  /\ queue' \in Seq(Coroutines) /\ IsInjective(queue')
         /\ \A d \in Coroutines : InQueue(d)' <=> InQueue(d) \/ d = c
<1>1. /\ queue' \in Seq(Coroutines) /\ Len(queue') = Len(queue) + 1
      /\ \A i \in 1 .. Len(queue) : queue'[i] = queue[i]
      /\ queue'[Len(queue) + 1] = c
  BY AppendProperties DEF Typed
<1>2. /\ DOMAIN queue = 1 .. Len(queue) /\ Len(queue) \in Nat
      /\ DOMAIN queue' = 1 .. Len(queue')
  BY <1>1, QueueDomain, LenProperties
<1>3. IsInjective(queue')
  BY <1>1, <1>2 DEF IsInjective, InQueue
<1>4. ASSUME NEW d \in Coroutines PROVE InQueue(d)' <=> InQueue(d) \/ d = c
  BY <1>1, <1>2 DEF InQueue
<1>. QED
  BY <1>1, <1>3, <1>4

LEMMA QueueShrinks ==
  ASSUME Typed, IsInjective(queue), NEW i \in 1 .. Len(queue),
         /\ queue' \in Seq(Coroutines) /\ Len(queue') = Len(queue) - 1
         /\ \A j \in 1 .. Len(queue) - 1 :
              queue'[j] = IF j < i THEN queue[j] ELSE queue[j + 1]
  PROVE  /\ IsInjective(queue')
         /\ \A d \in Coroutines : InQueue(d)' <=> InQueue(d) /\ d # queue[i]
<1>1. /\ DOMAIN queue = 1 .. Len(queue) /\ Len(queue) \in Nat
      /\ DOMAIN queue' = 1 .. Len(queue') /\ i \in Int
  BY QueueDomain, LenProperties
<1>2. \A j, k \in 1 .. Len(queue) : queue[j] = queue[k] => j = k
  BY <1>1 DEF IsInjective
<1>3. IsInjective(queue')
  <2>1. SUFFICES ASSUME NEW j \in 1 .. Len(queue'), NEW k \in 1 .. Len(queue'),
                        queue'[j] = queue'[k]
                 PROVE  j = k
    BY <1>1 DEF IsInjective
  <2> DEFINE old(n) == IF n < i THEN n ELSE n + 1
  <2>2. old(j) \in 1 .. Len(queue) /\ old(k) \in 1 .. Len(queue)
    BY <1>1
  <2>3. queue'[j] = queue[old(j)] /\ queue'[k] = queue[old(k)]
    BY <1>1
  <2>4. old(j) = old(k)
    BY <1>2, <2>1, <2>2, <2>3
  <2>. QED
    BY <1>1, <2>4
<1>4. ASSUME NEW d \in Coroutines, InQueue(d)' PROVE InQueue(d) /\ d # queue[i]
  <2>1. PICK j \in 1 .. Len(queue') : queue'[j] = d
    BY <1>4 DEF InQueue
  <2>2. CASE j < i
    BY <1>1, <1>2, <2>1, <2>2 DEF InQueue
  <2>3. CASE ~(j < i)
    <3>1. j + 1 \in 1 .. Len(queue) /\ queue[j + 1] = d /\ j + 1 # i
      BY <1>1, <2>1, <2>3
    <3>. QED
      BY <1>2, <3>1 DEF InQueue
  <2>. QED
    BY <2>2, <2>3
<1>5. ASSUME NEW d \in Coroutines, InQueue(d), d # queue[i] PROVE InQueue(d)'
  <2>1. PICK j \in 1 .. Len(queue) : queue[j] = d
    BY <1>5 DEF InQueue
  <2>2. CASE j < i
    <3>1. j \in 1 .. Len(queue') /\ queue'[j] = d
      BY <1>1, <2>1, <2>2
    <3>. QED
      BY <3>1 DEF InQueue
  <2>3. CASE ~(j < i)
    <3>1. j - 1 \in 1 .. Len(queue') /\ queue'[j - 1] = d
      <4>1. j # i
        BY <1>5, <2>1
      <4>2. j - 1 \in 1 .. Len(queue) - 1 /\ ~(j - 1 < i) /\ (j - 1) + 1 = j
        BY <1>1, <2>3, <4>1
      <4>. QED
        BY <1>1, <2>1, <4>2
    <3>. QED
      BY <3>1 DEF InQueue
  <2>. QED
    BY <2>2, <2>3
<1>. QED
  BY <1>3, <1>4, <1>5

\* The lock discipline in terms of InQueue.
LEMMA Owned ==
  ASSUME Typed
  PROVE  ModelLockIsOwned <=>
           /\ \A c \in Coroutines :
                /\ pc[c] \in {"embedding", "verifying"} <=> owner = c
                /\ pc[c] = "queued" <=> InQueue(c)
           /\ IsInjective(queue)
BY QueueDomain DEF ModelLockIsOwned, InQueue

-----------------------------------------------------------------------------
(* The invariant is inductive.                                             *)

LEMMA InitIInv == Init => IInv
<1> SUFFICES ASSUME Init PROVE IInv
  OBVIOUS
<1>1. Typed
  BY EmptySeq DEF Init, Typed
<1>2. QueuedHaveNoThread /\ SessionLockIsOwned
  BY ModelLockAssumption DEF Init, QueuedHaveNoThread, SessionLockIsOwned
<1>3. ModelLockIsOwned
  BY ModelLockAssumption, EmptySeq
  DEF Init, ModelLockIsOwned, IsInjective, Callers
<1>. QED
  BY <1>1, <1>2, <1>3 DEF IInv

LEMMA TypedStep == IInv /\ [Next]_vars => Typed'
<1> SUFFICES ASSUME IInv, [Next]_vars PROVE Typed'
  OBVIOUS
<1> USE DEF Typed, Callers
<1>1. ASSUME NEW c \in Coroutines, WantModel(c) PROVE Typed'
  BY <1>1, AppendProperties DEF WantModel, IInv
<1>2. ASSUME NEW c \in Coroutines, TakeModel(c) PROVE Typed'
  BY <1>2, HeadTailProperties DEF TakeModel, IInv
<1>3. ASSUME NEW c \in Coroutines, LeaveModel(c) PROVE Typed'
  BY <1>3 DEF LeaveModel, IInv
<1>4. ASSUME NEW c \in Probes, Cancel(c) PROVE Typed'
  <2>1. queue' \in Seq(Coroutines)
    BY <1>4, RemoveAtProperties DEF Cancel, LeavesQueue, IInv
  <2>2. /\ pc' \in [Coroutines -> {"idle", "queued", "embedding", "verifying"}]
        /\ thread' \in [Callers -> {"none", "submitted", "features", "inference"}]
    BY <1>4 DEF Cancel, IInv
  <2>3. owner' \in Coroutines \union {Nobody} /\ sessionLock' = sessionLock
    BY <1>4 DEF Cancel, IInv
  <2>. QED
    BY <2>1, <2>2, <2>3 DEF IInv
<1>5. ASSUME NEW a \in ApiRequests, ApiEmbed(a) PROVE Typed'
  BY <1>5 DEF ApiEmbed, IInv
<1>6. ASSUME NEW c \in Callers, ThreadStep(c) PROVE Typed'
  <2>1. ASSUME StartEmbed(c) \/ TooShort(c) \/ Infer(c) PROVE Typed'
    BY <2>1 DEF StartEmbed, TooShort, Infer, IInv
  <2>2. ASSUME Embedded(c) PROVE Typed'
    BY <2>2 DEF Embedded, IInv
  <2>. QED
    BY <1>6, <2>1, <2>2 DEF ThreadStep
<1>7. CASE UNCHANGED vars
  BY <1>7 DEF vars, IInv
<1>. QED
  BY <1>1, <1>2, <1>3, <1>4, <1>5, <1>6, <1>7 DEF Next

\* The threads: who runs one, and who holds the embedder's lock.
LEMMA ThreadStepInv ==
  IInv /\ [Next]_vars => QueuedHaveNoThread' /\ SessionLockIsOwned'
<1> SUFFICES ASSUME IInv, [Next]_vars
             PROVE  QueuedHaveNoThread' /\ SessionLockIsOwned'
  OBVIOUS
<1> USE ModelLockAssumption DEF QueuedHaveNoThread, SessionLockIsOwned, Typed, Callers
<1>1. ASSUME NEW c \in Coroutines, WantModel(c)
      PROVE  QueuedHaveNoThread' /\ SessionLockIsOwned'
  BY <1>1 DEF WantModel, IInv
<1>2. ASSUME NEW c \in Coroutines, TakeModel(c)
      PROVE  QueuedHaveNoThread' /\ SessionLockIsOwned'
  <2>1. pc[c] = "queued" /\ thread[c] = "none"
    <3>1. 1 \in 1 .. Len(queue) /\ queue[1] = c
      BY <1>2, EmptySeq DEF TakeModel, IInv
    <3>. QED
      BY <3>1, QueueDomain DEF IInv, ModelLockIsOwned
  <2>. QED
    BY <1>2, <2>1 DEF TakeModel, IInv
<1>3. ASSUME NEW c \in Coroutines, LeaveModel(c)
      PROVE  QueuedHaveNoThread' /\ SessionLockIsOwned'
  BY <1>3 DEF LeaveModel, IInv
<1>4. ASSUME NEW c \in Probes, Cancel(c)
      PROVE  QueuedHaveNoThread' /\ SessionLockIsOwned'
  BY <1>4 DEF Cancel, IInv
<1>5. ASSUME NEW a \in ApiRequests, ApiEmbed(a)
      PROVE  QueuedHaveNoThread' /\ SessionLockIsOwned'
  BY <1>5 DEF ApiEmbed, IInv
<1>6. ASSUME NEW c \in Callers, ThreadStep(c)
      PROVE  QueuedHaveNoThread' /\ SessionLockIsOwned'
  <2>1. ASSUME StartEmbed(c) \/ TooShort(c)
        PROVE  QueuedHaveNoThread' /\ SessionLockIsOwned'
    BY <2>1 DEF StartEmbed, TooShort, IInv
  <2>2. ASSUME Infer(c) PROVE QueuedHaveNoThread' /\ SessionLockIsOwned'
    BY <2>2 DEF Infer, IInv
  <2>3. ASSUME Embedded(c) PROVE QueuedHaveNoThread' /\ SessionLockIsOwned'
    BY <2>3 DEF Embedded, IInv
  <2>. QED
    BY <1>6, <2>1, <2>2, <2>3 DEF ThreadStep
<1>7. CASE UNCHANGED vars
  BY <1>7 DEF vars, IInv
<1>. QED
  BY <1>1, <1>2, <1>3, <1>4, <1>5, <1>6, <1>7 DEF Next

\* _MODEL_LOCK.
LEMMA OwnedStep == IInv /\ [Next]_vars => ModelLockIsOwned'
<1> SUFFICES ASSUME IInv, [Next]_vars, Typed' PROVE ModelLockIsOwned'
  BY TypedStep
<1> DEFINE Inside(c) == pc[c] \in {"embedding", "verifying"}
           Discipline == /\ \A c \in Coroutines : /\ Inside(c) <=> owner = c
                                                  /\ pc[c] = "queued" <=> InQueue(c)
                         /\ IsInjective(queue)
<1>a. Discipline
  BY Owned DEF IInv
<1>b. SUFFICES Discipline'
  BY QueueDomain, LenProperties DEF ModelLockIsOwned, InQueue, Typed
<1>t. Typed
  BY DEF IInv
<1> USE ModelLockAssumption DEF Callers
<1>1. ASSUME NEW c \in Coroutines, WantModel(c) PROVE Discipline'
  <2>1. ~InQueue(c)
    BY <1>1, <1>a DEF WantModel
  <2>2. /\ IsInjective(queue')
        /\ \A d \in Coroutines : InQueue(d)' <=> InQueue(d) \/ d = c
    BY <1>1, <1>a, <1>t, <2>1, QueueGrows DEF WantModel
  <2>3. \A d \in Coroutines : pc'[d] = IF d = c THEN "queued" ELSE pc[d]
    BY <1>1, <1>t DEF WantModel, Typed
  <2>. QED
    BY <1>1, <1>a, <2>2, <2>3 DEF WantModel
<1>2. ASSUME NEW c \in Coroutines, TakeModel(c) PROVE Discipline'
  <2>1. Len(queue) \in Nat \ {0} /\ 1 \in 1 .. Len(queue) /\ queue[1] = c
    BY <1>2, <1>t, EmptySeq DEF TakeModel, Typed
  <2>2. /\ queue' \in Seq(Coroutines) /\ Len(queue') = Len(queue) - 1
        /\ \A j \in 1 .. Len(queue) - 1 :
             queue'[j] = IF j < 1 THEN queue[j] ELSE queue[j + 1]
    BY <1>2, <1>t, <2>1, HeadTailProperties DEF TakeModel, Typed
  <2>3. /\ IsInjective(queue')
        /\ \A d \in Coroutines : InQueue(d)' <=> InQueue(d) /\ d # c
    BY <1>a, <1>t, <2>1, <2>2, QueueShrinks
  <2>4. \A d \in Coroutines : pc'[d] = IF d = c THEN "embedding" ELSE pc[d]
    BY <1>2, <1>t DEF TakeModel, Typed
  <2>5. InQueue(c)
    BY <2>1 DEF InQueue
  <2>. QED
    BY <1>2, <1>a, <2>3, <2>4, <2>5 DEF TakeModel
<1>3. ASSUME NEW c \in Coroutines, LeaveModel(c) PROVE Discipline'
  <2>1. \A d \in Coroutines : pc'[d] = IF d = c THEN "idle" ELSE pc[d]
    BY <1>3, <1>t DEF LeaveModel, Typed
  <2>2. queue' = queue /\ owner' = Nobody /\ Inside(c)
    BY <1>3 DEF LeaveModel
  <2>. QED
    BY <1>a, <2>1, <2>2 DEF InQueue
<1>4. ASSUME NEW c \in Probes, Cancel(c) PROVE Discipline'
  <2>1. \A d \in Coroutines : pc'[d] = IF d = c THEN "idle" ELSE pc[d]
    BY <1>4, <1>t DEF Cancel, Typed
  <2>2. owner' = IF owner = c THEN Nobody ELSE owner
    BY <1>4 DEF Cancel
  <2>3. CASE pc[c] # "queued" /\ UNCHANGED queue
    BY <1>a, <2>1, <2>2, <2>3 DEF InQueue
  <2>4. CASE \E i \in 1 .. Len(queue) : queue[i] = c /\ queue' = RemoveAt(queue, i)
    <3>1. PICK i \in 1 .. Len(queue) : queue[i] = c /\ queue' = RemoveAt(queue, i)
      BY <2>4
    <3>2. /\ queue' \in Seq(Coroutines) /\ Len(queue') = Len(queue) - 1
          /\ \A j \in 1 .. Len(queue) - 1 :
               queue'[j] = IF j < i THEN queue[j] ELSE queue[j + 1]
      BY <1>t, <3>1, RemoveAtProperties DEF Typed
    <3>3. /\ IsInjective(queue')
          /\ \A d \in Coroutines : InQueue(d)' <=> InQueue(d) /\ d # c
      BY <1>a, <1>t, <3>1, <3>2, QueueShrinks
    <3>. QED
      BY <1>a, <2>1, <2>2, <3>3
  <2>. QED
    BY <1>4, <2>3, <2>4 DEF Cancel, LeavesQueue
<1>5. ASSUME NEW a \in ApiRequests, ApiEmbed(a) PROVE Discipline'
  BY <1>5, <1>a DEF ApiEmbed, InQueue
<1>6. ASSUME NEW c \in Callers, ThreadStep(c) PROVE Discipline'
  <2>1. ASSUME StartEmbed(c) \/ TooShort(c) \/ Infer(c) PROVE Discipline'
    BY <2>1, <1>a DEF StartEmbed, TooShort, Infer, InQueue
  <2>2. ASSUME Embedded(c) PROVE Discipline'
    BY <2>2, <1>a DEF Embedded, InQueue
  <2>. QED
    BY <1>6, <2>1, <2>2 DEF ThreadStep
<1>7. CASE UNCHANGED vars
  BY <1>7, <1>a DEF vars, InQueue
<1>. QED
  BY <1>1, <1>2, <1>3, <1>4, <1>5, <1>6, <1>7 DEF Next

LEMMA Inductive == Spec => []IInv
<1>1. IInv /\ [Next]_vars => IInv'
  BY TypedStep, ThreadStepInv, OwnedStep DEF IInv
<1>. QED
  BY <1>1, InitIInv, PTL DEF Spec

-----------------------------------------------------------------------------
(* The theorems.                                                           *)

\* _MODEL_LOCK is owned by the coroutine inside its block and by nobody else,
\* and the waiting coroutines are its queue, once each, however many probes
\* are cancelled in the queue and inside the block.
THEOREM ModelLockNeverLost == Spec => []ModelLockIsOwned
BY Inductive, PTL DEF IInv

\* No more coroutines wait than there are: with the lock discipline the bound
\* on the queue is a matter of counting.
THEOREM TypeCorrect == Spec => []TypeOK
<1>1. ASSUME IInv PROVE Len(queue) <= Cardinality(Coroutines)
  <2>1. IsFiniteSet(Coroutines)
    BY ModelLockAssumption, FS_Subset DEF Callers
  <2>2. Len(queue) \in Nat /\ queue \in [1 .. Len(queue) -> Coroutines]
    BY <1>1, LenProperties DEF IInv, Typed
  <2>3. IsFiniteSet(1 .. Len(queue)) /\ Cardinality(1 .. Len(queue)) = Len(queue)
    BY <2>2, FS_Interval
  <2>4. Cardinality(Coroutines) \in Nat
    BY <2>1, FS_CardinalityType
  <2>5. ASSUME Cardinality(Coroutines) < Len(queue) PROVE FALSE
    <3>1. \E i, j \in 1 .. Len(queue) : i # j /\ queue[i] = queue[j]
      BY <2>1, <2>2, <2>3, <2>5, FS_PigeonHole
    <3>. QED
      BY <1>1, <2>2, <3>1 DEF IInv, ModelLockIsOwned, IsInjective
  <2>. QED
    BY <2>2, <2>4, <2>5
<1>2. IInv => TypeOK
  BY <1>1 DEF IInv, Typed, TypeOK
<1>. QED
  BY <1>2, Inductive, PTL

\* The ONNX session is run by one thread at a time, whoever cancels what and
\* however many requests embed beside the connections.
THEOREM SessionNeverShared == Spec => []SessionRunsAlone
<1>1. ASSUME IInv PROVE SessionRunsAlone
  <2> DEFINE Running == {c \in Callers : thread[c] = "inference"}
  <2>1. Running \in SUBSET {sessionLock}
    BY <1>1 DEF IInv, SessionLockIsOwned
  <2>2. IsFiniteSet({sessionLock}) /\ Cardinality({sessionLock}) = 1
    BY FS_Singleton
  <2>3. Cardinality(Running) <= 1
    BY <2>1, <2>2, FS_Subset
  <2>. QED
    BY <2>3 DEF SessionRunsAlone
<1>. QED
  BY <1>1, Inductive, PTL
=============================================================================
