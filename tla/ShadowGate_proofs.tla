-------------------------- MODULE ShadowGate_proofs --------------------------
(***************************************************************************)
(* Proofs about the shadow gate, for any number of handlers, runs and      *)
(* shadow services.  The type invariant, the lock discipline and the       *)
(* counter are proved separately by induction on Next; MainHoldsShadowsBack*)
(* follows step by step from them.                                         *)
(***************************************************************************)
EXTENDS ShadowGate, FiniteSetTheorems, SequenceTheorems, TLAPS

-----------------------------------------------------------------------------
(* Type correctness.                                                       *)

LEMMA ReleasedType == ASSUME NEW n \in Nat PROVE Released(n) \in Nat
BY DEF Released

LEMMA WakeType == ASSUME TypeOK PROVE Wake \in [Runs -> PCs]
BY DEF Wake, TypeOK, PCs

LEMMA TypeInit == Init => TypeOK
BY GateAssumption, EmptySeq DEF Init, TypeOK, PCs

\* A run behind the gate is there for a service: the count of those it has
\* left stays a natural number.
RunsHaveWork ==
  \A r \in Runs : pc[r] \in {"queued", "waiting", "woken", "running"} => todo[r] > 0

LEMMA HeadIsQueued ==
  ASSUME TypeOK, OneShadowAtATime, lockQueue # <<>>
  PROVE  /\ Head(lockQueue) \in Runs
         /\ pc[Head(lockQueue)] = "queued"
         /\ 1 \in 1 .. Len(lockQueue) /\ Head(lockQueue) = lockQueue[1]
<1>1. 1 \in 1 .. Len(lockQueue) /\ Head(lockQueue) = lockQueue[1]
  BY EmptySeq, LenProperties DEF TypeOK
<1>2. Head(lockQueue) \in Runs
  BY HeadTailProperties DEF TypeOK
<1>. QED
  BY <1>1, <1>2 DEF OneShadowAtATime

LEMMA TypeStep ==
  TypeOK /\ RunsHaveWork /\ OneShadowAtATime /\ [Next]_vars
    => TypeOK' /\ RunsHaveWork'
<1> SUFFICES ASSUME TypeOK, RunsHaveWork, OneShadowAtATime, [Next]_vars
             PROVE  TypeOK' /\ RunsHaveWork'
  OBVIOUS
<1> USE GateAssumption
<1>1. ASSUME NEW h \in Handlers, FirstChunk(h) PROVE TypeOK' /\ RunsHaveWork'
  <2>1. active' \in Nat
    BY <1>1 DEF FirstChunk, acquire_main, TypeOK
  <2>2. held' \in [Handlers -> BOOLEAN] /\ idle' \in BOOLEAN
    BY <1>1, Zenon DEF FirstChunk, acquire_main, TypeOK
  <2>. QED
    BY <1>1, <2>1, <2>2 DEF FirstChunk, TypeOK, RunsHaveWork
<1>2. ASSUME NEW h \in Handlers, ReleaseSlot(h) PROVE TypeOK' /\ RunsHaveWork'
  <2>1. active' \in Nat
    BY <1>2, ReleasedType DEF ReleaseSlot, release_main, TypeOK
  <2>2. held' \in [Handlers -> BOOLEAN]
    BY <1>2, Zenon DEF ReleaseSlot, TypeOK
  <2>3. idle' \in BOOLEAN
    <3>1. idle' = (Released(active) = 0 \/ idle)
      BY <1>2 DEF ReleaseSlot, release_main
    <3>. QED
      BY <3>1
  <2>4. pc' \in [Runs -> PCs]
    BY <1>2, WakeType DEF ReleaseSlot, release_main, TypeOK
  <2>5. RunsHaveWork'
    BY <1>2 DEF ReleaseSlot, release_main, Wake, TypeOK, RunsHaveWork
  <2>. QED
    BY <1>2, <2>1, <2>2, <2>3, <2>4, <2>5 DEF ReleaseSlot, TypeOK
<1>3. ASSUME NEW h \in Handlers, NEW r \in Runs, SpawnShadows(h, r)
      PROVE TypeOK' /\ RunsHaveWork'
  <2>1. PICK n \in 1 .. MaxShadows : todo' = [todo EXCEPT ![r] = n]
    BY <1>3 DEF SpawnShadows
  <2>. QED
    BY <1>3, <2>1 DEF SpawnShadows, gateVars, TypeOK, RunsHaveWork, PCs
<1>4. ASSUME NEW r \in Runs, SkipService(r) PROVE TypeOK' /\ RunsHaveWork'
  BY <1>4 DEF SkipService, gateVars, TypeOK, RunsHaveWork
<1>5. ASSUME NEW r \in Runs, QueueService(r) PROVE TypeOK' /\ RunsHaveWork'
  <2>1. lockQueue' \in Seq(Runs)
    BY <1>5, AppendProperties DEF QueueService, TypeOK
  <2>. QED
    BY <1>5, <2>1 DEF QueueService, TypeOK, RunsHaveWork, PCs
<1>6. ASSUME NEW r \in Runs, EnterGate(r) PROVE TypeOK' /\ RunsHaveWork'
  <2>1. lockQueue' \in Seq(Runs)
    BY <1>6, HeadTailProperties DEF EnterGate, TypeOK
  <2>2. pc' \in [Runs -> PCs]
    BY <1>6 DEF EnterGate, TypeOK, PCs
  <2>3. pc[r] = "queued"
    BY <1>6, HeadIsQueued DEF EnterGate
  <2>4. RunsHaveWork'
    BY <1>6, <2>3 DEF EnterGate, TypeOK, RunsHaveWork
  <2>. QED
    BY <1>6, <2>1, <2>2, <2>4 DEF EnterGate, TypeOK
<1>7. ASSUME NEW r \in Runs, Resume(r) PROVE TypeOK' /\ RunsHaveWork'
  BY <1>7 DEF Resume, gateVars, TypeOK, RunsHaveWork, PCs
<1>8. ASSUME NEW r \in Runs, ServiceDone(r) PROVE TypeOK' /\ RunsHaveWork'
  BY <1>8 DEF ServiceDone, TypeOK, RunsHaveWork, PCs
<1>9. ASSUME NEW r \in Runs, RunEnds(r) PROVE TypeOK' /\ RunsHaveWork'
  BY <1>9 DEF RunEnds, gateVars, TypeOK, RunsHaveWork, PCs
<1>10. CASE UNCHANGED vars
  BY <1>10 DEF vars, gateVars, TypeOK, RunsHaveWork
<1>. QED
  BY <1>1, <1>2, <1>3, <1>4, <1>5, <1>6, <1>7, <1>8, <1>9, <1>10
  DEF Next, RunStep

-----------------------------------------------------------------------------
(* The lock: its owner is the run past it, its queue the runs before it.   *)

LEMMA LockInit == Init => OneShadowAtATime
BY GateAssumption DEF Init, OneShadowAtATime, IsInjective

LEMMA LockStep == TypeOK /\ OneShadowAtATime /\ [Next]_vars => OneShadowAtATime'
<1> SUFFICES ASSUME TypeOK, OneShadowAtATime, [Next]_vars PROVE OneShadowAtATime'
  OBVIOUS
<1> USE GateAssumption
<1>1. ASSUME NEW h \in Handlers, FirstChunk(h) PROVE OneShadowAtATime'
  BY <1>1 DEF FirstChunk, OneShadowAtATime
<1>2. ASSUME NEW h \in Handlers, ReleaseSlot(h) PROVE OneShadowAtATime'
  BY <1>2 DEF ReleaseSlot, release_main, Wake, OneShadowAtATime, TypeOK, PCs
<1>3. ASSUME NEW h \in Handlers, NEW r \in Runs, SpawnShadows(h, r)
      PROVE OneShadowAtATime'
  BY <1>3 DEF SpawnShadows, gateVars, OneShadowAtATime, TypeOK
<1>4. ASSUME NEW r \in Runs, SkipService(r) PROVE OneShadowAtATime'
  BY <1>4 DEF SkipService, gateVars, OneShadowAtATime
<1>5. ASSUME NEW r \in Runs, QueueService(r) PROVE OneShadowAtATime'
  <2>1. /\ Len(lockQueue) \in Nat /\ Len(lockQueue') = Len(lockQueue) + 1
        /\ lockQueue' \in Seq(Runs)
        /\ \A i \in 1 .. Len(lockQueue) : lockQueue'[i] = lockQueue[i]
        /\ lockQueue'[Len(lockQueue) + 1] = r
    BY <1>5, AppendProperties, LenProperties DEF QueueService, TypeOK
  <2>2. \A i \in 1 .. Len(lockQueue) : lockQueue[i] # r
    BY <1>5 DEF QueueService, OneShadowAtATime
  <2>3. DOMAIN lockQueue = 1 .. Len(lockQueue) /\ DOMAIN lockQueue' = 1 .. Len(lockQueue')
    BY <2>1, LenProperties DEF TypeOK
  <2>4. IsInjective(lockQueue)'
    BY <2>1, <2>2, <2>3 DEF OneShadowAtATime, IsInjective
  <2>5. \A s \in Runs : pc'[s] \in {"waiting", "woken", "running"} <=> lockOwner' = s
    BY <1>5 DEF QueueService, OneShadowAtATime, TypeOK
  <2>6. ASSUME NEW s \in Runs
        PROVE pc'[s] = "queued" <=> \E i \in 1 .. Len(lockQueue') : lockQueue'[i] = s
    <3>1. CASE s = r
      BY <1>5, <2>1, <3>1 DEF QueueService, TypeOK
    <3>2. CASE s # r
      <4>1. pc'[s] = pc[s]
        BY <1>5, <3>2 DEF QueueService, TypeOK
      <4>. QED
        BY <2>1, <3>2, <4>1 DEF OneShadowAtATime
    <3>. QED
      BY <3>1, <3>2
  <2>. QED
    BY <2>4, <2>5, <2>6 DEF OneShadowAtATime
<1>6. ASSUME NEW r \in Runs, EnterGate(r) PROVE OneShadowAtATime'
  <2>1. pc[r] = "queued" /\ 1 \in 1 .. Len(lockQueue) /\ lockQueue[1] = r
    BY <1>6, HeadIsQueued DEF EnterGate
  <2>2. /\ Len(lockQueue) \in Nat \ {0} /\ Len(lockQueue') = Len(lockQueue) - 1
        /\ lockQueue' \in Seq(Runs)
        /\ \A i \in 1 .. Len(lockQueue) - 1 : lockQueue'[i] = lockQueue[i + 1]
    BY <1>6, EmptySeq, HeadTailProperties DEF EnterGate, TypeOK
  <2>3. DOMAIN lockQueue = 1 .. Len(lockQueue) /\ DOMAIN lockQueue' = 1 .. Len(lockQueue')
    BY <2>2, LenProperties DEF TypeOK
  <2>4. IsInjective(lockQueue)'
    <3>1. SUFFICES ASSUME NEW i \in 1 .. Len(lockQueue'), NEW j \in 1 .. Len(lockQueue'),
                          lockQueue'[i] = lockQueue'[j]
                   PROVE  i = j
      BY <2>3 DEF IsInjective
    <3>2. i + 1 \in 1 .. Len(lockQueue) /\ j + 1 \in 1 .. Len(lockQueue)
      BY <2>2
    <3>3. lockQueue[i + 1] = lockQueue[j + 1]
      BY <2>2, <3>1
    <3>4. i + 1 = j + 1
      BY <2>3, <3>2, <3>3 DEF OneShadowAtATime, IsInjective
    <3>. QED
      BY <3>4
  <2>5. \A i \in 1 .. Len(lockQueue') : lockQueue'[i] # r
    BY <2>1, <2>2, <2>3 DEF OneShadowAtATime, IsInjective
  <2>6. ASSUME NEW s \in Runs, s # r
        PROVE (\E i \in 1 .. Len(lockQueue') : lockQueue'[i] = s)
                <=> (\E i \in 1 .. Len(lockQueue) : lockQueue[i] = s)
    <3>1. ASSUME NEW i \in 1 .. Len(lockQueue), lockQueue[i] = s
          PROVE i - 1 \in 1 .. Len(lockQueue') /\ lockQueue'[i - 1] = s
      BY <2>1, <2>2, <2>6, <3>1
    <3>2. ASSUME NEW i \in 1 .. Len(lockQueue'), lockQueue'[i] = s
          PROVE i + 1 \in 1 .. Len(lockQueue) /\ lockQueue[i + 1] = s
      BY <2>2, <3>2
    <3>. QED
      BY <3>1, <3>2
  <2>7. pc'[r] \in {"waiting", "running"} /\ \A s \in Runs : s # r => pc'[s] = pc[s]
    BY <1>6 DEF EnterGate, TypeOK
  <2>8. \A s \in Runs : pc'[s] \in {"waiting", "woken", "running"} <=> lockOwner' = s
    BY <1>6, <2>7 DEF EnterGate, OneShadowAtATime
  <2>9. \A s \in Runs :
          pc'[s] = "queued" <=> \E i \in 1 .. Len(lockQueue') : lockQueue'[i] = s
    BY <2>5, <2>6, <2>7 DEF OneShadowAtATime
  <2>. QED
    BY <2>4, <2>8, <2>9 DEF OneShadowAtATime
<1>7. ASSUME NEW r \in Runs, Resume(r) PROVE OneShadowAtATime'
  BY <1>7 DEF Resume, gateVars, OneShadowAtATime, TypeOK
<1>8. ASSUME NEW r \in Runs, ServiceDone(r) PROVE OneShadowAtATime'
  BY <1>8 DEF ServiceDone, OneShadowAtATime, TypeOK
<1>9. ASSUME NEW r \in Runs, RunEnds(r) PROVE OneShadowAtATime'
  BY <1>9 DEF RunEnds, gateVars, OneShadowAtATime, TypeOK
<1>10. CASE UNCHANGED vars
  BY <1>10 DEF vars, gateVars, OneShadowAtATime
<1>. QED
  BY <1>1, <1>2, <1>3, <1>4, <1>5, <1>6, <1>7, <1>8, <1>9, <1>10
  DEF Next, RunStep

-----------------------------------------------------------------------------
(* The counter of mains.                                                   *)

Holders == {h \in Handlers : held[h]}

LEMMA CountInit == Init => SlotsAreCounted
<1> SUFFICES ASSUME Init PROVE SlotsAreCounted
  OBVIOUS
<1>1. {h \in Handlers : held[h]} = {}
  BY DEF Init
<1>. QED
  BY <1>1, FS_EmptySet DEF Init, SlotsAreCounted

LEMMA HoldersFinite ==
  IsFiniteSet(Holders) /\ Cardinality(Holders) \in Nat
BY GateAssumption, FS_Subset, FS_CardinalityType DEF Holders

LEMMA CountStep == TypeOK /\ SlotsAreCounted /\ [Next]_vars => SlotsAreCounted'
<1> SUFFICES ASSUME TypeOK, SlotsAreCounted, [Next]_vars PROVE SlotsAreCounted'
  OBVIOUS
<1>1. ASSUME NEW h \in Handlers, FirstChunk(h) PROVE SlotsAreCounted'
  <2>1. h \notin Holders /\ Holders' = Holders \union {h}
    BY <1>1, Zenon DEF FirstChunk, Holders, TypeOK
  <2>2. Cardinality(Holders') = Cardinality(Holders) + 1
    BY <2>1, HoldersFinite, FS_AddElement
  <2>. QED
    BY <1>1, <2>2, HoldersFinite DEF FirstChunk, acquire_main, SlotsAreCounted, Holders
<1>2. ASSUME NEW h \in Handlers, ReleaseSlot(h) PROVE SlotsAreCounted'
  <2>1. h \in Holders /\ Holders' = Holders \ {h}
    BY <1>2, Zenon DEF ReleaseSlot, Holders, TypeOK
  <2>2. Cardinality(Holders') = Cardinality(Holders) - 1 /\ Cardinality(Holders) > 0
    BY <2>1, HoldersFinite, FS_RemoveElement, FS_EmptySet
  <2>3. active = Cardinality(Holders) /\ (idle <=> active = 0)
    BY DEF SlotsAreCounted, Holders
  <2>4. active' = Released(active) /\ (idle' <=> Released(active) = 0 \/ idle)
    BY <1>2 DEF ReleaseSlot, release_main
  <2>5. active' = Cardinality(Holders') /\ (idle' <=> active' = 0)
    BY <2>2, <2>3, <2>4, HoldersFinite DEF Released
  <2>. QED
    BY <2>5 DEF SlotsAreCounted, Holders
<1>3. ASSUME UNCHANGED <<active, idle, held>> PROVE SlotsAreCounted'
  BY <1>3 DEF SlotsAreCounted
<1>. QED
  BY <1>1, <1>2, <1>3
  DEF Next, RunStep, SpawnShadows, SkipService, QueueService, EnterGate, Resume,
      ServiceDone, RunEnds, vars, gateVars

-----------------------------------------------------------------------------
(* The theorems.                                                           *)

IInv == TypeOK /\ RunsHaveWork /\ OneShadowAtATime /\ SlotsAreCounted

LEMMA Inductive == Spec => []IInv
<1>1. Init => IInv
  <2>1. Init => RunsHaveWork
    BY DEF Init, RunsHaveWork
  <2>. QED
    BY <2>1, TypeInit, LockInit, CountInit DEF IInv
<1>2. IInv /\ [Next]_vars => IInv'
  BY TypeStep, LockStep, CountStep DEF IInv
<1>. QED
  BY <1>1, <1>2, PTL DEF Spec

\* Every variable keeps its type; in particular no run counts its services
\* below zero and the gate's counter stays a natural number.
THEOREM TypeCorrect == Spec => []TypeOK
BY Inductive, PTL DEF IInv

\* The lock of the gate: one run past it, everybody else in its queue once.
THEOREM ShadowsOneAtATime == Spec => []OneShadowAtATime
BY Inductive, PTL DEF IInv

\* _active is the number of handlers that hold a main slot and _idle says
\* whether it is zero, for any number of handlers: no slot is ever lost.
THEOREM SlotsNeverDrift == Spec => []SlotsAreCounted
BY Inductive, PTL DEF IInv

\* While a main is in flight, no shadow starts but one that was woken before.
THEOREM MainsGoFirst == Spec => MainHoldsShadowsBack
<1>1. ASSUME IInv, Next, NEW r \in Runs,
             active > 0, pc[r] # "woken", pc[r] # "running"
      PROVE  pc'[r] # "running"
  <2>1. ~idle
    BY <1>1 DEF IInv, SlotsAreCounted
  <2>2. ASSUME NEW h \in Handlers, FirstChunk(h) \/ ReleaseSlot(h) PROVE pc'[r] # "running"
    BY <1>1, <2>2 DEF FirstChunk, ReleaseSlot, release_main, Wake, IInv, TypeOK
  <2>3. ASSUME NEW h \in Handlers, NEW s \in Runs, SpawnShadows(h, s)
        PROVE pc'[r] # "running"
    BY <1>1, <2>3 DEF SpawnShadows, IInv, TypeOK
  <2>4. ASSUME NEW s \in Runs, EnterGate(s) PROVE pc'[r] # "running"
    BY <1>1, <2>1, <2>4 DEF EnterGate, IInv, TypeOK
  <2>5. ASSUME NEW s \in Runs, Resume(s) PROVE pc'[r] # "running"
    BY <1>1, <2>5 DEF Resume, IInv, TypeOK
  <2>6. ASSUME NEW s \in Runs,
               SkipService(s) \/ QueueService(s) \/ ServiceDone(s) \/ RunEnds(s)
        PROVE pc'[r] # "running"
    BY <1>1, <2>6 DEF SkipService, QueueService, ServiceDone, RunEnds, IInv, TypeOK
  <2>. QED
    BY <1>1, <2>2, <2>3, <2>4, <2>5, <2>6 DEF Next, RunStep
<1>2. IInv /\ [Next]_vars
        => [\A r \in Runs : active > 0 /\ pc[r] # "woken" /\ pc[r] # "running"
              => pc'[r] # "running"]_vars
  BY <1>1 DEF vars
<1>. QED
  BY <1>2, Inductive, PTL DEF Spec, MainHoldsShadowsBack
=============================================================================
