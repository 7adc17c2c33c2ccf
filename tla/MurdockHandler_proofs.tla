----------------------- MODULE MurdockHandler_proofs -----------------------
(***************************************************************************)
(* Proofs about one connection, for any number of sessions and blocks, any *)
(* thresholds and any combination of settings.                             *)
(***************************************************************************)
EXTENDS MurdockHandler, FiniteSetTheorems, SequenceTheorems, TLAPS

-----------------------------------------------------------------------------
(* Type correctness.                                                       *)

\* The main coroutine leaves the loop only in a session; a reader that reads
\* has a connection to read from; and each block opens at most one.
InSession ==
  /\ stage \notin {"read", "closed"} => session # 0
  /\ session = 0 => blocks = 0 /\ opened = 0

ReadsFromSome == \A c \in Conns : readers[c] = "reading" => readsFrom[c] # 0

OneConnPerBlock ==
  session # 0 =>
    opened + (IF stage = "open" THEN 1 ELSE 0) <= (session - 1) * MaxChunks + blocks

ConnsFit == InSession /\ ReadsFromSome /\ OneConnPerBlock

\* There is room for one connection per block of each session.
LEMMA Capacity ==
  /\ MaxConns \in Nat \ {0}
  /\ \A s \in Sessions : (s - 1) * MaxChunks + MaxChunks = s * MaxChunks
  /\ \A s \in Sessions : s * MaxChunks \in Nat /\ s * MaxChunks <= MaxConns
<1>1. MaxSessions \in Nat \ {0} /\ MaxChunks \in Nat \ {0}
  BY HandlerAssumption
<1>2. MaxSessions * MaxChunks \in Nat \ {0}
  BY <1>1
<1>3. ASSUME NEW s \in Sessions
      PROVE  /\ (s - 1) * MaxChunks + MaxChunks = s * MaxChunks
             /\ s * MaxChunks \in Nat /\ s * MaxChunks <= MaxConns
  <2>1. s \in Nat /\ s <= MaxSessions
    BY <1>1 DEF Sessions
  <2>. QED
    BY <1>1, <2>1 DEF MaxConns
<1>. QED
  BY <1>2, <1>3 DEF MaxConns

\* Resolving a future keeps every future a mark or pending.
LEMMA ResolvedType ==
  ASSUME TypeOK, NEW n, NEW text \in Marks
  PROVE  Resolved(n, text) \in [Sessions -> Marks \union {Pending}]
BY DEF Resolved, TypeOK, UpstreamTypeOK

\* A connection begins well typed, with no upstream connection.
LEMMA TypeInit == Init => TypeOK /\ ConnsFit
<1> SUFFICES ASSUME Init PROVE TypeOK /\ ConnsFit
  OBVIOUS
<1>1. MaxSessions \in Nat \ {0} /\ MaxChunks \in Nat \ {0} /\ Buffered \subseteq BOOLEAN
  BY HandlerAssumption
<1>2. <<>> \in Seq(Marks)
  BY EmptySeq
<1>3. 0 \in Marks /\ 0 \in 0 .. MaxChunks /\ 0 \in 0 .. MaxConns
  BY <1>1, Capacity DEF Marks
<1>4. answers \in [Sessions -> Seq(Marks)]
  BY <1>2 DEF Init
<1>5. buffered \in BOOLEAN
  BY <1>1 DEF Init
<1>6. TypeOK
  BY <1>3, <1>4, <1>5 DEF Init, TypeOK, MainTypeOK, ProbeTypeOK,
       UpstreamTypeOK, OutsideTypeOK, OpenHasClient, Stages, Outcomes
<1>7. ConnsFit
  BY DEF Init, ConnsFit, InSession, ReadsFromSome, OneConnPerBlock
<1>. QED
  BY <1>6, <1>7

\* The part of UpstreamTypeOK a reader's step can disturb.
ReadersType ==
  /\ readers \in [Conns -> {"none", "reading", "done", "crashed"}]
  /\ readsFrom \in [Conns -> 0 .. MaxConns]
  /\ grace \subseteq Conns
  /\ future \in [Sessions -> Marks \union {Pending}]

\* A reader that ends, by a text or by an exception, keeps its types;
LEMMA SettleType ==
  ASSUME TypeOK, NEW c \in Conns, NEW text \in Marks, Settle(c, text) \/ Crash(c)
  PROVE  ReadersType'
<1>1. 0 \in Marks
  BY HandlerAssumption DEF Marks
<1>2. future' \in [Sessions -> Marks \union {Pending}]
  BY <1>1, ResolvedType DEF Settle, Crash
<1>. QED
  BY <1>2 DEF Settle, Crash, ReadersType, TypeOK, UpstreamTypeOK

\* and so does one that goes on to its next read.
LEMMA ReadOnType ==
  ASSUME TypeOK, NEW c \in Conns, NEW streams, NEW interim, ReadOn(c, streams, interim)
  PROVE  ReadersType'
<1>1. 0 \in Marks
  BY HandlerAssumption DEF Marks
<1>2. CASE upstream_client = 0
  BY <1>1, <1>2, SettleType DEF ReadOn
<1>3. CASE upstream_client # 0
  BY <1>3 DEF ReadOn, ReadersType, TypeOK, UpstreamTypeOK
<1>. QED
  BY <1>2, <1>3

\* Each part of the type invariant, and each part of what it rests on, is
\* kept by every step.  First the main coroutine and its answer,
LEMMA MainTypeStep == TypeOK /\ ConnsFit /\ [Next]_vars => MainTypeOK'
<1> SUFFICES ASSUME TypeOK, ConnsFit, [Next]_vars PROVE MainTypeOK'
  OBVIOUS
<1> USE DEF mainVars, finishVars, probeFlags, probedVars, taskVars, clientVars,
            interimVars, connVars, readerVars, outsideVars
<1>1. 0 \in Marks /\ 0 \in 0 .. MaxChunks /\ Sessions \subseteq Marks
  BY HandlerAssumption DEF Marks, Sessions
<1>2. stage \notin {"read", "closed"} => session \in Sessions
  BY HandlerAssumption DEF ConnsFit, InSession, TypeOK, MainTypeOK, Marks,
       Sessions
<1>3. CASE AudioStart
  <2>1. session' \in Marks
    BY <1>3, HandlerAssumption DEF AudioStart, TypeOK, MainTypeOK, Marks
  <2>2. buffered' \in BOOLEAN
    BY <1>3, HandlerAssumption DEF AudioStart
  <2>. QED
    BY <1>1, <1>3, <2>1, <2>2 DEF AudioStart, TypeOK, MainTypeOK
<1>4. CASE AudioChunk
  BY <1>4, HandlerAssumption
     DEF AudioChunk, TakeChunk, TypeOK, MainTypeOK, Stages
<1>5. CASE AudioStop
  BY <1>5 DEF AudioStop, TakeStop, CancelEarlyProbe, GoTo, TypeOK, MainTypeOK,
       Stages
<1>6. CASE Disconnect
  BY <1>6 DEF Disconnect, CloseUpstream, TypeOK, MainTypeOK, Stages
<1>7. CASE OpenOk \/ OpenFails \/ Forwarded
  BY <1>7 DEF OpenOk, GoTo, OpenFails, Resolved, Forwarded, TypeOK,
       MainTypeOK, Stages
<1>8. CASE ProbeDue \/ SpeechHeard \/ NoSpeech \/ ArmReject
  BY <1>8 DEF ProbeDue, GoTo, SpeechHeard, NoSpeech, CloseUpstream, ArmReject,
       TypeOK, MainTypeOK, Stages
<1>9. CASE StopWritten
  BY <1>9, <1>1 DEF StopWritten, Decided, Reply, GoTo, TypeOK, MainTypeOK,
       Stages, Outcomes
<1>10. CASE GateCloses
  BY <1>10, <1>1 DEF GateCloses, Publish, Reply, GoTo, TypeOK, MainTypeOK,
       Stages, Outcomes
<1>11. CASE GatesPass \/ Verified
  BY <1>11 DEF GatesPass, GoTo, Verified, TypeOK, MainTypeOK, Stages, Outcomes
<1>12. CASE NotVerified
  BY <1>12, <1>1 DEF NotVerified, Publish, Reply, GoTo, TypeOK, MainTypeOK,
       Stages, Outcomes
<1>13. CASE Transcribed
  BY <1>13, <1>1, <1>2 DEF Transcribed, Transcripts, Primary, GoTo, TypeOK,
       MainTypeOK, Stages, Marks, UpstreamTypeOK
<1>14. CASE PublishedNow \/ AutoEnrolled
  BY <1>14 DEF PublishedNow, Publish, Reply, AutoEnrolled, GoTo, TypeOK,
       MainTypeOK, Stages
<1>15. CASE Answered
  BY <1>15, <1>1 DEF Answered, CloseUpstream, TypeOK, MainTypeOK, Stages,
       Outcomes
<1>16. ASSUME NEW n \in Sessions,
              EarlyMatch(n) \/ NoEarlyMatch(n) \/ RejectVerify(n)
              \/ RejectWhisper(n) \/ Reject(n) \/ RejectClosed(n)
              \/ RejectPublish(n)
       PROVE  MainTypeOK'
  BY <1>16 DEF EarlyMatch, Publish, NoEarlyMatch, RejectVerify, RejectWhisper,
       Reject, RejectClosed, RejectPublish, TypeOK, MainTypeOK
<1>17. ASSUME NEW c \in Conns,
              UpstreamCloses(c) \/ Interim(c) \/ Final(c) \/ ReadEnds(c)
              \/ ReadFails(c)
       PROVE  MainTypeOK'
  BY <1>17 DEF UpstreamCloses, Interim, Speaks, Reading, Final, ReadEnds,
       ReadFails, TypeOK, MainTypeOK
<1>18. CASE UNCHANGED vars
  BY <1>18 DEF vars, TypeOK, MainTypeOK
<1>. QED
  BY <1>3, <1>4, <1>5, <1>6, <1>7, <1>8, <1>9, <1>10, <1>11, <1>12, <1>13,
  <1>14, <1>15, <1>16, <1>17, <1>18
  DEF Next, Hangup, ChunkStep, FinishStep, VerifyCrashes, ProbeStep,
  ReaderStep

\* the flags and the tasks of the probes,
LEMMA ProbeTypeStep == TypeOK /\ ConnsFit /\ [Next]_vars => ProbeTypeOK'
<1> SUFFICES ASSUME TypeOK, ConnsFit, [Next]_vars PROVE ProbeTypeOK'
  OBVIOUS
<1> USE DEF mainVars, finishVars, probeFlags, probedVars, taskVars, clientVars,
            interimVars, connVars, readerVars, outsideVars
<1>1. 0 \in Marks /\ 0 \in 0 .. MaxChunks /\ Sessions \subseteq Marks
  BY HandlerAssumption DEF Marks, Sessions
<1>2. stage \notin {"read", "closed"} => session \in Sessions
  BY HandlerAssumption DEF ConnsFit, InSession, TypeOK, MainTypeOK, Marks,
       Sessions
<1>3. CASE AudioStart
  BY <1>3, <1>1 DEF AudioStart, TypeOK, ProbeTypeOK
<1>4. CASE AudioStop
  BY <1>4 DEF AudioStop, TakeStop, CancelEarlyProbe, GoTo, TypeOK, ProbeTypeOK
<1>5. CASE Disconnect
  BY <1>5 DEF Disconnect, CloseUpstream, TypeOK, ProbeTypeOK
<1>6. CASE AudioChunk \/ OpenOk \/ OpenFails \/ Forwarded \/ SpeechHeard
  BY <1>6 DEF AudioChunk, TakeChunk, OpenOk, GoTo, OpenFails, Resolved,
       Forwarded, SpeechHeard, TypeOK, ProbeTypeOK
<1>7. CASE ProbeDue
  BY <1>7, <1>2 DEF ProbeDue, GoTo, TypeOK, ProbeTypeOK
<1>8. CASE NoSpeech
  BY <1>8 DEF NoSpeech, CloseUpstream, GoTo, TypeOK, ProbeTypeOK, MainTypeOK
<1>9. CASE ArmReject
  BY <1>9, <1>2 DEF ArmReject, GoTo, TypeOK, ProbeTypeOK
<1>10. CASE StopWritten \/ GateCloses \/ GatesPass \/ Verified \/
        NotVerified
  BY <1>10 DEF StopWritten, Decided, Reply, GoTo, GateCloses, Publish,
       GatesPass, Verified, NotVerified, TypeOK, ProbeTypeOK
<1>11. CASE Transcribed
  BY <1>11, <1>1, <1>2 DEF Transcribed, Transcripts, Primary, GoTo, TypeOK,
       ProbeTypeOK, UpstreamTypeOK
<1>12. CASE PublishedNow \/ Answered \/ AutoEnrolled
  BY <1>12 DEF PublishedNow, Publish, Reply, Answered, CloseUpstream,
       AutoEnrolled, GoTo, TypeOK, ProbeTypeOK
<1>13. ASSUME NEW n \in Sessions,
              EarlyMatch(n) \/ NoEarlyMatch(n)
       PROVE  ProbeTypeOK'
  BY <1>13, <1>1 DEF EarlyMatch, Publish, NoEarlyMatch, TypeOK, ProbeTypeOK
<1>14. ASSUME NEW n \in Sessions,
              RejectVerify(n) \/ RejectWhisper(n)
       PROVE  ProbeTypeOK'
  BY <1>14 DEF RejectVerify, RejectWhisper, TypeOK, ProbeTypeOK
<1>15. ASSUME NEW n \in Sessions,
              Reject(n) \/ RejectClosed(n) \/ RejectPublish(n)
       PROVE  ProbeTypeOK'
  BY <1>15, <1>1 DEF Reject, RejectClosed, RejectPublish, Publish, TypeOK,
       ProbeTypeOK
<1>16. ASSUME NEW c \in Conns,
              UpstreamCloses(c) \/ Final(c) \/ ReadEnds(c) \/ ReadFails(c)
       PROVE  ProbeTypeOK'
  BY <1>16 DEF UpstreamCloses, Final, Speaks, Reading, ReadEnds, ReadFails,
       TypeOK, ProbeTypeOK
<1>17. ASSUME NEW c \in Conns,
              Interim(c)
       PROVE  ProbeTypeOK'
  BY <1>17, <1>1 DEF Interim, Speaks, Reading, TypeOK, ProbeTypeOK,
       UpstreamTypeOK, ConnsFit, ReadsFromSome, Conns, Text
<1>18. CASE UNCHANGED vars
  BY <1>18 DEF vars, TypeOK, ProbeTypeOK
<1>. QED
  BY <1>3, <1>4, <1>5, <1>6, <1>7, <1>8, <1>9, <1>10, <1>11, <1>12, <1>13,
  <1>14, <1>15, <1>16, <1>17, <1>18
  DEF Next, Hangup, ChunkStep, FinishStep, VerifyCrashes, ProbeStep,
  ReaderStep

\* There is room for the connection being opened.
LEMMA OpenRoom == TypeOK /\ ConnsFit /\ stage = "open" => opened + 1 \in Conns
<1> SUFFICES ASSUME TypeOK, ConnsFit, stage = "open" PROVE opened + 1 \in Conns
  OBVIOUS
<1>1. MaxConns \in Nat /\ MaxChunks \in Nat \ {0}
  BY Capacity, HandlerAssumption
<1>2. session \in Sessions /\ session # 0
  BY HandlerAssumption DEF ConnsFit, InSession, TypeOK, MainTypeOK, Marks, Sessions
<1>3. opened + 1 <= (session - 1) * MaxChunks + blocks
  BY <1>2 DEF ConnsFit, OneConnPerBlock
<1>4. (session - 1) * MaxChunks + MaxChunks <= MaxConns
  BY <1>2, Capacity
<1>5. (session - 1) * MaxChunks \in Int
  BY <1>1, <1>2, HandlerAssumption DEF Sessions
<1>6. blocks \in Nat /\ blocks <= MaxChunks /\ opened \in Nat
  BY <1>1 DEF TypeOK, MainTypeOK, UpstreamTypeOK
<1> DEFINE before == (session - 1) * MaxChunks
<1>7. opened + 1 <= before + blocks /\ before + MaxChunks <= MaxConns /\ before \in Int
  BY <1>3, <1>4, <1>5
<1> HIDE DEF before
<1>. QED
  BY <1>1, <1>6, <1>7 DEF Conns

\* the upstream connections and their readers,
LEMMA UpstreamTypeStep == TypeOK /\ ConnsFit /\ [Next]_vars => UpstreamTypeOK'
<1> SUFFICES ASSUME TypeOK, ConnsFit, [Next]_vars PROVE UpstreamTypeOK'
  OBVIOUS
<1> USE DEF mainVars, finishVars, probeFlags, probedVars, taskVars, clientVars,
            interimVars, connVars, readerVars, outsideVars
<1>1. 0 \in Marks /\ 0 \in 0 .. MaxChunks /\ Sessions \subseteq Marks
  BY HandlerAssumption DEF Marks, Sessions
<1>2. stage \notin {"read", "closed"} => session \in Sessions
  BY HandlerAssumption DEF ConnsFit, InSession, TypeOK, MainTypeOK, Marks,
       Sessions
<1>3. 0 \in 0 .. MaxConns /\ MaxConns \in Nat /\ MaxChunks \in Nat \ {0}
  BY Capacity, HandlerAssumption
<1>4. closed \union ({upstream_client} \ {0}) \subseteq Conns
  BY <1>3 DEF TypeOK, UpstreamTypeOK, Conns
<1>5. ASSUME stage = "open" PROVE opened + 1 \in Conns /\ opened + 1 \in 0 .. MaxConns
  BY <1>3, <1>5, OpenRoom DEF Conns
<1>6. \A c \in Conns : readers[c] = "reading" => readsFrom[c] \in Conns /\ Text(c) \in Marks
  BY <1>3 DEF ConnsFit, ReadsFromSome, TypeOK, UpstreamTypeOK, Conns, Text
<1>7. CASE AudioStart
  BY <1>7, <1>1, <1>3 DEF AudioStart, TypeOK, UpstreamTypeOK
<1>8. CASE AudioChunk \/ AudioStop
  BY <1>8 DEF AudioChunk, TakeChunk, AudioStop, TakeStop, CancelEarlyProbe,
       GoTo, TypeOK, UpstreamTypeOK
<1>9. CASE Disconnect
  BY <1>9, <1>1, <1>3, <1>4, ResolvedType
     DEF Disconnect, CloseUpstream, TypeOK, UpstreamTypeOK
<1>10. CASE OpenOk
  BY <1>10, <1>2, <1>3, <1>5
     DEF OpenOk, GoTo, TypeOK, UpstreamTypeOK, MainTypeOK
<1>11. CASE OpenFails
  BY <1>11, <1>1, <1>2 DEF OpenFails, GoTo, Resolved, TypeOK, UpstreamTypeOK
<1>12. CASE Forwarded
  BY <1>12 DEF Forwarded, GoTo, TypeOK, UpstreamTypeOK
<1>13. CASE ProbeDue \/ SpeechHeard \/ ArmReject
  BY <1>13 DEF ProbeDue, GoTo, SpeechHeard, ArmReject, TypeOK, UpstreamTypeOK
<1>14. CASE NoSpeech
  BY <1>14, <1>3, <1>4 DEF NoSpeech, CloseUpstream, GoTo, TypeOK,
       UpstreamTypeOK
<1>15. CASE StopWritten \/ GateCloses \/ GatesPass \/ Verified
  BY <1>15 DEF StopWritten, Decided, Reply, GoTo, GateCloses, Publish,
       GatesPass, Verified, TypeOK, UpstreamTypeOK
<1>16. CASE NotVerified \/ Transcribed \/ PublishedNow \/ AutoEnrolled
  BY <1>16 DEF NotVerified, Publish, Reply, GoTo, Transcribed, Transcripts,
       Primary, PublishedNow, AutoEnrolled, TypeOK, UpstreamTypeOK
<1>17. CASE Answered
  BY <1>17, <1>3, <1>4 DEF Answered, CloseUpstream, TypeOK, UpstreamTypeOK
<1>18. ASSUME NEW n \in Sessions,
              EarlyMatch(n) \/ NoEarlyMatch(n) \/ RejectVerify(n)
              \/ RejectWhisper(n) \/ RejectPublish(n)
       PROVE  UpstreamTypeOK'
  BY <1>18 DEF EarlyMatch, Publish, NoEarlyMatch, RejectVerify, RejectWhisper,
       RejectPublish, TypeOK, UpstreamTypeOK
<1>19. ASSUME NEW n \in Sessions,
              Reject(n) \/ RejectClosed(n)
       PROVE  UpstreamTypeOK'
  BY <1>19, <1>3, <1>4 DEF Reject, RejectClosed, TypeOK, UpstreamTypeOK
<1>20. ASSUME NEW c \in Conns,
              UpstreamCloses(c)
       PROVE  UpstreamTypeOK'
  BY <1>20 DEF UpstreamCloses, TypeOK, UpstreamTypeOK
<1>21. ASSUME NEW c \in Conns,
              Interim(c)
       PROVE  UpstreamTypeOK'
  BY <1>21, <1>6, ReadOnType
     DEF Interim, Speaks, Reading, TypeOK, UpstreamTypeOK, ReadersType
<1>22. ASSUME NEW c \in Conns,
              Final(c)
       PROVE  UpstreamTypeOK'
  BY <1>22, <1>1, <1>6, ReadOnType, SettleType
     DEF Final, Speaks, Reading, TypeOK, UpstreamTypeOK, ReadersType
<1>23. ASSUME NEW c \in Conns,
              ReadEnds(c)
       PROVE  UpstreamTypeOK'
  BY <1>23, SettleType DEF ReadEnds, Reading, TypeOK, UpstreamTypeOK,
       ReadersType
<1>24. ASSUME NEW c \in Conns,
              ReadFails(c)
       PROVE  UpstreamTypeOK'
  BY <1>24, <1>6, SettleType
     DEF ReadFails, Speaks, Reading, TypeOK, UpstreamTypeOK, ReadersType
<1>25. CASE UNCHANGED vars
  BY <1>25 DEF vars, TypeOK, UpstreamTypeOK
<1>. QED
  BY <1>7, <1>8, <1>9, <1>10, <1>11, <1>12, <1>13, <1>14, <1>15, <1>16,
  <1>17, <1>18, <1>19, <1>20, <1>21, <1>22, <1>23, <1>24, <1>25
  DEF Next, Hangup, ChunkStep, FinishStep, VerifyCrashes, ProbeStep,
  ReaderStep

\* what is answered, published and logged.
LEMMA OutsideTypeStep == TypeOK /\ ConnsFit /\ [Next]_vars => OutsideTypeOK'
<1> SUFFICES ASSUME TypeOK, ConnsFit, [Next]_vars PROVE OutsideTypeOK'
  OBVIOUS
<1> USE DEF mainVars, finishVars, probeFlags, probedVars, taskVars, clientVars,
            interimVars, connVars, readerVars, outsideVars
<1>1. 0 \in Marks /\ 0 \in 0 .. MaxChunks /\ Sessions \subseteq Marks
  BY HandlerAssumption DEF Marks, Sessions
<1>2. stage \notin {"read", "closed"} => session \in Sessions
  BY HandlerAssumption DEF ConnsFit, InSession, TypeOK, MainTypeOK, Marks,
       Sessions
<1>3. CASE AudioStart \/ AudioChunk \/ AudioStop \/ Disconnect
  BY <1>3 DEF AudioStart, AudioChunk, TakeChunk, AudioStop, TakeStop,
       CancelEarlyProbe, GoTo, Disconnect, CloseUpstream, TypeOK,
       OutsideTypeOK
<1>4. CASE OpenOk \/ OpenFails \/ Forwarded \/ ProbeDue \/ SpeechHeard \/
        NoSpeech \/ ArmReject
  BY <1>4 DEF OpenOk, GoTo, OpenFails, Resolved, Forwarded, ProbeDue,
       SpeechHeard, NoSpeech, CloseUpstream, ArmReject, TypeOK, OutsideTypeOK
<1>5. CASE StopWritten \/ GatesPass \/ Verified \/ Transcribed \/
        AutoEnrolled
  BY <1>5 DEF StopWritten, Decided, Reply, GoTo, GatesPass, Verified,
       Transcribed, Transcripts, Primary, AutoEnrolled, TypeOK, OutsideTypeOK
<1>6. CASE GateCloses
  BY <1>6, <1>2 DEF GateCloses, Publish, Reply, GoTo, TypeOK, OutsideTypeOK
<1>7. CASE NotVerified
  BY <1>7, <1>2 DEF NotVerified, Publish, Reply, GoTo, TypeOK, OutsideTypeOK
<1>8. CASE PublishedNow
  BY <1>8, <1>2 DEF PublishedNow, Publish, Reply, TypeOK, OutsideTypeOK
<1>9. CASE Answered
  BY <1>9, <1>2 DEF Answered, CloseUpstream, TypeOK, OutsideTypeOK, MainTypeOK
<1>10. ASSUME NEW n \in Sessions,
              EarlyMatch(n) \/ RejectPublish(n)
       PROVE  OutsideTypeOK'
  BY <1>10 DEF EarlyMatch, Publish, RejectPublish, TypeOK, OutsideTypeOK
<1>11. ASSUME NEW n \in Sessions,
              NoEarlyMatch(n) \/ RejectVerify(n) \/ RejectWhisper(n)
              \/ Reject(n) \/ RejectClosed(n)
       PROVE  OutsideTypeOK'
  BY <1>11 DEF NoEarlyMatch, RejectVerify, RejectWhisper, Reject,
       RejectClosed, TypeOK, OutsideTypeOK
<1>12. ASSUME NEW c \in Conns,
              UpstreamCloses(c) \/ Interim(c) \/ Final(c) \/ ReadEnds(c)
              \/ ReadFails(c)
       PROVE  OutsideTypeOK'
  BY <1>12 DEF UpstreamCloses, Interim, Speaks, Reading, Final, ReadEnds,
       ReadFails, TypeOK, OutsideTypeOK
<1>13. CASE UNCHANGED vars
  BY <1>13 DEF vars, TypeOK, OutsideTypeOK
<1>. QED
  BY <1>3, <1>4, <1>5, <1>6, <1>7, <1>8, <1>9, <1>10, <1>11, <1>12, <1>13
     DEF Next, Hangup, ChunkStep, FinishStep, VerifyCrashes, ProbeStep,
         ReaderStep

\* Nothing is handled before the first AudioStart.
LEMMA InSessionStep == TypeOK /\ ConnsFit /\ [Next]_vars => InSession'
<1> SUFFICES ASSUME TypeOK, ConnsFit, [Next]_vars PROVE InSession'
  OBVIOUS
<1> USE DEF mainVars, finishVars, probeFlags, probedVars, taskVars, clientVars,
            interimVars, connVars, readerVars, outsideVars
<1>1. CASE AudioStart
  BY <1>1, HandlerAssumption
     DEF AudioStart, ConnsFit, InSession, TypeOK, MainTypeOK, Marks
<1>2. CASE AudioChunk \/ AudioStop \/ Disconnect
  BY <1>2 DEF AudioChunk, TakeChunk, AudioStop, TakeStop, CancelEarlyProbe,
       GoTo, Disconnect, CloseUpstream, ConnsFit, InSession
<1>3. CASE OpenOk \/ OpenFails \/ Forwarded \/ ProbeDue \/ SpeechHeard \/
        NoSpeech \/ ArmReject
  BY <1>3 DEF OpenOk, GoTo, OpenFails, Resolved, Forwarded, ProbeDue,
       SpeechHeard, NoSpeech, CloseUpstream, ArmReject, ConnsFit, InSession
<1>4. CASE StopWritten \/ GateCloses \/ GatesPass \/ Verified
  BY <1>4 DEF StopWritten, Decided, Reply, GoTo, GateCloses, Publish,
       GatesPass, Verified, ConnsFit, InSession
<1>5. CASE NotVerified \/ Transcribed \/ PublishedNow
  BY <1>5 DEF NotVerified, Publish, Reply, GoTo, Transcribed, Transcripts,
       Primary, PublishedNow, ConnsFit, InSession
<1>6. CASE Answered \/ AutoEnrolled
  BY <1>6 DEF Answered, CloseUpstream, AutoEnrolled, GoTo, ConnsFit, InSession
<1>7. ASSUME NEW n \in Sessions,
             EarlyMatch(n) \/ NoEarlyMatch(n) \/ RejectVerify(n)
             \/ RejectWhisper(n) \/ Reject(n) \/ RejectClosed(n)
             \/ RejectPublish(n)
      PROVE  InSession'
  BY <1>7 DEF EarlyMatch, Publish, NoEarlyMatch, RejectVerify, RejectWhisper,
       Reject, RejectClosed, RejectPublish, ConnsFit, InSession
<1>8. ASSUME NEW c \in Conns,
             UpstreamCloses(c) \/ Interim(c) \/ Final(c) \/ ReadEnds(c)
             \/ ReadFails(c)
      PROVE  InSession'
  BY <1>8 DEF UpstreamCloses, Interim, Speaks, Reading, Final, ReadEnds,
       ReadFails, ConnsFit, InSession
<1>9. CASE UNCHANGED vars
  BY <1>9 DEF vars, ConnsFit, InSession
<1>. QED
  BY <1>1, <1>2, <1>3, <1>4, <1>5, <1>6, <1>7, <1>8, <1>9
     DEF Next, Hangup, ChunkStep, FinishStep, VerifyCrashes, ProbeStep,
         ReaderStep

\* A reader goes on reading only from a client that is there.
LEMMA ReadsFromSomeStep == TypeOK /\ ConnsFit /\ [Next]_vars => ReadsFromSome'
<1> SUFFICES ASSUME TypeOK, ConnsFit, [Next]_vars PROVE ReadsFromSome'
  OBVIOUS
<1> USE DEF mainVars, finishVars, probeFlags, probedVars, taskVars, clientVars,
            interimVars, connVars, readerVars, outsideVars
<1>1. /\ upstream_client \in Nat /\ readsFrom \in [Conns -> 0 .. MaxConns]
      /\ readers \in [Conns -> {"none", "reading", "done", "crashed"}]
  BY Capacity DEF TypeOK, UpstreamTypeOK
<1>2. CASE AudioStart \/ AudioChunk \/ AudioStop \/ Disconnect
  BY <1>2, <1>1 DEF AudioStart, AudioChunk, TakeChunk, AudioStop, TakeStop,
       CancelEarlyProbe, GoTo, Disconnect, CloseUpstream, ConnsFit,
       ReadsFromSome
<1>3. CASE OpenOk
  BY <1>3, <1>1 DEF OpenOk, GoTo, ConnsFit, ReadsFromSome, Conns, TypeOK,
       UpstreamTypeOK
<1>4. CASE OpenFails \/ Forwarded \/ ProbeDue \/ SpeechHeard \/ NoSpeech \/
        ArmReject
  BY <1>4 DEF OpenFails, GoTo, Resolved, Forwarded, ProbeDue, SpeechHeard,
       NoSpeech, CloseUpstream, ArmReject, ConnsFit, ReadsFromSome
<1>5. CASE StopWritten \/ GateCloses \/ GatesPass \/ Verified
  BY <1>5 DEF StopWritten, Decided, Reply, GoTo, GateCloses, Publish,
       GatesPass, Verified, ConnsFit, ReadsFromSome
<1>6. CASE NotVerified \/ Transcribed \/ PublishedNow
  BY <1>6 DEF NotVerified, Publish, Reply, GoTo, Transcribed, Transcripts,
       Primary, PublishedNow, ConnsFit, ReadsFromSome
<1>7. CASE Answered \/ AutoEnrolled
  BY <1>7 DEF Answered, CloseUpstream, AutoEnrolled, GoTo, ConnsFit,
       ReadsFromSome
<1>8. ASSUME NEW n \in Sessions,
             EarlyMatch(n) \/ NoEarlyMatch(n) \/ RejectVerify(n)
             \/ RejectWhisper(n) \/ Reject(n) \/ RejectClosed(n)
             \/ RejectPublish(n)
      PROVE  ReadsFromSome'
  BY <1>8 DEF EarlyMatch, Publish, NoEarlyMatch, RejectVerify, RejectWhisper,
       Reject, RejectClosed, RejectPublish, ConnsFit, ReadsFromSome
<1>9. ASSUME NEW c \in Conns,
             UpstreamCloses(c)
      PROVE  ReadsFromSome'
  BY <1>9 DEF UpstreamCloses, ConnsFit, ReadsFromSome
<1>10. ASSUME NEW c \in Conns,
              Interim(c)
       PROVE  ReadsFromSome'
  BY <1>10, <1>1 DEF Interim, Speaks, Reading, ConnsFit, ReadsFromSome,
       ReadOn, Crash
<1>11. ASSUME NEW c \in Conns,
              Final(c)
       PROVE  ReadsFromSome'
  BY <1>11, <1>1 DEF Final, Speaks, Reading, ConnsFit, ReadsFromSome, ReadOn,
       Crash, Settle
<1>12. ASSUME NEW c \in Conns,
              ReadEnds(c) \/ ReadFails(c)
       PROVE  ReadsFromSome'
  BY <1>12, <1>1 DEF ReadEnds, Reading, ReadFails, Speaks, ConnsFit,
       ReadsFromSome, Settle, Crash
<1>13. CASE UNCHANGED vars
  BY <1>13 DEF vars, ConnsFit, ReadsFromSome
<1>. QED
  BY <1>2, <1>3, <1>4, <1>5, <1>6, <1>7, <1>8, <1>9, <1>10, <1>11, <1>12,
  <1>13
  DEF Next, Hangup, ChunkStep, FinishStep, VerifyCrashes, ProbeStep,
  ReaderStep

\* A block opens at most one connection, an AudioStart none.
LEMMA OneConnPerBlockStep == TypeOK /\ ConnsFit /\ [Next]_vars => OneConnPerBlock'
<1> SUFFICES ASSUME TypeOK, ConnsFit, [Next]_vars, session' # 0
             PROVE  opened' + (IF stage' = "open" THEN 1 ELSE 0)
                      <= (session' - 1) * MaxChunks + blocks'
  BY DEF OneConnPerBlock
<1> USE DEF mainVars, finishVars, probeFlags, probedVars, taskVars, clientVars,
            interimVars, connVars, readerVars, outsideVars
<1> DEFINE Before(s) == (s - 1) * MaxChunks
<1>1. /\ blocks \in Nat /\ blocks <= MaxChunks /\ opened \in Nat
      /\ MaxChunks \in Nat /\ session \in Nat
  BY Capacity, HandlerAssumption DEF TypeOK, MainTypeOK, UpstreamTypeOK, Marks
<1>2. session # 0 => /\ Before(session) \in Int
                     /\ opened + (IF stage = "open" THEN 1 ELSE 0) <= Before(session) + blocks
  BY <1>1 DEF ConnsFit, OneConnPerBlock
<1>3. ASSUME AudioStart
      PROVE  opened' + (IF stage' = "open" THEN 1 ELSE 0) <= Before(session') + blocks'
  <2>1. opened' = opened /\ stage' = "read" /\ stage = "read" /\ session' = session + 1 /\ blocks' = 0
    BY <1>3 DEF AudioStart
  <2>2. CASE session = 0
    BY <1>1, <2>1, <2>2 DEF ConnsFit, InSession
  <2>3. CASE session # 0
    <3>1. Before(session') = Before(session) + MaxChunks
      BY <1>1, <2>1
    <3> HIDE DEF Before
    <3>2. opened <= Before(session) + blocks /\ Before(session) \in Int
      BY <1>1, <1>2, <2>1, <2>3
    <3>. QED
      BY <1>1, <2>1, <3>1, <3>2
  <2>. QED
    BY <2>2, <2>3
<1> HIDE DEF Before
<1>4. ASSUME AudioChunk
      PROVE  opened' + (IF stage' = "open" THEN 1 ELSE 0) <= Before(session') + blocks'
  <2>1. /\ opened' = opened /\ stage = "read" /\ session' = session /\ session # 0
        /\ blocks' = blocks + 1
    BY <1>1, <1>4 DEF AudioChunk, TakeChunk
  <2>. QED
    BY <1>1, <1>2, <2>1
<1>5. ASSUME OpenOk
      PROVE  opened' + (IF stage' = "open" THEN 1 ELSE 0) <= Before(session') + blocks'
  <2>1. /\ opened' = opened + 1 /\ stage = "open" /\ stage' = "forward"
        /\ session' = session /\ blocks' = blocks
    BY <1>5 DEF OpenOk, GoTo
  <2>. QED
    BY <1>1, <1>2, <2>1
<1>6. ASSUME UNCHANGED <<session, blocks, opened>>, stage' # "open" \/ stage' = stage
      PROVE  opened' + (IF stage' = "open" THEN 1 ELSE 0) <= Before(session') + blocks'
  BY <1>1, <1>2, <1>6
<1>7. ASSUME [Next]_vars, ~AudioStart, ~AudioChunk, ~OpenOk
      PROVE  UNCHANGED <<session, blocks, opened>> /\ (stage' # "open" \/ stage' = stage)
  <2>1. ASSUME AudioStop \/ Disconnect PROVE UNCHANGED <<session, blocks,
        opened>> /\ (stage' # "open" \/ stage' = stage)
    BY <2>1 DEF AudioStop, TakeStop, CancelEarlyProbe, GoTo, Disconnect,
         CloseUpstream
  <2>2. ASSUME OpenFails \/ Forwarded \/ ProbeDue \/ SpeechHeard \/
        NoSpeech \/ ArmReject PROVE UNCHANGED <<session, blocks, opened>> /\
        (stage' # "open" \/ stage' = stage)
    BY <2>2 DEF OpenFails, GoTo, Resolved, Forwarded, ProbeDue, SpeechHeard,
         NoSpeech, CloseUpstream, ArmReject
  <2>3. ASSUME StopWritten \/ GateCloses \/ GatesPass \/ Verified PROVE
        UNCHANGED <<session, blocks, opened>> /\ (stage' # "open" \/ stage' =
        stage)
    BY <2>3 DEF StopWritten, Decided, Reply, GoTo, GateCloses, Publish,
         GatesPass, Verified
  <2>4. ASSUME NotVerified \/ Transcribed \/ PublishedNow PROVE UNCHANGED
        <<session, blocks, opened>> /\ (stage' # "open" \/ stage' = stage)
    BY <2>4 DEF NotVerified, Publish, Reply, GoTo, Transcribed, Transcripts,
         Primary, PublishedNow
  <2>5. ASSUME Answered \/ AutoEnrolled PROVE UNCHANGED <<session,
        blocks, opened>> /\ (stage' # "open" \/ stage' = stage)
    BY <2>5 DEF Answered, CloseUpstream, AutoEnrolled, GoTo
  <2>6. ASSUME NEW n \in Sessions, EarlyMatch(n) \/ NoEarlyMatch(n) \/
        RejectVerify(n) \/ RejectWhisper(n) \/ Reject(n) \/ RejectClosed(n) \/
        RejectPublish(n) PROVE UNCHANGED <<session, blocks, opened>> /\ (stage'
        # "open" \/ stage' = stage)
    BY <2>6 DEF EarlyMatch, Publish, NoEarlyMatch, RejectVerify,
         RejectWhisper, Reject, RejectClosed, RejectPublish
  <2>7. ASSUME NEW c \in Conns, UpstreamCloses(c) \/ Interim(c) \/
        Final(c) \/ ReadEnds(c) \/ ReadFails(c) PROVE UNCHANGED <<session,
        blocks, opened>> /\ (stage' # "open" \/ stage' = stage)
    BY <2>7 DEF UpstreamCloses, Interim, Speaks, Reading, Final, ReadEnds,
         ReadFails
  <2>8. CASE UNCHANGED vars
    BY <2>8 DEF vars
  <2>. QED
    BY <1>7, <2>1, <2>2, <2>3, <2>4, <2>5, <2>6, <2>7, <2>8
       DEF Next, Hangup, ChunkStep, FinishStep, VerifyCrashes, ProbeStep,
           ReaderStep
<1>. QED
  BY <1>3, <1>4, <1>5, <1>6, <1>7 DEF Before

\* The open flag is only set with a client, and falls with it.
LEMMA OpenHasClientStep == TypeOK /\ ConnsFit /\ [Next]_vars => OpenHasClient'
<1> SUFFICES ASSUME TypeOK, ConnsFit, [Next]_vars PROVE OpenHasClient'
  OBVIOUS
<1> USE DEF mainVars, finishVars, probeFlags, probedVars, taskVars, clientVars,
            interimVars, connVars, readerVars, outsideVars
<1>1. OpenHasClient
  BY DEF TypeOK
<1>2. ASSUME upstream_open' = FALSE PROVE OpenHasClient'
  BY <1>2 DEF OpenHasClient
<1>3. ASSUME UNCHANGED upstream_client,
             UNCHANGED upstream_open \/ upstream_open' = FALSE
      PROVE  OpenHasClient'
  BY <1>1, <1>3 DEF OpenHasClient
<1>4. ASSUME OpenOk PROVE OpenHasClient'
  <2>1. opened \in Nat /\ upstream_client' = opened + 1
    BY <1>4, Capacity DEF OpenOk, TypeOK, UpstreamTypeOK
  <2>2. upstream_client' # 0
    BY <2>1
  <2>. QED
    BY <2>2 DEF OpenHasClient
<1>5. ASSUME [Next]_vars, ~OpenOk
      PROVE  \/ upstream_open' = FALSE
             \/ /\ UNCHANGED upstream_client
                /\ UNCHANGED upstream_open \/ upstream_open' = FALSE
  <2>1. ASSUME AudioStart \/ AudioChunk \/ AudioStop \/ Disconnect
        PROVE  \/ upstream_open' = FALSE
               \/ /\ UNCHANGED upstream_client
                  /\ UNCHANGED upstream_open \/ upstream_open' = FALSE
    BY <2>1 DEF AudioStart, AudioChunk, TakeChunk, AudioStop, TakeStop,
         CancelEarlyProbe, GoTo, Disconnect, CloseUpstream
  <2>2. ASSUME OpenFails \/ Forwarded \/ ProbeDue \/ SpeechHeard \/ NoSpeech \/
               ArmReject
        PROVE  \/ upstream_open' = FALSE
               \/ /\ UNCHANGED upstream_client
                  /\ UNCHANGED upstream_open \/ upstream_open' = FALSE
    BY <2>2 DEF OpenFails, GoTo, Resolved, Forwarded, ProbeDue, SpeechHeard,
         NoSpeech, CloseUpstream, ArmReject
  <2>3. ASSUME StopWritten \/ GateCloses \/ GatesPass \/ Verified
        PROVE  \/ upstream_open' = FALSE
               \/ /\ UNCHANGED upstream_client
                  /\ UNCHANGED upstream_open \/ upstream_open' = FALSE
    BY <2>3 DEF StopWritten, Decided, Reply, GoTo, GateCloses, Publish,
         GatesPass, Verified
  <2>4. ASSUME NotVerified \/ Transcribed \/ PublishedNow
        PROVE  \/ upstream_open' = FALSE
               \/ /\ UNCHANGED upstream_client
                  /\ UNCHANGED upstream_open \/ upstream_open' = FALSE
    BY <2>4 DEF NotVerified, Publish, Reply, GoTo, Transcribed, Transcripts,
         Primary, PublishedNow
  <2>5. ASSUME Answered \/ AutoEnrolled
        PROVE  \/ upstream_open' = FALSE
               \/ /\ UNCHANGED upstream_client
                  /\ UNCHANGED upstream_open \/ upstream_open' = FALSE
    BY <2>5 DEF Answered, CloseUpstream, AutoEnrolled, GoTo
  <2>6. ASSUME NEW n \in Sessions, EarlyMatch(n) \/ NoEarlyMatch(n) \/ RejectVerify(n) \/
               RejectWhisper(n) \/ Reject(n) \/ RejectClosed(n) \/ RejectPublish(n)
        PROVE  \/ upstream_open' = FALSE
               \/ /\ UNCHANGED upstream_client
                  /\ UNCHANGED upstream_open \/ upstream_open' = FALSE
    BY <2>6 DEF EarlyMatch, Publish, NoEarlyMatch, RejectVerify,
         RejectWhisper, Reject, RejectClosed, RejectPublish
  <2>7. ASSUME NEW c \in Conns, UpstreamCloses(c) \/ Interim(c) \/ Final(c) \/ ReadEnds(c) \/
               ReadFails(c)
        PROVE  \/ upstream_open' = FALSE
               \/ /\ UNCHANGED upstream_client
                  /\ UNCHANGED upstream_open \/ upstream_open' = FALSE
    BY <2>7 DEF UpstreamCloses, Interim, Speaks, Reading, Final, ReadEnds,
         ReadFails
  <2>8. CASE UNCHANGED vars
    BY <2>8 DEF vars
  <2>. QED
    BY <1>5, <2>1, <2>2, <2>3, <2>4, <2>5, <2>6, <2>7, <2>8
       DEF Next, Hangup, ChunkStep, FinishStep, VerifyCrashes, ProbeStep,
           ReaderStep
<1>. QED
  BY <1>2, <1>3, <1>4, <1>5

\* All of it together.
LEMMA TypeStep == TypeOK /\ ConnsFit /\ [Next]_vars => TypeOK' /\ ConnsFit'
BY MainTypeStep, ProbeTypeStep, UpstreamTypeStep, OutsideTypeStep,
     OpenHasClientStep, InSessionStep, ReadsFromSomeStep, OneConnPerBlockStep
     DEF TypeOK, ConnsFit

\* The variables of handler.py keep their types.  That a connection always has
\* a number left rests on ConnsFit: the code opens at most one per block.
THEOREM TypeCorrect == Spec => []TypeOK
<1>1. Init => TypeOK /\ ConnsFit
  BY TypeInit
<1>2. (TypeOK /\ ConnsFit) /\ [Next]_vars => (TypeOK /\ ConnsFit)'
  BY TypeStep
<1>. QED
  BY <1>1, <1>2, PTL DEF Spec

\* The server and the readers touch neither the session nor the probes.
LEMMA ReadersFrame ==
  ASSUME NEW c \in Conns, UpstreamCloses(c) \/ ReaderStep(c)
  PROVE  /\ UNCHANGED mainVars /\ UNCHANGED outsideVars
         /\ UNCHANGED <<plan, reply, early_match, early_rejected, probedVars, taskVars>>
<1> USE DEF mainVars, finishVars, probeFlags, probedVars, taskVars, clientVars,
            interimVars, connVars, readerVars, outsideVars
<1>1. CASE UpstreamCloses(c)
  BY <1>1 DEF UpstreamCloses
<1>2. CASE Interim(c)
  BY <1>2 DEF Interim
<1>3. CASE Final(c)
  BY <1>3 DEF Final
<1>4. CASE ReadEnds(c)
  BY <1>4 DEF ReadEnds
<1>5. CASE ReadFails(c)
  BY <1>5 DEF ReadFails
<1>. QED
  BY <1>1, <1>2, <1>3, <1>4, <1>5 DEF ReaderStep

-----------------------------------------------------------------------------
(* The shadow gate's main slot.                                            *)

\* Every step that ends a session, and only such a step, frees the slot.
LEMMA SlotStep == TypeOK /\ SlotFollowsSession /\ [Next]_vars => SlotFollowsSession'
<1> SUFFICES ASSUME TypeOK, SlotFollowsSession, [Next]_vars PROVE SlotFollowsSession'
  OBVIOUS
<1> USE DEF mainVars, finishVars, probeFlags, probedVars, taskVars, clientVars,
            interimVars, connVars, readerVars, outsideVars
<1>1. blocks \in Nat /\ main_slot_held \in BOOLEAN
  BY HandlerAssumption DEF TypeOK, MainTypeOK
<1>2. CASE AudioStart \/ Disconnect \/ AudioStop
  BY <1>2 DEF AudioStart, Disconnect, CloseUpstream, AudioStop, TakeStop,
       CancelEarlyProbe, GoTo, SlotFollowsSession
<1>3. CASE AudioChunk
  BY <1>3, <1>1 DEF AudioChunk, TakeChunk, SlotFollowsSession
<1>4. CASE OpenOk \/ OpenFails \/ Forwarded \/ ProbeDue \/ SpeechHeard \/
        NoSpeech \/ ArmReject
  BY <1>4 DEF OpenOk, GoTo, OpenFails, Resolved, Forwarded, ProbeDue,
       SpeechHeard, NoSpeech, CloseUpstream, ArmReject, SlotFollowsSession
<1>5. CASE StopWritten \/ GateCloses
  BY <1>5 DEF StopWritten, Decided, Reply, GoTo, GateCloses, Publish,
       SlotFollowsSession
<1>6. CASE GatesPass \/ Verified \/ NotVerified
  BY <1>6 DEF GatesPass, GoTo, Verified, NotVerified, Publish, Reply,
       SlotFollowsSession
<1>7. CASE Transcribed
  BY <1>7 DEF Transcribed, Transcripts, Primary, GoTo, SlotFollowsSession
<1>8. CASE PublishedNow \/ Answered \/ AutoEnrolled
  BY <1>8 DEF PublishedNow, Publish, Reply, Answered, CloseUpstream,
       AutoEnrolled, GoTo, SlotFollowsSession
<1>9. ASSUME NEW n \in Sessions,
             EarlyMatch(n) \/ NoEarlyMatch(n) \/ RejectVerify(n)
             \/ RejectWhisper(n) \/ Reject(n) \/ RejectClosed(n)
             \/ RejectPublish(n)
      PROVE  SlotFollowsSession'
  BY <1>9 DEF EarlyMatch, Publish, NoEarlyMatch, RejectVerify, RejectWhisper,
       Reject, RejectClosed, RejectPublish, SlotFollowsSession
<1>10. ASSUME NEW c \in Conns,
              UpstreamCloses(c) \/ Interim(c) \/ Final(c) \/ ReadEnds(c)
              \/ ReadFails(c)
       PROVE  SlotFollowsSession'
  BY <1>10, ReadersFrame DEF ReaderStep, SlotFollowsSession
<1>11. CASE UNCHANGED vars
  BY <1>11 DEF vars, SlotFollowsSession
<1>. QED
  BY <1>2, <1>3, <1>4, <1>5, <1>6, <1>7, <1>8, <1>9, <1>10, <1>11
     DEF Next, Hangup, ChunkStep, FinishStep, VerifyCrashes, ProbeStep,
         ReaderStep

\* handler.py holds its slot in the shadow gate exactly while a session is
\* being heard and decided, whatever ends it: nothing starves the shadow
\* transcriptions, and nothing lets them run beside a session.
THEOREM SlotHeldWithSession == Spec => []SlotFollowsSession
<1>1. Init => SlotFollowsSession
  BY DEF Init, SlotFollowsSession
<1>2. TypeOK /\ SlotFollowsSession /\ [Next]_vars => SlotFollowsSession'
  BY SlotStep
<1>. QED
  BY <1>1, <1>2, TypeCorrect, PTL DEF Spec

-----------------------------------------------------------------------------
(* One answer to each AudioStop.                                           *)

Finishing == {"stop", "gates", "verify", "transcribe", "publish", "answer"}

\* Whoever is finishing has not answered yet, and where no answer was due
\* there is none.
AnswersAwaited ==
  /\ stage \in Finishing => session # 0 /\ ~responded
  /\ \A n \in Sessions :
       n > session \/ (n = session /\ ~responded)
         => answers[n] = <<>> /\ recorded[n] = {}

AnswersCounted == AnswersAwaited /\ OneAnswerPerStop

\* A step that answers does so for the session that awaits it,
LEMMA AwaitedStep == TypeOK /\ ConnsFit /\ AnswersAwaited /\ [Next]_vars => AnswersAwaited'
<1> SUFFICES ASSUME TypeOK, ConnsFit, AnswersAwaited, [Next]_vars PROVE AnswersAwaited'
  OBVIOUS
<1> USE DEF mainVars, finishVars, probeFlags, probedVars, taskVars, clientVars,
            interimVars, connVars, readerVars, outsideVars
<1>1. session \in Nat /\ responded \in BOOLEAN /\ Sessions \subseteq Nat
  BY HandlerAssumption DEF TypeOK, MainTypeOK, Marks, Sessions
<1>2. CASE AudioStart
  BY <1>2, <1>1 DEF AudioStart, AnswersAwaited, Finishing
<1>3. CASE AudioChunk \/ AudioStop \/ Disconnect
  BY <1>3, <1>1 DEF AudioChunk, TakeChunk, AudioStop, TakeStop,
       CancelEarlyProbe, GoTo, Disconnect, CloseUpstream, AnswersAwaited,
       Finishing
<1>4. CASE OpenOk \/ OpenFails \/ Forwarded \/ ProbeDue \/ SpeechHeard \/
        NoSpeech \/ ArmReject
  BY <1>4 DEF OpenOk, GoTo, OpenFails, Resolved, Forwarded, ProbeDue,
       SpeechHeard, NoSpeech, CloseUpstream, ArmReject, AnswersAwaited,
       Finishing
<1>5. CASE StopWritten \/ GateCloses
  BY <1>5, <1>1 DEF StopWritten, Decided, Reply, GoTo, GateCloses, Publish,
       AnswersAwaited, Finishing
<1>6. CASE GatesPass \/ Verified \/ NotVerified
  BY <1>6 DEF GatesPass, GoTo, Verified, NotVerified, Publish, Reply,
       AnswersAwaited, Finishing
<1>7. CASE Transcribed
  BY <1>7 DEF Transcribed, Transcripts, Primary, GoTo, AnswersAwaited,
       Finishing
<1>8. CASE PublishedNow \/ AutoEnrolled
  BY <1>8 DEF PublishedNow, Publish, Reply, AutoEnrolled, GoTo,
       AnswersAwaited, Finishing
<1>9. CASE Answered
  BY <1>9, <1>1 DEF Answered, CloseUpstream, AnswersAwaited, Finishing,
       TypeOK, OutsideTypeOK
<1>10. ASSUME NEW n \in Sessions,
              EarlyMatch(n) \/ NoEarlyMatch(n) \/ RejectVerify(n)
              \/ RejectWhisper(n) \/ Reject(n) \/ RejectClosed(n)
              \/ RejectPublish(n)
       PROVE  AnswersAwaited'
  BY <1>10 DEF EarlyMatch, Publish, NoEarlyMatch, RejectVerify, RejectWhisper,
       Reject, RejectClosed, RejectPublish, AnswersAwaited, Finishing
<1>11. ASSUME NEW c \in Conns,
              UpstreamCloses(c) \/ Interim(c) \/ Final(c) \/ ReadEnds(c)
              \/ ReadFails(c)
       PROVE  AnswersAwaited'
  BY <1>11, ReadersFrame DEF ReaderStep, AnswersAwaited, Finishing
<1>12. CASE UNCHANGED vars
  BY <1>12 DEF vars, AnswersAwaited, Finishing
<1>. QED
  BY <1>2, <1>3, <1>4, <1>5, <1>6, <1>7, <1>8, <1>9, <1>10, <1>11, <1>12
     DEF Next, Hangup, ChunkStep, FinishStep, VerifyCrashes, ProbeStep,
         ReaderStep

\* and it answers once.
LEMMA CountedStep ==
  TypeOK /\ AnswersCounted /\ [Next]_vars => OneAnswerPerStop'
<1> SUFFICES ASSUME TypeOK, AnswersCounted, [Next]_vars PROVE OneAnswerPerStop'
  OBVIOUS
<1> USE DEF mainVars, finishVars, probeFlags, probedVars, taskVars, clientVars,
            interimVars, connVars, readerVars, outsideVars
<1>1. CASE Answered
  <2> SUFFICES ASSUME NEW n \in Sessions
               PROVE  Len(answers'[n]) <= 1 /\ Cardinality(recorded'[n]) = Len(answers'[n])
    BY DEF OneAnswerPerStop
  <2>1. CASE n # session
    <3>1. answers'[n] = answers[n] /\ recorded'[n] = recorded[n]
      BY <1>1, <2>1 DEF Answered, TypeOK, OutsideTypeOK
    <3>. QED
      BY <3>1 DEF AnswersCounted, OneAnswerPerStop
  <2>2. CASE n = session
    <3>1. answers[n] = <<>> /\ recorded[n] = {}
      BY <1>1, <2>2 DEF Answered, AnswersCounted, AnswersAwaited, Finishing
    <3>2. answers'[n] = Append(answers[n], reply) /\ recorded'[n] = recorded[n] \union {plan}
      BY <1>1, <2>2 DEF Answered, TypeOK, OutsideTypeOK
    <3>3. answers'[n] = <<reply>> /\ recorded'[n] = {plan}
      BY <3>1, <3>2
    <3>4. Len(answers'[n]) = 1
      BY <3>3
    <3>5. Cardinality(recorded'[n]) = 1
      BY <3>3, FS_Singleton
    <3>. QED
      BY <3>4, <3>5
  <2>. QED
    BY <2>1, <2>2
<1>2. ASSUME ~Answered PROVE UNCHANGED <<answers, recorded>>
  <2>1. ASSUME AudioStart \/ AudioChunk \/ AudioStop \/ Disconnect
        PROVE  UNCHANGED <<answers, recorded>>
    BY <2>1 DEF AudioStart, AudioChunk, TakeChunk, AudioStop, TakeStop,
         CancelEarlyProbe, GoTo, Disconnect, CloseUpstream
  <2>2. ASSUME OpenOk \/ OpenFails \/ Forwarded \/ ProbeDue \/ SpeechHeard \/
               NoSpeech \/ ArmReject
        PROVE  UNCHANGED <<answers, recorded>>
    BY <2>2 DEF OpenOk, GoTo, OpenFails, Resolved, Forwarded, ProbeDue,
         SpeechHeard, NoSpeech, CloseUpstream, ArmReject
  <2>3. ASSUME StopWritten \/ GateCloses \/ GatesPass \/ Verified
        PROVE  UNCHANGED <<answers, recorded>>
    BY <2>3 DEF StopWritten, Decided, Reply, GoTo, GateCloses, Publish,
         GatesPass, Verified
  <2>4. ASSUME NotVerified \/ Transcribed \/ PublishedNow
        PROVE  UNCHANGED <<answers, recorded>>
    BY <2>4 DEF NotVerified, Publish, Reply, GoTo, Transcribed, Transcripts,
         Primary, PublishedNow
  <2>5. ASSUME AutoEnrolled
        PROVE  UNCHANGED <<answers, recorded>>
    BY <2>5 DEF AutoEnrolled, GoTo
  <2>6. ASSUME NEW n \in Sessions, EarlyMatch(n) \/ NoEarlyMatch(n) \/ RejectVerify(n) \/
               RejectWhisper(n) \/ Reject(n) \/ RejectClosed(n) \/ RejectPublish(n)
        PROVE  UNCHANGED <<answers, recorded>>
    BY <2>6 DEF EarlyMatch, Publish, NoEarlyMatch, RejectVerify,
         RejectWhisper, Reject, RejectClosed, RejectPublish
  <2>7. ASSUME NEW c \in Conns, UpstreamCloses(c) \/ Interim(c) \/ Final(c) \/ ReadEnds(c) \/
               ReadFails(c)
        PROVE  UNCHANGED <<answers, recorded>>
    BY <2>7 DEF UpstreamCloses, Interim, Speaks, Reading, Final, ReadEnds,
         ReadFails
  <2>8. CASE UNCHANGED vars
    BY <2>8 DEF vars
  <2>. QED
    BY <1>2, <2>1, <2>2, <2>3, <2>4, <2>5, <2>6, <2>7, <2>8
       DEF Next, Hangup, ChunkStep, FinishStep, VerifyCrashes, ProbeStep,
           ReaderStep
<1>. QED
  BY <1>1, <1>2 DEF AnswersCounted, OneAnswerPerStop

\* Every AudioStop is answered at most once and logged under one outcome, in
\* any number of sessions, whatever the probes and the phrases do meanwhile.
THEOREM AnsweredOnce == Spec => []OneAnswerPerStop
<1> DEFINE IInv == TypeOK /\ ConnsFit /\ AnswersCounted
<1>1. Init => IInv
  <2> SUFFICES ASSUME Init PROVE AnswersCounted
    BY TypeInit
  <2>. QED
    BY FS_EmptySet DEF Init, AnswersCounted, AnswersAwaited, OneAnswerPerStop,
         Finishing
<1>2. IInv /\ [Next]_vars => IInv'
  BY TypeStep, AwaitedStep, CountedStep DEF AnswersCounted
<1>3. IInv => OneAnswerPerStop
  BY DEF AnswersCounted
<1>. QED
  BY <1>1, <1>2, <1>3, PTL DEF Spec

-----------------------------------------------------------------------------
(* The two probes of a session.                                            *)

\* The reject probe is armed only after the early probe was, past the same
\* block or a later one; and where it passed its verification, or rejected,
\* the early probe is over and has found nobody.
ProbesInOrder ==
  /\ stage \in {"silence", "arm"} /\ blocks >= EarlyAt => early_probed
  /\ \A n \in Sessions :
       \/ earlyTask[n] = "running"
       \/ rejectTask[n] # "none"
       \/ early_rejected = n
       => n <= session /\ (n = session => early_probed)
  /\ \A n \in Sessions :
       rejectTask[n] = "whisper" \/ early_rejected = n
         => earlyTask[n] # "running" /\ early_match # n

\* No step brings the probes out of order.
LEMMA ProbesInOrderStep == TypeOK /\ ConnsFit /\ ProbesInOrder /\ [Next]_vars => ProbesInOrder'
<1> SUFFICES ASSUME TypeOK, ConnsFit, ProbesInOrder, [Next]_vars PROVE ProbesInOrder'
  OBVIOUS
<1> USE DEF mainVars, finishVars, probeFlags, probedVars, taskVars, clientVars,
            interimVars, connVars, readerVars, outsideVars
<1>1. /\ session \in Nat /\ Sessions \subseteq Nat /\ blocks \in Nat /\ 0 \notin Sessions
      /\ EarlyAt \in Nat /\ RejectAt \in Nat /\ EarlyAt <= RejectAt
  BY HandlerAssumption DEF TypeOK, MainTypeOK, Marks, Sessions
<1>2. CASE AudioStart
  BY <1>2, <1>1 DEF AudioStart, ProbesInOrder, TypeOK, MainTypeOK, ProbeTypeOK
<1>3. CASE AudioChunk
  BY <1>3, <1>1 DEF AudioChunk, TakeChunk, ProbesInOrder, TypeOK, MainTypeOK,
       ProbeTypeOK
<1>4. CASE AudioStop
  BY <1>4, <1>1 DEF AudioStop, TakeStop, CancelEarlyProbe, GoTo,
       ProbesInOrder, TypeOK, MainTypeOK, ProbeTypeOK
<1>5. CASE Disconnect
  BY <1>5, <1>1 DEF Disconnect, CloseUpstream, ProbesInOrder, TypeOK,
       MainTypeOK, ProbeTypeOK
<1>6. CASE OpenOk \/ OpenFails \/ Forwarded \/ SpeechHeard \/ NoSpeech
  BY <1>6, <1>1 DEF OpenOk, GoTo, OpenFails, Resolved, Forwarded, SpeechHeard,
       NoSpeech, CloseUpstream, ProbesInOrder, TypeOK, MainTypeOK, ProbeTypeOK
<1>7. CASE ProbeDue
  <2>1. /\ UNCHANGED <<session, blocks, rejectTask, early_rejected, early_match>>
        /\ early_probed' = (early_probed \/ (~early_probed /\ blocks >= EarlyAt))
    BY <1>7 DEF ProbeDue, GoTo
  <2>2. (blocks >= EarlyAt => early_probed') /\ (early_probed => early_probed')
    BY <2>1
  <2>3. \A n \in Sessions : \/ earlyTask'[n] = earlyTask[n]
                            \/ n = session /\ ~early_probed /\ early_probed'
    BY <1>7, <2>2 DEF ProbeDue, TypeOK, ProbeTypeOK
  <2>4. ASSUME NEW n \in Sessions,
               earlyTask'[n] = "running" \/ rejectTask'[n] # "none" \/ early_rejected' = n
        PROVE  n <= session' /\ (n = session' => early_probed')
    BY <1>1, <2>1, <2>2, <2>3, <2>4 DEF ProbesInOrder
  <2>5. ASSUME NEW n \in Sessions, rejectTask'[n] = "whisper" \/ early_rejected' = n
        PROVE  earlyTask'[n] # "running" /\ early_match' # n
    BY <2>1, <2>3, <2>5 DEF ProbesInOrder
  <2>. QED
    BY <2>1, <2>2, <2>4, <2>5 DEF ProbesInOrder
<1>8. CASE ArmReject
  BY <1>8, <1>1 DEF ArmReject, GoTo, ProbesInOrder, TypeOK, MainTypeOK,
       ProbeTypeOK
<1>9. CASE StopWritten \/ GateCloses \/ GatesPass \/ Verified
  BY <1>9 DEF StopWritten, Decided, Reply, GoTo, GateCloses, Publish,
       GatesPass, Verified, ProbesInOrder, TypeOK, MainTypeOK, ProbeTypeOK
<1>10. CASE NotVerified \/ Transcribed \/ PublishedNow
  BY <1>10 DEF NotVerified, Publish, Reply, GoTo, Transcribed, Transcripts,
       Primary, PublishedNow, ProbesInOrder, TypeOK, MainTypeOK, ProbeTypeOK
<1>11. CASE Answered \/ AutoEnrolled
  BY <1>11 DEF Answered, CloseUpstream, AutoEnrolled, GoTo, ProbesInOrder,
       TypeOK, MainTypeOK, ProbeTypeOK
<1>12. ASSUME NEW n \in Sessions,
              EarlyMatch(n)
       PROVE  ProbesInOrder'
  BY <1>12, <1>1 DEF EarlyMatch, Publish, ProbesInOrder, TypeOK, MainTypeOK,
       ProbeTypeOK
<1>13. ASSUME NEW n \in Sessions,
              NoEarlyMatch(n) \/ RejectVerify(n) \/ RejectWhisper(n)
       PROVE  ProbesInOrder'
  BY <1>13, <1>1 DEF NoEarlyMatch, RejectVerify, RejectWhisper, ProbesInOrder,
       TypeOK, MainTypeOK, ProbeTypeOK
<1>14. ASSUME NEW n \in Sessions,
              Reject(n)
       PROVE  ProbesInOrder'
  BY <1>14, <1>1 DEF Reject, ProbesInOrder, TypeOK, MainTypeOK, ProbeTypeOK
<1>15. ASSUME NEW n \in Sessions,
              RejectClosed(n) \/ RejectPublish(n)
       PROVE  ProbesInOrder'
  BY <1>15, <1>1 DEF RejectClosed, RejectPublish, Publish, ProbesInOrder,
       TypeOK, MainTypeOK, ProbeTypeOK
<1>16. ASSUME NEW c \in Conns,
              UpstreamCloses(c) \/ Interim(c) \/ Final(c) \/ ReadEnds(c)
              \/ ReadFails(c)
       PROVE  ProbesInOrder'
  BY <1>16, ReadersFrame DEF ReaderStep, ProbesInOrder, TypeOK, MainTypeOK,
       ProbeTypeOK
<1>17. CASE UNCHANGED vars
  BY <1>17 DEF vars, ProbesInOrder, TypeOK, MainTypeOK, ProbeTypeOK
<1>. QED
  BY <1>2, <1>3, <1>4, <1>5, <1>6, <1>7, <1>8, <1>9, <1>10, <1>11, <1>12,
  <1>13, <1>14, <1>15, <1>16, <1>17
  DEF Next, Hangup, ChunkStep, FinishStep, VerifyCrashes, ProbeStep,
  ReaderStep

\* A session whose speaker the early probe announced is not thrown out by its
\* reject probe: handler.py relies on the model lock, which serves the early
\* probe first, and on arming the reject probe no earlier.
THEOREM MatchSurvivesReject == Spec => []EarlyMatchIsNotRejected
<1> DEFINE IInv == TypeOK /\ ConnsFit /\ ProbesInOrder
<1>1. Init => IInv
  BY TypeInit, HandlerAssumption DEF Init, ProbesInOrder, Sessions
<1>2. IInv /\ [Next]_vars => IInv'
  BY TypeStep, ProbesInOrderStep
<1>3. IInv => EarlyMatchIsNotRejected
  BY HandlerAssumption DEF ProbesInOrder, EarlyMatchIsNotRejected, TypeOK,
       ProbeTypeOK, Marks, Sessions
<1>. QED
  BY <1>1, <1>2, <1>3, PTL DEF Spec

-----------------------------------------------------------------------------
(* Whose voice a match rests on, while every session gets its AudioStop.  *)

\* The early probe that runs is the one of the session being heard;
Hearing == {"open", "forward", "probe", "silence", "arm"}

ProbeIsOwn ==
  /\ stage \in Hearing => ~responded
  /\ \A n \in Sessions : earlyTask[n] = "running" =>
       n = session /\ ~responded /\ stage \in Hearing \union {"read"}

\* the name it left is the one of this session's speaker, who was announced;
MatchIsHere ==
  early_match # 0 =>
    early_match = session /\ enrolled[session] /\ "known" \in published[session]

\* and the outcome the session is heading for rests on such a name, or on the
\* verification of its own audio.
PlanIsSupported ==
  /\ plan # "none" => stage \in {"transcribe", "publish", "answer"}
  /\ plan \in {"early", "match"} => enrolled[session]
  /\ plan = "early" => "known" \in published[session]
  /\ plan = "match" /\ stage = "answer" => "known" \in published[session]

OwnMatch == ProbeIsOwn /\ MatchIsHere /\ PlanIsSupported /\ MatchIsOwnVoice

\* Each part is kept by every step.
LEMMA ProbeIsOwnStep ==
  ~Abandon /\ TypeOK /\ ConnsFit /\ OwnMatch /\ [Next]_vars => ProbeIsOwn'
<1> SUFFICES ASSUME ~Abandon, TypeOK, ConnsFit, OwnMatch, [Next]_vars PROVE ProbeIsOwn'
  OBVIOUS
<1> USE DEF mainVars, finishVars, probeFlags, probedVars, taskVars, clientVars,
            interimVars, connVars, readerVars, outsideVars
<1>1. session \in Nat /\ Sessions \subseteq Nat /\ 0 \notin Sessions
  BY HandlerAssumption DEF TypeOK, MainTypeOK, Marks, Sessions
<1>2. OwnMatch
  OBVIOUS
<1>3. stage \notin {"read", "closed"} => session \in Sessions
  BY HandlerAssumption DEF ConnsFit, InSession, TypeOK, MainTypeOK, Marks,
       Sessions
<1>4. CASE AudioStart
  BY <1>4, <1>1 DEF AudioStart, OwnMatch, ProbeIsOwn, Hearing, TypeOK,
       ProbeTypeOK
<1>5. CASE AudioChunk
  BY <1>5 DEF AudioChunk, TakeChunk, OwnMatch, ProbeIsOwn, Hearing, TypeOK,
       ProbeTypeOK
<1>6. CASE AudioStop
  BY <1>6, <1>1 DEF AudioStop, TakeStop, CancelEarlyProbe, GoTo, OwnMatch,
       ProbeIsOwn, Hearing, TypeOK, ProbeTypeOK
<1>7. CASE Disconnect
  BY <1>7 DEF Disconnect, CloseUpstream, OwnMatch, ProbeIsOwn, Hearing,
       TypeOK, ProbeTypeOK
<1>8. CASE OpenOk \/ OpenFails \/ Forwarded \/ SpeechHeard \/ NoSpeech
  BY <1>8 DEF OpenOk, GoTo, OpenFails, Resolved, Forwarded, SpeechHeard,
       NoSpeech, CloseUpstream, OwnMatch, ProbeIsOwn, Hearing, TypeOK,
       ProbeTypeOK
<1>9. CASE ProbeDue \/ ArmReject
  BY <1>9 DEF ProbeDue, GoTo, ArmReject, OwnMatch, ProbeIsOwn, Hearing,
       TypeOK, ProbeTypeOK
<1>10. CASE StopWritten \/ GateCloses \/ GatesPass \/ Verified
  BY <1>10 DEF StopWritten, Decided, Reply, GoTo, GateCloses, Publish,
       GatesPass, Verified, OwnMatch, ProbeIsOwn, Hearing, TypeOK, ProbeTypeOK
<1>11. CASE NotVerified \/ Transcribed \/ PublishedNow
  BY <1>11 DEF NotVerified, Publish, Reply, GoTo, Transcribed, Transcripts,
       Primary, PublishedNow, OwnMatch, ProbeIsOwn, Hearing, TypeOK,
       ProbeTypeOK
<1>12. CASE Answered \/ AutoEnrolled
  BY <1>12 DEF Answered, CloseUpstream, AutoEnrolled, GoTo, OwnMatch,
       ProbeIsOwn, Hearing, TypeOK, ProbeTypeOK
<1>13. ASSUME NEW n \in Sessions,
              EarlyMatch(n) \/ NoEarlyMatch(n) \/ RejectVerify(n)
              \/ RejectWhisper(n) \/ Reject(n) \/ RejectClosed(n)
              \/ RejectPublish(n)
       PROVE  ProbeIsOwn'
  BY <1>13 DEF EarlyMatch, Publish, NoEarlyMatch, RejectVerify, RejectWhisper,
       Reject, RejectClosed, RejectPublish, OwnMatch, ProbeIsOwn, Hearing,
       TypeOK, ProbeTypeOK
<1>14. ASSUME NEW c \in Conns,
              UpstreamCloses(c) \/ Interim(c) \/ Final(c) \/ ReadEnds(c)
              \/ ReadFails(c)
       PROVE  ProbeIsOwn'
  BY <1>14, ReadersFrame DEF ReaderStep, OwnMatch, ProbeIsOwn, Hearing,
       TypeOK, ProbeTypeOK
<1>15. CASE UNCHANGED vars
  BY <1>15 DEF vars, OwnMatch, ProbeIsOwn, Hearing, TypeOK, ProbeTypeOK
<1>. QED
  BY <1>4, <1>5, <1>6, <1>7, <1>8, <1>9, <1>10, <1>11, <1>12, <1>13, <1>14,
  <1>15
  DEF Next, Hangup, ChunkStep, FinishStep, VerifyCrashes, ProbeStep,
  ReaderStep

\* The name is set by the session's own probe and reset by AudioStart.
LEMMA MatchIsHereStep ==
  ~Abandon /\ TypeOK /\ ConnsFit /\ OwnMatch /\ [Next]_vars => MatchIsHere'
<1> SUFFICES ASSUME ~Abandon, TypeOK, ConnsFit, OwnMatch, [Next]_vars PROVE MatchIsHere'
  OBVIOUS
<1> USE DEF mainVars, finishVars, probeFlags, probedVars, taskVars, clientVars,
            interimVars, connVars, readerVars, outsideVars
<1>1. session \in Nat /\ Sessions \subseteq Nat /\ 0 \notin Sessions
  BY HandlerAssumption DEF TypeOK, MainTypeOK, Marks, Sessions
<1>2. OwnMatch
  OBVIOUS
<1>3. stage \notin {"read", "closed"} => session \in Sessions
  BY HandlerAssumption DEF ConnsFit, InSession, TypeOK, MainTypeOK, Marks,
       Sessions
<1>4. CASE AudioStart
  BY <1>4, <1>1 DEF AudioStart, OwnMatch, MatchIsHere, TypeOK, OutsideTypeOK
<1>5. CASE AudioChunk \/ AudioStop
  BY <1>5 DEF AudioChunk, TakeChunk, AudioStop, TakeStop, CancelEarlyProbe,
       GoTo, OwnMatch, MatchIsHere, TypeOK, OutsideTypeOK
<1>6. CASE Disconnect
  BY <1>6 DEF Disconnect, CloseUpstream, OwnMatch, MatchIsHere, TypeOK,
       OutsideTypeOK
<1>7. CASE OpenOk \/ OpenFails \/ Forwarded \/ ProbeDue \/ SpeechHeard \/
        NoSpeech \/ ArmReject
  BY <1>7 DEF OpenOk, GoTo, OpenFails, Resolved, Forwarded, ProbeDue,
       SpeechHeard, NoSpeech, CloseUpstream, ArmReject, OwnMatch, MatchIsHere,
       TypeOK, OutsideTypeOK
<1>8. CASE StopWritten \/ GatesPass \/ Verified
  BY <1>8 DEF StopWritten, Decided, Reply, GoTo, GatesPass, Verified,
       OwnMatch, MatchIsHere, TypeOK, OutsideTypeOK
<1>9. CASE GateCloses \/ NotVerified
  BY <1>9, <1>3 DEF GateCloses, Publish, Reply, GoTo, NotVerified, OwnMatch,
       MatchIsHere, TypeOK, OutsideTypeOK
<1>10. CASE Transcribed
  BY <1>10 DEF Transcribed, Transcripts, Primary, GoTo, OwnMatch, MatchIsHere,
       TypeOK, OutsideTypeOK
<1>11. CASE PublishedNow
  BY <1>11, <1>3 DEF PublishedNow, Publish, Reply, OwnMatch, MatchIsHere,
       TypeOK, OutsideTypeOK
<1>12. CASE Answered \/ AutoEnrolled
  BY <1>12 DEF Answered, CloseUpstream, AutoEnrolled, GoTo, OwnMatch,
       MatchIsHere, TypeOK, OutsideTypeOK
<1>13. ASSUME NEW n \in Sessions,
              EarlyMatch(n)
       PROVE  MatchIsHere'
  BY <1>13, <1>1 DEF EarlyMatch, Publish, OwnMatch, MatchIsHere, TypeOK,
       OutsideTypeOK, ProbeIsOwn, Hearing
<1>14. ASSUME NEW n \in Sessions,
              RejectPublish(n)
       PROVE  MatchIsHere'
  BY <1>14, <1>1 DEF RejectPublish, Publish, OwnMatch, MatchIsHere, TypeOK,
       OutsideTypeOK
<1>15. ASSUME NEW n \in Sessions,
              NoEarlyMatch(n) \/ RejectVerify(n) \/ RejectWhisper(n)
       PROVE  MatchIsHere'
  BY <1>15 DEF NoEarlyMatch, RejectVerify, RejectWhisper, OwnMatch,
       MatchIsHere, TypeOK, OutsideTypeOK
<1>16. ASSUME NEW n \in Sessions,
              Reject(n) \/ RejectClosed(n)
       PROVE  MatchIsHere'
  BY <1>16 DEF Reject, RejectClosed, OwnMatch, MatchIsHere, TypeOK,
       OutsideTypeOK
<1>17. ASSUME NEW c \in Conns,
              UpstreamCloses(c) \/ Interim(c) \/ Final(c) \/ ReadEnds(c)
              \/ ReadFails(c)
       PROVE  MatchIsHere'
  BY <1>17, ReadersFrame DEF ReaderStep, OwnMatch, MatchIsHere, TypeOK,
       OutsideTypeOK
<1>18. CASE UNCHANGED vars
  BY <1>18 DEF vars, OwnMatch, MatchIsHere, TypeOK, OutsideTypeOK
<1>. QED
  BY <1>4, <1>5, <1>6, <1>7, <1>8, <1>9, <1>10, <1>11, <1>12, <1>13, <1>14,
  <1>15, <1>16, <1>17, <1>18
  DEF Next, Hangup, ChunkStep, FinishStep, VerifyCrashes, ProbeStep,
  ReaderStep

\* An outcome is chosen on the session's own evidence.
LEMMA PlanIsSupportedStep ==
  ~Abandon /\ TypeOK /\ ConnsFit /\ OwnMatch /\ [Next]_vars => PlanIsSupported'
<1> SUFFICES ASSUME ~Abandon, TypeOK, ConnsFit, OwnMatch, [Next]_vars PROVE PlanIsSupported'
  OBVIOUS
<1> USE DEF mainVars, finishVars, probeFlags, probedVars, taskVars, clientVars,
            interimVars, connVars, readerVars, outsideVars
<1>1. session \in Nat /\ Sessions \subseteq Nat /\ 0 \notin Sessions
  BY HandlerAssumption DEF TypeOK, MainTypeOK, Marks, Sessions
<1>2. OwnMatch
  OBVIOUS
<1>3. stage \notin {"read", "closed"} => session \in Sessions
  BY HandlerAssumption DEF ConnsFit, InSession, TypeOK, MainTypeOK, Marks,
       Sessions
<1>4. CASE AudioStart
  BY <1>4, <1>1 DEF AudioStart, OwnMatch, PlanIsSupported, TypeOK,
       OutsideTypeOK
<1>5. CASE AudioChunk \/ AudioStop
  BY <1>5 DEF AudioChunk, TakeChunk, AudioStop, TakeStop, CancelEarlyProbe,
       GoTo, OwnMatch, PlanIsSupported, TypeOK, OutsideTypeOK
<1>6. CASE Hangup \/ VerifyCrashes
  BY <1>6 DEF Hangup, VerifyCrashes, OwnMatch, PlanIsSupported, TypeOK,
       OutsideTypeOK, Disconnect, CloseUpstream
<1>7. CASE OpenOk \/ OpenFails \/ Forwarded \/ ProbeDue \/ SpeechHeard \/
        NoSpeech \/ ArmReject
  BY <1>7 DEF OpenOk, GoTo, OpenFails, Resolved, Forwarded, ProbeDue,
       SpeechHeard, NoSpeech, CloseUpstream, ArmReject, OwnMatch,
       PlanIsSupported, TypeOK, OutsideTypeOK, Hearing
<1>8. CASE StopWritten
  BY <1>8 DEF StopWritten, Decided, Reply, GoTo, OwnMatch, PlanIsSupported,
       TypeOK, OutsideTypeOK
<1>9. CASE GateCloses \/ NotVerified
  BY <1>9, <1>3 DEF GateCloses, Publish, Reply, GoTo, NotVerified, OwnMatch,
       PlanIsSupported, TypeOK, OutsideTypeOK
<1>10. CASE GatesPass
  BY <1>10 DEF GatesPass, GoTo, OwnMatch, PlanIsSupported, TypeOK,
       OutsideTypeOK, MatchIsHere
<1>11. CASE Verified
  BY <1>11 DEF Verified, GoTo, OwnMatch, PlanIsSupported, TypeOK,
       OutsideTypeOK
<1>12. CASE Transcribed
  BY <1>12 DEF Transcribed, Transcripts, Primary, GoTo, OwnMatch,
       PlanIsSupported, TypeOK, OutsideTypeOK
<1>13. CASE PublishedNow
  BY <1>13, <1>3 DEF PublishedNow, Publish, Reply, OwnMatch, PlanIsSupported,
       TypeOK, OutsideTypeOK
<1>14. CASE Answered \/ AutoEnrolled
  BY <1>14 DEF Answered, CloseUpstream, AutoEnrolled, GoTo, OwnMatch,
       PlanIsSupported, TypeOK, OutsideTypeOK
<1>15. ASSUME NEW n \in Sessions,
              EarlyMatch(n) \/ RejectPublish(n)
       PROVE  PlanIsSupported'
  <2>1. /\ UNCHANGED <<stage, session, plan, enrolled>>
        /\ \A m \in Sessions : published[m] \subseteq published'[m]
    BY <1>15 DEF EarlyMatch, RejectPublish, Publish, TypeOK, OutsideTypeOK
  <2>2. session \in Nat /\ (plan # "none" => session \in Sessions)
    BY <1>1, <1>3 DEF OwnMatch, PlanIsSupported
  <2>. QED
    BY <2>1, <2>2 DEF OwnMatch, PlanIsSupported
<1>16. ASSUME NEW n \in Sessions,
              NoEarlyMatch(n) \/ RejectVerify(n) \/ RejectWhisper(n)
       PROVE  PlanIsSupported'
  BY <1>16 DEF NoEarlyMatch, RejectVerify, RejectWhisper, OwnMatch,
       PlanIsSupported, TypeOK, OutsideTypeOK
<1>17. ASSUME NEW n \in Sessions,
              Reject(n) \/ RejectClosed(n)
       PROVE  PlanIsSupported'
  BY <1>17 DEF Reject, RejectClosed, OwnMatch, PlanIsSupported, TypeOK,
       OutsideTypeOK
<1>18. ASSUME NEW c \in Conns,
              UpstreamCloses(c) \/ Interim(c) \/ Final(c) \/ ReadEnds(c)
              \/ ReadFails(c)
       PROVE  PlanIsSupported'
  BY <1>18, ReadersFrame DEF ReaderStep, OwnMatch, PlanIsSupported, TypeOK,
       OutsideTypeOK
<1>19. CASE UNCHANGED vars
  BY <1>19 DEF vars, OwnMatch, PlanIsSupported, TypeOK, OutsideTypeOK
<1>. QED
  BY <1>4, <1>5, <1>6, <1>7, <1>8, <1>9, <1>10, <1>11, <1>12, <1>13, <1>14,
  <1>15, <1>16, <1>17, <1>18, <1>19
  DEF Next, Hangup, ChunkStep, FinishStep, VerifyCrashes, ProbeStep,
  ReaderStep

\* What is logged is the outcome that was chosen.
LEMMA MatchIsOwnVoiceStep ==
  ~Abandon /\ TypeOK /\ ConnsFit /\ OwnMatch /\ [Next]_vars => MatchIsOwnVoice'
<1> SUFFICES ASSUME ~Abandon, TypeOK, ConnsFit, OwnMatch, [Next]_vars PROVE MatchIsOwnVoice'
  OBVIOUS
<1> USE DEF mainVars, finishVars, probeFlags, probedVars, taskVars, clientVars,
            interimVars, connVars, readerVars, outsideVars
<1>1. session \in Nat /\ Sessions \subseteq Nat /\ 0 \notin Sessions
  BY HandlerAssumption DEF TypeOK, MainTypeOK, Marks, Sessions
<1>2. OwnMatch
  OBVIOUS
<1>3. stage \notin {"read", "closed"} => session \in Sessions
  BY HandlerAssumption DEF ConnsFit, InSession, TypeOK, MainTypeOK, Marks,
       Sessions
<1>4. CASE AudioStart
  BY <1>4 DEF AudioStart, OwnMatch, MatchIsOwnVoice
<1>5. CASE AudioChunk \/ AudioStop
  BY <1>5 DEF AudioChunk, TakeChunk, AudioStop, TakeStop, CancelEarlyProbe,
       GoTo, OwnMatch, MatchIsOwnVoice
<1>6. CASE Disconnect
  BY <1>6 DEF Disconnect, CloseUpstream, OwnMatch, MatchIsOwnVoice
<1>7. CASE OpenOk \/ OpenFails \/ Forwarded \/ ProbeDue \/ SpeechHeard \/
        NoSpeech \/ ArmReject
  BY <1>7 DEF OpenOk, GoTo, OpenFails, Resolved, Forwarded, ProbeDue,
       SpeechHeard, NoSpeech, CloseUpstream, ArmReject, OwnMatch,
       MatchIsOwnVoice
<1>8. CASE StopWritten \/ GateCloses \/ GatesPass \/ Verified
  BY <1>8 DEF StopWritten, Decided, Reply, GoTo, GateCloses, Publish,
       GatesPass, Verified, OwnMatch, MatchIsOwnVoice
<1>9. CASE NotVerified \/ Transcribed \/ PublishedNow
  BY <1>9 DEF NotVerified, Publish, Reply, GoTo, Transcribed, Transcripts,
       Primary, PublishedNow, OwnMatch, MatchIsOwnVoice
<1>10. CASE AutoEnrolled
  BY <1>10 DEF AutoEnrolled, GoTo, OwnMatch, MatchIsOwnVoice
<1>11. CASE Answered
  BY <1>11, <1>3 DEF Answered, CloseUpstream, OwnMatch, MatchIsOwnVoice,
       PlanIsSupported, TypeOK, OutsideTypeOK
<1>12. ASSUME NEW n \in Sessions,
              EarlyMatch(n) \/ NoEarlyMatch(n) \/ RejectVerify(n)
              \/ RejectWhisper(n) \/ Reject(n) \/ RejectClosed(n)
              \/ RejectPublish(n)
       PROVE  MatchIsOwnVoice'
  BY <1>12 DEF EarlyMatch, Publish, NoEarlyMatch, RejectVerify, RejectWhisper,
       Reject, RejectClosed, RejectPublish, OwnMatch, MatchIsOwnVoice
<1>13. ASSUME NEW c \in Conns,
              UpstreamCloses(c) \/ Interim(c) \/ Final(c) \/ ReadEnds(c)
              \/ ReadFails(c)
       PROVE  MatchIsOwnVoice'
  BY <1>13, ReadersFrame DEF ReaderStep, OwnMatch, MatchIsOwnVoice
<1>14. CASE UNCHANGED vars
  BY <1>14 DEF vars, OwnMatch, MatchIsOwnVoice
<1>. QED
  BY <1>4, <1>5, <1>6, <1>7, <1>8, <1>9, <1>10, <1>11, <1>12, <1>13, <1>14
     DEF Next, Hangup, ChunkStep, FinishStep, VerifyCrashes, ProbeStep,
         ReaderStep

\* The four together are inductive.
LEMMA OwnMatchInvariant == ~Abandon => (Spec => []OwnMatch)
<1> SUFFICES ASSUME ~Abandon PROVE Spec => []OwnMatch
  OBVIOUS
<1> DEFINE IInv == TypeOK /\ ConnsFit /\ OwnMatch
<1>1. Init => IInv
  BY TypeInit DEF Init, OwnMatch, ProbeIsOwn, MatchIsHere, PlanIsSupported,
       MatchIsOwnVoice, Hearing
<1>2. IInv /\ [Next]_vars => IInv'
  BY TypeStep, ProbeIsOwnStep, MatchIsHereStep, PlanIsSupportedStep,
       MatchIsOwnVoiceStep DEF OwnMatch
<1>. QED
  BY <1>1, <1>2, PTL DEF Spec

\* As long as Home Assistant ends each session with an AudioStop, an utterance
\* is logged as a match only where an enrolled voice spoke in it: the bare
\* name the early probe leaves is never another session's.
THEOREM SpeakerIsOwn == ~Abandon => (Spec => []MatchIsOwnVoice)
<1>1. OwnMatch => MatchIsOwnVoice
  BY DEF OwnMatch
<1>. QED
  BY <1>1, OwnMatchInvariant, PTL

\* And on each path that leads to a match the speaker was published before
\* the transcript is written.
THEOREM SpeakerIsAnnounced == ~Abandon => (Spec => []MatchIsAnnouncedFirst)
<1>1. OwnMatch => MatchIsAnnouncedFirst
  BY DEF OwnMatch, PlanIsSupported, MatchIsAnnouncedFirst
<1>. QED
  BY <1>1, OwnMatchInvariant, PTL

-----------------------------------------------------------------------------
(* The promise to Home Assistant: each step is one of Gatekeeper's, or none. *)

\* Words are only on their way out under a verdict that lets them pass.
WordsMayPass ==
  /\ stage \in {"transcribe", "publish"} => plan \in Gate!Passing
  /\ stage = "publish" => plan = "match"
  /\ stage = "answer" => plan \in Gate!Verdicts /\ (reply # 0 => plan \in Gate!Passing)

\* The verdict is chosen before any word can be.
LEMMA WordsMayPassStep ==
  TypeOK /\ ConnsFit /\ OwnMatch /\ WordsMayPass /\ [Next]_vars => WordsMayPass'
<1> SUFFICES ASSUME TypeOK, ConnsFit, OwnMatch, WordsMayPass, [Next]_vars
              PROVE WordsMayPass'
  OBVIOUS
<1> USE DEF mainVars, finishVars, probeFlags, probedVars, taskVars, clientVars,
            interimVars, connVars, readerVars, outsideVars
<1>1. CASE AudioStart
  BY <1>1 DEF AudioStart, WordsMayPass, Gate!Passing, Gate!Naming,
       Gate!Silencing, Gate!Verdicts
<1>2. CASE AudioChunk \/ AudioStop
  BY <1>2 DEF AudioChunk, TakeChunk, AudioStop, TakeStop, CancelEarlyProbe,
       GoTo, WordsMayPass, Gate!Passing, Gate!Naming, Gate!Silencing,
       Gate!Verdicts
<1>3. CASE Disconnect
  BY <1>3 DEF Disconnect, CloseUpstream, Resolved, WordsMayPass, Gate!Passing,
       Gate!Naming, Gate!Silencing, Gate!Verdicts
<1>4. CASE OpenOk \/ OpenFails \/ Forwarded \/ SpeechHeard
  BY <1>4 DEF OpenOk, GoTo, OpenFails, Resolved, Forwarded, SpeechHeard,
       WordsMayPass, Gate!Passing, Gate!Naming, Gate!Silencing, Gate!Verdicts
<1>5. CASE ProbeDue \/ ArmReject
  BY <1>5 DEF ProbeDue, GoTo, ArmReject, WordsMayPass, Gate!Passing,
       Gate!Naming, Gate!Silencing, Gate!Verdicts
<1>6. CASE NoSpeech
  BY <1>6 DEF NoSpeech, CloseUpstream, GoTo, WordsMayPass, Gate!Passing,
       Gate!Naming, Gate!Silencing, Gate!Verdicts
<1>7. CASE StopWritten
  BY <1>7 DEF StopWritten, Decided, Reply, GoTo, WordsMayPass, Gate!Passing,
       Gate!Naming, Gate!Silencing, Gate!Verdicts
<1>8. CASE GateCloses
  BY <1>8 DEF GateCloses, Publish, Reply, GoTo, WordsMayPass, Gate!Passing,
       Gate!Naming, Gate!Silencing, Gate!Verdicts, OwnMatch, PlanIsSupported
<1>9. CASE NotVerified
  BY <1>9 DEF NotVerified, Publish, Reply, GoTo, WordsMayPass, Gate!Passing,
       Gate!Naming, Gate!Silencing, Gate!Verdicts
<1>10. CASE GatesPass \/ Verified
  BY <1>10 DEF GatesPass, GoTo, Verified, WordsMayPass, Gate!Passing,
       Gate!Naming, Gate!Silencing, Gate!Verdicts
<1>11. CASE Transcribed
  BY <1>11 DEF Transcribed, Transcripts, Primary, GoTo, WordsMayPass,
       Gate!Passing, Gate!Naming, Gate!Silencing, Gate!Verdicts
<1>12. CASE PublishedNow
  BY <1>12 DEF PublishedNow, Publish, Reply, WordsMayPass, Gate!Passing,
       Gate!Naming, Gate!Silencing, Gate!Verdicts
<1>13. CASE Answered
  BY <1>13 DEF Answered, CloseUpstream, WordsMayPass, Gate!Passing,
       Gate!Naming, Gate!Silencing, Gate!Verdicts
<1>14. CASE AutoEnrolled
  BY <1>14 DEF AutoEnrolled, GoTo, WordsMayPass, Gate!Passing, Gate!Naming,
       Gate!Silencing, Gate!Verdicts
<1>15. ASSUME NEW n \in Sessions, EarlyMatch(n) PROVE WordsMayPass'
  BY <1>15 DEF EarlyMatch, Publish, WordsMayPass, Gate!Passing, Gate!Naming,
       Gate!Silencing, Gate!Verdicts
<1>16. ASSUME NEW n \in Sessions, RejectPublish(n) PROVE WordsMayPass'
  BY <1>16 DEF RejectPublish, Publish, WordsMayPass, Gate!Passing,
       Gate!Naming, Gate!Silencing, Gate!Verdicts
<1>17. ASSUME NEW n \in Sessions, NoEarlyMatch(n) \/ RejectVerify(n) \/
      RejectWhisper(n) PROVE WordsMayPass'
  BY <1>17 DEF NoEarlyMatch, RejectVerify, RejectWhisper, WordsMayPass,
       Gate!Passing, Gate!Naming, Gate!Silencing, Gate!Verdicts
<1>18. ASSUME NEW n \in Sessions, Reject(n) PROVE WordsMayPass'
  BY <1>18 DEF Reject, WordsMayPass, Gate!Passing, Gate!Naming,
       Gate!Silencing, Gate!Verdicts
<1>19. ASSUME NEW n \in Sessions, RejectClosed(n) PROVE WordsMayPass'
  BY <1>19 DEF RejectClosed, WordsMayPass, Gate!Passing, Gate!Naming,
       Gate!Silencing, Gate!Verdicts
<1>20. ASSUME NEW c \in Conns, UpstreamCloses(c) \/ Interim(c) \/ Final(c) \/
      ReadEnds(c) \/ ReadFails(c) PROVE WordsMayPass'
  BY <1>20, ReadersFrame DEF ReaderStep, WordsMayPass, Gate!Passing,
       Gate!Naming, Gate!Silencing, Gate!Verdicts
<1>21. CASE UNCHANGED vars
  BY <1>21 DEF vars, WordsMayPass, Gate!Passing, Gate!Naming, Gate!Silencing,
       Gate!Verdicts
<1>. QED
  BY <1>1, <1>2, <1>3, <1>4, <1>5, <1>6, <1>7, <1>8, <1>9, <1>10, <1>11,
     <1>12, <1>13, <1>14, <1>15, <1>16, <1>17, <1>18, <1>19, <1>20, <1>21 DEF
     Next, Hangup, ChunkStep, FinishStep, VerifyCrashes, ProbeStep, ReaderStep

\* The phase by the stage the main coroutine stands at.
PhaseOf ==
  /\ stage = "closed" => Phase = "gone"
  /\ stage # "closed" /\ responded => Phase = "answered"
  /\ stage # "closed" /\ ~responded /\ session = 0 => Phase = "idle"
  /\ stage \in Finishing /\ ~responded /\ session # 0 => Phase = "deciding"
  /\ stage \notin Finishing \union {"closed"} /\ ~responded /\ session # 0
       => Phase = "listening"

LEMMA PhaseNow == PhaseOf
BY DEF PhaseOf, Phase, Finishing

LEMMA PhaseNext == PhaseOf'
BY DEF PhaseOf, Phase, Finishing

\* A function on 1 .. 1 is a sequence of one element, and the one on 1 .. 0 the
\* empty sequence.
LEMMA ShortSeqs ==
  ASSUME NEW S, NEW f
  PROVE  /\ f \in [1 .. 0 -> S] => f = <<>>
         /\ f \in [1 .. 1 -> S] => f = <<f[1]>>
<1>1. ASSUME f \in [1 .. 0 -> S] PROVE f = <<>>
  <2>1. f \in Seq(S) /\ Len(f) = 0
    BY <1>1
  <2>. QED
    BY <2>1
<1>2. ASSUME f \in [1 .. 1 -> S] PROVE f = <<f[1]>>
  <2>1. f \in Seq(S) /\ Len(f) = 1 /\ f[1] \in S
    <3>1. f \in Seq(S) /\ DOMAIN f = 1 .. 1 /\ f[1] \in S
      <4>1. DOMAIN f = 1 .. 1 /\ f[1] \in S
        BY <1>2
      <4>2. f \in Seq(S)
        BY <1>2, SeqDef
      <4>. QED
        BY <4>1, <4>2
    <3>2. Len(f) \in Nat /\ DOMAIN f = 1 .. Len(f)
      BY <3>1, LenProperties
    <3>3. 1 \in 1 .. Len(f) /\ Len(f) \in 1 .. 1
      BY <3>1, <3>2
    <3>. QED
      BY <3>1, <3>2, <3>3
  <2>2. <<f[1]>> \in Seq(S) /\ Len(<<f[1]>>) = 1
    BY <2>1
  <2>. QED
    BY <2>1, <2>2, SeqEqual
<1>. QED
  BY <1>1, <1>2

\* What Gatekeeper sees of the answers to one session,
Spoken(texts) == [i \in 1 .. Len(texts) |-> texts[i] # 0]

\* nothing where none was written,
LEMMA SpokenNothing == Spoken(<<>>) = <<>>
<1>1. Spoken(<<>>) \in [1 .. 0 -> BOOLEAN]
  BY DEF Spoken
<1>. QED
  BY <1>1, ShortSeqs

\* and one more with each that is.
LEMMA SpokenOnce ==
  ASSUME NEW text
  PROVE  Spoken(<<text>>) = Append(Spoken(<<>>), text # 0)
<1>1. Spoken(<<>>) = <<>>
  BY SpokenNothing
<1>2. ASSUME NEW v \in BOOLEAN, (text # 0) = v
      PROVE  Spoken(<<text>>) = Append(<<>>, v)
  <2>1. Spoken(<<text>>) \in [1 .. 1 -> BOOLEAN]
    BY DEF Spoken
  <2>2. Spoken(<<text>>)[1] = v
    <3>1. 1 \in 1 .. Len(<<text>>) /\ <<text>>[1] = text
      OBVIOUS
    <3>2. Spoken(<<text>>)[1] = (<<text>>[1] # 0)
      BY <3>1, Zenon DEF Spoken
    <3>. QED
      BY <1>2, <3>1, <3>2, Zenon
  <2>3. Spoken(<<text>>) = <<v>>
    BY <2>1, <2>2, ShortSeqs, Zenon
  <2>4. Append(<<>>, v) = <<v>>
    OBVIOUS
  <2>. QED
    BY <2>3, <2>4
<1>3. (text # 0) \in BOOLEAN
  OBVIOUS
<1>. QED
  BY <1>1, <1>2, <1>3, Zenon

\* A step that changes none of it is none of Gatekeeper's.
LEMMA GateStutters ==
  ASSUME UNCHANGED <<session, enrolled, answers, recorded>>, Phase' = Phase
  PROVE  UNCHANGED Gate!vars
BY DEF Gate!vars

\* The main coroutine's way through a session is listening or deciding;
LEMMA PhaseStays ==
  ASSUME UNCHANGED <<session, responded>>, ~responded, session # 0,
         \/ {stage, stage'} \subseteq Finishing
         \/ {stage, stage'} \intersect (Finishing \union {"closed"}) = {}
  PROVE  Phase' = Phase
BY PhaseNow, PhaseNext DEF PhaseOf

\* AudioStart begins a session, AudioStop stops it,
LEMMA BeginsGate == TypeOK /\ AudioStart => Gate!Begin
<1> SUFFICES ASSUME TypeOK, AudioStart PROVE Gate!Begin
  OBVIOUS
<1>1. session \in Nat /\ session' = session + 1
  BY HandlerAssumption DEF AudioStart, TypeOK, MainTypeOK, Marks
<1>2. stage = "read" /\ stage' = "read" /\ responded' = FALSE /\ session < MaxSessions
  BY DEF AudioStart
<1>3. UNCHANGED <<enrolled, answers, recorded>>
  BY DEF AudioStart, outsideVars
<1>4. Phase \in {"idle", "listening", "answered"}
  BY <1>2, PhaseNow DEF PhaseOf, Finishing
<1>5. Phase' = "listening"
  <2>1. session' # 0
    BY <1>1
  <2>. QED
    BY <2>1, <1>2, PhaseNext DEF PhaseOf, Finishing
<1>. QED
  BY <1>1, <1>2, <1>3, <1>4, <1>5 DEF Gate!Begin

LEMMA StopsGate == TypeOK /\ AudioStop => Gate!Stop
<1> SUFFICES ASSUME TypeOK, AudioStop PROVE Gate!Stop
  OBVIOUS
<1>1. session # 0
  BY HandlerAssumption DEF AudioStop, TakeStop
<1>2. /\ stage = "read" /\ stage' = "stop" /\ ~responded
      /\ UNCHANGED <<responded, session, enrolled, answers, recorded>>
  BY DEF AudioStop, TakeStop, GoTo, outsideVars
<1>3. Phase = "listening" /\ Phase' = "deciding"
  BY <1>1, <1>2, PhaseNow, PhaseNext DEF PhaseOf, Finishing
<1>. QED
  BY <1>2, <1>3 DEF Gate!Stop

\* the written transcript answers it under the verdict that was reached,
LEMMA AnswersGate ==
  TypeOK /\ AnswersAwaited /\ OwnMatch /\ WordsMayPass /\ ConnsFit /\ Answered
    => Gate!Decide
<1> SUFFICES ASSUME TypeOK, AnswersAwaited, OwnMatch, WordsMayPass, ConnsFit, Answered
             PROVE  Gate!Decide
  OBVIOUS
<1>1. session \in Sessions /\ stage = "answer" /\ ~responded /\ answers[session] = <<>>
  BY HandlerAssumption
     DEF Answered, AnswersAwaited, Finishing, TypeOK, MainTypeOK, Marks, Sessions
<1>2. PICK spoken \in BOOLEAN : spoken = (reply # 0)
  OBVIOUS
<1>3. Phase = "deciding"
  <2>1. session # 0
    BY <1>1, HandlerAssumption DEF Sessions
  <2>. QED
    BY <1>1, <2>1, PhaseNow DEF PhaseOf, Finishing
<1>4. Phase' = "answered"
  <2>1. stage' # "closed" /\ responded'
    BY DEF Answered
  <2>. QED
    BY <2>1, PhaseNext DEF PhaseOf
<1>5. PICK verdict \in Gate!Verdicts : verdict = plan
  BY <1>1 DEF WordsMayPass
<1>6. /\ verdict \in Gate!Naming => enrolled[session]
      /\ spoken => verdict \in Gate!Passing
  BY <1>1, <1>2, <1>5 DEF OwnMatch, PlanIsSupported, WordsMayPass, Gate!Naming
<1>7. [n \in Sessions |-> Spoken(answers'[n])]
      = [[n \in Sessions |-> Spoken(answers[n])] EXCEPT
           ![session] = Append(@, spoken)]
  <2>1. answers' = [answers EXCEPT ![session] = <<reply>>]
    BY <1>1 DEF Answered, TypeOK, OutsideTypeOK
  <2>2. Spoken(<<reply>>) = Append(Spoken(answers[session]), spoken)
    BY <1>1, <1>2, SpokenOnce, Zenon
  <2> DEFINE a == Append(Spoken(answers[session]), spoken)
             w == [n \in Sessions |-> Spoken(answers[n])]
             x == [n \in Sessions |-> Spoken(answers'[n])]
  <2>3. x = [w EXCEPT ![session] = a]
    <3>1. \A n \in Sessions : x[n] = IF n = session THEN a ELSE w[n]
      <4>1. \A n \in Sessions : answers'[n] = IF n = session THEN <<reply>> ELSE answers[n]
        BY <2>1 DEF TypeOK, OutsideTypeOK
      <4> HIDE DEF a
      <4>. QED
        BY <2>2, <4>1 DEF a
    <3> HIDE DEF a
    <3>. QED
      BY <3>1
  <2>4. w[session] = Spoken(answers[session])
    BY <1>1
  <2>. QED
    BY <2>3, <2>4, Zenon
<1>8. recorded' = [recorded EXCEPT ![session] = @ \union {verdict}]
      /\ UNCHANGED <<session, enrolled>>
  BY <1>5 DEF Answered
<1>9. Gate!Answer(verdict, spoken)
  BY <1>3, <1>4, <1>6, <1>7, <1>8, Zenon DEF Gate!Answer, Spoken
<1>. QED
  BY <1>9 DEF Gate!Decide

\* and whatever ends the connection leaves.
LEMMA LeavesGate == stage # "closed" /\ Disconnect => Gate!Leave
<1> SUFFICES ASSUME stage # "closed", Disconnect PROVE Gate!Leave
  OBVIOUS
<1>1. stage' = "closed" /\ UNCHANGED <<session, enrolled, answers, recorded>>
  BY DEF Disconnect, outsideVars
<1>2. Phase' = "gone"
  BY <1>1, PhaseNext DEF PhaseOf
<1>3. Phase # "gone"
  BY DEF Phase
<1>. QED
  BY <1>1, <1>2, <1>3 DEF Gate!Leave

\* and so the steps that neither begin nor end one are none of Gatekeeper's.
LEMMA GateStays ==
  ASSUME TypeOK, ConnsFit, OwnMatch, AnswersAwaited,
         UNCHANGED <<session, responded, enrolled, answers, recorded>>,
         stage \notin {"read", "closed"} \/ (session > 0 /\ ~responded /\ stage = "read"),
         \/ stage \in Finishing /\ stage' \in Finishing
         \/ stage \in Hearing \union {"read"} /\ stage' \in Hearing \union {"read"}
  PROVE  UNCHANGED Gate!vars
<1>1. session # 0
  BY HandlerAssumption DEF ConnsFit, InSession, TypeOK, MainTypeOK, Marks
<1>2. ~responded
  BY DEF AnswersAwaited, OwnMatch, ProbeIsOwn, Hearing, Finishing
<1>3. Phase' = Phase
  BY <1>1, <1>2, PhaseStays DEF Hearing, Finishing
<1>. QED
  BY <1>3, GateStutters

\* Each step is one of those, or none.
LEMMA GateStep ==
  TypeOK /\ ConnsFit /\ OwnMatch /\ AnswersAwaited /\ WordsMayPass /\ [Next]_vars
    => [Gate!Next]_(Gate!vars)
<1> SUFFICES ASSUME TypeOK, ConnsFit, OwnMatch, AnswersAwaited, WordsMayPass, [Next]_vars
             PROVE  Gate!Next \/ UNCHANGED Gate!vars
  OBVIOUS
<1> USE DEF mainVars, finishVars, probeFlags, probedVars, taskVars, clientVars,
            interimVars, connVars, readerVars, outsideVars
<1>1. CASE AudioStart
  BY <1>1, BeginsGate DEF Gate!Next
<1>2. CASE AudioStop
  BY <1>2, StopsGate DEF Gate!Next
<1>3. CASE Answered
  BY <1>3, AnswersGate DEF Gate!Next
<1>4. CASE Hangup \/ VerifyCrashes
  BY <1>4, LeavesGate DEF Hangup, VerifyCrashes, Gate!Next
<1>5. CASE AudioChunk
  BY <1>5, GateStays DEF AudioChunk, TakeChunk, Hearing
<1>6. CASE OpenOk \/ OpenFails \/ Forwarded
  <2>1. /\ stage \in Hearing /\ stage' \in Hearing \union {"read"}
        /\ UNCHANGED <<session, responded, enrolled, answers, recorded>>
    BY <1>6 DEF OpenOk, OpenFails, Forwarded, GoTo, Hearing
  <2>2. stage \notin {"read", "closed"}
    BY <2>1 DEF Hearing
  <2>3. UNCHANGED <<session, responded, enrolled, answers, recorded>>
    BY <2>1
  <2>. QED
    BY <2>1, <2>2, <2>3, GateStays
<1>7. CASE ProbeDue \/ SpeechHeard \/ NoSpeech \/ ArmReject
  <2>1. /\ stage \in Hearing /\ stage' \in Hearing \union {"read"}
        /\ UNCHANGED <<session, responded, enrolled, answers, recorded>>
    BY <1>7 DEF ProbeDue, SpeechHeard, NoSpeech, ArmReject, GoTo, Hearing
  <2>2. stage \notin {"read", "closed"}
    BY <2>1 DEF Hearing
  <2>3. UNCHANGED <<session, responded, enrolled, answers, recorded>>
    BY <2>1
  <2>. QED
    BY <2>1, <2>2, <2>3, GateStays
<1>8. CASE StopWritten
  <2>1. /\ stage \in Finishing /\ stage' \in Finishing
        /\ UNCHANGED <<session, responded, enrolled, answers, recorded>>
    BY <1>8 DEF StopWritten, Reply, GoTo, Finishing
  <2>2. stage \notin {"read", "closed"}
    BY <2>1 DEF Finishing
  <2>3. UNCHANGED <<session, responded, enrolled, answers, recorded>>
    BY <2>1
  <2>. QED
    BY <2>1, <2>2, <2>3, GateStays
<1>9. CASE GateCloses \/ GatesPass
  <2>1. /\ stage \in Finishing /\ stage' \in Finishing
        /\ UNCHANGED <<session, responded, enrolled, answers, recorded>>
    BY <1>9 DEF GateCloses, GatesPass, Publish, Reply, GoTo, Finishing
  <2>2. stage \notin {"read", "closed"}
    BY <2>1 DEF Finishing
  <2>3. UNCHANGED <<session, responded, enrolled, answers, recorded>>
    BY <2>1
  <2>. QED
    BY <2>1, <2>2, <2>3, GateStays
<1>10. CASE Verified \/ NotVerified
  <2>1. /\ stage \in Finishing /\ stage' \in Finishing
        /\ UNCHANGED <<session, responded, enrolled, answers, recorded>>
    BY <1>10 DEF Verified, NotVerified, Publish, Reply, GoTo, Finishing
  <2>2. stage \notin {"read", "closed"}
    BY <2>1 DEF Finishing
  <2>3. UNCHANGED <<session, responded, enrolled, answers, recorded>>
    BY <2>1
  <2>. QED
    BY <2>1, <2>2, <2>3, GateStays
<1>11. CASE Transcribed \/ PublishedNow
  <2>1. /\ stage \in Finishing /\ stage' \in Finishing
        /\ UNCHANGED <<session, responded, enrolled, answers, recorded>>
    BY <1>11 DEF Transcribed, PublishedNow, Publish, Reply, GoTo, Finishing
  <2>2. stage \notin {"read", "closed"}
    BY <2>1 DEF Finishing
  <2>3. UNCHANGED <<session, responded, enrolled, answers, recorded>>
    BY <2>1
  <2>. QED
    BY <2>1, <2>2, <2>3, GateStays
<1>12. CASE AutoEnrolled
  <2>1. /\ stage = "enroll" /\ stage' = "read" /\ session # 0
        /\ UNCHANGED <<session, responded, enrolled, answers, recorded>>
    BY <1>12 DEF AutoEnrolled, GoTo, ConnsFit, InSession
  <2>2. Phase' = Phase
    BY <2>1, PhaseNow, PhaseNext DEF PhaseOf, Finishing
  <2>. QED
    BY <2>1, <2>2, GateStutters
<1>13. ASSUME UNCHANGED <<stage, session, responded, enrolled, answers, recorded>>
       PROVE  UNCHANGED Gate!vars
  BY <1>13, GateStutters DEF Phase
<1>14. ASSUME NEW n \in Sessions, ProbeStep(n) PROVE UNCHANGED Gate!vars
  BY <1>13, <1>14
     DEF ProbeStep, EarlyMatch, NoEarlyMatch, RejectVerify, RejectWhisper, Reject,
         RejectClosed, RejectPublish, Publish
<1>15. ASSUME NEW c \in Conns, UpstreamCloses(c) \/ ReaderStep(c)
       PROVE  UNCHANGED Gate!vars
  BY <1>13, <1>15, ReadersFrame
<1>16. CASE UNCHANGED vars
  BY <1>13, <1>16 DEF vars
<1>. QED
  BY <1>1, <1>2, <1>3, <1>4, <1>5, <1>6, <1>7, <1>8, <1>9, <1>10, <1>11, <1>12,
     <1>14, <1>15, <1>16 DEF Next, ChunkStep, FinishStep

\* As long as Home Assistant ends each session with an AudioStop, the
\* connection of handler.py does nothing that Gatekeeper does not allow: each
\* session stopped is answered at most once, with words only under a verdict
\* that lets them pass, and a speaker is named only where an enrolled voice
\* spoke.  (That it does answer is the part of Gatekeeper's specification a
\* proof here cannot reach.)
THEOREM KeepsGate ==
  ~Abandon => (Spec => Gate!Init /\ [][Gate!Next]_(Gate!vars))
<1> SUFFICES ASSUME ~Abandon PROVE Spec => Gate!Init /\ [][Gate!Next]_(Gate!vars)
  OBVIOUS
<1> DEFINE IInv == TypeOK /\ ConnsFit /\ OwnMatch /\ AnswersAwaited /\ WordsMayPass
<1>1. Init => IInv
  <2> SUFFICES ASSUME Init PROVE IInv
    OBVIOUS
  <2>1. TypeOK /\ ConnsFit
    BY TypeInit
  <2>2. OwnMatch
    BY DEF Init, OwnMatch, ProbeIsOwn, MatchIsHere, PlanIsSupported,
         MatchIsOwnVoice, Hearing
  <2>3. AnswersAwaited /\ WordsMayPass
    BY DEF Init, AnswersAwaited, Finishing, WordsMayPass
  <2>. QED
    BY <2>1, <2>2, <2>3
<1>2. IInv /\ [Next]_vars => IInv'
  BY TypeStep, ProbeIsOwnStep, MatchIsHereStep, PlanIsSupportedStep,
       MatchIsOwnVoiceStep, AwaitedStep, WordsMayPassStep DEF OwnMatch
<1>3. Init => Gate!Init
  <2> SUFFICES ASSUME Init PROVE Gate!Init
    OBVIOUS
  <2>1. Phase = "idle"
    BY PhaseNow DEF Init, PhaseOf
  <2>2. Spoken(<<>>) = <<>>
    BY SpokenNothing
  <2>3. [n \in Sessions |-> Spoken(answers[n])] = [n \in Sessions |-> <<>>]
    BY <2>2 DEF Init
  <2>4. session = 0 /\ enrolled \in [Sessions -> BOOLEAN] /\ recorded = [n \in Sessions |-> {}]
    BY DEF Init
  <2>. QED
    BY <2>1, <2>3, <2>4, Zenon DEF Gate!Init, Gate!Sessions, Sessions, Spoken
<1>4. IInv /\ [Next]_vars => [Gate!Next]_(Gate!vars)
  BY GateStep
<1>. QED
  BY <1>1, <1>2, <1>3, <1>4, PTL DEF Spec

-----------------------------------------------------------------------------
(* What the reject probe leaves behind.  _reset_session_state drops the     *)
(* reference to it and lets it run: what follows is about a connection on   *)
(* which no session begins before the reject probe of the last is through.  *)

Through(n) == rejectTask[n] \in {"none", "done"}

ProbesEndFirst == AudioStart => \A n \in Sessions : Through(n)

\* A reject probe is armed once in a session, and rejects that session.
RejectIsOwn ==
  /\ \A n \in Sessions : ~Through(n) => n = session
  /\ \A n \in Sessions : n = session /\ rejectTask[n] # "none" => reject_probed
  /\ early_rejected # 0 => early_rejected = session

\* Who was thrown out was announced, or is about to be.
Announced(n) == rejectTask[n] \in {"closing", "capturing"} \/ published[n] # {}

RejectIsAnnounced ==
  stage # "closed" =>
    /\ early_rejected # 0 => Announced(early_rejected)
    /\ plan = "early-reject" => Announced(session)
    /\ \A n \in Sessions : "early-reject" \in recorded[n] => Announced(n)

\* Every other verdict was announced where it fell.
Unannounced == {"none", "empty", "no-speech", "cancelled", "early-reject"}

VerdictIsAnnounced ==
  /\ plan \notin Unannounced \union {"match"} => published[session] # {}
  /\ plan = "match" /\ stage # "publish" /\ stage # "transcribe" => published[session] # {}
  /\ \A n \in Sessions :
       /\ "none" \notin recorded[n]
       /\ recorded[n] \ Unannounced # {} => published[n] # {}

\* The connection in use is the only one of the session that may be open.
OneIsOpen ==
  stage # "closed" =>
    /\ \A c \in 1 .. opened : connSession[c] <= session
    /\ \A c \in 1 .. opened : connSession[c] = session => c \in closed \union {upstream_client}
    /\ stage = "open" => upstream_client = 0
    /\ responded => upstream_client = 0
    /\ \A n \in Sessions : rejectTask[n] = "closing" =>
         /\ early_rejected # 0 /\ stage # "open"
         /\ upstream_client \in closed \union {0}

\* A session that begins, begins after them.
LEMMA BeginsAfterProbes ==
  TypeOK /\ AudioStart /\ [ProbesEndFirst]_vars => \A n \in Sessions : Through(n)
<1> SUFFICES ASSUME TypeOK, AudioStart, [ProbesEndFirst]_vars
             PROVE  \A n \in Sessions : Through(n)
  OBVIOUS
<1>1. session \in Nat /\ session' = session + 1
  BY HandlerAssumption DEF AudioStart, TypeOK, MainTypeOK, Marks
<1>2. session' # session
  BY <1>1
<1>3. ~ UNCHANGED vars
  BY <1>2 DEF vars, mainVars
<1>. QED
  BY <1>3 DEF ProbesEndFirst

\* The task is the session's own, and so is what it does.
LEMMA RejectIsOwnStep ==
  TypeOK /\ ConnsFit /\ ProbesInOrder /\ RejectIsOwn /\ [Next]_vars
    /\ [ProbesEndFirst]_vars
    => RejectIsOwn'
<1> SUFFICES ASSUME TypeOK, ConnsFit, ProbesInOrder, RejectIsOwn, [Next]_vars,
              [ProbesEndFirst]_vars PROVE RejectIsOwn'
  OBVIOUS
<1> USE DEF mainVars, finishVars, probeFlags, probedVars, taskVars, clientVars,
            interimVars, connVars, readerVars, outsideVars
<1>1. session \in Nat /\ Sessions \subseteq Nat /\ 0 \notin Sessions
  BY HandlerAssumption DEF TypeOK, MainTypeOK, Marks, Sessions
<1>2. stage \notin {"read", "closed"} => session \in Sessions
  BY HandlerAssumption DEF ConnsFit, InSession, TypeOK, MainTypeOK, Marks,
     Sessions
<1>3. CASE AudioStart
  BY <1>3, <1>1, BeginsAfterProbes DEF AudioStart, RejectIsOwn, TypeOK,
       ProbeTypeOK, ProbesInOrder, Through
<1>4. CASE AudioChunk \/ AudioStop
  BY <1>4, <1>1, <1>2 DEF AudioChunk, TakeChunk, AudioStop, TakeStop,
       CancelEarlyProbe, GoTo, RejectIsOwn, Through, TypeOK, ProbeTypeOK
<1>5. CASE Disconnect
  BY <1>5, <1>1, <1>2 DEF Disconnect, CloseUpstream, Resolved, RejectIsOwn,
       Through, TypeOK, ProbeTypeOK
<1>6. CASE OpenOk \/ OpenFails \/ Forwarded \/ SpeechHeard
  BY <1>6, <1>1, <1>2 DEF OpenOk, GoTo, OpenFails, Resolved, Forwarded,
       SpeechHeard, RejectIsOwn, Through, TypeOK, ProbeTypeOK
<1>7. CASE ProbeDue \/ ArmReject
  BY <1>7, <1>1, <1>2 DEF ProbeDue, GoTo, ArmReject, RejectIsOwn, Through,
       TypeOK, ProbeTypeOK
<1>8. CASE NoSpeech
  BY <1>8, <1>1, <1>2 DEF NoSpeech, CloseUpstream, GoTo, RejectIsOwn, Through,
       TypeOK, ProbeTypeOK
<1>9. CASE StopWritten
  BY <1>9, <1>1, <1>2 DEF StopWritten, Decided, Reply, GoTo, RejectIsOwn,
       Through, TypeOK, ProbeTypeOK
<1>10. CASE GateCloses \/ NotVerified
  BY <1>10, <1>1, <1>2 DEF GateCloses, Publish, Reply, GoTo, NotVerified,
       RejectIsOwn, Through, TypeOK, ProbeTypeOK
<1>11. CASE GatesPass \/ Verified
  BY <1>11, <1>1, <1>2 DEF GatesPass, GoTo, Verified, RejectIsOwn, Through,
       TypeOK, ProbeTypeOK
<1>12. CASE Transcribed
  BY <1>12, <1>1, <1>2 DEF Transcribed, Transcripts, Primary, GoTo,
       RejectIsOwn, Through, TypeOK, ProbeTypeOK
<1>13. CASE PublishedNow
  BY <1>13, <1>1, <1>2 DEF PublishedNow, Publish, Reply, RejectIsOwn, Through,
       TypeOK, ProbeTypeOK
<1>14. CASE Answered
  BY <1>14, <1>1, <1>2 DEF Answered, CloseUpstream, RejectIsOwn, Through,
       TypeOK, ProbeTypeOK
<1>15. CASE AutoEnrolled
  BY <1>15, <1>1, <1>2 DEF AutoEnrolled, GoTo, RejectIsOwn, Through, TypeOK,
       ProbeTypeOK
<1>16. ASSUME NEW n \in Sessions, EarlyMatch(n) PROVE RejectIsOwn'
  BY <1>16, <1>1, <1>2 DEF EarlyMatch, Publish, RejectIsOwn, Through, TypeOK,
       ProbeTypeOK
<1>17. ASSUME NEW n \in Sessions, RejectPublish(n) PROVE RejectIsOwn'
  BY <1>17, <1>1, <1>2 DEF RejectPublish, Publish, RejectIsOwn, Through,
       TypeOK, ProbeTypeOK
<1>18. ASSUME NEW n \in Sessions, NoEarlyMatch(n) \/ RejectVerify(n) \/
      RejectWhisper(n) PROVE RejectIsOwn'
  BY <1>18, <1>1, <1>2 DEF NoEarlyMatch, RejectVerify, RejectWhisper,
       RejectIsOwn, Through, TypeOK, ProbeTypeOK
<1>19. ASSUME NEW n \in Sessions, Reject(n) PROVE RejectIsOwn'
  BY <1>19, <1>1, <1>2 DEF Reject, RejectIsOwn, Through, TypeOK, ProbeTypeOK
<1>20. ASSUME NEW n \in Sessions, RejectClosed(n) PROVE RejectIsOwn'
  BY <1>20, <1>1, <1>2 DEF RejectClosed, RejectIsOwn, Through, TypeOK,
       ProbeTypeOK
<1>21. ASSUME NEW c \in Conns, UpstreamCloses(c) \/ Interim(c) \/ Final(c) \/
      ReadEnds(c) \/ ReadFails(c) PROVE RejectIsOwn'
  BY <1>21, ReadersFrame, <1>1, <1>2 DEF ReaderStep, RejectIsOwn, Through,
       TypeOK, ProbeTypeOK
<1>22. CASE UNCHANGED vars
  BY <1>22 DEF vars, RejectIsOwn, Through, TypeOK, ProbeTypeOK
<1>. QED
  BY <1>3, <1>4, <1>5, <1>6, <1>7, <1>8, <1>9, <1>10, <1>11, <1>12, <1>13,
     <1>14, <1>15, <1>16, <1>17, <1>18, <1>19, <1>20, <1>21, <1>22 DEF Next,
     Hangup, ChunkStep, FinishStep, VerifyCrashes, ProbeStep, ReaderStep

\* The probe that rejects goes on to announce.
LEMMA RejectIsAnnouncedStep ==
  ~Abandon /\ TypeOK /\ ConnsFit /\ OwnMatch /\ RejectIsOwn
    /\ RejectIsAnnounced /\ [Next]_vars
    => RejectIsAnnounced'
<1> SUFFICES ASSUME ~Abandon, TypeOK, ConnsFit, OwnMatch, RejectIsOwn,
              RejectIsAnnounced, [Next]_vars PROVE RejectIsAnnounced'
  OBVIOUS
<1> USE DEF mainVars, finishVars, probeFlags, probedVars, taskVars, clientVars,
            interimVars, connVars, readerVars, outsideVars
<1>1. session \in Nat /\ Sessions \subseteq Nat /\ 0 \notin Sessions
  BY HandlerAssumption DEF TypeOK, MainTypeOK, Marks, Sessions
<1>2. stage \notin {"read", "closed"} => session \in Sessions
  BY HandlerAssumption DEF ConnsFit, InSession, TypeOK, MainTypeOK, Marks,
     Sessions
<1>3. early_rejected \in Marks /\ (early_rejected # 0 => early_rejected \in Sessions)
  BY HandlerAssumption DEF TypeOK, ProbeTypeOK, Marks, Sessions
<1>4. CASE AudioStart
  BY <1>4, <1>1, <1>2, <1>3 DEF AudioStart, RejectIsAnnounced, Announced,
       TypeOK, ProbeTypeOK, OutsideTypeOK, OwnMatch, PlanIsSupported
<1>5. CASE AudioChunk \/ AudioStop
  BY <1>5, <1>1, <1>2, <1>3 DEF AudioChunk, TakeChunk, AudioStop, TakeStop,
       CancelEarlyProbe, GoTo, RejectIsAnnounced, Announced, TypeOK,
       ProbeTypeOK, OutsideTypeOK, OwnMatch, PlanIsSupported
<1>6. CASE Disconnect
  BY <1>6, <1>1, <1>2, <1>3 DEF Disconnect, CloseUpstream, Resolved,
       RejectIsAnnounced, Announced, TypeOK, ProbeTypeOK, OutsideTypeOK,
       OwnMatch, PlanIsSupported
<1>7. CASE OpenOk \/ OpenFails \/ Forwarded \/ SpeechHeard
  BY <1>7, <1>1, <1>2, <1>3 DEF OpenOk, GoTo, OpenFails, Resolved, Forwarded,
       SpeechHeard, RejectIsAnnounced, Announced, TypeOK, ProbeTypeOK,
       OutsideTypeOK, OwnMatch, PlanIsSupported
<1>8. CASE ProbeDue
  BY <1>8, <1>1, <1>2, <1>3 DEF ProbeDue, GoTo, RejectIsAnnounced, Announced,
       TypeOK, ProbeTypeOK
<1>9. CASE ArmReject
  BY <1>9, <1>1, <1>2, <1>3 DEF ArmReject, GoTo, RejectIsAnnounced, Announced,
       RejectIsOwn, TypeOK, ProbeTypeOK
<1>10. CASE NoSpeech
  BY <1>10, <1>1, <1>2, <1>3 DEF NoSpeech, CloseUpstream, GoTo,
       RejectIsAnnounced, Announced, TypeOK, ProbeTypeOK, OutsideTypeOK,
       OwnMatch, PlanIsSupported
<1>11. CASE StopWritten
  BY <1>11, <1>1, <1>2, <1>3 DEF StopWritten, Decided, Reply, GoTo,
       RejectIsOwn, RejectIsAnnounced, Announced, TypeOK, ProbeTypeOK,
       OutsideTypeOK, OwnMatch, PlanIsSupported
<1>12. CASE GateCloses
  <2>1. /\ plan' # "early-reject" /\ stage # "closed"
        /\ UNCHANGED <<early_rejected, rejectTask, recorded>>
        /\ \A n \in Sessions : published[n] \subseteq published'[n]
    BY <1>12, <1>2 DEF GateCloses, Publish, Reply, GoTo, RejectIsAnnounced,
         Announced, OwnMatch, PlanIsSupported, TypeOK, OutsideTypeOK
  <2>2. \A n \in Sessions : Announced(n) => Announced(n)'
    BY <2>1 DEF Announced
  <2>. QED
    BY <2>1, <2>2, <1>3 DEF RejectIsAnnounced
<1>13. CASE NotVerified
  <2>1. /\ plan' # "early-reject" /\ stage # "closed"
        /\ UNCHANGED <<early_rejected, rejectTask, recorded>>
        /\ \A n \in Sessions : published[n] \subseteq published'[n]
    BY <1>13, <1>2 DEF NotVerified, Publish, Reply, GoTo, RejectIsAnnounced,
         Announced, TypeOK, OutsideTypeOK
  <2>2. \A n \in Sessions : Announced(n) => Announced(n)'
    BY <2>1 DEF Announced
  <2>. QED
    BY <2>1, <2>2, <1>3 DEF RejectIsAnnounced
<1>14. CASE GatesPass \/ Verified
  BY <1>14, <1>1, <1>2, <1>3 DEF GatesPass, GoTo, Verified, RejectIsAnnounced,
       Announced, TypeOK, ProbeTypeOK, OutsideTypeOK, OwnMatch,
       PlanIsSupported
<1>15. CASE Transcribed
  BY <1>15, <1>1, <1>2, <1>3 DEF Transcribed, Transcripts, Primary, GoTo,
       RejectIsAnnounced, Announced, TypeOK, ProbeTypeOK, OutsideTypeOK,
       OwnMatch, PlanIsSupported
<1>16. CASE PublishedNow
  BY <1>16, <1>1, <1>2, <1>3 DEF PublishedNow, Publish, Reply,
       RejectIsAnnounced, Announced, TypeOK, ProbeTypeOK, OutsideTypeOK,
       OwnMatch, PlanIsSupported
<1>17. CASE Answered
  BY <1>17, <1>1, <1>2, <1>3 DEF Answered, CloseUpstream, RejectIsAnnounced,
       Announced, TypeOK, ProbeTypeOK, OutsideTypeOK, OwnMatch,
       PlanIsSupported
<1>18. CASE AutoEnrolled
  BY <1>18, <1>1, <1>2, <1>3 DEF AutoEnrolled, GoTo, RejectIsAnnounced,
       Announced, TypeOK, ProbeTypeOK, OutsideTypeOK, OwnMatch,
       PlanIsSupported
<1>19. ASSUME NEW n \in Sessions, EarlyMatch(n) PROVE RejectIsAnnounced'
  BY <1>19, <1>1, <1>2, <1>3 DEF EarlyMatch, Publish, RejectIsAnnounced,
       Announced, TypeOK, ProbeTypeOK, OutsideTypeOK, OwnMatch,
       PlanIsSupported
<1>20. ASSUME NEW n \in Sessions, RejectPublish(n) PROVE RejectIsAnnounced'
  BY <1>20, <1>1, <1>2, <1>3 DEF RejectPublish, Publish, RejectIsAnnounced,
       Announced, TypeOK, ProbeTypeOK, OutsideTypeOK, OwnMatch,
       PlanIsSupported
<1>21. ASSUME NEW n \in Sessions, NoEarlyMatch(n) \/ RejectVerify(n) \/
      RejectWhisper(n) PROVE RejectIsAnnounced'
  BY <1>21, <1>1, <1>2, <1>3 DEF NoEarlyMatch, RejectVerify, RejectWhisper,
       RejectIsAnnounced, Announced, TypeOK, ProbeTypeOK, OutsideTypeOK,
       OwnMatch, PlanIsSupported
<1>22. ASSUME NEW n \in Sessions, Reject(n) PROVE RejectIsAnnounced'
  BY <1>22, <1>1, <1>2, <1>3 DEF Reject, RejectIsAnnounced, Announced, TypeOK,
       ProbeTypeOK, OutsideTypeOK, OwnMatch, PlanIsSupported
<1>23. ASSUME NEW n \in Sessions, RejectClosed(n) PROVE RejectIsAnnounced'
  BY <1>23, <1>1, <1>2, <1>3 DEF RejectClosed, RejectIsAnnounced, Announced,
       TypeOK, ProbeTypeOK, OutsideTypeOK, OwnMatch, PlanIsSupported
<1>24. ASSUME NEW c \in Conns, UpstreamCloses(c) \/ Interim(c) \/ Final(c) \/
      ReadEnds(c) \/ ReadFails(c) PROVE RejectIsAnnounced'
  BY <1>24, ReadersFrame, <1>1, <1>2, <1>3 DEF ReaderStep, RejectIsAnnounced,
       Announced, TypeOK, ProbeTypeOK, OutsideTypeOK, OwnMatch,
       PlanIsSupported
<1>25. CASE UNCHANGED vars
  BY <1>25 DEF vars, RejectIsAnnounced, Announced, TypeOK, ProbeTypeOK,
       OutsideTypeOK, OwnMatch, PlanIsSupported
<1>. QED
  BY <1>4, <1>5, <1>6, <1>7, <1>8, <1>9, <1>10, <1>11, <1>12, <1>13, <1>14,
     <1>15, <1>16, <1>17, <1>18, <1>19, <1>20, <1>21, <1>22, <1>23, <1>24,
     <1>25 DEF Next, Hangup, ChunkStep, FinishStep, VerifyCrashes, ProbeStep,
     ReaderStep

\* Where another verdict falls, it is announced.
LEMMA VerdictIsAnnouncedStep ==
  ~Abandon /\ TypeOK /\ ConnsFit /\ OwnMatch /\ WordsMayPass
    /\ VerdictIsAnnounced /\ [Next]_vars
    => VerdictIsAnnounced'
<1> SUFFICES ASSUME ~Abandon, TypeOK, ConnsFit, OwnMatch, WordsMayPass,
              VerdictIsAnnounced, [Next]_vars PROVE VerdictIsAnnounced'
  OBVIOUS
<1> USE DEF mainVars, finishVars, probeFlags, probedVars, taskVars, clientVars,
            interimVars, connVars, readerVars, outsideVars
<1>1. session \in Nat /\ Sessions \subseteq Nat /\ 0 \notin Sessions
  BY HandlerAssumption DEF TypeOK, MainTypeOK, Marks, Sessions
<1>2. stage \notin {"read", "closed"} => session \in Sessions
  BY HandlerAssumption DEF ConnsFit, InSession, TypeOK, MainTypeOK, Marks,
     Sessions
<1>3. CASE AudioStart
  BY <1>3, <1>1, <1>2 DEF AudioStart, VerdictIsAnnounced, Unannounced, TypeOK,
       OutsideTypeOK, OwnMatch, PlanIsSupported
<1>4. CASE AudioChunk \/ AudioStop
  BY <1>4, <1>1, <1>2 DEF AudioChunk, TakeChunk, AudioStop, TakeStop,
       CancelEarlyProbe, GoTo, VerdictIsAnnounced, Unannounced, TypeOK,
       OutsideTypeOK, OwnMatch, PlanIsSupported
<1>5. CASE Hangup \/ VerifyCrashes
  BY <1>5, <1>1, <1>2 DEF Hangup, Disconnect, CloseUpstream, VerifyCrashes,
       VerdictIsAnnounced, Unannounced, TypeOK, OutsideTypeOK, OwnMatch,
       PlanIsSupported
<1>6. CASE OpenOk \/ OpenFails \/ Forwarded \/ SpeechHeard
  BY <1>6, <1>1, <1>2 DEF OpenOk, GoTo, OpenFails, Resolved, Forwarded,
       SpeechHeard, VerdictIsAnnounced, Unannounced, TypeOK, OutsideTypeOK,
       OwnMatch, PlanIsSupported
<1>7. CASE ProbeDue \/ ArmReject
  BY <1>7, <1>1, <1>2 DEF ProbeDue, GoTo, ArmReject, VerdictIsAnnounced,
       Unannounced, TypeOK, OutsideTypeOK, OwnMatch, PlanIsSupported
<1>8. CASE NoSpeech
  BY <1>8, <1>1, <1>2 DEF NoSpeech, CloseUpstream, GoTo, VerdictIsAnnounced,
       Unannounced, TypeOK, OutsideTypeOK, OwnMatch, PlanIsSupported
<1>9. CASE StopWritten
  BY <1>9, <1>1, <1>2 DEF StopWritten, Decided, Reply, GoTo,
       VerdictIsAnnounced, Unannounced, TypeOK, OutsideTypeOK, OwnMatch,
       PlanIsSupported
<1>10. CASE GateCloses
  <2>1. /\ published'[session] # {}
        /\ plan' # "match" /\ UNCHANGED <<session, recorded>>
        /\ \A n \in Sessions : published[n] \subseteq published'[n]
    BY <1>10, <1>2 DEF GateCloses, Publish, Reply, GoTo, TypeOK, OutsideTypeOK
  <2>. QED
    BY <2>1, <1>2 DEF VerdictIsAnnounced
<1>11. CASE NotVerified
  <2>1. /\ published'[session] # {}
        /\ plan' # "match" /\ UNCHANGED <<session, recorded>>
        /\ \A n \in Sessions : published[n] \subseteq published'[n]
    BY <1>11, <1>2 DEF NotVerified, Publish, Reply, GoTo, TypeOK, OutsideTypeOK
  <2>. QED
    BY <2>1, <1>2 DEF VerdictIsAnnounced
<1>12. CASE GatesPass
  BY <1>12, <1>1, <1>2 DEF GatesPass, GoTo, VerdictIsAnnounced, Unannounced,
       TypeOK, OutsideTypeOK, OwnMatch, PlanIsSupported, MatchIsHere
<1>13. CASE Verified
  BY <1>13, <1>1, <1>2 DEF Verified, GoTo, VerdictIsAnnounced, Unannounced,
       TypeOK, OutsideTypeOK, OwnMatch, PlanIsSupported
<1>14. CASE Transcribed
  BY <1>14, <1>1, <1>2 DEF Transcribed, Transcripts, Primary, GoTo,
       VerdictIsAnnounced, Unannounced, TypeOK, OutsideTypeOK, WordsMayPass
<1>15. CASE PublishedNow
  BY <1>15, <1>1, <1>2 DEF PublishedNow, Publish, Reply, VerdictIsAnnounced,
       Unannounced, TypeOK, OutsideTypeOK, OwnMatch, PlanIsSupported
<1>16. CASE Answered
  BY <1>16, <1>1, <1>2 DEF Answered, CloseUpstream, VerdictIsAnnounced,
       Unannounced, TypeOK, OutsideTypeOK, OwnMatch, PlanIsSupported,
       WordsMayPass, Gate!Passing, Gate!Naming, Gate!Silencing, Gate!Verdicts
<1>17. CASE AutoEnrolled
  BY <1>17, <1>1, <1>2 DEF AutoEnrolled, GoTo, VerdictIsAnnounced,
       Unannounced, TypeOK, OutsideTypeOK, OwnMatch, PlanIsSupported
<1>18. ASSUME NEW n \in Sessions, EarlyMatch(n) PROVE VerdictIsAnnounced'
  BY <1>18, <1>1, <1>2 DEF EarlyMatch, Publish, VerdictIsAnnounced,
       Unannounced, TypeOK, OutsideTypeOK, OwnMatch, PlanIsSupported
<1>19. ASSUME NEW n \in Sessions, RejectPublish(n) PROVE VerdictIsAnnounced'
  BY <1>19, <1>1, <1>2 DEF RejectPublish, Publish, VerdictIsAnnounced,
       Unannounced, TypeOK, OutsideTypeOK, OwnMatch, PlanIsSupported
<1>20. ASSUME NEW n \in Sessions, NoEarlyMatch(n) \/ RejectVerify(n) \/
      RejectWhisper(n) PROVE VerdictIsAnnounced'
  BY <1>20, <1>1, <1>2 DEF NoEarlyMatch, RejectVerify, RejectWhisper,
       VerdictIsAnnounced, Unannounced, TypeOK, OutsideTypeOK, OwnMatch,
       PlanIsSupported
<1>21. ASSUME NEW n \in Sessions, Reject(n) PROVE VerdictIsAnnounced'
  BY <1>21, <1>1, <1>2 DEF Reject, VerdictIsAnnounced, Unannounced, TypeOK,
       OutsideTypeOK, OwnMatch, PlanIsSupported
<1>22. ASSUME NEW n \in Sessions, RejectClosed(n) PROVE VerdictIsAnnounced'
  BY <1>22, <1>1, <1>2 DEF RejectClosed, VerdictIsAnnounced, Unannounced,
       TypeOK, OutsideTypeOK, OwnMatch, PlanIsSupported
<1>23. ASSUME NEW c \in Conns, UpstreamCloses(c) \/ Interim(c) \/ Final(c) \/
      ReadEnds(c) \/ ReadFails(c) PROVE VerdictIsAnnounced'
  BY <1>23, ReadersFrame, <1>1, <1>2 DEF ReaderStep, VerdictIsAnnounced,
       Unannounced, TypeOK, OutsideTypeOK, OwnMatch, PlanIsSupported
<1>24. CASE UNCHANGED vars
  BY <1>24 DEF vars, VerdictIsAnnounced, Unannounced, TypeOK, OutsideTypeOK,
       OwnMatch, PlanIsSupported
<1>. QED
  BY <1>3, <1>4, <1>5, <1>6, <1>7, <1>8, <1>9, <1>10, <1>11, <1>12, <1>13,
     <1>14, <1>15, <1>16, <1>17, <1>18, <1>19, <1>20, <1>21, <1>22, <1>23,
     <1>24 DEF Next, Hangup, ChunkStep, FinishStep, VerifyCrashes, ProbeStep,
     ReaderStep

\* A connection is only let go of when it is closed.
LEMMA OneIsOpenStep ==
  ~Abandon /\ TypeOK /\ ConnsFit /\ OwnMatch /\ RejectIsOwn /\ OneIsOpen
    /\ [Next]_vars /\ [ProbesEndFirst]_vars
    => OneIsOpen'
<1> SUFFICES ASSUME ~Abandon, TypeOK, ConnsFit, OwnMatch, RejectIsOwn,
              OneIsOpen, [Next]_vars, [ProbesEndFirst]_vars PROVE OneIsOpen'
  OBVIOUS
<1> USE DEF mainVars, finishVars, probeFlags, probedVars, taskVars, clientVars,
            interimVars, connVars, readerVars, outsideVars
<1>1. session \in Nat /\ Sessions \subseteq Nat /\ 0 \notin Sessions
  BY HandlerAssumption DEF TypeOK, MainTypeOK, Marks, Sessions
<1>2. stage \notin {"read", "closed"} => session \in Sessions
  BY HandlerAssumption DEF ConnsFit, InSession, TypeOK, MainTypeOK, Marks,
     Sessions
<1>3. /\ opened \in Nat /\ closed \subseteq Nat /\ MaxConns \in Nat
      /\ Conns = 1 .. MaxConns /\ opened <= MaxConns
  BY Capacity DEF TypeOK, UpstreamTypeOK, Conns
<1>4. CASE AudioStart
  <2>1. /\ session' = session + 1 /\ responded' = FALSE /\ stage = "read"
        /\ UNCHANGED <<stage, opened, connSession, rejectTask>>
    BY <1>4 DEF AudioStart
  <2>2. \A n \in Sessions : rejectTask[n] # "closing"
    BY <1>4, BeginsAfterProbes DEF Through
  <2>3. \A c \in 1 .. opened : connSession[c] \in Nat /\ connSession[c] <= session
    BY <1>3, <2>1, HandlerAssumption DEF OneIsOpen, TypeOK, UpstreamTypeOK, Marks
  <2>4. \A c \in 1 .. opened : connSession[c] <= session + 1 /\ connSession[c] # session + 1
    BY <1>1, <2>3
  <2>. QED
    BY <2>1, <2>2, <2>4 DEF OneIsOpen
<1>5. CASE AudioChunk
  BY <1>5, <1>1, <1>2, <1>3 DEF AudioChunk, TakeChunk, OneIsOpen, TypeOK,
       UpstreamTypeOK, ProbeTypeOK, OwnMatch, ProbeIsOwn
<1>6. CASE AudioStop
  BY <1>6, <1>1, <1>2, <1>3 DEF AudioStop, TakeStop, CancelEarlyProbe, GoTo,
       OneIsOpen, TypeOK, UpstreamTypeOK, ProbeTypeOK
<1>7. CASE Disconnect
  BY <1>7, <1>1, <1>2, <1>3 DEF Disconnect, CloseUpstream, Resolved,
       OneIsOpen, TypeOK, UpstreamTypeOK, ProbeTypeOK
<1>8. CASE OpenOk
  <2> DEFINE k == opened + 1
  <2>1. k \in Conns /\ 0 \notin Conns /\ 1 .. k = (1 .. opened) \union {k}
    <3>1. stage = "open"
      BY <1>8 DEF OpenOk
    <3>2. opened + 1 \in Conns
      BY <3>1, OpenRoom
    <3>. QED
      BY <1>3, <3>2
  <2>2. /\ opened' = k /\ upstream_client' = k /\ stage' = "forward" /\ ~responded
        /\ \A c \in 1 .. opened : connSession'[c] = connSession[c]
        /\ connSession'[k] = session
        /\ UNCHANGED <<session, responded, closed, early_rejected, rejectTask>>
    BY <1>8, <1>1, <1>3, <2>1 DEF OpenOk, GoTo, TypeOK, UpstreamTypeOK,
         OwnMatch, ProbeIsOwn, Hearing
  <2>3. /\ stage # "closed" /\ upstream_client = 0
        /\ \A n \in Sessions : rejectTask[n] # "closing"
    BY <1>8 DEF OpenOk, OneIsOpen
  <2> HIDE DEF k
  <2>4. \A c \in 1 .. k : connSession'[c] <= session
    BY <1>1, <2>1, <2>2, <2>3 DEF OneIsOpen
  <2>5. \A c \in 1 .. k : connSession'[c] = session => c \in closed \union {k}
    <3>1. \A c \in 1 .. opened : connSession[c] = session => c \in closed
      BY <1>3, <2>3 DEF OneIsOpen
    <3>. QED
      BY <2>1, <2>2, <3>1
  <2>. QED
    BY <2>2, <2>3, <2>4, <2>5 DEF OneIsOpen
<1>9. CASE OpenFails \/ Forwarded \/ SpeechHeard
  BY <1>9, <1>1, <1>2, <1>3 DEF OpenFails, GoTo, Resolved, Forwarded,
       SpeechHeard, OneIsOpen, TypeOK, UpstreamTypeOK, ProbeTypeOK
<1>10. CASE ArmReject
  BY <1>10, <1>1, <1>2, <1>3 DEF ArmReject, GoTo, OneIsOpen, TypeOK,
       UpstreamTypeOK, ProbeTypeOK, RejectIsOwn
<1>11. CASE ProbeDue
  BY <1>11, <1>1, <1>2, <1>3 DEF ProbeDue, GoTo, OneIsOpen, TypeOK,
       UpstreamTypeOK, ProbeTypeOK
<1>12. CASE NoSpeech
  BY <1>12, <1>1, <1>2, <1>3 DEF NoSpeech, CloseUpstream, GoTo, OneIsOpen,
       TypeOK, UpstreamTypeOK, ProbeTypeOK
<1>13. CASE StopWritten
  BY <1>13, <1>1, <1>2, <1>3 DEF StopWritten, Decided, Reply, GoTo, OneIsOpen,
       TypeOK, UpstreamTypeOK, ProbeTypeOK
<1>14. CASE GateCloses \/ NotVerified
  BY <1>14, <1>1, <1>2, <1>3 DEF GateCloses, Publish, Reply, GoTo,
       NotVerified, OneIsOpen, TypeOK, UpstreamTypeOK, ProbeTypeOK
<1>15. CASE GatesPass \/ Verified
  BY <1>15, <1>1, <1>2, <1>3 DEF GatesPass, GoTo, Verified, OneIsOpen, TypeOK,
       UpstreamTypeOK, ProbeTypeOK
<1>16. CASE Transcribed
  BY <1>16, <1>1, <1>2, <1>3 DEF Transcribed, Transcripts, Primary, GoTo,
       OneIsOpen, TypeOK, UpstreamTypeOK, ProbeTypeOK
<1>17. CASE PublishedNow
  BY <1>17, <1>1, <1>2, <1>3 DEF PublishedNow, Publish, Reply, OneIsOpen,
       TypeOK, UpstreamTypeOK, ProbeTypeOK
<1>18. CASE Answered
  BY <1>18, <1>1, <1>2, <1>3 DEF Answered, CloseUpstream, OneIsOpen, TypeOK,
       UpstreamTypeOK, ProbeTypeOK
<1>19. CASE AutoEnrolled
  BY <1>19, <1>1, <1>2, <1>3 DEF AutoEnrolled, GoTo, OneIsOpen, TypeOK,
       UpstreamTypeOK, ProbeTypeOK
<1>20. ASSUME NEW n \in Sessions, EarlyMatch(n) PROVE OneIsOpen'
  BY <1>20, <1>1, <1>2, <1>3 DEF EarlyMatch, Publish, OneIsOpen, TypeOK,
       UpstreamTypeOK, ProbeTypeOK
<1>21. ASSUME NEW n \in Sessions, RejectPublish(n) PROVE OneIsOpen'
  BY <1>21, <1>1, <1>2, <1>3 DEF RejectPublish, Publish, OneIsOpen, TypeOK,
       UpstreamTypeOK, ProbeTypeOK
<1>22. ASSUME NEW n \in Sessions, NoEarlyMatch(n) \/ RejectVerify(n) \/
      RejectWhisper(n) PROVE OneIsOpen'
  BY <1>22, <1>1, <1>2, <1>3 DEF NoEarlyMatch, RejectVerify, RejectWhisper,
       OneIsOpen, TypeOK, UpstreamTypeOK, ProbeTypeOK
<1>23. ASSUME NEW n \in Sessions, Reject(n) PROVE OneIsOpen'
  BY <1>23, <1>1, <1>2, <1>3 DEF Reject, OneIsOpen, TypeOK, UpstreamTypeOK,
       ProbeTypeOK
<1>24. ASSUME NEW n \in Sessions, RejectClosed(n) PROVE OneIsOpen'
  BY <1>24, <1>1, <1>2, <1>3 DEF RejectClosed, OneIsOpen, TypeOK,
       UpstreamTypeOK, ProbeTypeOK
<1>25. ASSUME NEW c \in Conns, UpstreamCloses(c) \/ Interim(c) \/ Final(c) \/
      ReadEnds(c) \/ ReadFails(c) PROVE OneIsOpen'
  <2>1. /\ UNCHANGED <<upstream_client, opened, connSession>>
        /\ UNCHANGED <<stage, session, responded, early_rejected, rejectTask>>
        /\ closed \subseteq closed'
    BY <1>25, ReadersFrame DEF ReaderStep, UpstreamCloses, Interim, Final,
         ReadEnds, ReadFails
  <2>. QED
    BY <2>1 DEF OneIsOpen
<1>26. CASE UNCHANGED vars
  BY <1>26 DEF vars, OneIsOpen, TypeOK, UpstreamTypeOK, ProbeTypeOK
<1>. QED
  BY <1>4, <1>5, <1>6, <1>7, <1>8, <1>9, <1>10, <1>11, <1>12, <1>13, <1>14,
     <1>15, <1>16, <1>17, <1>18, <1>19, <1>20, <1>21, <1>22, <1>23, <1>24,
     <1>25, <1>26 DEF Next, Hangup, ChunkStep, FinishStep, VerifyCrashes,
     ProbeStep, ReaderStep

\* Under ProbesEndFirst, these are invariants with the others.
ProbesStayHome ==
  WordsMayPass /\ RejectIsOwn /\ RejectIsAnnounced /\ VerdictIsAnnounced /\ OneIsOpen

LEMMA ProbesStayHomeInvariant ==
  ~Abandon => (Spec /\ [][ProbesEndFirst]_vars => [](TypeOK /\ ProbesStayHome))
<1> SUFFICES ASSUME ~Abandon
             PROVE  Spec /\ [][ProbesEndFirst]_vars => [](TypeOK /\ ProbesStayHome)
  OBVIOUS
<1> DEFINE IInv == TypeOK /\ ConnsFit /\ OwnMatch /\ ProbesInOrder /\ ProbesStayHome
<1>1. Init => IInv
  <2> SUFFICES ASSUME Init PROVE IInv
    OBVIOUS
  <2>1. TypeOK /\ ConnsFit
    BY TypeInit
  <2>2. OwnMatch /\ ProbesInOrder
    BY HandlerAssumption DEF Init, OwnMatch, ProbeIsOwn, MatchIsHere, PlanIsSupported,
         MatchIsOwnVoice, Hearing, ProbesInOrder, Sessions
  <2>3. WordsMayPass /\ RejectIsOwn /\ RejectIsAnnounced /\ VerdictIsAnnounced
    BY DEF Init, WordsMayPass, RejectIsOwn, Through, RejectIsAnnounced,
         VerdictIsAnnounced,
         Unannounced
  <2>4. OneIsOpen
    BY DEF Init, OneIsOpen
  <2>. QED
    BY <2>1, <2>2, <2>3, <2>4 DEF ProbesStayHome
<1>2. IInv /\ [Next]_vars /\ [ProbesEndFirst]_vars => IInv'
  <2> SUFFICES ASSUME IInv, [Next]_vars, [ProbesEndFirst]_vars PROVE IInv'
    OBVIOUS
  <2>1. TypeOK' /\ ConnsFit' /\ OwnMatch'
    BY TypeStep, ProbeIsOwnStep, MatchIsHereStep, PlanIsSupportedStep,
         MatchIsOwnVoiceStep DEF OwnMatch
  <2>2. ProbesInOrder'
    BY ProbesInOrderStep
  <2>3. ProbesStayHome'
    BY WordsMayPassStep, RejectIsOwnStep, RejectIsAnnouncedStep,
         VerdictIsAnnouncedStep, OneIsOpenStep DEF ProbesStayHome
  <2>. QED
    BY <2>1, <2>2, <2>3
<1>3. IInv => TypeOK /\ ProbesStayHome
  OBVIOUS
<1>. QED
  BY <1>1, <1>2, <1>3, PTL DEF Spec

\* A session that was verified, gated or thrown out has its verdict published,
\* once its reject probe is through.  (A reject probe that outlives its session
\* can throw out the next one, and announces the first.)
THEOREM VerdictsArePublished ==
  ~Abandon => (Spec /\ [][ProbesEndFirst]_vars => []EveryVerdictIsPublished)
<1>1. ProbesStayHome => EveryVerdictIsPublished
  <2> SUFFICES ASSUME ProbesStayHome, stage # "closed", NEW n \in Sessions,
                      recorded[n] \ {"empty", "no-speech", "cancelled"} # {},
                      Through(n)
               PROVE  published[n] # {}
    BY DEF EveryVerdictIsPublished, Through
  <2>1. CASE "early-reject" \in recorded[n]
    BY <2>1 DEF ProbesStayHome, RejectIsAnnounced, Announced, Through
  <2>2. CASE "early-reject" \notin recorded[n]
    <3>1. "none" \notin recorded[n]
      BY DEF ProbesStayHome, VerdictIsAnnounced
    <3>2. recorded[n] \ Unannounced # {}
      BY <2>2, <3>1 DEF Unannounced
    <3>. QED
      BY <3>2 DEF ProbesStayHome, VerdictIsAnnounced
  <2>. QED
    BY <2>1, <2>2
<1>. QED
  BY <1>1, ProbesStayHomeInvariant, PTL

\* After the answer no connection of the session is left open, whatever the
\* silence abort or the reject probe closed meanwhile.
THEOREM NothingLeftOpen ==
  ~Abandon => (Spec /\ [][ProbesEndFirst]_vars => []UpstreamIsClosed)
<1>1. TypeOK /\ ProbesStayHome => UpstreamIsClosed
  <2> SUFFICES ASSUME TypeOK, ProbesStayHome, responded, stage = "read", NEW c \in 1 .. opened,
                      connSession[c] = session
               PROVE  c \in closed
    BY DEF UpstreamIsClosed
  <2>1. upstream_client = 0 /\ c \in closed \union {upstream_client}
    BY DEF ProbesStayHome, OneIsOpen
  <2>2. c # 0
    OBVIOUS
  <2>. QED
    BY <2>1, <2>2
<1>. QED
  BY <1>1, ProbesStayHomeInvariant, PTL

ArmedWhereEnabled ==
  \A n \in Sessions : rejectTask[n] # "none" => EarlyReject

\* Only ArmReject arms.
LEMMA ArmedStep ==
  TypeOK /\ ConnsFit /\ ArmedWhereEnabled /\ [Next]_vars => ArmedWhereEnabled'
<1> SUFFICES ASSUME TypeOK, ConnsFit, ArmedWhereEnabled, [Next]_vars PROVE
              ArmedWhereEnabled'
  OBVIOUS
<1> USE DEF mainVars, finishVars, probeFlags, probedVars, taskVars, clientVars,
            interimVars, connVars, readerVars, outsideVars
<1>1. stage \notin {"read", "closed"} => session \in Sessions
  BY HandlerAssumption DEF ConnsFit, InSession, TypeOK, MainTypeOK, Marks,
     Sessions
<1>2. CASE AudioStart
  BY <1>2 DEF AudioStart, ArmedWhereEnabled, TypeOK, ProbeTypeOK
<1>3. CASE AudioChunk \/ AudioStop
  BY <1>3 DEF AudioChunk, TakeChunk, AudioStop, TakeStop, CancelEarlyProbe,
       GoTo, ArmedWhereEnabled, TypeOK, ProbeTypeOK
<1>4. CASE Disconnect
  BY <1>4 DEF Disconnect, CloseUpstream, Resolved, ArmedWhereEnabled, TypeOK,
       ProbeTypeOK
<1>5. CASE OpenOk \/ OpenFails \/ Forwarded \/ SpeechHeard
  BY <1>5 DEF OpenOk, GoTo, OpenFails, Resolved, Forwarded, SpeechHeard,
       ArmedWhereEnabled, TypeOK, ProbeTypeOK
<1>6. CASE ProbeDue \/ ArmReject
  BY <1>6 DEF ProbeDue, GoTo, ArmReject, ArmedWhereEnabled, TypeOK,
       ProbeTypeOK
<1>7. CASE NoSpeech
  BY <1>7 DEF NoSpeech, CloseUpstream, GoTo, ArmedWhereEnabled, TypeOK,
       ProbeTypeOK
<1>8. CASE StopWritten
  BY <1>8 DEF StopWritten, Decided, Reply, GoTo, ArmedWhereEnabled, TypeOK,
       ProbeTypeOK
<1>9. CASE GateCloses \/ NotVerified
  BY <1>9 DEF GateCloses, Publish, Reply, GoTo, NotVerified,
       ArmedWhereEnabled, TypeOK, ProbeTypeOK
<1>10. CASE GatesPass \/ Verified
  BY <1>10 DEF GatesPass, GoTo, Verified, ArmedWhereEnabled, TypeOK,
       ProbeTypeOK
<1>11. CASE Transcribed
  BY <1>11 DEF Transcribed, Transcripts, Primary, GoTo, ArmedWhereEnabled,
       TypeOK, ProbeTypeOK
<1>12. CASE PublishedNow
  BY <1>12 DEF PublishedNow, Publish, Reply, ArmedWhereEnabled, TypeOK,
       ProbeTypeOK
<1>13. CASE Answered
  BY <1>13 DEF Answered, CloseUpstream, ArmedWhereEnabled, TypeOK, ProbeTypeOK
<1>14. CASE AutoEnrolled
  BY <1>14 DEF AutoEnrolled, GoTo, ArmedWhereEnabled, TypeOK, ProbeTypeOK
<1>15. ASSUME NEW n \in Sessions, EarlyMatch(n) PROVE ArmedWhereEnabled'
  BY <1>15 DEF EarlyMatch, Publish, ArmedWhereEnabled, TypeOK, ProbeTypeOK
<1>16. ASSUME NEW n \in Sessions, RejectPublish(n) PROVE ArmedWhereEnabled'
  BY <1>16 DEF RejectPublish, Publish, ArmedWhereEnabled, TypeOK, ProbeTypeOK
<1>17. ASSUME NEW n \in Sessions, NoEarlyMatch(n) \/ RejectVerify(n) \/
      RejectWhisper(n) PROVE ArmedWhereEnabled'
  BY <1>17 DEF NoEarlyMatch, RejectVerify, RejectWhisper, ArmedWhereEnabled,
       TypeOK, ProbeTypeOK
<1>18. ASSUME NEW n \in Sessions, Reject(n) PROVE ArmedWhereEnabled'
  BY <1>18 DEF Reject, ArmedWhereEnabled, TypeOK, ProbeTypeOK
<1>19. ASSUME NEW n \in Sessions, RejectClosed(n) PROVE ArmedWhereEnabled'
  BY <1>19 DEF RejectClosed, ArmedWhereEnabled, TypeOK, ProbeTypeOK
<1>20. ASSUME NEW c \in Conns, UpstreamCloses(c) \/ Interim(c) \/ Final(c) \/
      ReadEnds(c) \/ ReadFails(c) PROVE ArmedWhereEnabled'
  BY <1>20, ReadersFrame DEF ReaderStep, ArmedWhereEnabled, TypeOK,
       ProbeTypeOK
<1>21. CASE UNCHANGED vars
  BY <1>21 DEF vars, ArmedWhereEnabled, TypeOK, ProbeTypeOK
<1>. QED
  BY <1>2, <1>3, <1>4, <1>5, <1>6, <1>7, <1>8, <1>9, <1>10, <1>11, <1>12,
     <1>13, <1>14, <1>15, <1>16, <1>17, <1>18, <1>19, <1>20, <1>21 DEF Next,
     Hangup, ChunkStep, FinishStep, VerifyCrashes, ProbeStep, ReaderStep

\* No reject probe outlives its session where there is one session to a
\* connection, or no early reject.
LEMMA WhereProbesEndFirst ==
  MaxSessions = 1 \/ ~EarlyReject => (Spec => [][ProbesEndFirst]_vars)
<1> SUFFICES ASSUME MaxSessions = 1 \/ ~EarlyReject
             PROVE  Spec => [][ProbesEndFirst]_vars
  OBVIOUS
<1> DEFINE IInv == TypeOK /\ ConnsFit /\ ProbesInOrder /\ ArmedWhereEnabled
<1>1. Init => IInv
  BY TypeInit, HandlerAssumption DEF Init, ProbesInOrder, Sessions, ArmedWhereEnabled
<1>2. IInv /\ [Next]_vars => IInv'
  BY TypeStep, ProbesInOrderStep, ArmedStep
<1>3. IInv /\ [Next]_vars => [ProbesEndFirst]_vars
  <2> SUFFICES ASSUME IInv, AudioStart, NEW n \in Sessions PROVE Through(n)
    BY DEF ProbesEndFirst
  <2>1. CASE ~EarlyReject
    BY <2>1 DEF ArmedWhereEnabled, Through
  <2>2. CASE MaxSessions = 1
    <3>1. session = 0 /\ n = 1
      BY <2>2 DEF AudioStart, Sessions, TypeOK, MainTypeOK, Marks
    <3>. QED
      BY <3>1 DEF ProbesInOrder, Through
  <2>. QED
    BY <2>1, <2>2
<1>. QED
  BY <1>1, <1>2, <1>3, PTL DEF Spec

-----------------------------------------------------------------------------
(* What was heard.  A reader outlives its session as well, and reads on     *)
(* from whatever connection the handler has by then: what follows is about  *)
(* connections on which no session begins while one still reads.            *)

ReadersEndFirst == AudioStart => \A c \in Conns : ~Reading(c)

\* What is read is of the session at hand or of an earlier one.
NoneYet == \A c \in Conns : connSession[c] # session

WordsAreHere ==
  /\ \A c \in Conns : connSession[c] <= session
  /\ \A c \in Conns : Reading(c) => connSession[c] = session
  /\ upstream_interim <= session
  /\ session # 0 /\ NoneYet => upstream_interim # session

\* Only after the silence abort, which ends in no transcript, does a session
\* open a second connection.
OneConnection ==
  /\ stage \in {"gates", "verify", "transcribe", "publish"} => no_speech = 0
  /\ \A n \in Sessions : rejectTask[n] = "closing" => early_rejected # 0
  /\ session # 0 /\ no_speech = 0 =>
       /\ \A c, d \in Conns : connSession[c] = session /\ connSession[d] = session => c = d
       /\ stage = "open" => NoneYet /\ ~upstream_failed
       /\ ~NoneYet /\ early_rejected = 0 /\ ~responded /\ stage # "closed"
            => upstream_client # 0

\* The session's future is resolved with nothing where nothing was heard, or
\* by a reader that crashed.
CrashedHere == \E c \in Conns : connSession[c] = session /\ readers[c] = "crashed"

HeardIsKept ==
  /\ \A n \in Sessions : n > session => future[n] = Pending
  /\ session # 0 /\ no_speech = 0 /\ stage # "closed" =>
       /\ NoneYet /\ ~upstream_failed => future[session] = Pending
       /\ \A c \in Conns : Reading(c) => future[session] = Pending
       /\ future[session] = 0 /\ upstream_interim = session => CrashedHere

\* What a reader's step does to the words and to the future.
LEMMA ReaderEffect ==
  ASSUME TypeOK, NEW c \in Conns, ReaderStep(c)
  PROVE  /\ Reading(c)
         /\ UNCHANGED <<no_speech, upstream_client, upstream_failed, opened, connSession>>
         /\ upstream_interim' \in {upstream_interim, Text(c)}
         /\ \/ UNCHANGED <<readers, future>>
            \/ /\ readers' = [readers EXCEPT ![c] = "done"]
               /\ future' = Resolved(connSession[c], upstream_interim')
            \/ /\ readers' = [readers EXCEPT ![c] = "crashed"]
               /\ future' = Resolved(connSession[c], 0)
<1> USE DEF mainVars, finishVars, probeFlags, probedVars, taskVars, clientVars,
            interimVars, connVars, readerVars, outsideVars
<1>1. CASE Interim(c)
  BY <1>1 DEF Interim, Speaks, ReadOn, Crash
<1>2. CASE Final(c)
  BY <1>2 DEF Final, Speaks, ReadOn, Crash, Settle
<1>3. CASE ReadEnds(c)
  BY <1>3 DEF ReadEnds, Settle
<1>4. CASE ReadFails(c)
  BY <1>4 DEF ReadFails, Speaks, Crash
<1>. QED
  BY <1>1, <1>2, <1>3, <1>4 DEF ReaderStep

\* A session that begins, begins after the readers.
LEMMA BeginsAfterReaders ==
  TypeOK /\ AudioStart /\ [ReadersEndFirst]_vars => \A c \in Conns : ~Reading(c)
<1> SUFFICES ASSUME TypeOK, AudioStart, [ReadersEndFirst]_vars
             PROVE  \A c \in Conns : ~Reading(c)
  OBVIOUS
<1>1. session \in Nat /\ session' = session + 1
  BY HandlerAssumption DEF AudioStart, TypeOK, MainTypeOK, Marks
<1>2. session' # session
  BY <1>1
<1>3. ~ UNCHANGED vars
  BY <1>2 DEF vars, mainVars
<1>. QED
  BY <1>3 DEF ReadersEndFirst

\* Words come from where a reader reads.
LEMMA WordsAreHereStep ==
  TypeOK /\ ConnsFit /\ WordsAreHere /\ [Next]_vars /\ [ReadersEndFirst]_vars
    => WordsAreHere'
<1> SUFFICES ASSUME TypeOK, ConnsFit, WordsAreHere, [Next]_vars,
              [ReadersEndFirst]_vars PROVE WordsAreHere'
  OBVIOUS
<1> USE DEF mainVars, finishVars, probeFlags, probedVars, taskVars, clientVars,
            interimVars, connVars, readerVars, outsideVars
<1>1. session \in Nat /\ Sessions \subseteq Nat /\ 0 \notin Sessions
  BY HandlerAssumption DEF TypeOK, MainTypeOK, Marks, Sessions
<1>2. stage \notin {"read", "closed"} => session \in Sessions
  BY HandlerAssumption DEF ConnsFit, InSession, TypeOK, MainTypeOK, Marks,
     Sessions
<1>3. /\ 0 \notin Conns
      /\ \A c \in Conns : connSession[c] \in Nat
      /\ \A c \in Conns : Reading(c) => readsFrom[c] \in Conns
      /\ upstream_interim \in Nat
  BY Capacity, HandlerAssumption DEF TypeOK, UpstreamTypeOK, Conns, Marks,
     ConnsFit, ReadsFromSome, Reading
<1>4. CASE AudioStart
  BY <1>4, <1>1, <1>3, BeginsAfterReaders DEF AudioStart, WordsAreHere,
       NoneYet, Reading
<1>5. CASE AudioChunk \/ AudioStop
  BY <1>5, <1>1, <1>2, <1>3 DEF AudioChunk, TakeChunk, AudioStop, TakeStop,
       CancelEarlyProbe, GoTo, WordsAreHere, NoneYet, Reading
<1>6. CASE Disconnect
  BY <1>6, <1>1, <1>2, <1>3 DEF Disconnect, CloseUpstream, Resolved,
       WordsAreHere, NoneYet, Reading, TypeOK, UpstreamTypeOK
<1>7. CASE OpenOk
  <2>1. opened + 1 \in Conns
    <3>1. stage = "open"
      BY <1>7 DEF OpenOk
    <3>. QED
      BY <3>1, OpenRoom
  <2>2. /\ session # 0
        /\ \A c \in Conns : connSession'[c] = IF c = opened + 1 THEN session ELSE connSession[c]
        /\ \A c \in Conns : readers'[c] = IF c = opened + 1 THEN "reading" ELSE readers[c]
        /\ UNCHANGED <<session, upstream_interim>>
    BY <1>7, <2>1 DEF OpenOk, GoTo, TypeOK, UpstreamTypeOK, ConnsFit, InSession
  <2> DEFINE k == opened + 1
  <2> HIDE DEF k
  <2>. QED
    BY <1>1, <2>1, <2>2 DEF WordsAreHere, NoneYet, Reading, k
<1>8. CASE OpenFails \/ Forwarded \/ SpeechHeard
  BY <1>8, <1>1, <1>2, <1>3 DEF OpenFails, GoTo, Resolved, Forwarded,
       SpeechHeard, WordsAreHere, NoneYet, Reading
<1>9. CASE ProbeDue \/ ArmReject
  BY <1>9, <1>1, <1>2, <1>3 DEF ProbeDue, GoTo, ArmReject, WordsAreHere,
       NoneYet, Reading
<1>10. CASE NoSpeech
  BY <1>10, <1>1, <1>2, <1>3 DEF NoSpeech, CloseUpstream, GoTo, WordsAreHere,
       NoneYet, Reading
<1>11. CASE StopWritten
  BY <1>11, <1>1, <1>2, <1>3 DEF StopWritten, Decided, Reply, GoTo,
       WordsAreHere, NoneYet, Reading
<1>12. CASE GateCloses \/ NotVerified
  BY <1>12, <1>1, <1>2, <1>3 DEF GateCloses, Publish, Reply, GoTo,
       NotVerified, WordsAreHere, NoneYet, Reading
<1>13. CASE GatesPass \/ Verified
  BY <1>13, <1>1, <1>2, <1>3 DEF GatesPass, GoTo, Verified, WordsAreHere,
       NoneYet, Reading
<1>14. CASE Transcribed
  BY <1>14, <1>1, <1>2, <1>3 DEF Transcribed, Transcripts, Primary, GoTo,
       WordsAreHere, NoneYet, Reading
<1>15. CASE PublishedNow
  BY <1>15, <1>1, <1>2, <1>3 DEF PublishedNow, Publish, Reply, WordsAreHere,
       NoneYet, Reading
<1>16. CASE Answered
  BY <1>16, <1>1, <1>2, <1>3 DEF Answered, CloseUpstream, WordsAreHere,
       NoneYet, Reading
<1>17. CASE AutoEnrolled
  BY <1>17, <1>1, <1>2, <1>3 DEF AutoEnrolled, GoTo, WordsAreHere, NoneYet,
       Reading
<1>18. ASSUME NEW n \in Sessions, EarlyMatch(n) PROVE WordsAreHere'
  BY <1>18, <1>1, <1>2, <1>3 DEF EarlyMatch, Publish, WordsAreHere, NoneYet,
       Reading
<1>19. ASSUME NEW n \in Sessions, RejectPublish(n) PROVE WordsAreHere'
  BY <1>19, <1>1, <1>2, <1>3 DEF RejectPublish, Publish, WordsAreHere,
       NoneYet, Reading
<1>20. ASSUME NEW n \in Sessions, NoEarlyMatch(n) \/ RejectVerify(n) \/
      RejectWhisper(n) PROVE WordsAreHere'
  BY <1>20, <1>1, <1>2, <1>3 DEF NoEarlyMatch, RejectVerify, RejectWhisper,
       WordsAreHere, NoneYet, Reading
<1>21. ASSUME NEW n \in Sessions, Reject(n) PROVE WordsAreHere'
  BY <1>21, <1>1, <1>2, <1>3 DEF Reject, WordsAreHere, NoneYet, Reading
<1>22. ASSUME NEW n \in Sessions, RejectClosed(n) PROVE WordsAreHere'
  BY <1>22, <1>1, <1>2, <1>3 DEF RejectClosed, WordsAreHere, NoneYet, Reading
<1>23. ASSUME NEW c \in Conns, UpstreamCloses(c) PROVE WordsAreHere'
  BY <1>23, <1>1, <1>2, <1>3 DEF UpstreamCloses, WordsAreHere, NoneYet,
       Reading
<1>24. ASSUME NEW c \in Conns, Interim(c) \/ Final(c) \/ ReadEnds(c) \/
      ReadFails(c) PROVE WordsAreHere'
  <2>1. ReaderStep(c)
    BY <1>24 DEF ReaderStep
  <2>2. /\ Reading(c) /\ UNCHANGED <<session, connSession>>
        /\ upstream_interim' \in {upstream_interim, Text(c)}
        /\ \A d \in Conns : Reading(d)' => Reading(d)
    <3>1. /\ Reading(c) /\ UNCHANGED connSession
          /\ upstream_interim' \in {upstream_interim, Text(c)}
          /\ \/ UNCHANGED readers
             \/ readers' = [readers EXCEPT ![c] = "done"]
             \/ readers' = [readers EXCEPT ![c] = "crashed"]
      BY <2>1, ReaderEffect
    <3>2. \A d \in Conns : Reading(d)' => Reading(d)
      BY <3>1 DEF Reading, TypeOK, UpstreamTypeOK
    <3>. QED
      BY <2>1, <3>1, <3>2, ReadersFrame
  <2>3. Text(c) <= session /\ (NoneYet => Text(c) # session)
    BY <1>3, <2>2 DEF WordsAreHere, Text, NoneYet
  <2>. QED
    BY <2>2, <2>3 DEF WordsAreHere, NoneYet
<1>25. CASE UNCHANGED vars
  BY <1>25 DEF vars, WordsAreHere, NoneYet, Reading
<1>. QED
  BY <1>4, <1>5, <1>6, <1>7, <1>8, <1>9, <1>10, <1>11, <1>12, <1>13, <1>14,
     <1>15, <1>16, <1>17, <1>18, <1>19, <1>20, <1>21, <1>22, <1>23, <1>24,
     <1>25 DEF Next, Hangup, ChunkStep, FinishStep, VerifyCrashes, ProbeStep,
     ReaderStep

\* A connection is given up only with the session's words.
LEMMA OneConnectionStep ==
  TypeOK /\ ConnsFit /\ WordsAreHere /\ OneConnection /\ [Next]_vars
    /\ [ProbesEndFirst]_vars
    => OneConnection'
<1> SUFFICES ASSUME TypeOK, ConnsFit, WordsAreHere, OneConnection,
              [Next]_vars, [ProbesEndFirst]_vars PROVE OneConnection'
  OBVIOUS
<1> USE DEF mainVars, finishVars, probeFlags, probedVars, taskVars, clientVars,
            interimVars, connVars, readerVars, outsideVars
<1>1. session \in Nat /\ Sessions \subseteq Nat /\ 0 \notin Sessions
  BY HandlerAssumption DEF TypeOK, MainTypeOK, Marks, Sessions
<1>2. stage \notin {"read", "closed"} => session \in Sessions
  BY HandlerAssumption DEF ConnsFit, InSession, TypeOK, MainTypeOK, Marks,
     Sessions
<1>3. /\ 0 \notin Conns
      /\ \A c \in Conns : connSession[c] \in Nat
      /\ \A c \in Conns : Reading(c) => readsFrom[c] \in Conns
      /\ upstream_interim \in Nat
  BY Capacity, HandlerAssumption DEF TypeOK, UpstreamTypeOK, Conns, Marks,
     ConnsFit, ReadsFromSome, Reading
<1>4. CASE AudioStart
  <2>1. /\ session' = session + 1 /\ stage' = "read"
        /\ UNCHANGED <<connSession, rejectTask, no_speech>>
    BY <1>4 DEF AudioStart
  <2>2. \A n \in Sessions : rejectTask[n] # "closing"
    BY <1>4, BeginsAfterProbes DEF Through
  <2>3. \A c \in Conns : connSession[c] # session + 1
    BY <1>1, <1>3 DEF WordsAreHere
  <2>. QED
    BY <2>1, <2>2, <2>3 DEF OneConnection, NoneYet
<1>5. CASE AudioChunk \/ AudioStop
  BY <1>5, <1>1, <1>2, <1>3 DEF AudioChunk, TakeChunk, AudioStop, TakeStop,
       CancelEarlyProbe, GoTo, OneConnection, NoneYet, TypeOK, UpstreamTypeOK,
       ProbeTypeOK
<1>6. CASE Disconnect
  BY <1>6, <1>1, <1>2, <1>3 DEF Disconnect, CloseUpstream, Resolved,
       OneConnection, NoneYet, TypeOK, UpstreamTypeOK, ProbeTypeOK
<1>7. CASE OpenOk
  <2>1. stage = "open" /\ stage' = "forward" /\ session # 0 /\ opened \in Nat
    BY <1>7, Capacity DEF OpenOk, GoTo, ConnsFit, InSession, TypeOK, UpstreamTypeOK
  <2>2. /\ opened + 1 \in Conns /\ opened + 1 # 0
        /\ upstream_client' = opened + 1
        /\ \A c \in Conns : connSession'[c] = IF c = opened + 1 THEN session ELSE connSession[c]
        /\ UNCHANGED <<session, no_speech, rejectTask, early_rejected>>
    BY <1>7, <2>1, OpenRoom DEF OpenOk, GoTo, TypeOK, UpstreamTypeOK
  <2> DEFINE k == opened + 1
  <2> HIDE DEF k
  <2>3. no_speech = 0 => \A c \in Conns : connSession[c] # session
    BY <2>1 DEF OneConnection, NoneYet
  <2>4. no_speech = 0 => \A c, d \in Conns :
          connSession'[c] = session /\ connSession'[d] = session => c = d
    BY <2>2, <2>3 DEF k
  <2>. QED
    BY <2>1, <2>2, <2>4 DEF OneConnection
<1>8. CASE OpenFails \/ Forwarded \/ SpeechHeard
  BY <1>8, <1>1, <1>2, <1>3 DEF OpenFails, GoTo, Resolved, Forwarded,
       SpeechHeard, OneConnection, NoneYet, TypeOK, UpstreamTypeOK,
       ProbeTypeOK
<1>9. CASE ProbeDue \/ ArmReject
  BY <1>9, <1>1, <1>2, <1>3 DEF ProbeDue, GoTo, ArmReject, OneConnection,
       NoneYet, TypeOK, UpstreamTypeOK, ProbeTypeOK
<1>10. CASE NoSpeech
  BY <1>10, <1>1, <1>2, <1>3 DEF NoSpeech, CloseUpstream, GoTo, OneConnection,
       NoneYet, TypeOK, UpstreamTypeOK, ProbeTypeOK
<1>11. CASE StopWritten
  BY <1>11, <1>1, <1>2, <1>3 DEF StopWritten, Decided, Reply, GoTo,
       OneConnection, NoneYet, TypeOK, UpstreamTypeOK, ProbeTypeOK
<1>12. CASE GateCloses \/ NotVerified
  BY <1>12, <1>1, <1>2, <1>3 DEF GateCloses, Publish, Reply, GoTo,
       NotVerified, OneConnection, NoneYet, TypeOK, UpstreamTypeOK,
       ProbeTypeOK
<1>13. CASE GatesPass \/ Verified
  BY <1>13, <1>1, <1>2, <1>3 DEF GatesPass, GoTo, Verified, OneConnection,
       NoneYet, TypeOK, UpstreamTypeOK, ProbeTypeOK
<1>14. CASE Transcribed
  BY <1>14, <1>1, <1>2, <1>3 DEF Transcribed, Transcripts, Primary, GoTo,
       OneConnection, NoneYet, TypeOK, UpstreamTypeOK, ProbeTypeOK
<1>15. CASE PublishedNow
  BY <1>15, <1>1, <1>2, <1>3 DEF PublishedNow, Publish, Reply, OneConnection,
       NoneYet, TypeOK, UpstreamTypeOK, ProbeTypeOK
<1>16. CASE Answered
  BY <1>16, <1>1, <1>2, <1>3 DEF Answered, CloseUpstream, OneConnection,
       NoneYet, TypeOK, UpstreamTypeOK, ProbeTypeOK
<1>17. CASE AutoEnrolled
  BY <1>17, <1>1, <1>2, <1>3 DEF AutoEnrolled, GoTo, OneConnection, NoneYet,
       TypeOK, UpstreamTypeOK, ProbeTypeOK
<1>18. ASSUME NEW n \in Sessions, EarlyMatch(n) PROVE OneConnection'
  BY <1>18, <1>1, <1>2, <1>3 DEF EarlyMatch, Publish, OneConnection, NoneYet,
       TypeOK, UpstreamTypeOK, ProbeTypeOK
<1>19. ASSUME NEW n \in Sessions, RejectPublish(n) PROVE OneConnection'
  BY <1>19, <1>1, <1>2, <1>3 DEF RejectPublish, Publish, OneConnection,
       NoneYet, TypeOK, UpstreamTypeOK, ProbeTypeOK
<1>20. ASSUME NEW n \in Sessions, NoEarlyMatch(n) \/ RejectVerify(n) \/
      RejectWhisper(n) PROVE OneConnection'
  BY <1>20, <1>1, <1>2, <1>3 DEF NoEarlyMatch, RejectVerify, RejectWhisper,
       OneConnection, NoneYet, TypeOK, UpstreamTypeOK, ProbeTypeOK
<1>21. ASSUME NEW n \in Sessions, Reject(n) PROVE OneConnection'
  BY <1>21, <1>1, <1>2, <1>3 DEF Reject, OneConnection, NoneYet, TypeOK,
       UpstreamTypeOK, ProbeTypeOK
<1>22. ASSUME NEW n \in Sessions, RejectClosed(n) PROVE OneConnection'
  BY <1>22, <1>1, <1>2, <1>3 DEF RejectClosed, OneConnection, NoneYet, TypeOK,
       UpstreamTypeOK, ProbeTypeOK
<1>23. ASSUME NEW c \in Conns, UpstreamCloses(c) PROVE OneConnection'
  BY <1>23, <1>1, <1>2, <1>3 DEF UpstreamCloses, OneConnection, NoneYet
<1>24. ASSUME NEW c \in Conns, Interim(c) \/ Final(c) \/ ReadEnds(c) \/
      ReadFails(c) PROVE OneConnection'
  <2>1. ReaderStep(c)
    BY <1>24 DEF ReaderStep
  <2>2. UNCHANGED <<no_speech, upstream_client, upstream_failed, connSession>>
    BY <2>1, ReaderEffect
  <2>3. UNCHANGED <<stage, session, responded, early_rejected, rejectTask>>
    BY <2>1, ReadersFrame
  <2>. QED
    BY <2>2, <2>3 DEF OneConnection, NoneYet
<1>25. CASE UNCHANGED vars
  BY <1>25 DEF vars, OneConnection, NoneYet, TypeOK, UpstreamTypeOK,
       ProbeTypeOK
<1>. QED
  BY <1>4, <1>5, <1>6, <1>7, <1>8, <1>9, <1>10, <1>11, <1>12, <1>13, <1>14,
     <1>15, <1>16, <1>17, <1>18, <1>19, <1>20, <1>21, <1>22, <1>23, <1>24,
     <1>25 DEF Next, Hangup, ChunkStep, FinishStep, VerifyCrashes, ProbeStep,
     ReaderStep

\* What the future is resolved with.
LEMMA HeardIsKeptStep ==
  TypeOK /\ ConnsFit /\ WordsAreHere /\ OneConnection /\ HeardIsKept
    /\ [Next]_vars /\ [ReadersEndFirst]_vars
    => HeardIsKept'
<1> SUFFICES ASSUME TypeOK, ConnsFit, WordsAreHere, OneConnection,
              HeardIsKept, [Next]_vars, [ReadersEndFirst]_vars PROVE
              HeardIsKept'
  OBVIOUS
<1> USE DEF mainVars, finishVars, probeFlags, probedVars, taskVars, clientVars,
            interimVars, connVars, readerVars, outsideVars
<1>1. session \in Nat /\ Sessions \subseteq Nat /\ 0 \notin Sessions
  BY HandlerAssumption DEF TypeOK, MainTypeOK, Marks, Sessions
<1>2. stage \notin {"read", "closed"} => session \in Sessions
  BY HandlerAssumption DEF ConnsFit, InSession, TypeOK, MainTypeOK, Marks,
     Sessions
<1>3. /\ 0 \notin Conns
      /\ \A c \in Conns : connSession[c] \in Nat
      /\ \A c \in Conns : Reading(c) => readsFrom[c] \in Conns
      /\ upstream_interim \in Nat
  BY Capacity, HandlerAssumption DEF TypeOK, UpstreamTypeOK, Conns, Marks,
     ConnsFit, ReadsFromSome, Reading
<1>4. Pending # 0
  BY HandlerAssumption DEF Marks
<1>5. session # 0 => session \in Sessions
  BY HandlerAssumption DEF TypeOK, MainTypeOK, Marks, Sessions
<1>6. CASE AudioStart
  <2>1. /\ session' = session + 1 /\ session' \in Sessions
        /\ UNCHANGED <<connSession, readers, future, upstream_interim>>
    BY <1>6, <1>1, HandlerAssumption DEF AudioStart, Sessions
  <2>2. \A c \in Conns : ~Reading(c)
    BY <1>6, BeginsAfterReaders
  <2>3. upstream_interim # session' /\ future[session'] = Pending
    BY <1>1, <1>3, <2>1 DEF WordsAreHere, HeardIsKept
  <2>4. \A n \in Sessions : n > session' => future[n] = Pending
    BY <1>1, <2>1 DEF HeardIsKept
  <2>. QED
    BY <2>1, <2>2, <2>3, <2>4 DEF HeardIsKept, Reading
<1>7. CASE AudioChunk \/ AudioStop
  BY <1>7, <1>1, <1>2, <1>3 DEF AudioChunk, TakeChunk, AudioStop, TakeStop,
       CancelEarlyProbe, GoTo, HeardIsKept, NoneYet, CrashedHere, Reading,
       TypeOK, UpstreamTypeOK, ProbeTypeOK
<1>8. CASE Disconnect
  BY <1>8, <1>1, <1>2, <1>3 DEF Disconnect, CloseUpstream, Resolved,
       HeardIsKept, NoneYet, CrashedHere, Reading, TypeOK, UpstreamTypeOK,
       ProbeTypeOK
<1>9. CASE OpenOk
  <2>1. stage = "open" /\ stage' = "forward" /\ session # 0
        /\ UNCHANGED <<session, no_speech, future, upstream_interim, upstream_failed>>
    BY <1>9 DEF OpenOk, GoTo, ConnsFit, InSession
  <2>2. no_speech = 0 => future[session] = Pending /\ upstream_interim # session
    BY <2>1 DEF OneConnection, HeardIsKept, WordsAreHere
  <2>. QED
    BY <2>1, <2>2 DEF HeardIsKept
<1>10. CASE OpenFails
  <2>1. stage = "open" /\ stage' = "probe" /\ session \in Sessions /\ upstream_failed'
        /\ session # 0
        /\ UNCHANGED <<session, no_speech, upstream_interim, connSession, readers>>
        /\ \A n \in Sessions : n # session => future'[n] = future[n]
    BY <1>10, <1>1, <1>2 DEF OpenFails, GoTo, Resolved, TypeOK, UpstreamTypeOK
  <2>2. no_speech = 0 => /\ NoneYet /\ upstream_interim # session
                         /\ \A c \in Conns : ~Reading(c)
    BY <2>1 DEF OneConnection, WordsAreHere, NoneYet
  <2>. QED
    BY <1>1, <2>1, <2>2 DEF HeardIsKept, Reading
<1>11. CASE Forwarded \/ SpeechHeard
  BY <1>11, <1>1, <1>2, <1>3 DEF Forwarded, GoTo, SpeechHeard, HeardIsKept,
       NoneYet, CrashedHere, Reading, TypeOK, UpstreamTypeOK, ProbeTypeOK
<1>12. CASE ProbeDue \/ ArmReject
  BY <1>12, <1>1, <1>2, <1>3 DEF ProbeDue, GoTo, ArmReject, HeardIsKept,
       NoneYet, CrashedHere, Reading, TypeOK, UpstreamTypeOK, ProbeTypeOK
<1>13. CASE NoSpeech
  BY <1>13, <1>1, <1>2, <1>3 DEF NoSpeech, CloseUpstream, GoTo, HeardIsKept,
       NoneYet, CrashedHere, Reading, TypeOK, UpstreamTypeOK, ProbeTypeOK
<1>14. CASE StopWritten
  BY <1>14, <1>1, <1>2, <1>3 DEF StopWritten, Decided, Reply, GoTo,
       HeardIsKept, NoneYet, CrashedHere, Reading, TypeOK, UpstreamTypeOK,
       ProbeTypeOK
<1>15. CASE GateCloses \/ NotVerified
  BY <1>15, <1>1, <1>2, <1>3 DEF GateCloses, Publish, Reply, GoTo,
       NotVerified, HeardIsKept, NoneYet, CrashedHere, Reading, TypeOK,
       UpstreamTypeOK, ProbeTypeOK
<1>16. CASE GatesPass \/ Verified
  BY <1>16, <1>1, <1>2, <1>3 DEF GatesPass, GoTo, Verified, HeardIsKept,
       NoneYet, CrashedHere, Reading, TypeOK, UpstreamTypeOK, ProbeTypeOK
<1>17. CASE Transcribed
  BY <1>17, <1>1, <1>2, <1>3 DEF Transcribed, Transcripts, Primary, GoTo,
       HeardIsKept, NoneYet, CrashedHere, Reading, TypeOK, UpstreamTypeOK,
       ProbeTypeOK
<1>18. CASE PublishedNow
  BY <1>18, <1>1, <1>2, <1>3 DEF PublishedNow, Publish, Reply, HeardIsKept,
       NoneYet, CrashedHere, Reading, TypeOK, UpstreamTypeOK, ProbeTypeOK
<1>19. CASE Answered
  BY <1>19, <1>1, <1>2, <1>3 DEF Answered, CloseUpstream, HeardIsKept,
       NoneYet, CrashedHere, Reading, TypeOK, UpstreamTypeOK, ProbeTypeOK
<1>20. CASE AutoEnrolled
  BY <1>20, <1>1, <1>2, <1>3 DEF AutoEnrolled, GoTo, HeardIsKept, NoneYet,
       CrashedHere, Reading, TypeOK, UpstreamTypeOK, ProbeTypeOK
<1>21. ASSUME NEW n \in Sessions, EarlyMatch(n) PROVE HeardIsKept'
  BY <1>21, <1>1, <1>2, <1>3 DEF EarlyMatch, Publish, HeardIsKept, NoneYet,
       CrashedHere, Reading, TypeOK, UpstreamTypeOK, ProbeTypeOK
<1>22. ASSUME NEW n \in Sessions, RejectPublish(n) PROVE HeardIsKept'
  BY <1>22, <1>1, <1>2, <1>3 DEF RejectPublish, Publish, HeardIsKept, NoneYet,
       CrashedHere, Reading, TypeOK, UpstreamTypeOK, ProbeTypeOK
<1>23. ASSUME NEW n \in Sessions, NoEarlyMatch(n) \/ RejectVerify(n) \/
      RejectWhisper(n) PROVE HeardIsKept'
  BY <1>23, <1>1, <1>2, <1>3 DEF NoEarlyMatch, RejectVerify, RejectWhisper,
       HeardIsKept, NoneYet, CrashedHere, Reading, TypeOK, UpstreamTypeOK,
       ProbeTypeOK
<1>24. ASSUME NEW n \in Sessions, Reject(n) PROVE HeardIsKept'
  BY <1>24, <1>1, <1>2, <1>3 DEF Reject, HeardIsKept, NoneYet, CrashedHere,
       Reading, TypeOK, UpstreamTypeOK, ProbeTypeOK
<1>25. ASSUME NEW n \in Sessions, RejectClosed(n) PROVE HeardIsKept'
  BY <1>25, <1>1, <1>2, <1>3 DEF RejectClosed, HeardIsKept, NoneYet,
       CrashedHere, Reading, TypeOK, UpstreamTypeOK, ProbeTypeOK
<1>26. ASSUME NEW c \in Conns, UpstreamCloses(c) PROVE HeardIsKept'
  BY <1>26, <1>1, <1>2, <1>3 DEF UpstreamCloses, HeardIsKept, NoneYet,
       CrashedHere, Reading
<1>27. ASSUME NEW c \in Conns, Interim(c) \/ Final(c) \/ ReadEnds(c) \/
      ReadFails(c) PROVE HeardIsKept'
  <2>1. ReaderStep(c)
    BY <1>27 DEF ReaderStep
  <2>2. /\ Reading(c) /\ connSession[c] = session
        /\ UNCHANGED <<no_speech, upstream_failed, connSession, stage, session>>
    BY <2>1, ReaderEffect, ReadersFrame DEF WordsAreHere
  <2>3. CASE UNCHANGED <<readers, future>>
    <3>1. session # 0 /\ no_speech = 0 /\ stage # "closed" => future[session] = Pending
      BY <2>2 DEF HeardIsKept
    <3>. QED
      BY <1>4, <2>2, <2>3, <3>1 DEF HeardIsKept, NoneYet, Reading
  <2>4. CASE readers' = [readers EXCEPT ![c] = "done"]
             /\ future' = Resolved(session, upstream_interim')
    <3>1. /\ \A d \in Conns : Reading(d)' => Reading(d) /\ d # c
          /\ \A n \in Sessions : n # session => future'[n] = future[n]
          /\ session \in Sessions => future'[session] = IF future[session] = Pending
                                     THEN upstream_interim' ELSE future[session]
      BY <2>4 DEF Reading, Resolved, TypeOK, UpstreamTypeOK
    <3>2. session # 0 /\ no_speech = 0 /\ stage # "closed" =>
            /\ \A d \in Conns : ~Reading(d)'
            /\ future'[session] = upstream_interim'
      BY <1>5, <2>2, <3>1 DEF HeardIsKept, OneConnection, WordsAreHere
    <3>. QED
      BY <1>1, <2>2, <3>1, <3>2 DEF HeardIsKept, NoneYet
  <2>5. CASE readers' = [readers EXCEPT ![c] = "crashed"] /\ future' = Resolved(session, 0)
    <3>1. /\ \A d \in Conns : Reading(d)' => Reading(d) /\ d # c
          /\ \A n \in Sessions : n # session => future'[n] = future[n]
          /\ readers'[c] = "crashed"
      BY <2>5 DEF Reading, Resolved, TypeOK, UpstreamTypeOK
    <3>2. session # 0 /\ no_speech = 0 /\ stage # "closed" => \A d \in Conns : ~Reading(d)'
      BY <2>2, <3>1 DEF OneConnection, WordsAreHere
    <3>3. CrashedHere'
      BY <2>2, <3>1 DEF CrashedHere
    <3>4. ~NoneYet'
      BY <2>2 DEF NoneYet
    <3>5. \A n \in Sessions : n > session' => future'[n] = Pending
      <4>1. \A n \in Sessions : n > session => n # session
        BY <1>1
      <4>2. \A n \in Sessions : n > session => future[n] = Pending
        BY DEF HeardIsKept
      <4>3. session' = session
        BY <2>2
      <4>. QED
        BY <3>1, <4>1, <4>2, <4>3
    <3>. QED
      BY <2>2, <3>2, <3>3, <3>4, <3>5 DEF HeardIsKept
  <2>. QED
    BY <2>1, <2>2, <2>3, <2>4, <2>5, ReaderEffect
<1>28. CASE UNCHANGED vars
  BY <1>28 DEF vars, HeardIsKept, NoneYet, CrashedHere, Reading, TypeOK,
       UpstreamTypeOK, ProbeTypeOK
<1>. QED
  BY <1>6, <1>7, <1>8, <1>9, <1>10, <1>11, <1>12, <1>13, <1>14, <1>15, <1>16,
     <1>17, <1>18, <1>19, <1>20, <1>21, <1>22, <1>23, <1>24, <1>25, <1>26,
     <1>27, <1>28 DEF Next, Hangup, ChunkStep, FinishStep, VerifyCrashes,
     ProbeStep, ReaderStep

\* Only a transcript takes the main coroutine from where it waits for one.
LEMMA TranscribeEnds ==
  [Next]_vars /\ stage = "transcribe" /\ stage' # "transcribe" => Transcribed
<1> SUFFICES ASSUME [Next]_vars, stage = "transcribe", stage' # "transcribe"
             PROVE  Transcribed
  OBVIOUS
<1>1. ~(AudioStart \/ AudioChunk \/ AudioStop \/ Hangup)
  BY DEF AudioStart, AudioChunk, TakeChunk, AudioStop, TakeStop, Hangup
<1>2. ~ChunkStep
  BY DEF ChunkStep, OpenOk, OpenFails, Forwarded, ProbeDue, SpeechHeard,
       NoSpeech, ArmReject
<1>3. FinishStep => Transcribed
  BY DEF FinishStep, StopWritten, GateCloses, GatesPass, Verified, NotVerified,
       VerifyCrashes, PublishedNow, Answered, AutoEnrolled
<1>4. ASSUME NEW n \in Sessions PROVE ~ProbeStep(n)
  BY DEF ProbeStep, EarlyMatch, NoEarlyMatch, RejectVerify, RejectWhisper, Reject,
       RejectClosed, RejectPublish, mainVars
<1>5. ASSUME NEW c \in Conns PROVE ~(UpstreamCloses(c) \/ ReaderStep(c))
  BY ReadersFrame DEF mainVars
<1>6. ~ UNCHANGED vars
  BY DEF vars, mainVars
<1>. QED
  BY <1>1, <1>2, <1>3, <1>4, <1>5, <1>6 DEF Next

\* As long as no session begins before the reject probe and the reader of the
\* last are through, a session in which a word was heard is not answered with
\* nothing, unless a cancel phrase asked for it or its reader died of an
\* exception: no fallback, timeout or end of stream loses the interim text.
THEOREM HeardIsAnswered ==
  Spec /\ [][ProbesEndFirst]_vars /\ [][ReadersEndFirst]_vars => HeardIsNotLost
<1> DEFINE IInv == TypeOK /\ ConnsFit /\ WordsAreHere /\ OneConnection /\ HeardIsKept
<1>1. Init => IInv
  <2> SUFFICES ASSUME Init PROVE IInv
    OBVIOUS
  <2>1. TypeOK /\ ConnsFit
    BY TypeInit
  <2>2. WordsAreHere /\ OneConnection
    BY DEF Init, WordsAreHere, OneConnection, NoneYet, Reading
  <2>3. HeardIsKept
    BY DEF Init, HeardIsKept
  <2>. QED
    BY <2>1, <2>2, <2>3
<1>2. IInv /\ [Next]_vars /\ [ProbesEndFirst]_vars /\ [ReadersEndFirst]_vars => IInv'
  BY TypeStep, WordsAreHereStep, OneConnectionStep, HeardIsKeptStep
<1> DEFINE Kept ==
      stage = "transcribe" /\ stage' # "transcribe"
        /\ ~buffered /\ upstream_interim = session /\ cancelled' = 0
        /\ (\A c \in Conns : connSession[c] = session => readers[c] # "crashed")
        => reply' # 0
<1>3. IInv /\ [Next]_vars => [Kept]_vars
  <2> SUFFICES ASSUME IInv, [Next]_vars, stage = "transcribe", stage' # "transcribe",
                      ~buffered, upstream_interim = session, cancelled' = 0,
                      ~CrashedHere
               PROVE  reply' # 0
    BY DEF CrashedHere
  <2>1. session # 0 /\ no_speech = 0
    BY HandlerAssumption DEF ConnsFit, InSession, OneConnection
  <2>2. future[session] # 0
    BY <2>1 DEF HeardIsKept
  <2>3. Primary # 0
    BY <2>1, <2>2 DEF Primary
  <2>4. Transcribed
    BY TranscribeEnds
  <2>5. \A text \in Transcripts : text # 0
    BY <2>1, <2>3 DEF Transcripts
  <2>6. PICK text \in Transcripts :
          \/ reply' = text
          \/ text # 0 /\ cancelled' = text
    BY <2>4 DEF Transcribed
  <2>. QED
    BY <2>5, <2>6
<1>. QED
  BY <1>1, <1>2, <1>3, PTL DEF Spec, HeardIsNotLost

ReadersNeedSession ==
  session = 0 => \A c \in Conns : readers[c] # "reading"

\* A reader starts in a session.
LEMMA ReadersNeedSessionStep ==
  TypeOK /\ ConnsFit /\ ReadersNeedSession /\ [Next]_vars => ReadersNeedSession'
<1> SUFFICES ASSUME TypeOK, ConnsFit, ReadersNeedSession, [Next]_vars PROVE
              ReadersNeedSession'
  OBVIOUS
<1> USE DEF mainVars, finishVars, probeFlags, probedVars, taskVars, clientVars,
            interimVars, connVars, readerVars, outsideVars
<1>1. session \in Nat /\ Sessions \subseteq Nat /\ 0 \notin Sessions
  BY HandlerAssumption DEF TypeOK, MainTypeOK, Marks, Sessions
<1>2. stage \notin {"read", "closed"} => session \in Sessions
  BY HandlerAssumption DEF ConnsFit, InSession, TypeOK, MainTypeOK, Marks,
     Sessions
<1>3. 0 \notin Sessions
  BY HandlerAssumption DEF Sessions
<1>4. CASE AudioStart
  BY <1>4, <1>1 DEF AudioStart, ReadersNeedSession
<1>5. CASE AudioChunk \/ AudioStop
  BY <1>5 DEF AudioChunk, TakeChunk, AudioStop, TakeStop, CancelEarlyProbe,
       GoTo, ReadersNeedSession, TypeOK, UpstreamTypeOK
<1>6. CASE Disconnect
  BY <1>6 DEF Disconnect, CloseUpstream, Resolved, ReadersNeedSession, TypeOK,
       UpstreamTypeOK
<1>7. CASE OpenOk
  BY <1>7, <1>3, <1>2 DEF OpenOk, GoTo, ReadersNeedSession
<1>8. CASE OpenFails \/ Forwarded \/ SpeechHeard
  BY <1>8 DEF OpenFails, GoTo, Resolved, Forwarded, SpeechHeard,
       ReadersNeedSession, TypeOK, UpstreamTypeOK
<1>9. CASE ProbeDue \/ ArmReject
  BY <1>9 DEF ProbeDue, GoTo, ArmReject, ReadersNeedSession, TypeOK,
       UpstreamTypeOK
<1>10. CASE NoSpeech
  BY <1>10 DEF NoSpeech, CloseUpstream, GoTo, ReadersNeedSession, TypeOK,
       UpstreamTypeOK
<1>11. CASE StopWritten
  BY <1>11 DEF StopWritten, Decided, Reply, GoTo, ReadersNeedSession, TypeOK,
       UpstreamTypeOK
<1>12. CASE GateCloses \/ NotVerified
  BY <1>12 DEF GateCloses, Publish, Reply, GoTo, NotVerified,
       ReadersNeedSession, TypeOK, UpstreamTypeOK
<1>13. CASE GatesPass \/ Verified
  BY <1>13 DEF GatesPass, GoTo, Verified, ReadersNeedSession, TypeOK,
       UpstreamTypeOK
<1>14. CASE Transcribed
  BY <1>14 DEF Transcribed, Transcripts, Primary, GoTo, ReadersNeedSession,
       TypeOK, UpstreamTypeOK
<1>15. CASE PublishedNow
  BY <1>15 DEF PublishedNow, Publish, Reply, ReadersNeedSession, TypeOK,
       UpstreamTypeOK
<1>16. CASE Answered
  BY <1>16 DEF Answered, CloseUpstream, ReadersNeedSession, TypeOK,
       UpstreamTypeOK
<1>17. CASE AutoEnrolled
  BY <1>17 DEF AutoEnrolled, GoTo, ReadersNeedSession, TypeOK, UpstreamTypeOK
<1>18. ASSUME NEW n \in Sessions, EarlyMatch(n) PROVE ReadersNeedSession'
  BY <1>18 DEF EarlyMatch, Publish, ReadersNeedSession, TypeOK, UpstreamTypeOK
<1>19. ASSUME NEW n \in Sessions, RejectPublish(n) PROVE ReadersNeedSession'
  BY <1>19 DEF RejectPublish, Publish, ReadersNeedSession, TypeOK,
       UpstreamTypeOK
<1>20. ASSUME NEW n \in Sessions, NoEarlyMatch(n) \/ RejectVerify(n) \/
      RejectWhisper(n) PROVE ReadersNeedSession'
  BY <1>20 DEF NoEarlyMatch, RejectVerify, RejectWhisper, ReadersNeedSession,
       TypeOK, UpstreamTypeOK
<1>21. ASSUME NEW n \in Sessions, Reject(n) PROVE ReadersNeedSession'
  BY <1>21 DEF Reject, ReadersNeedSession, TypeOK, UpstreamTypeOK
<1>22. ASSUME NEW n \in Sessions, RejectClosed(n) PROVE ReadersNeedSession'
  BY <1>22 DEF RejectClosed, ReadersNeedSession, TypeOK, UpstreamTypeOK
<1>23. ASSUME NEW c \in Conns, UpstreamCloses(c) PROVE ReadersNeedSession'
  BY <1>23 DEF UpstreamCloses, ReadersNeedSession, TypeOK, UpstreamTypeOK
<1>24. ASSUME NEW c \in Conns, Interim(c) \/ Final(c) \/ ReadEnds(c) \/
      ReadFails(c) PROVE ReadersNeedSession'
  <2>1. ReaderStep(c)
    BY <1>24 DEF ReaderStep
  <2>2. Reading(c) /\ UNCHANGED session
    BY <2>1, ReaderEffect, ReadersFrame
  <2>. QED
    BY <2>2 DEF ReadersNeedSession, Reading
<1>25. CASE UNCHANGED vars
  BY <1>25 DEF vars, ReadersNeedSession, TypeOK, UpstreamTypeOK
<1>. QED
  BY <1>4, <1>5, <1>6, <1>7, <1>8, <1>9, <1>10, <1>11, <1>12, <1>13, <1>14,
     <1>15, <1>16, <1>17, <1>18, <1>19, <1>20, <1>21, <1>22, <1>23, <1>24,
     <1>25 DEF Next, Hangup, ChunkStep, FinishStep, VerifyCrashes, ProbeStep,
     ReaderStep

\* Nor does a reader, where there is one session to a connection.
LEMMA WhereReadersEndFirst ==
  MaxSessions = 1 => (Spec => [][ReadersEndFirst]_vars)
<1> SUFFICES ASSUME MaxSessions = 1 PROVE Spec => [][ReadersEndFirst]_vars
  OBVIOUS
<1> DEFINE IInv == TypeOK /\ ConnsFit /\ ReadersNeedSession
<1>1. Init => IInv
  BY TypeInit DEF Init, ReadersNeedSession
<1>2. IInv /\ [Next]_vars => IInv'
  BY TypeStep, ReadersNeedSessionStep
<1>3. IInv /\ [Next]_vars => [ReadersEndFirst]_vars
  <2> SUFFICES ASSUME IInv, AudioStart, NEW c \in Conns PROVE ~Reading(c)
    BY DEF ReadersEndFirst
  <2>1. session = 0
    BY DEF AudioStart, TypeOK, MainTypeOK, Marks
  <2>. QED
    BY <2>1 DEF ReadersNeedSession, Reading
<1>. QED
  BY <1>1, <1>2, <1>3, PTL DEF Spec

=============================================================================
