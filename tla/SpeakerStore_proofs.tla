-------------------------- MODULE SpeakerStore_proofs --------------------------
(***************************************************************************)
(* Proofs about the speaker store, for any number of speakers, samples,    *)
(* satellites and threads, any cap and thresholds, any requests and any    *)
(* archives that keep to the cap.                                          *)
(*                                                                         *)
(* That voiceprints fit their samples, and that what is done is on disk,   *)
(* both speak of moments at which nobody is in an operation: the           *)
(* strengthening says at every moment which speaker is open, the one whose *)
(* rebuild the lock's holder has still to do.  The cap on automatic        *)
(* samples speaks of every moment: its strengthening counts the samples    *)
(* that a restore has still to insert.  The types are those of the tables, *)
(* and that the ids never run out under an operation that was let in.      *)
(***************************************************************************)
EXTENDS SpeakerStore, FiniteSetTheorems, TLAPS

USE DEF vars

-----------------------------------------------------------------------------
(* Recalibration.                                                          *)

\* A change that no pass has read is one that the running pass will read, or
\* one for which a follow-up is due.
FollowUpIsDue ==
  /\ recal \in [at : {"idle", "start", "read", "fit"}, pending : BOOLEAN]
  /\ recal.at = "idle" => ~unseen
  /\ recal.at = "fit" /\ unseen => recal.pending

LEMMA ScheduleIsDue == ASSUME FollowUpIsDue, Schedule PROVE FollowUpIsDue'
BY DEF Schedule, FollowUpIsDue

LEMMA RecalFrame ==
  ASSUME Next
  PROVE  Schedule \/ UNCHANGED <<recal, unseen>>
           \/ RecalPass \/ RecalRead \/ RecalEnd \/ Crash
<1>1. CASE Api
  BY <1>1 DEF Api, create_speaker, edit_speaker, delete_speaker, delete_sample,
              enroll, restore
<1>2. CASE LoopStep
  BY <1>2 DEF LoopStep, EnrollFind, EnrollInsert, LoopRebuild, LoopFails
<1>3. CASE \E t \in Threads : AutoStep(t)
  BY <1>3 DEF AutoStep, AutoStart, AutoInsert, AutoSkips, AutoRebuild, AutoFails
<1>4. CASE Rescore \/ ForeignCommit
  BY <1>4 DEF Rescore, RescoreStart, RescoreSample, RescoreEnd, ForeignCommit
<1>. QED
  BY <1>1, <1>2, <1>3, <1>4 DEF Next

LEMMA FollowUpKept == Spec => []FollowUpIsDue
<1>1. Init => FollowUpIsDue
  BY DEF Init, FollowUpIsDue
<1>2. FollowUpIsDue /\ [Next]_vars => FollowUpIsDue'
  <2> SUFFICES ASSUME FollowUpIsDue, [Next]_vars PROVE FollowUpIsDue'
    OBVIOUS
  <2>1. CASE Schedule
    BY <2>1, ScheduleIsDue
  <2>2. CASE UNCHANGED <<recal, unseen>>
    BY <2>2 DEF FollowUpIsDue
  <2>3. CASE RecalPass
    BY <2>3 DEF RecalPass, FollowUpIsDue
  <2>4. CASE RecalRead
    <3>1. ~unseen'
      BY <2>4, Zenon DEF RecalRead
    <3>2. recal' \in [at : {"idle", "start", "read", "fit"}, pending : BOOLEAN]
          /\ recal'.at = "fit"
      BY <2>4 DEF RecalRead, FollowUpIsDue
    <3>. QED
      BY <3>1, <3>2 DEF FollowUpIsDue
  <2>5. CASE RecalEnd
    BY <2>5 DEF RecalEnd, FollowUpIsDue
  <2>6. CASE Crash
    BY <2>6 DEF Crash, FollowUpIsDue
  <2>7. CASE Next
    BY <2>1, <2>2, <2>3, <2>5, <2>6, <2>7, <2>4, RecalFrame
  <2>. QED
    BY <2>2, <2>7
<1>. QED
  BY <1>1, <1>2, PTL DEF Spec

\* The debounce loses no request: whenever the task is idle, the last pass has
\* read every change that asked for one.
THEOREM NoChangeIsForgotten == Spec => []ChangesAreCalibrated
<1>1. FollowUpIsDue => ChangesAreCalibrated
  BY DEF FollowUpIsDue, ChangesAreCalibrated
<1>. QED
  BY <1>1, FollowUpKept, PTL

-----------------------------------------------------------------------------
(* Tables and statements.                                                  *)

IsSample(r) ==
  r = [of |-> r.of, source |-> r.source, style |-> r.style, mic |-> r.mic,
       score |-> r.score]

\* What the proofs need to know of tables: no id that is still to be handed
\* out has a sample.
Shaped(x) ==
  /\ DOMAIN x = {"speakers", "samples", "profiles", "nextSpeaker", "nextSample"}
  /\ x.samples = [i \in SampleIds |-> x.samples[i]]
  /\ x.profiles = [s \in SpeakerIds |-> x.profiles[s]]
  /\ x.nextSample \in Nat /\ x.nextSpeaker \in Nat
  /\ \A i \in SampleIds :
       /\ x.samples[i] # NoSample => IsSample(x.samples[i])
       /\ i >= x.nextSample => x.samples[i] = NoSample

\* Two tables agree on the samples of a speaker.
AgreeOn(x, y, s) ==
  \A i \in SampleIds :
    /\ i \in SamplesOf(x, s) <=> i \in SamplesOf(y, s)
    /\ i \in SamplesOf(x, s) => /\ x.samples[i].style = y.samples[i].style
                                /\ x.samples[i].mic = y.samples[i].mic

\* They agree on all speakers but some.
Apart(x, y, some) ==
  \A s \in SpeakerIds \ some : AgreeOn(x, y, s) /\ x.profiles[s] = y.profiles[s]

Fits(x, open) == \A s \in SpeakerIds \ open : x.profiles[s] = ProfileOf(x, s)

LEMMA SameProfile ==
  ASSUME NEW x, NEW y, NEW s, AgreeOn(x, y, s)
  PROVE  SamplesOf(x, s) = SamplesOf(y, s) /\ ProfileOf(x, s) = ProfileOf(y, s)
<1> DEFINE Normal(z) == {i \in SamplesOf(z, s) : z.samples[i].style = "normal"}
           At(z, m) == {i \in Normal(z) : z.samples[i].mic = m}
<1>1. SamplesOf(x, s) = SamplesOf(y, s)
  BY DEF AgreeOn, SamplesOf
<1>2. \A i \in SamplesOf(x, s) : i \in SampleIds
  BY DEF SamplesOf
<1>3. Normal(x) = Normal(y)
  BY <1>1, <1>2 DEF AgreeOn
<1>4. \A m \in Mics : At(x, m) = At(y, m)
  BY <1>1, <1>2, <1>3 DEF AgreeOn
<1>. HIDE DEF Normal, At
<1>5. \A z : ProfileOf(z, s) =
        [count |-> Cardinality(Normal(z)), centroid |-> Normal(z),
         whisper |-> IF Cardinality(SamplesOf(z, s) \ Normal(z)) >= WhisperMin
                     THEN SamplesOf(z, s) \ Normal(z) ELSE {},
         satellite |-> [m \in Mics |->
           IF Cardinality(At(z, m)) >= SatelliteMin THEN At(z, m) ELSE {}]]
  BY DEF ProfileOf, Normal, At
<1>6. [m \in Mics |-> IF Cardinality(At(x, m)) >= SatelliteMin THEN At(x, m) ELSE {}]
      = [m \in Mics |-> IF Cardinality(At(y, m)) >= SatelliteMin THEN At(y, m) ELSE {}]
  BY <1>4
<1>. QED
  BY <1>1, <1>3, <1>5, <1>6

LEMMA FitsApart ==
  ASSUME NEW x, NEW y, NEW open, NEW some, Fits(x, open), Apart(x, y, some)
  PROVE  Fits(y, open \union some)
BY SameProfile DEF Fits, Apart

LEMMA ApartTwice ==
  ASSUME NEW x, NEW y, NEW z, NEW some, NEW more,
         Apart(x, y, some), Apart(x, z, more)
  PROVE  Apart(y, z, some \union more)
<1> SUFFICES ASSUME NEW s \in SpeakerIds \ (some \union more)
             PROVE  AgreeOn(y, z, s) /\ y.profiles[s] = z.profiles[s]
  BY DEF Apart
<1>1. AgreeOn(x, y, s) /\ AgreeOn(x, z, s)
  BY DEF Apart
<1>2. AgreeOn(y, z, s)
  BY <1>1 DEF AgreeOn
<1>. QED
  BY <1>2 DEF Apart

LEMMA NothingLeft ==
  ASSUME NEW x, NEW s, SamplesOf(x, s) = {}
  PROVE  ProfileOf(x, s) = NoProfile
<1>1. Cardinality({}) = 0
  BY FS_EmptySet
<1>. QED
  BY <1>1 DEF ProfileOf, NoProfile

\* What each statement does to the tables, and whom it leaves alone.
LEMMA ApartSelf == ASSUME NEW x, NEW some PROVE Apart(x, x, some)
BY DEF Apart, AgreeOn

LEMMA WithSpeakerKeeps ==
  ASSUME NEW x, Shaped(x), NEW n
  PROVE  Shaped(WithSpeaker(x, n)) /\ Apart(x, WithSpeaker(x, n), {})
<1> DEFINE y == WithSpeaker(x, n)
<1>1. /\ y.samples = x.samples /\ y.profiles = x.profiles
      /\ y.nextSample = x.nextSample /\ y.nextSpeaker \in Nat
      /\ DOMAIN y = DOMAIN x
  BY DEF WithSpeaker, Shaped
<1>. HIDE DEF y
<1>2. Shaped(y) /\ Apart(x, y, {})
  BY <1>1 DEF Shaped, Apart, AgreeOn, SamplesOf
<1>. QED
  BY <1>2 DEF y

LEMMA RenamedKeeps ==
  ASSUME NEW x, Shaped(x), NEW s, NEW n
  PROVE  Shaped(Renamed(x, s, n)) /\ Apart(x, Renamed(x, s, n), {})
<1> DEFINE y == Renamed(x, s, n)
<1>1. /\ y.samples = x.samples /\ y.profiles = x.profiles
      /\ y.nextSample = x.nextSample /\ y.nextSpeaker \in Nat
      /\ DOMAIN y = DOMAIN x
  BY DEF Renamed, Shaped
<1>. HIDE DEF y
<1>2. Shaped(y) /\ Apart(x, y, {})
  BY <1>1 DEF Shaped, Apart, AgreeOn, SamplesOf
<1>. QED
  BY <1>2 DEF y

LEMMA WithoutSamplesKeeps ==
  ASSUME NEW x, Shaped(x), NEW s, NEW gone, gone \subseteq SamplesOf(x, s)
  PROVE  Shaped(WithoutSamples(x, gone)) /\ Apart(x, WithoutSamples(x, gone), {s})
<1> DEFINE y == WithoutSamples(x, gone)
<1>1. /\ y.samples = [i \in SampleIds |-> IF i \in gone THEN NoSample ELSE x.samples[i]]
      /\ y.profiles = x.profiles
      /\ y.nextSample = x.nextSample /\ y.nextSpeaker \in Nat
      /\ DOMAIN y = DOMAIN x
  BY DEF WithoutSamples, Shaped
<1>. HIDE DEF y
<1>2. Shaped(y)
  BY <1>1 DEF Shaped
<1>3. Apart(x, y, {s})
  BY <1>1 DEF Apart, AgreeOn, SamplesOf
<1>. QED
  BY <1>2, <1>3 DEF y

LEMMA WithSampleKeeps ==
  ASSUME NEW x, Shaped(x), NEW r, IsSample(r)
  PROVE  Shaped(WithSample(x, r)) /\ Apart(x, WithSample(x, r), {r.of})
<1> DEFINE y == WithSample(x, r)
<1>1. /\ y.samples = [x.samples EXCEPT ![x.nextSample] = r]
      /\ y.profiles = x.profiles /\ y.nextSample = x.nextSample + 1
      /\ y.nextSpeaker \in Nat
      /\ DOMAIN y = DOMAIN x
  BY DEF WithSample, Shaped
<1>. HIDE DEF y
<1>2. \A i \in SampleIds : y.samples[i] = IF i = x.nextSample THEN r ELSE x.samples[i]
  BY <1>1 DEF Shaped
<1>3. y.samples = [i \in SampleIds |-> y.samples[i]]
  BY <1>1 DEF Shaped
<1>4. \A i \in SampleIds :
        /\ y.samples[i] # NoSample => IsSample(y.samples[i])
        /\ i >= y.nextSample => y.samples[i] = NoSample
  <2>1. \A i \in SampleIds : i \in Int
    BY DEF SampleIds
  <2>2. \A i \in SampleIds :
          i >= y.nextSample => i # x.nextSample /\ i >= x.nextSample
    BY <1>1, <2>1 DEF Shaped
  <2>3. \A i \in SampleIds : i >= x.nextSample => x.samples[i] = NoSample
    BY DEF Shaped
  <2>4. \A i \in SampleIds : x.samples[i] # NoSample => IsSample(x.samples[i])
    BY DEF Shaped
  <2>. QED
    BY <1>2, <2>2, <2>3, <2>4
<1>5. y.nextSample \in Nat
  BY <1>1 DEF Shaped
<1>6. y.profiles = [s \in SpeakerIds |-> y.profiles[s]]
  BY <1>1 DEF Shaped
<1>7. Shaped(y)
  BY <1>1, <1>3, <1>4, <1>5, <1>6 DEF Shaped
<1>8. x.nextSample \in SampleIds => x.samples[x.nextSample] = NoSample
  BY SpeakerStoreAssumption DEF Shaped, SampleIds
<1>9. \A s \in SpeakerIds \ {r.of} : AgreeOn(x, y, s)
  BY <1>2, <1>8 DEF AgreeOn, SamplesOf
<1>10. Apart(x, y, {r.of})
  BY <1>1, <1>9 DEF Apart
<1>. QED
  BY <1>10, <1>7 DEF y

LEMMA WithoutSpeakerKeeps ==
  ASSUME NEW x, Shaped(x), NEW s \in SpeakerIds
  PROVE  /\ Shaped(WithoutSpeaker(x, s)) /\ Apart(x, WithoutSpeaker(x, s), {s})
         /\ WithoutSpeaker(x, s).profiles[s] = ProfileOf(WithoutSpeaker(x, s), s)
<1> DEFINE w == WithoutSamples(x, SamplesOf(x, s))
           y == WithoutSpeaker(x, s)
<1>1. Shaped(w) /\ Apart(x, w, {s})
  BY WithoutSamplesKeeps
<1>2. w.samples = [i \in SampleIds |->
        IF i \in SamplesOf(x, s) THEN NoSample ELSE x.samples[i]]
  BY DEF WithoutSamples, Shaped
<1>3. y = [w EXCEPT !.speakers[s] = NoName, !.profiles[s] = NoProfile]
  BY DEF WithoutSpeaker
<1>. HIDE DEF w, y
<1>4. /\ y.samples = w.samples /\ y.profiles = [w.profiles EXCEPT ![s] = NoProfile]
      /\ y.nextSample = w.nextSample /\ y.nextSpeaker = w.nextSpeaker
      /\ DOMAIN y = DOMAIN x
  BY <1>1, <1>3 DEF Shaped
<1>5. \A q \in SpeakerIds : y.profiles[q] = IF q = s THEN NoProfile ELSE w.profiles[q]
  BY <1>1, <1>4 DEF Shaped
<1>6. y.profiles = [q \in SpeakerIds |-> y.profiles[q]]
  BY <1>1, <1>4 DEF Shaped
<1>7. Shaped(y)
  BY <1>1, <1>4, <1>6 DEF Shaped
<1>8. Apart(x, y, {s})
  BY <1>1, <1>4, <1>5 DEF Apart, AgreeOn, SamplesOf
<1>9. SamplesOf(y, s) = {}
  BY <1>2, <1>4 DEF SamplesOf
<1>. QED
  BY <1>5, <1>7, <1>8, <1>9, NothingLeft DEF y

LEMMA RebuiltKeeps ==
  ASSUME NEW x, Shaped(x), NEW s
  PROVE  /\ Shaped(Rebuilt(x, s)) /\ Apart(x, Rebuilt(x, s), {s})
         /\ s \in SpeakerIds => Rebuilt(x, s).profiles[s] = ProfileOf(Rebuilt(x, s), s)
<1> DEFINE y == Rebuilt(x, s)
<1>1. /\ y.samples = x.samples
      /\ y.profiles = [x.profiles EXCEPT ![s] = ProfileOf(x, s)]
      /\ y.nextSample = x.nextSample /\ y.speakers = x.speakers
      /\ y.nextSpeaker \in Nat
      /\ DOMAIN y = DOMAIN x
  BY DEF Rebuilt, Shaped
<1>. HIDE DEF y
<1>2. \A q \in SpeakerIds : y.profiles[q] = IF q = s THEN ProfileOf(x, s) ELSE x.profiles[q]
  BY <1>1 DEF Shaped
<1>3. y.profiles = [q \in SpeakerIds |-> y.profiles[q]]
  BY <1>1 DEF Shaped
<1>4. Shaped(y)
  BY <1>1, <1>3 DEF Shaped
<1>5. \A q : AgreeOn(x, y, q)
  BY <1>1 DEF AgreeOn, SamplesOf
<1>6. Apart(x, y, {s})
  BY <1>2, <1>5 DEF Apart
<1>7. ProfileOf(y, s) = ProfileOf(x, s)
  BY <1>5, SameProfile
<1>. QED
  BY <1>2, <1>4, <1>6, <1>7 DEF y

LEMMA SampleIsThere == ASSUME NEW r, IsSample(r) PROVE r # NoSample
<1>1. DOMAIN NoSample = {"of"}
  BY DEF NoSample
<1>2. DOMAIN [of |-> r.of, source |-> r.source, style |-> r.style, mic |-> r.mic,
              score |-> r.score] = {"of", "source", "style", "mic", "score"}
  OBVIOUS
<1>3. {"of", "source", "style", "mic", "score"} # {"of"}
  OBVIOUS
<1>. QED
  BY <1>1, <1>2, <1>3 DEF IsSample

\* What rescore_all_samples writes of one sample.
Rescored(x, i, score) == [x EXCEPT !.samples[i].score = score]

LEMMA RescoredKeeps ==
  ASSUME NEW x, Shaped(x), NEW i \in SampleIds, NEW score, x.samples[i] # NoSample
  PROVE  /\ Shaped(Rescored(x, i, score)) /\ Apart(x, Rescored(x, i, score), {})
         /\ Rescored(x, i, score).speakers = x.speakers
<1> DEFINE y == Rescored(x, i, score)
           r == x.samples[i]
           q == [of |-> r.of, source |-> r.source, style |-> r.style, mic |-> r.mic,
                 score |-> score]
<1>1. r = [of |-> r.of, source |-> r.source, style |-> r.style, mic |-> r.mic,
           score |-> r.score]
  BY DEF Shaped, IsSample
<1>2. [r EXCEPT !.score = score] = q
  BY <1>1
<1>3. IsSample(q) /\ q.of = r.of /\ q.style = r.style /\ q.mic = r.mic
  BY DEF IsSample
<1>. HIDE DEF q
<1>4. y = [speakers |-> x.speakers, samples |-> [x.samples EXCEPT ![i] = q],
           profiles |-> x.profiles, nextSpeaker |-> x.nextSpeaker,
           nextSample |-> x.nextSample]
  <2>1. y = [x EXCEPT !.samples = [x.samples EXCEPT ![i] = [r EXCEPT !.score = score]]]
    BY DEF Rescored, Shaped
  <2>. QED
    BY <1>2, <2>1 DEF Shaped
<1>. HIDE DEF y
<1>5. \A j \in SampleIds : y.samples[j] = IF j = i THEN q ELSE x.samples[j]
  BY <1>4 DEF Shaped
<1>6. y.samples = [j \in SampleIds |-> y.samples[j]]
  BY <1>4 DEF Shaped
<1>7. q # NoSample
  BY <1>3, SampleIsThere
<1>8. Shaped(y)
  BY <1>3, <1>4, <1>5, <1>6 DEF Shaped
<1>9. \A s : AgreeOn(x, y, s)
  BY <1>3, <1>5, <1>7 DEF AgreeOn, SamplesOf
<1>10. Apart(x, y, {})
  BY <1>4, <1>9 DEF Apart
<1>. QED
  BY <1>4, <1>8, <1>10 DEF y

-----------------------------------------------------------------------------
(* Whose rebuild is still to come.                                         *)

LoopHas(s) == loop.at = "rebuild" /\ loop.of = s
ThreadHas(t, s) == thread[t].at = "rebuild" /\ thread[t].of = s
Busy == {s \in SpeakerIds : LoopHas(s) \/ \E t \in Threads : ThreadHas(t, s)}
Open == spoiled \union Busy

\* Who is in a rebuild holds the lock.
RebuildsHoldTheLock ==
  /\ thread = [t \in Threads |-> thread[t]]
  /\ loop.at = "rebuild" <=> lock = Loop
  /\ \A t \in Threads : thread[t].at = "rebuild" <=> lock = t

TablesFit ==
  /\ Shaped(db) /\ Shaped(disk)
  /\ Fits(db, Open)
  /\ Apart(db, disk, Open)

\* Outside an enrolment of the loop's, and with no rebuild cut short, there is
\* no speaker that is not on disk.
SpeakersAreOnDisk ==
  spoiled = {} /\ loop.at \in {"idle", "find"} => db.speakers = disk.speakers

Kept == RebuildsHoldTheLock /\ TablesFit /\ SpeakersAreOnDisk

LEMMA FreeMeansNotBusy == ASSUME RebuildsHoldTheLock, lock = Free PROVE Busy = {}
BY SpeakerStoreAssumption DEF RebuildsHoldTheLock, Busy, LoopHas, ThreadHas

LEMMA LoopIsAlone ==
  ASSUME RebuildsHoldTheLock, loop.at = "rebuild"
  PROVE  /\ \A t \in Threads : thread[t].at # "rebuild"
         /\ Busy = {loop.of} \intersect SpeakerIds
BY SpeakerStoreAssumption DEF RebuildsHoldTheLock, Busy, LoopHas, ThreadHas

LEMMA ThreadIsAlone ==
  ASSUME RebuildsHoldTheLock, NEW t \in Threads, thread[t].at = "rebuild"
  PROVE  /\ loop.at # "rebuild"
         /\ \A u \in Threads \ {t} : thread[u].at # "rebuild"
         /\ Busy = {thread[t].of} \intersect SpeakerIds
BY SpeakerStoreAssumption DEF RebuildsHoldTheLock, Busy, LoopHas, ThreadHas

\* A statement that only changes speakers that are open after it.
LEMMA StatementFits ==
  ASSUME TablesFit, NEW some, Shaped(db'), Apart(db, db', some), disk' = disk,
         some \intersect SpeakerIds \subseteq Open',
         Open \intersect SpeakerIds \subseteq Open'
  PROVE  TablesFit'
<1>1. Fits(db', Open \union some) /\ Apart(db', disk', some \union Open)
  BY FitsApart, ApartTwice DEF TablesFit
<1>. QED
  BY <1>1 DEF TablesFit, Fits, Apart

\* A commit of what fits.
LEMMA CommitFits ==
  ASSUME Shaped(db'), disk' = db', Fits(db', Open')
  PROVE  TablesFit' /\ SpeakersAreOnDisk'
<1>1. Apart(db', disk', Open')
  BY ApartSelf
<1>. QED
  BY <1>1 DEF TablesFit, SpeakersAreOnDisk

-----------------------------------------------------------------------------
(* Steps of the web API.                                                   *)

LEMMA SpeakerStepsKeep ==
  ASSUME Kept,
         \/ \E n \in Names : create_speaker(n)
         \/ \E s \in SpeakerIds, n \in Names : edit_speaker(s, n)
         \/ \E s \in SpeakerIds : delete_speaker(s)
  PROVE  Kept'
<1>1. /\ UNCHANGED <<lock, loop, thread>> /\ lock = Free /\ disk' = db'
  BY DEF create_speaker, edit_speaker, delete_speaker, Ready, Commit
<1>2. RebuildsHoldTheLock' /\ Busy = {} /\ Busy' = {}
  <2>1. RebuildsHoldTheLock'
    BY <1>1 DEF Kept, RebuildsHoldTheLock
  <2>. QED
    BY <1>1, <2>1, FreeMeansNotBusy DEF Kept, Busy, LoopHas, ThreadHas
<1>3. Shaped(db') /\ Fits(db', Open')
  <2>1. ASSUME NEW n \in Names, create_speaker(n) PROVE Shaped(db') /\ Fits(db', Open')
    <3>1. Shaped(db') /\ Apart(db, db', {})
      BY <2>1, WithSpeakerKeeps DEF create_speaker, Kept, TablesFit
    <3>2. Fits(db', Open \union {}) /\ Open' = Open
      BY <1>2, <2>1, <3>1, FitsApart DEF create_speaker, Kept, TablesFit, Open
    <3>. QED
      BY <3>1, <3>2 DEF Fits
  <2>2. ASSUME NEW s \in SpeakerIds, NEW n \in Names, edit_speaker(s, n)
        PROVE  Shaped(db') /\ Fits(db', Open')
    <3>1. Shaped(db') /\ Apart(db, db', {})
      BY <2>2, RenamedKeeps DEF edit_speaker, Kept, TablesFit
    <3>2. Fits(db', Open \union {}) /\ Open' = Open
      BY <1>2, <2>2, <3>1, FitsApart DEF edit_speaker, Kept, TablesFit, Open
    <3>. QED
      BY <3>1, <3>2 DEF Fits
  <2>3. ASSUME NEW s \in SpeakerIds, delete_speaker(s)
        PROVE  Shaped(db') /\ Fits(db', Open')
    <3>1. /\ Shaped(db') /\ Apart(db, db', {s})
          /\ db'.profiles[s] = ProfileOf(db', s)
      BY <2>3, WithoutSpeakerKeeps DEF delete_speaker, Kept, TablesFit
    <3>2. Fits(db', Open \union {s}) /\ Open' = Open \ {s}
      BY <1>2, <2>3, <3>1, FitsApart DEF delete_speaker, Kept, TablesFit, Open
    <3>. QED
      BY <3>1, <3>2 DEF Fits
  <2>. QED
    BY <2>1, <2>2, <2>3
<1>. QED
  BY <1>1, <1>2, <1>3, CommitFits DEF Kept

\* Steps that leave the tables alone, and take no rebuild from anyone.
LEMMA StillKeeps ==
  ASSUME Kept, UNCHANGED <<db, disk, spoiled>>,
         RebuildsHoldTheLock', Busy \subseteq Busy',
         loop'.at \in {"idle", "find"} => loop.at \in {"idle", "find"}
  PROVE  Kept'
<1>1. Open \subseteq Open'
  BY DEF Open
<1>2. Shaped(db') /\ Apart(db, db', {})
  BY ApartSelf DEF Kept, TablesFit
<1>3. TablesFit'
  BY <1>1, <1>2, StatementFits DEF Kept
<1>. QED
  BY <1>3 DEF Kept, SpeakersAreOnDisk

LEMMA EnrolKeeps ==
  ASSUME Kept,
         \/ \E r \in Requests : enroll(r)
         \/ EnrollFind \/ EnrollInsert
         \/ \E i \in SampleIds : delete_sample(i)
  PROVE  Kept'
<1>1. CASE \E r \in Requests : enroll(r)
  <2>1. /\ UNCHANGED <<db, disk, spoiled, lock, thread>>
        /\ loop.at = "idle" /\ loop'.at = "find"
    BY <1>1 DEF enroll, Ready
  <2>2. RebuildsHoldTheLock' /\ Busy \subseteq Busy'
    BY <2>1 DEF Kept, RebuildsHoldTheLock, Busy, LoopHas, ThreadHas
  <2>. QED
    BY <2>1, <2>2, StillKeeps
<1>2. CASE EnrollFind
  <2>1. /\ UNCHANGED <<disk, spoiled, lock, thread>>
        /\ loop.at = "find" /\ loop'.at = "score"
        /\ \/ db' = db
           \/ \E n : db' = WithSpeaker(db, n)
    BY <1>2 DEF EnrollFind
  <2>2. RebuildsHoldTheLock' /\ Busy' = Busy
    BY <2>1 DEF Kept, RebuildsHoldTheLock, Busy, LoopHas, ThreadHas
  <2>3. Shaped(db') /\ Apart(db, db', {})
    BY <2>1, WithSpeakerKeeps, ApartSelf DEF Kept, TablesFit
  <2>4. TablesFit'
    BY <2>1, <2>2, <2>3, StatementFits DEF Kept, Open
  <2>. QED
    BY <2>1, <2>2, <2>4 DEF Kept, SpeakersAreOnDisk
<1>3. CASE EnrollInsert
  <2> DEFINE r == [of |-> loop.of, source |-> loop.rest[loop.next].source,
                   style |-> loop.rest[loop.next].style, mic |-> loop.rest[loop.next].mic,
                   score |-> 0]
  <2>1. /\ UNCHANGED <<disk, spoiled, thread>>
        /\ lock = Free /\ lock' = Loop
        /\ loop'.at = "rebuild" /\ loop'.of = loop.of
        /\ db' = WithSample(db, r)
    BY <1>3 DEF EnrollInsert
  <2>2. RebuildsHoldTheLock'
    BY <2>1, SpeakerStoreAssumption DEF Kept, RebuildsHoldTheLock
  <2>3. Busy = {} /\ Busy' = {loop.of} \intersect SpeakerIds
    BY <2>1, <2>2, FreeMeansNotBusy, SpeakerStoreAssumption
       DEF Kept, RebuildsHoldTheLock, Busy, LoopHas, ThreadHas
  <2>4. IsSample(r) /\ r.of = loop.of
    BY DEF IsSample
  <2>. HIDE DEF r
  <2>5. Shaped(db') /\ Apart(db, db', {loop.of})
    BY <2>1, <2>4, WithSampleKeeps DEF Kept, TablesFit
  <2>6. TablesFit'
    BY <2>1, <2>3, <2>5, StatementFits DEF Kept, Open
  <2>. QED
    BY <2>1, <2>2, <2>6 DEF Kept, SpeakersAreOnDisk
<1>4. ASSUME NEW i \in SampleIds, delete_sample(i) PROVE Kept'
  <2> DEFINE s == db.samples[i].of
  <2>1. /\ UNCHANGED <<disk, spoiled, thread>>
        /\ lock = Free /\ lock' = Loop
        /\ loop'.at = "rebuild" /\ loop'.of = s
        /\ db' = WithoutSamples(db, {i})
        /\ {i} \subseteq SamplesOf(db, s)
    BY <1>4 DEF delete_sample, Ready, SamplesOf
  <2>. HIDE DEF s
  <2>2. RebuildsHoldTheLock'
    BY <2>1, SpeakerStoreAssumption DEF Kept, RebuildsHoldTheLock
  <2>3. Busy = {} /\ Busy' = {s} \intersect SpeakerIds
    BY <2>1, <2>2, FreeMeansNotBusy, SpeakerStoreAssumption
       DEF Kept, RebuildsHoldTheLock, Busy, LoopHas, ThreadHas
  <2>4. Shaped(db') /\ Apart(db, db', {s})
    BY <2>1, WithoutSamplesKeeps DEF Kept, TablesFit
  <2>5. TablesFit'
    BY <2>1, <2>3, <2>4, StatementFits DEF Kept, Open
  <2>. QED
    BY <2>1, <2>2, <2>5 DEF Kept, SpeakersAreOnDisk
<1>. QED
  BY <1>1, <1>2, <1>3, <1>4

LEMMA RebuildKeeps == ASSUME Kept, LoopRebuild PROVE Kept'
<1> DEFINE s == loop.of
<1>1. /\ loop.at = "rebuild" /\ lock = Loop /\ lock' = Free
      /\ loop'.at \in {"idle", "find"} /\ UNCHANGED thread
      /\ db' = Rebuilt(db, s) /\ disk' = db' /\ spoiled' = spoiled \ {s}
  BY DEF LoopRebuild, Continue, IdleLoop, Commit, Kept, RebuildsHoldTheLock
<1>. HIDE DEF s
<1>2. RebuildsHoldTheLock'
  BY <1>1, LoopIsAlone, SpeakerStoreAssumption DEF Kept, RebuildsHoldTheLock
<1>3. Busy = {s} \intersect SpeakerIds /\ Busy' = {}
  BY <1>1, <1>2, LoopIsAlone, FreeMeansNotBusy
     DEF Kept, s, RebuildsHoldTheLock, Busy, LoopHas, ThreadHas
<1>4. /\ Shaped(db') /\ Apart(db, db', {s})
      /\ s \in SpeakerIds => db'.profiles[s] = ProfileOf(db', s)
  BY <1>1, RebuiltKeeps DEF Kept, TablesFit
<1>5. Fits(db', Open \union {s})
  BY <1>4, FitsApart DEF Kept, TablesFit
<1>6. Fits(db', Open')
  BY <1>1, <1>3, <1>4, <1>5 DEF Fits, Open
<1>. QED
  BY <1>1, <1>2, <1>4, <1>6, CommitFits DEF Kept

LEMMA FailureKeeps == ASSUME Kept, LoopFails PROVE Kept'
<1>1. /\ loop.at = "rebuild" /\ lock = Loop /\ lock' = Free
      /\ loop'.at \in {"idle", "find"} /\ UNCHANGED <<thread, db, disk>>
      /\ spoiled' = spoiled \union {loop.of}
  BY DEF LoopFails, Continue, IdleLoop, Kept, RebuildsHoldTheLock
<1>2. RebuildsHoldTheLock'
  BY <1>1, LoopIsAlone, SpeakerStoreAssumption DEF Kept, RebuildsHoldTheLock
<1>3. Open \subseteq Open'
  BY <1>1, LoopIsAlone DEF Kept, Open
<1>4. TablesFit'
  BY <1>1, <1>3, ApartSelf, StatementFits DEF Kept, TablesFit
<1>. QED
  BY <1>1, <1>2, <1>4 DEF Kept, SpeakersAreOnDisk

\* In replace mode everything is wiped and committed before the first sample
\* of the archive is enrolled.
LEMMA RestoreKeeps ==
  ASSUME Kept, NEW a \in Archives, NEW replace \in BOOLEAN, restore(a, replace)
  PROVE  Kept'
<1>1. /\ loop.at = "idle" /\ loop'.at = "find" /\ lock = Free
      /\ UNCHANGED <<lock, thread>>
  BY DEF restore, Ready
<1>2. RebuildsHoldTheLock' /\ Busy = {} /\ Busy' = {}
  <2>1. RebuildsHoldTheLock'
    BY <1>1 DEF Kept, RebuildsHoldTheLock
  <2>. QED
    BY <1>1, <2>1, FreeMeansNotBusy DEF Kept, Busy, LoopHas, ThreadHas
<1>3. CASE ~replace
  <2>1. UNCHANGED <<db, disk, spoiled>>
    BY <1>3 DEF restore
  <2>. QED
    BY <1>1, <1>2, <2>1, StillKeeps
<1>4. CASE replace
  <2> DEFINE y == [db EXCEPT !.speakers = [s \in SpeakerIds |-> NoName],
                             !.samples = [i \in SampleIds |-> NoSample],
                             !.profiles = [s \in SpeakerIds |-> NoProfile]]
  <2>1. db' = y /\ disk' = db'
    BY <1>4 DEF restore, Commit
  <2>2. /\ y.samples = [i \in SampleIds |-> NoSample]
        /\ y.profiles = [s \in SpeakerIds |-> NoProfile]
        /\ y.nextSample = db.nextSample /\ y.nextSpeaker = db.nextSpeaker
        /\ DOMAIN y = DOMAIN db
    BY DEF Kept, TablesFit, Shaped
  <2>. HIDE DEF y
  <2>3. Shaped(y)
    BY <2>2 DEF Kept, TablesFit, Shaped
  <2>4. \A s : SamplesOf(y, s) = {}
    BY <2>2 DEF SamplesOf
  <2>5. Fits(y, Open')
    BY <2>2, <2>4, NothingLeft DEF Fits
  <2>. QED
    BY <1>2, <2>1, <2>3, <2>5, CommitFits DEF Kept
<1>. QED
  BY <1>3, <1>4

-----------------------------------------------------------------------------
(* Steps of threads.                                                       *)

\* A thread that goes from one place to another, neither a rebuild.
LEMMA ThreadMoves ==
  ASSUME Kept, NEW t \in Threads, NEW to, thread[t].at # "rebuild", to.at # "rebuild",
         thread' = [thread EXCEPT ![t] = to], UNCHANGED <<loop, lock>>
  PROVE  RebuildsHoldTheLock' /\ Busy' = Busy
<1>1. \A u \in Threads : thread'[u] = IF u = t THEN to ELSE thread[u]
  BY DEF Kept, RebuildsHoldTheLock
<1>2. thread' = [u \in Threads |-> thread'[u]]
  BY DEF Kept, RebuildsHoldTheLock
<1>3. RebuildsHoldTheLock'
  BY <1>1, <1>2 DEF Kept, RebuildsHoldTheLock
<1>. QED
  BY <1>1, <1>3 DEF Busy, LoopHas, ThreadHas

LEMMA AutoInsertKeeps ==
  ASSUME Kept, NEW t \in Threads, NEW score \in Scores, NEW gone \in SUBSET SampleIds,
         AutoInsert(t, score, gone)
  PROVE  Kept'
<1> DEFINE s == thread[t].of
           r == [of |-> s, source |-> "auto", style |-> "normal",
                 mic |-> thread[t].mic, score |-> score]
           to == [at |-> "rebuild", of |-> s]
           w == WithoutSamples(db, gone)
<1>1. /\ UNCHANGED <<disk, loop, spoiled>> /\ lock = Free /\ lock' = t
      /\ thread' = [thread EXCEPT ![t] = to]
      /\ gone \in Replaced(db, s, score)
      /\ db' = WithSample(w, r)
  BY DEF AutoInsert
<1>2. IsSample(r) /\ r.of = s /\ to.at = "rebuild" /\ to.of = s
  BY DEF IsSample
<1>3. gone \subseteq SamplesOf(db, s)
  BY <1>1 DEF Replaced, kSubset, Worst, AutosOf
<1>. HIDE DEF s, r, to, w
<1>4. Shaped(w) /\ Apart(db, w, {s})
  BY <1>3, WithoutSamplesKeeps DEF w, Kept, TablesFit
<1>5. Shaped(db') /\ Apart(w, db', {s})
  BY <1>1, <1>2, <1>4, WithSampleKeeps
<1>6. Apart(db, db', {s})
  BY <1>4, <1>5 DEF Apart, AgreeOn
<1>7. \A u \in Threads : thread'[u] = IF u = t THEN to ELSE thread[u]
  BY <1>1 DEF Kept, RebuildsHoldTheLock
<1>8. thread' = [u \in Threads |-> thread'[u]]
  BY <1>1 DEF Kept, RebuildsHoldTheLock
<1>9. RebuildsHoldTheLock'
  BY <1>1, <1>2, <1>7, <1>8, SpeakerStoreAssumption DEF Kept, RebuildsHoldTheLock
<1>10. Busy = {} /\ Busy' = {s} \intersect SpeakerIds
  <2>1. loop'.at # "rebuild" /\ \A u \in Threads \ {t} : thread'[u].at # "rebuild"
    BY <1>1, <1>9, SpeakerStoreAssumption DEF RebuildsHoldTheLock
  <2>. QED
    BY <1>1, <1>2, <1>7, <2>1, FreeMeansNotBusy DEF Kept, Busy, LoopHas, ThreadHas
<1>11. TablesFit'
  BY <1>1, <1>5, <1>6, <1>10, StatementFits DEF Kept, Open
<1>12. db'.speakers = db.speakers
  <2>1. w.speakers = db.speakers
    BY DEF w, WithoutSamples, Kept, TablesFit, Shaped
  <2>2. WithSample(w, r).speakers = w.speakers
    BY <1>4 DEF WithSample, Shaped
  <2>. QED
    BY <1>1, <2>1, <2>2
<1>. QED
  BY <1>1, <1>9, <1>11, <1>12 DEF Kept, SpeakersAreOnDisk

LEMMA AutoEndKeeps ==
  ASSUME Kept, NEW t \in Threads, AutoRebuild(t) \/ AutoFails(t)
  PROVE  Kept'
<1> DEFINE s == thread[t].of
           to == [at |-> "idle"]
<1>1. /\ thread[t].at = "rebuild" /\ lock = t /\ lock' = Free
      /\ thread' = [thread EXCEPT ![t] = to] /\ UNCHANGED loop
  BY DEF AutoRebuild, AutoFails, Kept, RebuildsHoldTheLock
<1>2. to.at = "idle"
  OBVIOUS
<1>3. /\ loop.at # "rebuild" /\ Busy = {s} \intersect SpeakerIds
      /\ \A u \in Threads \ {t} : thread[u].at # "rebuild"
  BY <1>1, ThreadIsAlone DEF Kept
<1>. HIDE DEF s, to
<1>4. /\ thread' = [u \in Threads |-> thread'[u]]
      /\ \A u \in Threads : thread'[u] = IF u = t THEN to ELSE thread[u]
  BY <1>1 DEF Kept, RebuildsHoldTheLock
<1>5. \A u \in Threads : thread'[u].at # "rebuild"
  BY <1>2, <1>3, <1>4
<1>6. RebuildsHoldTheLock' /\ Busy' = {}
  BY <1>1, <1>3, <1>4, <1>5, SpeakerStoreAssumption
     DEF RebuildsHoldTheLock, Busy, LoopHas, ThreadHas
<1>7. CASE AutoRebuild(t)
  <2>1. db' = Rebuilt(db, s) /\ disk' = db' /\ spoiled' = spoiled \ {s}
    BY <1>7 DEF AutoRebuild, Commit, s
  <2>2. /\ Shaped(db') /\ Apart(db, db', {s})
        /\ s \in SpeakerIds => db'.profiles[s] = ProfileOf(db', s)
    BY <2>1, RebuiltKeeps DEF Kept, TablesFit
  <2>3. Fits(db', Open \union {s})
    BY <2>2, FitsApart DEF Kept, TablesFit
  <2>4. Fits(db', Open')
    BY <1>3, <1>6, <2>1, <2>2, <2>3 DEF Fits, Open
  <2>. QED
    BY <1>6, <2>1, <2>2, <2>4, CommitFits DEF Kept
<1>8. CASE AutoFails(t)
  <2>1. UNCHANGED <<db, disk>> /\ spoiled' = spoiled \union {s}
    BY <1>8 DEF AutoFails, s
  <2>2. Open \subseteq Open'
    BY <1>3, <2>1 DEF Open
  <2>3. TablesFit'
    BY <2>1, <2>2, ApartSelf, StatementFits DEF Kept, TablesFit
  <2>. QED
    BY <1>1, <1>6, <2>1, <2>3 DEF Kept, SpeakersAreOnDisk
<1>. QED
  BY <1>7, <1>8

LEMMA AutoStepKeeps == ASSUME Kept, NEW t \in Threads, AutoStep(t) PROVE Kept'
<1>1. ASSUME NEW s \in SpeakerIds, NEW mic \in Mics, AutoStart(t, s, mic) PROVE Kept'
  <2> DEFINE to == [at |-> "score", of |-> s, mic |-> mic]
  <2>1. /\ thread[t].at # "rebuild" /\ to.at # "rebuild"
        /\ thread' = [thread EXCEPT ![t] = to]
        /\ UNCHANGED <<db, disk, spoiled, loop, lock>>
    BY <1>1 DEF AutoStart
  <2>. HIDE DEF to
  <2>. QED
    BY <2>1, ThreadMoves, StillKeeps
<1>2. ASSUME AutoSkips(t) PROVE Kept'
  <2> DEFINE to == [at |-> "idle"]
  <2>1. /\ thread[t].at # "rebuild" /\ to.at # "rebuild"
        /\ thread' = [thread EXCEPT ![t] = to]
        /\ UNCHANGED <<db, disk, spoiled, loop, lock>>
    BY <1>2 DEF AutoSkips
  <2>. HIDE DEF to
  <2>. QED
    BY <2>1, ThreadMoves, StillKeeps
<1>. QED
  BY <1>1, <1>2, AutoInsertKeeps, AutoEndKeeps DEF AutoStep

\* A commit by somebody else, or at the end of a rescoring or a recalibration,
\* makes permanent what is open, and nothing of it is worse for that.
LEMMA OtherCommitKeeps ==
  ASSUME Kept, disk' = db, UNCHANGED <<db, lock, loop, thread, spoiled>>
  PROVE  Kept'
<1>1. RebuildsHoldTheLock' /\ Open' = Open
  BY DEF Kept, RebuildsHoldTheLock, Open, Busy, LoopHas, ThreadHas
<1>. QED
  BY <1>1, CommitFits DEF Kept, TablesFit

LEMMA RescoreKeeps == ASSUME Kept, Rescore PROVE Kept'
<1>1. CASE \E s \in SpeakerIds : RescoreStart(s)
  <2>1. UNCHANGED <<db, disk, lock, loop, thread, spoiled>>
    BY <1>1 DEF RescoreStart
  <2>. QED
    BY <2>1, StillKeeps DEF Kept, RebuildsHoldTheLock, Busy, LoopHas, ThreadHas
<1>2. ASSUME NEW i \in SampleIds, NEW score \in Scores \ {0}, RescoreSample(i, score)
      PROVE  Kept'
  <2>1. UNCHANGED <<disk, lock, loop, thread, spoiled>>
    BY <1>2 DEF RescoreSample
  <2>2. RebuildsHoldTheLock' /\ Open' = Open
    BY <2>1 DEF Kept, RebuildsHoldTheLock, Open, Busy, LoopHas, ThreadHas
  <2>3. Shaped(db') /\ Apart(db, db', {}) /\ db'.speakers = db.speakers
    <3>1. CASE db.samples[i] = NoSample
      BY <1>2, <3>1, ApartSelf DEF RescoreSample, Kept, TablesFit
    <3>2. CASE db.samples[i] # NoSample
      <4>1. db' = Rescored(db, i, score)
        BY <1>2, <3>2 DEF RescoreSample, Rescored
      <4>. QED
        BY <3>2, <4>1, RescoredKeeps DEF Kept, TablesFit
    <3>. QED
      BY <3>1, <3>2
  <2>4. TablesFit'
    BY <2>1, <2>2, <2>3, StatementFits DEF Kept
  <2>. QED
    BY <2>1, <2>2, <2>3, <2>4 DEF Kept, SpeakersAreOnDisk
<1>3. CASE RescoreEnd
  BY <1>3, OtherCommitKeeps DEF RescoreEnd
<1>. QED
  BY <1>1, <1>2, <1>3 DEF Rescore

LEMMA RecalKeeps == ASSUME Kept, RecalPass \/ RecalRead \/ RecalEnd PROVE Kept'
<1>1. CASE RecalPass \/ RecalRead
  <2>1. UNCHANGED <<db, disk, lock, loop, thread, spoiled>>
    BY <1>1 DEF RecalPass, RecalRead
  <2>. QED
    BY <2>1, StillKeeps DEF Kept, RebuildsHoldTheLock, Busy, LoopHas, ThreadHas
<1>2. CASE RecalEnd
  BY <1>2, OtherCommitKeeps DEF RecalEnd
<1>. QED
  BY <1>1, <1>2

-----------------------------------------------------------------------------
(* Crash.                                                                  *)

\* What was committed fits, but for the speakers that were open.
LEMMA CrashKeeps == ASSUME Kept, Crash PROVE Kept'
<1>1. /\ db' = disk /\ disk' = disk /\ lock' = Free /\ loop' = [at |-> "idle"]
      /\ thread' = [t \in Threads |-> [at |-> "idle"]]
  BY DEF Crash, IdleLoop
<1>2. RebuildsHoldTheLock'
  BY <1>1, SpeakerStoreAssumption DEF RebuildsHoldTheLock
<1>3. Open \subseteq Open'
  BY DEF Crash, Open, Busy, LoopHas, ThreadHas
<1>4. Fits(disk, Open)
  <2>1. Fits(disk, Open \union Open)
    BY FitsApart DEF Kept, TablesFit
  <2>. QED
    BY <2>1 DEF Fits
<1>5. Shaped(db') /\ Fits(db', Open') /\ disk' = db'
  BY <1>1, <1>3, <1>4 DEF Kept, TablesFit, Fits
<1>. QED
  BY <1>2, <1>5, CommitFits DEF Kept

-----------------------------------------------------------------------------
(* The theorems.                                                           *)

LEMMA KeptInit == Init => Kept
<1> SUFFICES ASSUME Init PROVE Kept
  OBVIOUS
<1>1. RebuildsHoldTheLock
  BY SpeakerStoreAssumption DEF Init, IdleLoop, RebuildsHoldTheLock
<1>2. /\ db.samples = [i \in SampleIds |-> NoSample]
      /\ db.profiles = [s \in SpeakerIds |-> NoProfile]
      /\ disk = db
  BY DEF Init
<1>3. Shaped(db)
  BY DEF Init, Shaped
<1>4. \A s : SamplesOf(db, s) = {}
  BY <1>2 DEF SamplesOf
<1>5. Fits(db, Open)
  BY <1>2, <1>4, NothingLeft DEF Fits
<1>. QED
  BY <1>1, <1>2, <1>3, <1>5, ApartSelf DEF Kept, TablesFit, SpeakersAreOnDisk

LEMMA KeptNext == Kept /\ [Next]_vars => Kept'
<1> SUFFICES ASSUME Kept, [Next]_vars PROVE Kept'
  OBVIOUS
<1>1. CASE Api
  BY <1>1, SpeakerStepsKeep, EnrolKeeps, RestoreKeeps DEF Api
<1>2. CASE LoopStep
  BY <1>2, EnrolKeeps, RebuildKeeps, FailureKeeps DEF LoopStep
<1>3. CASE \E t \in Threads : AutoStep(t)
  BY <1>3, AutoStepKeeps
<1>4. CASE Rescore \/ RecalPass \/ RecalRead \/ RecalEnd
  BY <1>4, RescoreKeeps, RecalKeeps
<1>5. CASE ForeignCommit
  BY <1>5, OtherCommitKeeps DEF ForeignCommit
<1>6. CASE Crash
  BY <1>6, CrashKeeps
<1>7. CASE UNCHANGED vars
  BY <1>7, StillKeeps DEF Kept, RebuildsHoldTheLock, Busy, LoopHas, ThreadHas
<1>. QED
  BY <1>1, <1>2, <1>3, <1>4, <1>5, <1>6, <1>7 DEF Next

LEMMA SpecKept == Spec => []Kept
BY KeptInit, KeptNext, PTL DEF Spec

\* Whenever nobody holds the lock, the voiceprints of every speaker are those
\* of its samples, whatever came between the scoring and the insert of another;
\* except after a rebuild that an error or a crash cut short.
THEOREM ProfilesStayFit == Spec => []ProfilesFitSamples
<1>1. Kept => ProfilesFitSamples
  BY FreeMeansNotBusy DEF Kept, TablesFit, Fits, Open, ProfilesFitSamples
<1>. QED
  BY <1>1, SpecKept, PTL

\* With nobody in an operation, a crash takes or brings back no sample, no
\* voiceprint and no speaker, though all stores commit one connection.
THEOREM WhatIsDoneIsDurable == Spec => []DoneIsDurable
<1>1. Kept => DoneIsDurable
  <2> SUFFICES ASSUME Kept, lock = Free, loop.at = "idle"
               PROVE  /\ \A s \in SpeakerIds \ spoiled :
                           /\ SamplesOf(db, s) = SamplesOf(disk, s)
                           /\ db.profiles[s] = disk.profiles[s]
                      /\ spoiled = {} => db.speakers = disk.speakers
    BY DEF DoneIsDurable
  <2>1. Open = spoiled
    BY FreeMeansNotBusy DEF Kept, Open
  <2>2. \A s \in SpeakerIds \ spoiled :
          AgreeOn(db, disk, s) /\ db.profiles[s] = disk.profiles[s]
    BY <2>1 DEF Kept, TablesFit, Apart
  <2>. QED
    BY <2>2, SameProfile DEF Kept, SpeakersAreOnDisk
<1>. QED
  BY <1>1, SpecKept, PTL
-----------------------------------------------------------------------------
(* The cap on automatic samples.  An auto-enrolment counts them in the     *)
(* step that inserts one.  A restore brings automatic samples back without *)
(* counting, so the strengthening counts those it has still to insert: for *)
(* every speaker, its automatic samples and those to come under its name   *)
(* are within the cap, and no thread is about to insert one for a speaker  *)
(* whose samples a restore is bringing back.                               *)

AutoRows(rest, n) == {k \in DOMAIN rest : rest[k].source = "auto" /\ rest[k].name = n}

\* Ids are handed out upwards, so that a new speaker has no samples.
Numbered(x) ==
  /\ x.speakers = [s \in SpeakerIds |-> x.speakers[s]]
  /\ \A s \in SpeakerIds : Exists(x, s) => s < x.nextSpeaker
  /\ \A i \in SampleIds : x.samples[i] # NoSample =>
       x.samples[i].of \in Nat /\ x.samples[i].of < x.nextSpeaker

Capped(x) == \A s \in SpeakerIds : Cardinality(AutosOf(x, s)) <= AutoCap

RestFits ==
  loop.at # "idle" =>
    /\ IsFiniteSet(DOMAIN loop.rest)
    /\ \A k \in DOMAIN loop.rest : loop.rest[k].name \in Names
    /\ \A n \in Names : Cardinality(AutoRows(loop.rest, n)) <= AutoCap
    /\ \A s \in SpeakerIds : Exists(db, s) =>
         Cardinality(AutosOf(db, s))
           + Cardinality(AutoRows(loop.rest, db.speakers[s])) <= AutoCap

ScoreFits ==
  loop.at = "score" =>
    /\ loop.next \in DOMAIN loop.rest
    /\ loop.of \in Nat /\ loop.of < db.nextSpeaker
    /\ loop.of \in SpeakerIds => db.speakers[loop.of] = loop.rest[loop.next].name

ThreadsFit ==
  \A t \in Threads : thread[t].at = "score" =>
    /\ thread[t].of \in SpeakerIds /\ thread[t].of < db.nextSpeaker
    /\ loop.at # "idle" /\ Exists(db, thread[t].of) =>
         AutoRows(loop.rest, db.speakers[thread[t].of]) = {}

TablesCapped == Numbered(db) /\ Numbered(disk) /\ Capped(db) /\ Capped(disk)

CapIInv == TablesCapped /\ RestFits /\ ScoreFits /\ ThreadsFit

LEMMA AutosAreFinite ==
  ASSUME NEW x, NEW s
  PROVE  IsFiniteSet(AutosOf(x, s)) /\ Cardinality(AutosOf(x, s)) \in Nat
<1>1. IsFiniteSet(SampleIds)
  BY FS_Interval, SpeakerStoreAssumption DEF SampleIds
<1>2. AutosOf(x, s) \in SUBSET SampleIds
  BY DEF AutosOf, SamplesOf
<1>. QED
  BY <1>1, <1>2, FS_Subset, FS_CardinalityType

LEMMA FewerAutos ==
  ASSUME NEW x, NEW y, NEW s, AutosOf(y, s) \subseteq AutosOf(x, s)
  PROVE  /\ Cardinality(AutosOf(y, s)) \in Nat /\ Cardinality(AutosOf(x, s)) \in Nat
         /\ Cardinality(AutosOf(y, s)) <= Cardinality(AutosOf(x, s))
BY AutosAreFinite, FS_Subset

LEMMA OneMoreAuto ==
  ASSUME NEW x, NEW y, NEW s, NEW i, AutosOf(y, s) \subseteq AutosOf(x, s) \union {i}
  PROVE  Cardinality(AutosOf(y, s)) <= Cardinality(AutosOf(x, s)) + 1
<1>1. /\ IsFiniteSet(AutosOf(x, s) \union {i})
      /\ Cardinality(AutosOf(x, s)) \in Nat /\ Cardinality(AutosOf(y, s)) \in Nat
      /\ Cardinality(AutosOf(x, s) \union {i}) <= Cardinality(AutosOf(x, s)) + 1
  BY AutosAreFinite, FS_AddElement
<1>2. Cardinality(AutosOf(y, s)) <= Cardinality(AutosOf(x, s) \union {i})
  BY <1>1, FS_Subset
<1>3. Cardinality(AutosOf(x, s) \union {i}) \in Nat
  BY <1>1, FS_CardinalityType
<1>. QED
  BY <1>1, <1>2, <1>3

LEMMA RowsAreFinite ==
  ASSUME NEW rest, NEW n, IsFiniteSet(DOMAIN rest)
  PROVE  IsFiniteSet(AutoRows(rest, n)) /\ Cardinality(AutoRows(rest, n)) \in Nat
<1>1. AutoRows(rest, n) \in SUBSET DOMAIN rest
  BY DEF AutoRows
<1>. QED
  BY <1>1, FS_Subset, FS_CardinalityType

\* From x to y no speaker comes, goes or takes another name, and none has an
\* automatic sample more.
NoMore(x, y) ==
  /\ Numbered(y)
  /\ y.speakers = x.speakers /\ y.nextSpeaker = x.nextSpeaker
  /\ \A s : AutosOf(y, s) \subseteq AutosOf(x, s)

LEMMA NoMoreIsCapped ==
  ASSUME NEW x, NEW y, NoMore(x, y), Capped(x)
  PROVE  Capped(y)
<1> SUFFICES ASSUME NEW s \in SpeakerIds PROVE Cardinality(AutosOf(y, s)) <= AutoCap
  BY DEF Capped
<1>1. Cardinality(AutosOf(x, s)) <= AutoCap
  BY DEF Capped
<1>2. AutosOf(y, s) \subseteq AutosOf(x, s)
  BY DEF NoMore
<1>. QED
  BY <1>1, <1>2, FewerAutos, SpeakerStoreAssumption

LEMMA NoMoreSelf == ASSUME NEW x, Numbered(x) PROVE NoMore(x, x)
BY DEF NoMore

\* What each statement does to speakers and automatic samples.
LEMMA WithSpeakerAutos ==
  ASSUME NEW x, Shaped(x), Numbered(x), NEW n
  PROVE  LET y == WithSpeaker(x, n) IN
         /\ Numbered(y) /\ y.nextSpeaker = x.nextSpeaker + 1
         /\ \A s \in SpeakerIds :
              y.speakers[s] = IF s = x.nextSpeaker THEN n ELSE x.speakers[s]
         /\ \A s : AutosOf(y, s) = AutosOf(x, s)
         /\ AutosOf(y, x.nextSpeaker) = {}
<1> DEFINE y == WithSpeaker(x, n)
<1>1. /\ y.samples = x.samples /\ y.nextSpeaker = x.nextSpeaker + 1
      /\ y.speakers = [x.speakers EXCEPT ![x.nextSpeaker] = n]
  BY DEF WithSpeaker, Shaped
<1>. HIDE DEF y
<1>2. \A s \in SpeakerIds :
        y.speakers[s] = IF s = x.nextSpeaker THEN n ELSE x.speakers[s]
  BY <1>1 DEF Numbered
<1>3. y.speakers = [s \in SpeakerIds |-> y.speakers[s]]
  BY <1>1 DEF Numbered
<1>4. \A s \in SpeakerIds : s \in Nat
  BY SpeakerStoreAssumption DEF SpeakerIds
<1>5. Numbered(y)
  BY <1>1, <1>2, <1>3, <1>4 DEF Numbered, Exists, Shaped
<1>6. \A s : AutosOf(y, s) = AutosOf(x, s)
  BY <1>1 DEF AutosOf, SamplesOf
<1>7. AutosOf(x, x.nextSpeaker) = {}
  BY DEF AutosOf, SamplesOf, Numbered, Shaped
<1>. QED
  BY <1>1, <1>2, <1>5, <1>6, <1>7 DEF y

LEMMA RenamedAutos ==
  ASSUME NEW x, Shaped(x), Numbered(x), NEW s \in SpeakerIds, Exists(x, s), NEW n
  PROVE  LET y == Renamed(x, s, n) IN
         /\ Numbered(y) /\ y.nextSpeaker = x.nextSpeaker
         /\ \A q : AutosOf(y, q) = AutosOf(x, q)
<1> DEFINE y == Renamed(x, s, n)
<1>1. /\ y.samples = x.samples /\ y.nextSpeaker = x.nextSpeaker
      /\ y.speakers = [x.speakers EXCEPT ![s] = n]
  BY DEF Renamed, Shaped
<1>. HIDE DEF y
<1>2. Numbered(y)
  BY <1>1 DEF Numbered, Exists
<1>3. \A q : AutosOf(y, q) = AutosOf(x, q)
  BY <1>1 DEF AutosOf, SamplesOf
<1>. QED
  BY <1>1, <1>2, <1>3 DEF y

LEMMA WithoutSamplesAutos ==
  ASSUME NEW x, Shaped(x), Numbered(x), NEW gone
  PROVE  /\ NoMore(x, WithoutSamples(x, gone))
         /\ \A s : AutosOf(WithoutSamples(x, gone), s) = AutosOf(x, s) \ gone
<1> DEFINE y == WithoutSamples(x, gone)
<1>1. /\ y.samples = [i \in SampleIds |-> IF i \in gone THEN NoSample ELSE x.samples[i]]
      /\ y.speakers = x.speakers /\ y.nextSpeaker = x.nextSpeaker
  BY DEF WithoutSamples, Shaped
<1>. HIDE DEF y
<1>2. Numbered(y)
  BY <1>1 DEF Numbered, Exists
<1>3. \A s : AutosOf(y, s) = AutosOf(x, s) \ gone
  BY <1>1 DEF AutosOf, SamplesOf
<1>. QED
  BY <1>1, <1>2, <1>3 DEF y, NoMore

LEMMA WithSampleAutos ==
  ASSUME NEW x, Shaped(x), Numbered(x), NEW r, IsSample(r),
         r.of \in Nat, r.of < x.nextSpeaker
  PROVE  LET y == WithSample(x, r) IN
         /\ Numbered(y) /\ y.speakers = x.speakers /\ y.nextSpeaker = x.nextSpeaker
         /\ \A s : s # r.of \/ r.source # "auto" => AutosOf(y, s) = AutosOf(x, s)
         /\ AutosOf(y, r.of) \subseteq AutosOf(x, r.of) \union {x.nextSample}
<1> DEFINE y == WithSample(x, r)
<1>1. /\ y.samples = [x.samples EXCEPT ![x.nextSample] = r]
      /\ y.speakers = x.speakers /\ y.nextSpeaker = x.nextSpeaker
  BY DEF WithSample, Shaped
<1>. HIDE DEF y
<1>2. \A i \in SampleIds : y.samples[i] = IF i = x.nextSample THEN r ELSE x.samples[i]
  BY <1>1 DEF Shaped
<1>3. Numbered(y)
  BY <1>1, <1>2 DEF Numbered, Exists
<1>4. x.nextSample \in SampleIds => x.samples[x.nextSample] = NoSample
  BY SpeakerStoreAssumption DEF Shaped, SampleIds
<1>5. \A s : s # r.of \/ r.source # "auto" => AutosOf(y, s) = AutosOf(x, s)
  BY <1>2, <1>4 DEF AutosOf, SamplesOf
<1>6. AutosOf(y, r.of) \subseteq AutosOf(x, r.of) \union {x.nextSample}
  BY <1>2 DEF AutosOf, SamplesOf
<1>. QED
  BY <1>1, <1>3, <1>5, <1>6 DEF y

LEMMA WithoutSpeakerAutos ==
  ASSUME NEW x, Shaped(x), Numbered(x), NEW s \in SpeakerIds
  PROVE  LET y == WithoutSpeaker(x, s) IN
         /\ Numbered(y) /\ y.nextSpeaker = x.nextSpeaker
         /\ \A q : AutosOf(y, q) \subseteq AutosOf(x, q)
<1> DEFINE w == WithoutSamples(x, SamplesOf(x, s))
           y == WithoutSpeaker(x, s)
<1>1. NoMore(x, w) /\ Shaped(w)
  BY WithoutSamplesAutos, WithoutSamplesKeeps
<1>2. y = [w EXCEPT !.speakers[s] = NoName, !.profiles[s] = NoProfile]
  BY DEF WithoutSpeaker
<1>. HIDE DEF w, y
<1>3. /\ y.samples = w.samples /\ y.nextSpeaker = w.nextSpeaker
      /\ y.speakers = [w.speakers EXCEPT ![s] = NoName]
  BY <1>1, <1>2 DEF Shaped
<1>4. Numbered(y)
  BY <1>1, <1>3 DEF NoMore, Numbered, Exists
<1>5. \A q : AutosOf(y, q) = AutosOf(w, q)
  BY <1>3 DEF AutosOf, SamplesOf
<1>. QED
  BY <1>1, <1>3, <1>4, <1>5 DEF NoMore, y

LEMMA RebuiltAutos ==
  ASSUME NEW x, Shaped(x), Numbered(x), NEW s
  PROVE  NoMore(x, Rebuilt(x, s))
<1> DEFINE y == Rebuilt(x, s)
<1>1. /\ y.samples = x.samples /\ y.speakers = x.speakers
      /\ y.nextSpeaker = x.nextSpeaker
  BY DEF Rebuilt, Shaped
<1>. HIDE DEF y
<1>2. NoMore(x, y)
  BY <1>1 DEF NoMore, Numbered, Exists, AutosOf, SamplesOf
<1>. QED
  BY <1>2 DEF y

LEMMA RescoredAutos ==
  ASSUME NEW x, Shaped(x), Numbered(x), NEW i \in SampleIds, NEW score,
         x.samples[i] # NoSample
  PROVE  NoMore(x, Rescored(x, i, score))
<1> DEFINE y == Rescored(x, i, score)
           r == x.samples[i]
           q == [r EXCEPT !.score = score]
<1>1. r = [of |-> r.of, source |-> r.source, style |-> r.style, mic |-> r.mic,
           score |-> r.score]
  BY DEF Shaped, IsSample
<1>2. q.of = r.of /\ q.source = r.source /\ r # NoSample
  BY <1>1
<1>. HIDE DEF q
<1>3. /\ y.samples = [x.samples EXCEPT ![i] = q] /\ y.speakers = x.speakers
      /\ y.nextSpeaker = x.nextSpeaker
  BY DEF Rescored, Shaped, q
<1>. HIDE DEF y
<1>4. \A j \in SampleIds : y.samples[j] = IF j = i THEN q ELSE x.samples[j]
  BY <1>3 DEF Shaped
<1>5. Numbered(y)
  BY <1>2, <1>3, <1>4 DEF Numbered, Exists
<1>6. \A s : AutosOf(y, s) \subseteq AutosOf(x, s)
  BY <1>2, <1>4 DEF AutosOf, SamplesOf
<1>. QED
  BY <1>3, <1>5, <1>6 DEF NoMore, y

\* A step that gives nobody an automatic sample, and neither starts an
\* operation of the loop nor sends a thread to insert.
LEMMA NoMoreFits ==
  ASSUME CapIInv, NoMore(db, db'), disk' = disk \/ disk' = db',
         \/ UNCHANGED loop
         \/ loop'.at = "idle"
         \/ loop.at # "idle" /\ loop'.at = "find" /\ loop'.rest = loop.rest,
         \A t \in Threads : thread'[t].at = "score" => thread'[t] = thread[t]
  PROVE  CapIInv'
<1>1. TablesCapped'
  BY NoMoreIsCapped DEF CapIInv, TablesCapped, NoMore
<1>2. /\ db'.speakers = db.speakers /\ db'.nextSpeaker = db.nextSpeaker
      /\ \A s : AutosOf(db', s) \subseteq AutosOf(db, s)
      /\ \A s : Exists(db', s) <=> Exists(db, s)
  BY DEF NoMore, Exists
<1>3. loop'.at # "idle" => loop.at # "idle" /\ loop'.rest = loop.rest
  OBVIOUS
<1>4. RestFits'
  <2> SUFFICES ASSUME loop'.at # "idle", NEW s \in SpeakerIds, Exists(db', s)
               PROVE  Cardinality(AutosOf(db', s))
                        + Cardinality(AutoRows(loop'.rest, db'.speakers[s])) <= AutoCap
    BY <1>3 DEF RestFits, CapIInv
  <2>1. Cardinality(AutosOf(db, s))
          + Cardinality(AutoRows(loop.rest, db.speakers[s])) <= AutoCap
    BY <1>2, <1>3 DEF RestFits, CapIInv
  <2>2. Cardinality(AutoRows(loop.rest, db.speakers[s])) \in Nat
    BY <1>3, RowsAreFinite DEF RestFits, CapIInv
  <2>3. /\ Cardinality(AutosOf(db', s)) \in Nat /\ Cardinality(AutosOf(db, s)) \in Nat
        /\ Cardinality(AutosOf(db', s)) <= Cardinality(AutosOf(db, s))
    BY <1>2, FewerAutos
  <2>4. loop'.rest = loop.rest /\ db'.speakers = db.speakers
    BY <1>2, <1>3
  <2>. QED
    BY <2>1, <2>2, <2>3, <2>4, SpeakerStoreAssumption
<1>5. ScoreFits'
  BY <1>2 DEF ScoreFits, CapIInv
<1>6. ThreadsFit'
  BY <1>2, <1>3 DEF ThreadsFit, CapIInv
<1>. QED
  BY <1>1, <1>4, <1>5, <1>6 DEF CapIInv

\* A step of the idle loop that inserts no sample.
LEMMA IdleFits ==
  ASSUME CapIInv, Shaped(db), Numbered(db'), disk' = db',
         db'.nextSpeaker \in Nat, db.nextSpeaker <= db'.nextSpeaker,
         \A s : AutosOf(db', s) \subseteq AutosOf(db, s),
         loop.at = "idle", UNCHANGED <<loop, thread>>
  PROVE  CapIInv'
<1>1. Capped(db')
  <2> SUFFICES ASSUME NEW s \in SpeakerIds
               PROVE  Cardinality(AutosOf(db', s)) <= AutoCap
    BY DEF Capped
  <2>1. Cardinality(AutosOf(db, s)) <= AutoCap
    BY DEF CapIInv, TablesCapped, Capped
  <2>. QED
    BY <2>1, FewerAutos, SpeakerStoreAssumption
<1>2. TablesCapped'
  BY <1>1 DEF TablesCapped
<1>3. RestFits' /\ ScoreFits'
  BY DEF RestFits, ScoreFits
<1>4. ThreadsFit'
  <2>1. \A s \in SpeakerIds : s \in Nat
    BY SpeakerStoreAssumption DEF SpeakerIds
  <2>. QED
    BY <2>1 DEF CapIInv, ThreadsFit, Shaped
<1>. QED
  BY <1>2, <1>3, <1>4 DEF CapIInv

\* The loop starts an operation whose samples to come are of nobody who is
\* there.
LEMMA StartFits ==
  ASSUME CapIInv, Numbered(db'), Capped(db'), disk' = disk \/ disk' = db',
         db'.nextSpeaker = db.nextSpeaker, UNCHANGED thread,
         loop'.at \notin {"idle", "score"},
         IsFiniteSet(DOMAIN loop'.rest),
         \A k \in DOMAIN loop'.rest : loop'.rest[k].name \in Names,
         \A n \in Names : Cardinality(AutoRows(loop'.rest, n)) <= AutoCap,
         \A s \in SpeakerIds :
           Exists(db', s) => AutoRows(loop'.rest, db'.speakers[s]) = {}
  PROVE  CapIInv'
<1>1. TablesCapped'
  BY DEF CapIInv, TablesCapped
<1>2. RestFits'
  <2> SUFFICES ASSUME NEW s \in SpeakerIds, Exists(db', s)
               PROVE  Cardinality(AutosOf(db', s))
                        + Cardinality(AutoRows(loop'.rest, db'.speakers[s])) <= AutoCap
    BY DEF RestFits
  <2>1. Cardinality(AutoRows(loop'.rest, db'.speakers[s])) = 0
    BY FS_EmptySet
  <2>2. Cardinality(AutosOf(db', s)) \in Nat /\ Cardinality(AutosOf(db', s)) <= AutoCap
    BY AutosAreFinite DEF Capped
  <2>. QED
    BY <2>1, <2>2
<1>3. ScoreFits'
  BY DEF ScoreFits
<1>4. ThreadsFit'
  BY DEF CapIInv, ThreadsFit
<1>. QED
  BY <1>1, <1>2, <1>3, <1>4 DEF CapIInv

LEMMA SpeakerStepsFit ==
  ASSUME Kept, CapIInv,
         \/ \E n \in Names : create_speaker(n)
         \/ \E s \in SpeakerIds, n \in Names : edit_speaker(s, n)
         \/ \E s \in SpeakerIds : delete_speaker(s)
  PROVE  CapIInv'
<1>1. Shaped(db) /\ Numbered(db) /\ db.nextSpeaker \in Nat
  BY DEF Kept, TablesFit, CapIInv, TablesCapped, Shaped
<1>2. loop.at = "idle" /\ UNCHANGED <<loop, thread>> /\ disk' = db'
  BY DEF create_speaker, edit_speaker, delete_speaker, Ready, Commit
<1>3. /\ Numbered(db') /\ db'.nextSpeaker \in Nat /\ db.nextSpeaker <= db'.nextSpeaker
      /\ \A s : AutosOf(db', s) \subseteq AutosOf(db, s)
  <2>1. CASE \E n \in Names : create_speaker(n)
    BY <1>1, <2>1, WithSpeakerAutos DEF create_speaker
  <2>2. CASE \E s \in SpeakerIds, n \in Names : edit_speaker(s, n)
    BY <1>1, <2>2, RenamedAutos DEF edit_speaker
  <2>3. CASE \E s \in SpeakerIds : delete_speaker(s)
    BY <1>1, <2>3, WithoutSpeakerAutos DEF delete_speaker
  <2>. QED
    BY <2>1, <2>2, <2>3
<1>. QED
  BY <1>1, <1>2, <1>3, IdleFits

\* A deletion has no samples to come, an enrolment one that a user gave.
LEMMA EnrolStartFits ==
  ASSUME Kept, CapIInv,
         \/ \E i \in SampleIds : delete_sample(i)
         \/ \E r \in Requests : enroll(r)
  PROVE  CapIInv'
<1>1. Shaped(db) /\ Numbered(db) /\ Capped(db)
  BY DEF Kept, TablesFit, CapIInv, TablesCapped
<1>2. NoMore(db, db') /\ disk' = disk /\ UNCHANGED thread
      /\ loop'.at \notin {"idle", "score"}
  <2>1. CASE \E i \in SampleIds : delete_sample(i)
    BY <1>1, <2>1, WithoutSamplesAutos DEF delete_sample
  <2>2. CASE \E r \in Requests : enroll(r)
    <3>1. UNCHANGED <<db, disk, thread>> /\ loop'.at = "find"
      BY <2>2 DEF enroll
    <3>2. NoMore(db, db')
      BY <1>1, <3>1, NoMoreSelf
    <3>. QED
      BY <3>1, <3>2
  <2>. QED
    BY <2>1, <2>2
<1>3. /\ IsFiniteSet(DOMAIN loop'.rest)
      /\ \A k \in DOMAIN loop'.rest :
           loop'.rest[k].name \in Names /\ loop'.rest[k].source = "user"
  <2>1. CASE \E i \in SampleIds : delete_sample(i)
    <3>1. loop'.rest = <<>>
      BY <2>1 DEF delete_sample
    <3>2. DOMAIN loop'.rest = {}
      BY <3>1
    <3>. QED
      BY <3>2, FS_EmptySet
  <2>2. ASSUME NEW r \in Requests, enroll(r)
        PROVE  /\ IsFiniteSet(DOMAIN loop'.rest)
               /\ \A k \in DOMAIN loop'.rest :
                    loop'.rest[k].name \in Names /\ loop'.rest[k].source = "user"
    <3> DEFINE sample == [name |-> r.name, style |-> r.style, mic |-> r.mic,
                          source |-> "user"]
    <3>1. loop'.rest = <<sample>>
      BY <2>2 DEF enroll
    <3>2. sample.name \in Names /\ sample.source = "user"
      BY SpeakerStoreAssumption
    <3>. HIDE DEF sample
    <3>3. DOMAIN loop'.rest = {1} /\ loop'.rest[1] = sample
      BY <3>1
    <3>. QED
      BY <3>2, <3>3, FS_Singleton
  <2>. QED
    BY <2>1, <2>2
<1>4. \A n : AutoRows(loop'.rest, n) = {}
  BY <1>3 DEF AutoRows
<1>5. \A n : Cardinality(AutoRows(loop'.rest, n)) <= AutoCap
  <2>1. AutoCap \in Nat /\ Cardinality({}) = 0
    BY FS_EmptySet, SpeakerStoreAssumption
  <2>. QED
    BY <1>4, <2>1
<1>. QED
  BY <1>1, <1>2, <1>3, <1>4, <1>5, StartFits, NoMoreIsCapped DEF NoMore

\* A restore brings back samples of names that no speaker has.
LEMMA RestoreFits ==
  ASSUME Kept, CapIInv, NEW a \in Archives, NEW replace \in BOOLEAN,
         restore(a, replace)
  PROVE  CapIInv'
<1> DEFINE left == {k \in DOMAIN a : SpeakersNamed(db', a[k].name) = {}}
           autos(n) == {k \in DOMAIN a : a[k].source = "auto" /\ a[k].name = n}
<1>1. Shaped(db) /\ Numbered(db) /\ Capped(db)
  BY DEF Kept, TablesFit, CapIInv, TablesCapped
<1>2. /\ loop'.at = "find" /\ UNCHANGED thread
      /\ disk' = disk \/ disk' = db'
      /\ loop'.rest = [k \in left |->
           [name |-> a[k].name, style |-> "normal", mic |-> a[k].mic,
            source |-> a[k].source]]
  BY DEF restore, Commit
<1>3. /\ Numbered(db') /\ db'.nextSpeaker = db.nextSpeaker
      /\ \A s : AutosOf(db', s) \subseteq AutosOf(db, s)
  <2>1. CASE ~replace
    BY <1>1, <2>1 DEF restore
  <2>2. CASE replace
    <3>1. db' = [db EXCEPT !.speakers = [s \in SpeakerIds |-> NoName],
                           !.samples = [i \in SampleIds |-> NoSample],
                           !.profiles = [s \in SpeakerIds |-> NoProfile]]
      BY <2>2 DEF restore
    <3>2. /\ db'.speakers = [s \in SpeakerIds |-> NoName]
          /\ db'.samples = [i \in SampleIds |-> NoSample]
          /\ db'.nextSpeaker = db.nextSpeaker
      BY <1>1, <3>1 DEF Shaped
    <3>. QED
      BY <3>2 DEF Numbered, Exists, AutosOf, SamplesOf
  <2>. QED
    BY <2>1, <2>2
<1>4. Capped(db')
  <2> SUFFICES ASSUME NEW s \in SpeakerIds
               PROVE  Cardinality(AutosOf(db', s)) <= AutoCap
    BY DEF Capped
  <2>. QED
    BY <1>1, <1>3, FewerAutos, SpeakerStoreAssumption DEF Capped
<1>5. /\ a \in Seq([name : Names, source : {"user", "auto"}, mic : Mics \union {NoMic}])
      /\ \A n \in Names : Cardinality(autos(n)) <= AutoCap
  BY ArchivesAssumption
<1>6. IsFiniteSet(DOMAIN a) /\ \A k \in DOMAIN a : a[k].name \in Names
  <2>1. DOMAIN a = 1 .. Len(a) /\ Len(a) \in Nat
    BY <1>5
  <2>2. IsFiniteSet(DOMAIN a)
    BY <2>1, FS_Interval
  <2> DEFINE S == [name : Names, source : {"user", "auto"}, mic : Mics \union {NoMic}]
  <2>3. \A e \in S : e.name \in Names
    OBVIOUS
  <2>4. a \in Seq(S)
    BY <1>5
  <2>. HIDE DEF S
  <2>5. \A k \in DOMAIN a : a[k] \in S
    BY <2>4
  <2>. QED
    BY <2>2, <2>3, <2>5
<1>. HIDE DEF left, autos
<1>7. left \in SUBSET DOMAIN a
  BY DEF left
<1>8. /\ DOMAIN loop'.rest = left
      /\ \A k \in left : /\ loop'.rest[k].name = a[k].name
                         /\ loop'.rest[k].source = a[k].source
  BY <1>2
<1>9. IsFiniteSet(DOMAIN loop'.rest)
      /\ \A k \in DOMAIN loop'.rest : loop'.rest[k].name \in Names
  BY <1>6, <1>7, <1>8, FS_Subset
<1>10. \A n \in Names : Cardinality(AutoRows(loop'.rest, n)) <= AutoCap
  <2> SUFFICES ASSUME NEW n \in Names
               PROVE  Cardinality(AutoRows(loop'.rest, n)) <= AutoCap
    OBVIOUS
  <2>1. autos(n) \in SUBSET DOMAIN a /\ AutoRows(loop'.rest, n) \in SUBSET autos(n)
    BY <1>7, <1>8 DEF AutoRows, autos
  <2>2. IsFiniteSet(autos(n))
    BY <1>6, <2>1, FS_Subset
  <2>3. Cardinality(AutoRows(loop'.rest, n)) <= Cardinality(autos(n))
        /\ IsFiniteSet(AutoRows(loop'.rest, n))
    BY <2>1, <2>2, FS_Subset
  <2>4. Cardinality(AutoRows(loop'.rest, n)) \in Nat /\ Cardinality(autos(n)) \in Nat
    BY <2>2, <2>3, FS_CardinalityType
  <2>. QED
    BY <1>5, <2>3, <2>4, SpeakerStoreAssumption
<1>11. \A s \in SpeakerIds :
         Exists(db', s) => AutoRows(loop'.rest, db'.speakers[s]) = {}
  <2>1. \A k \in left, s \in SpeakerIds : db'.speakers[s] # a[k].name
    BY DEF left, SpeakersNamed
  <2>. QED
    BY <1>8, <2>1 DEF AutoRows
<1>. QED
  BY <1>2, <1>3, <1>4, <1>9, <1>10, <1>11, StartFits

\* A new speaker has no samples, and none of the samples to come is beyond
\* the cap of its name.
LEMMA EnrollFindFits == ASSUME Kept, CapIInv, EnrollFind PROVE CapIInv'
<1>1. Shaped(db) /\ Numbered(db) /\ Capped(db) /\ db.nextSpeaker \in Nat
  BY DEF Kept, TablesFit, CapIInv, TablesCapped, Shaped
<1>2. PICK k \in DOMAIN loop.rest :
        LET n == loop.rest[k].name
            found == SpeakersNamed(db, n)
            s == IF found = {} THEN db.nextSpeaker ELSE CHOOSE f \in found : TRUE
        IN /\ db' = IF found = {} THEN WithSpeaker(db, n) ELSE db
           /\ loop' = [at |-> "score", of |-> s, schedules |-> loop.schedules,
                       next |-> k, rest |-> loop.rest]
  BY DEF EnrollFind
<1> DEFINE n == loop.rest[k].name
           found == SpeakersNamed(db, n)
<1>3. /\ loop.at = "find" /\ loop'.at = "score" /\ loop'.rest = loop.rest
      /\ loop'.next = k /\ UNCHANGED <<disk, thread>>
  BY <1>2 DEF EnrollFind
<1>4. /\ IsFiniteSet(DOMAIN loop.rest) /\ n \in Names
      /\ Cardinality(AutoRows(loop.rest, n)) <= AutoCap
      /\ \A m \in Names : Cardinality(AutoRows(loop.rest, m)) <= AutoCap
  BY <1>3 DEF CapIInv, RestFits
<1>5. CASE found = {}
  <2>1. db' = WithSpeaker(db, n) /\ loop'.of = db.nextSpeaker
    BY <1>2, <1>5
  <2>. HIDE DEF n, found
  <2>2. /\ Numbered(db') /\ db'.nextSpeaker = db.nextSpeaker + 1
        /\ \A s \in SpeakerIds :
             db'.speakers[s] = IF s = db.nextSpeaker THEN n ELSE db.speakers[s]
        /\ \A s : AutosOf(db', s) = AutosOf(db, s)
        /\ AutosOf(db', db.nextSpeaker) = {}
    BY <1>1, <2>1, WithSpeakerAutos
  <2>3. TablesCapped'
    BY <1>3, <2>2 DEF CapIInv, TablesCapped, Capped
  <2>4. RestFits'
    <3> SUFFICES ASSUME NEW s \in SpeakerIds, Exists(db', s)
                 PROVE  Cardinality(AutosOf(db', s))
                          + Cardinality(AutoRows(loop'.rest, db'.speakers[s])) <= AutoCap
      BY <1>3 DEF RestFits, CapIInv
    <3>1. CASE s = db.nextSpeaker
      <4>1. Cardinality(AutosOf(db', s)) = 0 /\ db'.speakers[s] = n
        BY <2>2, <3>1, FS_EmptySet
      <4>2. Cardinality(AutoRows(loop.rest, n)) \in Nat
        BY <1>4, RowsAreFinite
      <4>. QED
        BY <1>3, <1>4, <4>1, <4>2
    <3>2. CASE s # db.nextSpeaker
      <4>1. db'.speakers[s] = db.speakers[s] /\ AutosOf(db', s) = AutosOf(db, s)
        BY <2>2, <3>2
      <4>2. Exists(db, s)
        BY <4>1 DEF Exists
      <4>. QED
        BY <1>3, <4>1, <4>2 DEF RestFits, CapIInv
    <3>. QED
      BY <3>1, <3>2
  <2>5. ScoreFits'
    BY <1>1, <1>3, <2>1, <2>2 DEF ScoreFits, n
  <2>6. ThreadsFit'
    <3> SUFFICES ASSUME NEW t \in Threads, thread[t].at = "score"
                 PROVE  /\ thread[t].of \in SpeakerIds
                        /\ thread[t].of < db'.nextSpeaker
                        /\ Exists(db', thread[t].of) =>
                             AutoRows(loop.rest, db'.speakers[thread[t].of]) = {}
      BY <1>3 DEF ThreadsFit
    <3>1. /\ thread[t].of \in SpeakerIds /\ thread[t].of < db.nextSpeaker
          /\ Exists(db, thread[t].of) =>
               AutoRows(loop.rest, db.speakers[thread[t].of]) = {}
      BY <1>3 DEF CapIInv, ThreadsFit
    <3>2. thread[t].of \in Nat
      BY <3>1, SpeakerStoreAssumption DEF SpeakerIds
    <3>3. db'.speakers[thread[t].of] = db.speakers[thread[t].of]
      BY <1>1, <2>2, <3>1, <3>2
    <3>. QED
      BY <1>1, <2>2, <3>1, <3>2, <3>3 DEF Exists
  <2>. QED
    BY <2>3, <2>4, <2>5, <2>6 DEF CapIInv
<1>6. CASE found # {}
  <2>1. db' = db /\ loop'.of \in found
    BY <1>2, <1>6
  <2>2. /\ loop'.of \in SpeakerIds /\ db.speakers[loop'.of] = n
        /\ loop'.of \in Nat /\ loop'.of < db.nextSpeaker
    <3>1. loop'.of \in SpeakerIds /\ db.speakers[loop'.of] = n
      BY <2>1 DEF SpeakersNamed
    <3>2. Exists(db, loop'.of)
      BY <1>4, <3>1, SpeakerStoreAssumption DEF Exists
    <3>. QED
      BY <1>1, <3>1, <3>2, SpeakerStoreAssumption DEF Numbered, SpeakerIds
  <2>. HIDE DEF found
  <2>3. RestFits' /\ ThreadsFit'
    BY <1>3, <2>1 DEF CapIInv, RestFits, ThreadsFit
  <2>4. ScoreFits'
    BY <1>3, <2>1, <2>2 DEF ScoreFits
  <2>5. TablesCapped'
    BY <1>3, <2>1 DEF CapIInv, TablesCapped
  <2>. QED
    BY <2>3, <2>4, <2>5 DEF CapIInv
<1>. QED
  BY <1>5, <1>6

\* What the insert adds to a speaker's automatic samples is one less to come.
LEMMA EnrollInsertFits == ASSUME Kept, CapIInv, EnrollInsert PROVE CapIInv'
<1> DEFINE new == loop.rest[loop.next]
           r == [of |-> loop.of, source |-> new.source, style |-> new.style,
                 mic |-> new.mic, score |-> 0]
           rest == [k \in DOMAIN loop.rest \ {loop.next} |-> loop.rest[k]]
<1>1. Shaped(db) /\ Numbered(db) /\ db.nextSpeaker \in Nat
  BY DEF Kept, TablesFit, CapIInv, TablesCapped, Shaped
<1>2. /\ loop.at = "score" /\ loop'.at = "rebuild" /\ loop'.rest = rest
      /\ db' = WithSample(db, r) /\ UNCHANGED <<disk, thread>>
  BY DEF EnrollInsert
<1>3. /\ IsSample(r) /\ r.of = loop.of /\ r.source = new.source
      /\ loop.next \in DOMAIN loop.rest
      /\ loop.of \in Nat /\ loop.of < db.nextSpeaker
      /\ loop.of \in SpeakerIds => db.speakers[loop.of] = new.name
  BY <1>2 DEF IsSample, CapIInv, ScoreFits
<1>4. /\ IsFiniteSet(DOMAIN loop.rest)
      /\ \A k \in DOMAIN loop.rest : loop.rest[k].name \in Names
      /\ \A n \in Names : Cardinality(AutoRows(loop.rest, n)) <= AutoCap
      /\ \A s \in SpeakerIds : Exists(db, s) =>
           Cardinality(AutosOf(db, s))
             + Cardinality(AutoRows(loop.rest, db.speakers[s])) <= AutoCap
  BY <1>2 DEF CapIInv, RestFits
<1>5. IsFiniteSet(DOMAIN rest) /\ DOMAIN rest \subseteq DOMAIN loop.rest
      /\ \A n : AutoRows(rest, n) = AutoRows(loop.rest, n) \ {loop.next}
  BY <1>4, FS_RemoveElement DEF AutoRows
<1>6. \A n : /\ Cardinality(AutoRows(rest, n)) \in Nat
             /\ Cardinality(AutoRows(loop.rest, n)) \in Nat
             /\ Cardinality(AutoRows(rest, n)) =
                  IF loop.next \in AutoRows(loop.rest, n)
                  THEN Cardinality(AutoRows(loop.rest, n)) - 1
                  ELSE Cardinality(AutoRows(loop.rest, n))
  <2> SUFFICES ASSUME NEW n
               PROVE  /\ Cardinality(AutoRows(rest, n)) \in Nat
                      /\ Cardinality(AutoRows(loop.rest, n)) \in Nat
                      /\ Cardinality(AutoRows(rest, n)) =
                           IF loop.next \in AutoRows(loop.rest, n)
                           THEN Cardinality(AutoRows(loop.rest, n)) - 1
                           ELSE Cardinality(AutoRows(loop.rest, n))
    OBVIOUS
  <2>. HIDE DEF rest
  <2>1. /\ IsFiniteSet(AutoRows(loop.rest, n))
        /\ Cardinality(AutoRows(loop.rest, n)) \in Nat
        /\ Cardinality(AutoRows(rest, n)) \in Nat
    BY <1>4, <1>5, RowsAreFinite
  <2>2. AutoRows(rest, n) = AutoRows(loop.rest, n) \ {loop.next}
    BY <1>5
  <2>. QED
    BY <2>1, <2>2, FS_RemoveElement
<1>7. new.source = "auto" => loop.next \in AutoRows(loop.rest, new.name)
  BY <1>3 DEF AutoRows
<1>8. \A k \in DOMAIN rest : rest[k] = loop.rest[k]
  OBVIOUS
<1>. HIDE DEF new, r, rest
<1>9. /\ Numbered(db') /\ db'.speakers = db.speakers
      /\ db'.nextSpeaker = db.nextSpeaker
      /\ \A s : s # loop.of \/ new.source # "auto" => AutosOf(db', s) = AutosOf(db, s)
      /\ AutosOf(db', loop.of) \subseteq AutosOf(db, loop.of) \union {db.nextSample}
  BY <1>1, <1>2, <1>3, WithSampleAutos
<1>10. \A s \in SpeakerIds : Exists(db, s) =>
         Cardinality(AutosOf(db', s))
           + Cardinality(AutoRows(rest, db.speakers[s])) <= AutoCap
  <2> SUFFICES ASSUME NEW s \in SpeakerIds, Exists(db, s)
               PROVE  Cardinality(AutosOf(db', s))
                        + Cardinality(AutoRows(rest, db.speakers[s])) <= AutoCap
    OBVIOUS
  <2>1. Cardinality(AutosOf(db, s)) \in Nat /\ Cardinality(AutosOf(db', s)) \in Nat
    BY AutosAreFinite
  <2>2. Cardinality(AutosOf(db, s))
          + Cardinality(AutoRows(loop.rest, db.speakers[s])) <= AutoCap
    BY <1>4
  <2>3. CASE s = loop.of /\ new.source = "auto"
    <3>1. Cardinality(AutosOf(db', s)) <= Cardinality(AutosOf(db, s)) + 1
      BY <1>9, <2>3, OneMoreAuto
    <3>2. db.speakers[s] = new.name
      BY <1>3, <2>3
    <3>3. Cardinality(AutoRows(rest, db.speakers[s]))
            = Cardinality(AutoRows(loop.rest, db.speakers[s])) - 1
      BY <1>6, <1>7, <2>3, <3>2
    <3>4. Cardinality(AutoRows(loop.rest, db.speakers[s])) \in Nat
      BY <1>6
    <3>. QED
      BY <2>1, <2>2, <3>1, <3>3, <3>4, SpeakerStoreAssumption
  <2>4. CASE ~(s = loop.of /\ new.source = "auto")
    <3>1. AutosOf(db', s) = AutosOf(db, s)
      BY <1>9, <2>4
    <3>2. /\ Cardinality(AutoRows(rest, db.speakers[s]))
               <= Cardinality(AutoRows(loop.rest, db.speakers[s]))
          /\ Cardinality(AutoRows(rest, db.speakers[s])) \in Nat
          /\ Cardinality(AutoRows(loop.rest, db.speakers[s])) \in Nat
      BY <1>6
    <3>. QED
      BY <2>1, <2>2, <3>1, <3>2, SpeakerStoreAssumption
  <2>. QED
    BY <2>3, <2>4
<1>11. Capped(db')
  <2> SUFFICES ASSUME NEW s \in SpeakerIds
               PROVE  Cardinality(AutosOf(db', s)) <= AutoCap
    BY DEF Capped
  <2>1. Cardinality(AutosOf(db', s)) \in Nat
    BY AutosAreFinite
  <2>2. CASE Exists(db, s)
    <3>1. Cardinality(AutosOf(db', s))
            + Cardinality(AutoRows(rest, db.speakers[s])) <= AutoCap
      BY <1>10, <2>2
    <3>2. Cardinality(AutoRows(rest, db.speakers[s])) \in Nat
      BY <1>6
    <3>. QED
      BY <2>1, <3>1, <3>2, SpeakerStoreAssumption
  <2>3. CASE ~Exists(db, s)
    <3>1. s # loop.of
      BY <1>3, <1>4, <2>3, SpeakerStoreAssumption DEF Exists, new
    <3>. QED
      BY <1>9, <3>1 DEF CapIInv, TablesCapped, Capped
  <2>. QED
    BY <2>2, <2>3
<1>12. TablesCapped'
  BY <1>2, <1>9, <1>11 DEF CapIInv, TablesCapped
<1>13. RestFits'
  <2>1. \A n \in Names : Cardinality(AutoRows(rest, n)) <= AutoCap
    <3> SUFFICES ASSUME NEW n \in Names PROVE Cardinality(AutoRows(rest, n)) <= AutoCap
      OBVIOUS
    <3>. QED
      BY <1>4, <1>6, SpeakerStoreAssumption
  <2>2. \A s \in SpeakerIds : Exists(db', s) <=> Exists(db, s)
    BY <1>9 DEF Exists
  <2>3. IsFiniteSet(DOMAIN rest) /\ \A k \in DOMAIN rest : rest[k].name \in Names
    BY <1>4, <1>5, <1>8
  <2>. QED
    BY <1>2, <1>9, <1>10, <2>1, <2>2, <2>3 DEF RestFits
<1>14. ScoreFits'
  BY <1>2 DEF ScoreFits
<1>15. ThreadsFit'
  <2> SUFFICES ASSUME NEW t \in Threads, thread[t].at = "score"
               PROVE  /\ thread[t].of \in SpeakerIds
                      /\ thread[t].of < db.nextSpeaker
                      /\ Exists(db, thread[t].of) =>
                           AutoRows(rest, db.speakers[thread[t].of]) = {}
    BY <1>2, <1>9 DEF ThreadsFit, Exists
  <2>. QED
    BY <1>2, <1>5 DEF CapIInv, ThreadsFit
<1>. QED
  BY <1>12, <1>13, <1>14, <1>15 DEF CapIInv

\* The rebuild, and its failure, after which a restore goes on.
LEMMA LoopEndFits ==
  ASSUME Kept, CapIInv, LoopRebuild \/ LoopFails
  PROVE  CapIInv'
<1>1. Shaped(db) /\ Numbered(db)
  BY DEF Kept, TablesFit, CapIInv, TablesCapped
<1>2. /\ loop.at = "rebuild" /\ UNCHANGED thread
      /\ disk' = disk \/ disk' = db'
      /\ \/ loop'.at = "idle"
         \/ loop'.at = "find" /\ loop'.rest = loop.rest
  BY DEF LoopRebuild, LoopFails, Commit, Continue, IdleLoop
<1>3. NoMore(db, db')
  <2>1. CASE LoopRebuild
    BY <1>1, <2>1, RebuiltAutos DEF LoopRebuild
  <2>2. CASE LoopFails
    <3>1. db' = db
      BY <2>2 DEF LoopFails
    <3>. QED
      BY <1>1, <3>1, NoMoreSelf
  <2>. QED
    BY <2>1, <2>2
<1>4. /\ \/ loop'.at = "idle"
         \/ loop.at # "idle" /\ loop'.at = "find" /\ loop'.rest = loop.rest
      /\ \A t \in Threads : thread'[t] = thread[t]
  BY <1>2
<1>. QED
  BY <1>2, <1>3, <1>4, NoMoreFits

\* Steps that touch neither the loop nor the number of samples.
LEMMA SameTablesFit ==
  ASSUME CapIInv, db' = db, disk' = disk \/ disk' = db', UNCHANGED loop,
         \A t \in Threads : thread'[t].at = "score" => thread'[t] = thread[t]
  PROVE  CapIInv'
<1>1. NoMore(db, db')
  BY NoMoreSelf DEF CapIInv, TablesCapped
<1>. QED
  BY <1>1, NoMoreFits

\* A thread that goes where it inserts nothing.
LEMMA ThreadLeaves ==
  ASSUME Kept, NEW t \in Threads, NEW to, to.at # "score",
         thread' = [thread EXCEPT ![t] = to]
  PROVE  \A u \in Threads : thread'[u].at = "score" => thread'[u] = thread[u]
<1>1. \A u \in Threads : thread'[u] = IF u = t THEN to ELSE thread[u]
  BY DEF Kept, RebuildsHoldTheLock
<1>. QED
  BY <1>1

\* A session matches a speaker while the loop is idle, so that no restore is
\* under way.
LEMMA AutoStartFits ==
  ASSUME Kept, CapIInv, NEW t \in Threads, NEW s \in SpeakerIds, NEW mic \in Mics,
         AutoStart(t, s, mic)
  PROVE  CapIInv'
<1> DEFINE to == [at |-> "score", of |-> s, mic |-> mic]
<1>1. /\ loop.at = "idle" /\ Exists(db, s) /\ UNCHANGED <<db, disk, loop>>
      /\ thread' = [thread EXCEPT ![t] = to] /\ to.of = s
  BY DEF AutoStart, Ready
<1>. HIDE DEF to
<1>2. \A u \in Threads : thread'[u] = IF u = t THEN to ELSE thread[u]
  BY <1>1 DEF Kept, RebuildsHoldTheLock
<1>3. s < db.nextSpeaker
  BY <1>1 DEF CapIInv, TablesCapped, Numbered
<1>4. ThreadsFit'
  BY <1>1, <1>2, <1>3 DEF CapIInv, ThreadsFit
<1>5. TablesCapped' /\ RestFits' /\ ScoreFits'
  BY <1>1 DEF CapIInv, TablesCapped, RestFits, ScoreFits
<1>. QED
  BY <1>4, <1>5 DEF CapIInv

\* What an insert replaces leaves room for one.
LEMMA RoomForOne ==
  ASSUME NEW x, NEW s, NEW score, NEW gone \in Replaced(x, s, score),
         Cardinality(AutosOf(x, s)) <= AutoCap
  PROVE  /\ Cardinality(AutosOf(x, s) \ gone) \in Nat
         /\ Cardinality(AutosOf(x, s) \ gone) + 1 <= AutoCap
<1> DEFINE A == AutosOf(x, s)
<1>1. IsFiniteSet(A) /\ Cardinality(A) \in Nat /\ Cardinality(A) <= AutoCap
  BY AutosAreFinite
<1>2. CASE ~Full(x, s)
  <2>1. gone = {} /\ Cardinality(A) < AutoCap
    BY <1>1, <1>2, SpeakerStoreAssumption DEF Replaced, Full
  <2>2. A \ gone = A
    BY <2>1
  <2>. QED
    BY <1>1, <2>1, <2>2, SpeakerStoreAssumption
<1>3. CASE Full(x, s)
  <2>1. Cardinality(A) = AutoCap /\ Cardinality(A) + 1 - AutoCap = 1
    BY <1>1, <1>3, SpeakerStoreAssumption DEF Full
  <2>2. gone \in SUBSET A /\ Cardinality(gone) = 1
    <3>1. CASE score = 0
      BY <1>3, <2>1, <3>1 DEF Replaced, kSubset
    <3>2. CASE score # 0
      <4>1. gone \in {{i} : i \in Worst(x, s, score)}
        BY <1>3, <3>2 DEF Replaced
      <4>2. \E i \in A : gone = {i}
        BY <4>1 DEF Worst
      <4>. QED
        BY <4>2, FS_Singleton
    <3>. QED
      BY <3>1, <3>2
  <2>. HIDE DEF A
  <2>3. A \intersect gone = gone
    BY <2>2
  <2>4. Cardinality(A \ gone) = Cardinality(A) - Cardinality(A \intersect gone)
    BY <1>1, FS_Difference
  <2>5. Cardinality(A \ gone) = AutoCap - 1
    BY <2>1, <2>2, <2>3, <2>4
  <2>. QED
    BY <2>5, SpeakerStoreAssumption DEF A
<1>. QED
  BY <1>2, <1>3

LEMMA AutoInsertFits ==
  ASSUME Kept, CapIInv, NEW t \in Threads, NEW score \in Scores,
         NEW gone \in SUBSET SampleIds, AutoInsert(t, score, gone)
  PROVE  CapIInv'
<1> DEFINE s == thread[t].of
           r == [of |-> s, source |-> "auto", style |-> "normal",
                 mic |-> thread[t].mic, score |-> score]
           to == [at |-> "rebuild", of |-> s]
           w == WithoutSamples(db, gone)
<1>1. Shaped(db) /\ Numbered(db) /\ Capped(db)
  BY DEF Kept, TablesFit, CapIInv, TablesCapped
<1>2. /\ UNCHANGED <<disk, loop>> /\ thread[t].at = "score" /\ Exists(db, s)
      /\ thread' = [thread EXCEPT ![t] = to]
      /\ gone \in Replaced(db, s, score)
      /\ db' = WithSample(w, r)
  BY DEF AutoInsert
<1>3. IsSample(r) /\ r.of = s /\ to.at # "score"
  BY DEF IsSample
<1>4. gone \subseteq SamplesOf(db, s)
  BY <1>2 DEF Replaced, kSubset, Worst, AutosOf
<1>5. /\ s \in SpeakerIds /\ s < db.nextSpeaker
      /\ loop.at # "idle" => AutoRows(loop.rest, db.speakers[s]) = {}
  BY <1>2 DEF CapIInv, ThreadsFit
<1>6. s \in Nat
  BY <1>5, SpeakerStoreAssumption DEF SpeakerIds
<1>. HIDE DEF s, r, to, w
<1>7. /\ NoMore(db, w) /\ Shaped(w)
      /\ \A q : AutosOf(w, q) = AutosOf(db, q) \ gone
  BY <1>1, <1>4, WithoutSamplesAutos, WithoutSamplesKeeps DEF w
<1>8. /\ Numbered(db') /\ db'.speakers = db.speakers
      /\ db'.nextSpeaker = db.nextSpeaker
      /\ \A q : q # s => AutosOf(db', q) \subseteq AutosOf(db, q)
      /\ AutosOf(db', s) \subseteq AutosOf(w, s) \union {w.nextSample}
  <2>1. Numbered(w) /\ w.speakers = db.speakers /\ w.nextSpeaker = db.nextSpeaker
    BY <1>7 DEF NoMore
  <2>2. /\ Numbered(db') /\ db'.speakers = w.speakers
        /\ db'.nextSpeaker = w.nextSpeaker
        /\ \A q : q # r.of \/ r.source # "auto" => AutosOf(db', q) = AutosOf(w, q)
        /\ AutosOf(db', r.of) \subseteq AutosOf(w, r.of) \union {w.nextSample}
    BY <1>2, <1>3, <1>5, <1>6, <1>7, <2>1, WithSampleAutos
  <2>. QED
    BY <1>3, <1>7, <2>1, <2>2
<1>9. Cardinality(AutosOf(db', s)) <= AutoCap
  <2>1. /\ Cardinality(AutosOf(w, s)) \in Nat
        /\ Cardinality(AutosOf(w, s)) + 1 <= AutoCap
    BY <1>1, <1>2, <1>5, <1>7, RoomForOne DEF Capped
  <2>2. Cardinality(AutosOf(db', s)) <= Cardinality(AutosOf(w, s)) + 1
    BY <1>8, OneMoreAuto
  <2>3. Cardinality(AutosOf(db', s)) \in Nat
    BY AutosAreFinite
  <2>. QED
    BY <2>1, <2>2, <2>3, SpeakerStoreAssumption
<1>10. \A q \in SpeakerIds \ {s} :
         /\ Cardinality(AutosOf(db', q)) \in Nat /\ Cardinality(AutosOf(db, q)) \in Nat
         /\ Cardinality(AutosOf(db', q)) <= Cardinality(AutosOf(db, q))
  BY <1>8, FewerAutos
<1>11. TablesCapped'
  <2>1. \A q \in SpeakerIds \ {s} : Cardinality(AutosOf(db', q)) <= AutoCap
    BY <1>1, <1>10, SpeakerStoreAssumption DEF Capped
  <2>2. Capped(db')
    BY <1>9, <2>1 DEF Capped
  <2>. QED
    BY <1>2, <1>8, <2>2 DEF CapIInv, TablesCapped
<1>12. RestFits'
  <2> SUFFICES ASSUME loop.at # "idle", NEW q \in SpeakerIds, Exists(db, q)
               PROVE  Cardinality(AutosOf(db', q))
                        + Cardinality(AutoRows(loop.rest, db.speakers[q])) <= AutoCap
    BY <1>2, <1>8 DEF CapIInv, RestFits, Exists
  <2>1. CASE q = s
    <3>1. Cardinality(AutoRows(loop.rest, db.speakers[q])) = 0
      BY <1>5, <2>1, FS_EmptySet
    <3>2. Cardinality(AutosOf(db', q)) \in Nat
      BY AutosAreFinite
    <3>. QED
      BY <1>9, <2>1, <3>1, <3>2
  <2>2. CASE q # s
    <3>1. Cardinality(AutosOf(db, q))
            + Cardinality(AutoRows(loop.rest, db.speakers[q])) <= AutoCap
      BY DEF CapIInv, RestFits
    <3>2. Cardinality(AutoRows(loop.rest, db.speakers[q])) \in Nat
      BY RowsAreFinite DEF CapIInv, RestFits
    <3>3. /\ Cardinality(AutosOf(db', q)) \in Nat /\ Cardinality(AutosOf(db, q)) \in Nat
          /\ Cardinality(AutosOf(db', q)) <= Cardinality(AutosOf(db, q))
      BY <1>10, <2>2
    <3>. QED
      BY <3>1, <3>2, <3>3, SpeakerStoreAssumption
  <2>. QED
    BY <2>1, <2>2
<1>13. ScoreFits'
  BY <1>2, <1>8 DEF CapIInv, ScoreFits
<1>14. ThreadsFit'
  <2>1. \A u \in Threads : thread'[u].at = "score" => thread'[u] = thread[u]
    BY <1>2, <1>3, ThreadLeaves
  <2>. QED
    BY <1>2, <1>8, <2>1 DEF CapIInv, ThreadsFit, Exists
<1>. QED
  BY <1>11, <1>12, <1>13, <1>14 DEF CapIInv

LEMMA AutoStepFits ==
  ASSUME Kept, CapIInv, NEW t \in Threads, AutoStep(t)
  PROVE  CapIInv'
<1> DEFINE to == [at |-> "idle"]
<1>1. to.at # "score"
  OBVIOUS
<1>2. CASE AutoSkips(t) \/ AutoFails(t)
  <2>1. UNCHANGED <<db, disk, loop>> /\ thread' = [thread EXCEPT ![t] = to]
    BY <1>2 DEF AutoSkips, AutoFails
  <2>. HIDE DEF to
  <2>. QED
    BY <1>1, <2>1, ThreadLeaves, SameTablesFit
<1>3. CASE AutoRebuild(t)
  <2>1. /\ db' = Rebuilt(db, thread[t].of) /\ disk' = db' /\ UNCHANGED loop
        /\ thread' = [thread EXCEPT ![t] = to]
    BY <1>3 DEF AutoRebuild, Commit
  <2>. HIDE DEF to
  <2>2. NoMore(db, db')
    BY <2>1, RebuiltAutos DEF Kept, TablesFit, CapIInv, TablesCapped
  <2>. QED
    BY <1>1, <2>1, <2>2, ThreadLeaves, NoMoreFits
<1>. QED
  BY <1>2, <1>3, AutoStartFits, AutoInsertFits DEF AutoStep

LEMMA RescoreFits == ASSUME Kept, CapIInv, Rescore PROVE CapIInv'
<1>1. CASE (\E s \in SpeakerIds : RescoreStart(s)) \/ RescoreEnd
  <2>1. db' = db /\ (disk' = disk \/ disk' = db') /\ UNCHANGED <<loop, thread>>
    BY <1>1 DEF RescoreStart, RescoreEnd
  <2>. QED
    BY <1>1, <2>1, SameTablesFit DEF RescoreStart, RescoreEnd
<1>2. ASSUME NEW i \in SampleIds, NEW score \in Scores \ {0}, RescoreSample(i, score)
      PROVE  CapIInv'
  <2>1. UNCHANGED <<disk, loop, thread>>
    BY <1>2 DEF RescoreSample
  <2>2. CASE db.samples[i] = NoSample
    BY <1>2, <2>1, <2>2, SameTablesFit DEF RescoreSample
  <2>3. CASE db.samples[i] # NoSample
    <3>1. db' = Rescored(db, i, score)
      BY <1>2, <2>3 DEF RescoreSample, Rescored
    <3>2. NoMore(db, db')
      BY <2>3, <3>1, RescoredAutos DEF Kept, TablesFit, CapIInv, TablesCapped
    <3>. QED
      BY <2>1, <3>2, NoMoreFits
  <2>. QED
    BY <2>2, <2>3
<1>. QED
  BY <1>1, <1>2 DEF Rescore

LEMMA CrashFits == ASSUME CapIInv, Crash PROVE CapIInv'
<1>1. /\ db' = disk /\ disk' = disk /\ loop' = [at |-> "idle"]
      /\ thread' = [t \in Threads |-> [at |-> "idle"]]
  BY DEF Crash, IdleLoop
<1>2. loop'.at = "idle" /\ \A t \in Threads : thread'[t].at = "idle"
  BY <1>1
<1>3. TablesCapped'
  BY <1>1 DEF CapIInv, TablesCapped
<1>4. RestFits' /\ ScoreFits' /\ ThreadsFit'
  BY <1>2 DEF RestFits, ScoreFits, ThreadsFit
<1>. QED
  BY <1>3, <1>4 DEF CapIInv

LEMMA CapInit == Init => CapIInv
<1> SUFFICES ASSUME Init PROVE CapIInv
  OBVIOUS
<1>1. /\ db.samples = [i \in SampleIds |-> NoSample]
      /\ db.speakers = [s \in SpeakerIds |-> NoName] /\ disk = db
      /\ loop = [at |-> "idle"] /\ thread = [t \in Threads |-> [at |-> "idle"]]
  BY DEF Init, IdleLoop
<1>2. Numbered(db)
  BY <1>1 DEF Numbered, Exists
<1>3. \A s : AutosOf(db, s) = {}
  BY <1>1 DEF AutosOf, SamplesOf
<1>4. Capped(db)
  BY <1>3, FS_EmptySet, SpeakerStoreAssumption DEF Capped
<1>5. loop.at = "idle" /\ \A t \in Threads : thread[t].at = "idle"
  BY <1>1
<1>6. RestFits /\ ScoreFits /\ ThreadsFit
  BY <1>5 DEF RestFits, ScoreFits, ThreadsFit
<1>. QED
  BY <1>1, <1>2, <1>4, <1>6 DEF CapIInv, TablesCapped

LEMMA CapNext == Kept /\ CapIInv /\ [Next]_vars => CapIInv'
<1> SUFFICES ASSUME Kept, CapIInv, [Next]_vars PROVE CapIInv'
  OBVIOUS
<1>1. CASE Api
  BY <1>1, SpeakerStepsFit, EnrolStartFits, RestoreFits DEF Api
<1>2. CASE LoopStep
  BY <1>2, EnrollFindFits, EnrollInsertFits, LoopEndFits DEF LoopStep
<1>3. CASE \E t \in Threads : AutoStep(t)
  BY <1>3, AutoStepFits
<1>4. CASE Rescore
  BY <1>4, RescoreFits
<1>5. CASE RecalPass \/ RecalRead \/ RecalEnd \/ ForeignCommit
  <2>1. db' = db /\ (disk' = disk \/ disk' = db') /\ UNCHANGED <<loop, thread>>
    BY <1>5 DEF RecalPass, RecalRead, RecalEnd, ForeignCommit
  <2>. QED
    BY <2>1, SameTablesFit
<1>6. CASE Crash
  BY <1>6, CrashFits
<1>7. CASE UNCHANGED vars
  BY <1>7, SameTablesFit
<1>. QED
  BY <1>1, <1>2, <1>3, <1>4, <1>5, <1>6, <1>7 DEF Next

\* No speaker ever has more automatic samples than auto_enroll_max_samples,
\* with any number of threads that score at once and whatever a restore brings
\* back meanwhile.
THEOREM CapIsKept == Spec => []AutoSamplesAreCapped
<1>1. CapIInv => AutoSamplesAreCapped
  BY DEF CapIInv, TablesCapped, Capped, AutoSamplesAreCapped
<1>. QED
  BY <1>1, CapInit, CapNext, SpecKept, PTL DEF Spec
-----------------------------------------------------------------------------
(* Types.  What an operation of the loop or of a thread has still to       *)
(* insert was reserved when it started, so that every id that is handed    *)
(* out is one the tables have a row for, and no statement of the model     *)
(* falls beside them.                                                      *)

RestType == [name : Names, style : Styles, mic : Mics \union {NoMic},
             source : {"user", "auto"}]

LoopTyped ==
  /\ loop.at \in {"idle", "find", "score", "rebuild"}
  /\ loop.at # "idle" =>
       /\ IsFiniteSet(DOMAIN loop.rest)
       /\ \A k \in DOMAIN loop.rest : loop.rest[k] \in RestType
  /\ loop.at \in {"score", "rebuild"} => loop.of \in SpeakerIds
  /\ loop.at = "score" => loop.next \in DOMAIN loop.rest

ThreadTyped ==
  \A t \in Threads :
    /\ thread[t].at \in {"idle", "score", "rebuild"}
    /\ thread[t].at # "idle" => thread[t].of \in SpeakerIds
    /\ thread[t].at = "score" => thread[t].mic \in Mics

SmallTyped ==
  /\ lock \in {Free, Loop} \union Threads
  /\ rescore \in [runs : BOOLEAN, todo : SUBSET SampleIds]
  /\ unseen \in BOOLEAN
  /\ spoiled \subseteq SpeakerIds

\* The names that a restore has still to create a speaker for.
NewNames(x, rest) ==
  {n \in Names : SpeakersNamed(x, n) = {} /\ \E k \in DOMAIN rest : rest[k].name = n}

ToInsert == IF loop.at = "idle" THEN 0 ELSE Cardinality(DOMAIN loop.rest)
ToCreate == IF loop.at = "idle" THEN 0 ELSE Cardinality(NewNames(db, loop.rest))

Room ==
  /\ db.nextSample + Reserved + ToInsert <= MaxSample + 1
  /\ db.nextSpeaker + ToCreate <= MaxSpeaker + 1

StoreTyped ==
  /\ db \in Tables /\ disk \in Tables
  /\ LoopTyped /\ ThreadTyped /\ SmallTyped /\ Room

LEMMA ScoringIsFinite ==
  ASSUME NEW f
  PROVE  LET scoring == {t \in Threads : f[t].at = "score"}
         IN  IsFiniteSet(scoring) /\ Cardinality(scoring) \in Nat
<1> DEFINE scoring == {t \in Threads : f[t].at = "score"}
<1>1. scoring \in SUBSET Threads
  OBVIOUS
<1>. HIDE DEF scoring
<1>2. IsFiniteSet(scoring)
  BY <1>1, FS_Subset, SpeakerStoreAssumption
<1>3. Cardinality(scoring) \in Nat
  BY <1>2, FS_CardinalityType
<1>. QED
  BY <1>2, <1>3 DEF scoring

\* The names of finitely many samples are finitely many.
LEMMA NewNamesAreFinite ==
  ASSUME NEW x, NEW rest, IsFiniteSet(DOMAIN rest)
  PROVE  IsFiniteSet(NewNames(x, rest)) /\ Cardinality(NewNames(x, rest)) \in Nat
<1> DEFINE D == {k \in DOMAIN rest : rest[k].name \in NewNames(x, rest)}
           f == [k \in D |-> rest[k].name]
<1>1. D \in SUBSET DOMAIN rest
  OBVIOUS
<1>2. IsFiniteSet(D)
  BY <1>1, FS_Subset
<1>3. \A n \in NewNames(x, rest) : \E k \in D : f[k] = n
  BY DEF NewNames
<1>4. f \in [D -> NewNames(x, rest)]
  OBVIOUS
<1>5. f \in Surjection(D, NewNames(x, rest))
  BY <1>3, <1>4 DEF Surjection
<1>. HIDE DEF D, f
<1>6. IsFiniteSet(NewNames(x, rest))
  BY <1>2, <1>5, FS_Surjection
<1>. QED
  BY <1>6, FS_CardinalityType

LEMMA RoomFacts ==
  ASSUME Kept, StoreTyped
  PROVE  /\ Reserved \in Nat /\ ToInsert \in Nat /\ ToCreate \in Nat
         /\ db.nextSample \in Nat \ {0} /\ db.nextSpeaker \in Nat \ {0}
<1>1. ToInsert \in Nat /\ ToCreate \in Nat
  BY FS_CardinalityType, NewNamesAreFinite DEF ToInsert, ToCreate, StoreTyped, LoopTyped
<1>2. db.nextSample \in Nat \ {0} /\ db.nextSpeaker \in Nat \ {0}
  BY SpeakerStoreAssumption DEF StoreTyped, Tables
<1>3. Reserved \in Nat
  BY ScoringIsFinite DEF Reserved
<1>. QED
  BY <1>1, <1>2, <1>3

\* What each statement makes of tables.
TablesExtend(x, y) ==
  y \in Tables /\ y.nextSample = x.nextSample /\ y.nextSpeaker = x.nextSpeaker

LEMMA ProfileType == ASSUME NEW x, NEW s PROVE ProfileOf(x, s) \in Profile
<1> DEFINE normal == {i \in SamplesOf(x, s) : x.samples[i].style = "normal"}
           whisper == SamplesOf(x, s) \ normal
<1>1. normal \in SUBSET SampleIds /\ whisper \in SUBSET SampleIds
  BY DEF SamplesOf
<1>2. IsFiniteSet(SampleIds)
  BY FS_Interval, SpeakerStoreAssumption DEF SampleIds
<1>3. Cardinality(normal) \in Nat
  BY <1>1, <1>2, FS_Subset, FS_CardinalityType
<1>. HIDE DEF normal
<1>4. ProfileOf(x, s) =
        [count |-> Cardinality(normal), centroid |-> normal,
         whisper |-> IF Cardinality(whisper) >= WhisperMin THEN whisper ELSE {},
         satellite |-> [m \in Mics |->
           IF Cardinality({i \in normal : x.samples[i].mic = m}) >= SatelliteMin
           THEN {i \in normal : x.samples[i].mic = m} ELSE {}]]
  BY DEF ProfileOf, normal
<1>5. [m \in Mics |->
         IF Cardinality({i \in normal : x.samples[i].mic = m}) >= SatelliteMin
         THEN {i \in normal : x.samples[i].mic = m} ELSE {}] \in [Mics -> SUBSET SampleIds]
  BY <1>1
<1>. HIDE DEF whisper
<1>6. (IF Cardinality(whisper) >= WhisperMin THEN whisper ELSE {}) \in SUBSET SampleIds
  BY <1>1
<1>. QED
  BY <1>1, <1>3, <1>4, <1>5, <1>6 DEF Profile

LEMMA NoProfileType == NoProfile \in Profile
BY DEF NoProfile, Profile

LEMMA TableParts ==
  ASSUME NEW x \in Tables
  PROVE  /\ x.speakers \in [SpeakerIds -> Names \union {NoName}]
         /\ x.samples \in [SampleIds -> Sample \union {NoSample}]
         /\ x.profiles \in [SpeakerIds -> Profile]
         /\ x.nextSpeaker \in 1 .. MaxSpeaker + 1
         /\ x.nextSample \in 1 .. MaxSample + 1
         /\ x = [speakers |-> x.speakers, samples |-> x.samples,
                 profiles |-> x.profiles, nextSpeaker |-> x.nextSpeaker,
                 nextSample |-> x.nextSample]
<1>. HIDE DEF Sample, Profile
<1>. QED
  BY DEF Tables

LEMMA TableFields ==
  ASSUME NEW x \in Tables
  PROVE  DOMAIN x = {"speakers", "samples", "profiles", "nextSpeaker", "nextSample"}
<1> DEFINE r == [speakers |-> x.speakers, samples |-> x.samples, profiles |-> x.profiles,
                 nextSpeaker |-> x.nextSpeaker, nextSample |-> x.nextSample]
<1>1. DOMAIN r = {"speakers", "samples", "profiles", "nextSpeaker", "nextSample"}
  OBVIOUS
<1>2. x = r
  BY TableParts
<1>. HIDE DEF r
<1>. QED
  BY <1>1, <1>2

LEMMA TablesOf ==
  ASSUME NEW n \in [SpeakerIds -> Names \union {NoName}],
         NEW m \in [SampleIds -> Sample \union {NoSample}],
         NEW p \in [SpeakerIds -> Profile],
         NEW i \in 1 .. MaxSpeaker + 1, NEW j \in 1 .. MaxSample + 1
  PROVE  [speakers |-> n, samples |-> m, profiles |-> p, nextSpeaker |-> i,
          nextSample |-> j] \in Tables
BY DEF Tables

LEMMA WithSpeakerType ==
  ASSUME NEW x \in Tables, NEW n \in Names, x.nextSpeaker <= MaxSpeaker
  PROVE  LET y == WithSpeaker(x, n) IN
         /\ y \in Tables /\ y.nextSample = x.nextSample
         /\ y.nextSpeaker = x.nextSpeaker + 1 /\ x.nextSpeaker \in SpeakerIds
         /\ y.speakers[x.nextSpeaker] = n
<1> DEFINE y == WithSpeaker(x, n)
<1>1. y = [x EXCEPT !.speakers[x.nextSpeaker] = n, !.nextSpeaker = @ + 1]
  BY DEF WithSpeaker
<1>2. DOMAIN x = {"speakers", "samples", "profiles", "nextSpeaker", "nextSample"}
  BY TableFields
<1>. HIDE DEF y
<1>3. /\ y.speakers = [x.speakers EXCEPT ![x.nextSpeaker] = n]
      /\ y.samples = x.samples /\ y.profiles = x.profiles
      /\ y.nextSpeaker = x.nextSpeaker + 1 /\ y.nextSample = x.nextSample
  BY <1>1, <1>2
<1>4. y = [speakers |-> y.speakers, samples |-> y.samples, profiles |-> y.profiles,
           nextSpeaker |-> y.nextSpeaker, nextSample |-> y.nextSample]
  BY <1>1, <1>2
<1>5. x.nextSpeaker + 1 \in 1 .. MaxSpeaker + 1 /\ x.nextSpeaker \in SpeakerIds
  BY TableParts, SpeakerStoreAssumption DEF SpeakerIds
<1>6. y.speakers \in [SpeakerIds -> Names \union {NoName}] /\ y.speakers[x.nextSpeaker] = n
  BY <1>3, <1>5, TableParts
<1>7. y \in Tables
  BY <1>3, <1>5, <1>6, <1>4, TableParts, TablesOf
<1>. QED
  BY <1>3, <1>5, <1>6, <1>7 DEF y

LEMMA RenamedType ==
  ASSUME NEW x \in Tables, NEW s \in SpeakerIds, NEW n \in Names
  PROVE  TablesExtend(x, Renamed(x, s, n))
<1> DEFINE names == [x.speakers EXCEPT ![s] = n]
<1>1. Renamed(x, s, n) =
        [speakers |-> names, samples |-> x.samples, profiles |-> x.profiles,
         nextSpeaker |-> x.nextSpeaker, nextSample |-> x.nextSample]
  BY TableParts DEF Renamed
<1>2. names \in [SpeakerIds -> Names \union {NoName}]
  BY TableParts
<1>. HIDE DEF names
<1>. QED
  BY <1>1, <1>2, TableParts, TablesOf DEF TablesExtend

LEMMA WithoutSamplesType ==
  ASSUME NEW x \in Tables, NEW gone
  PROVE  /\ TablesExtend(x, WithoutSamples(x, gone))
         /\ WithoutSamples(x, gone).speakers = x.speakers
<1> DEFINE left == [i \in SampleIds |-> IF i \in gone THEN NoSample ELSE x.samples[i]]
<1>1. WithoutSamples(x, gone) =
        [speakers |-> x.speakers, samples |-> left, profiles |-> x.profiles,
         nextSpeaker |-> x.nextSpeaker, nextSample |-> x.nextSample]
  BY TableParts DEF WithoutSamples
<1>2. left \in [SampleIds -> Sample \union {NoSample}]
  BY TableParts
<1>. HIDE DEF left
<1>. QED
  BY <1>1, <1>2, TableParts, TablesOf DEF TablesExtend

LEMMA WithSampleType ==
  ASSUME NEW x \in Tables, NEW r \in Sample, x.nextSample <= MaxSample
  PROVE  LET y == WithSample(x, r) IN
         /\ y \in Tables /\ y.nextSample = x.nextSample + 1
         /\ y.nextSpeaker = x.nextSpeaker /\ y.speakers = x.speakers
<1> DEFINE y == WithSample(x, r)
<1>1. y = [x EXCEPT !.samples[x.nextSample] = r, !.nextSample = @ + 1]
  BY DEF WithSample
<1>2. DOMAIN x = {"speakers", "samples", "profiles", "nextSpeaker", "nextSample"}
  BY TableFields
<1>. HIDE DEF y
<1>3. /\ y.samples = [x.samples EXCEPT ![x.nextSample] = r]
      /\ y.speakers = x.speakers /\ y.profiles = x.profiles
      /\ y.nextSpeaker = x.nextSpeaker /\ y.nextSample = x.nextSample + 1
  BY <1>1, <1>2
<1>4. y = [speakers |-> y.speakers, samples |-> y.samples, profiles |-> y.profiles,
           nextSpeaker |-> y.nextSpeaker, nextSample |-> y.nextSample]
  BY <1>1, <1>2
<1>5. x.nextSample + 1 \in 1 .. MaxSample + 1
  BY TableParts, SpeakerStoreAssumption
<1>6. y.samples \in [SampleIds -> Sample \union {NoSample}]
  BY <1>3, TableParts
<1>7. y \in Tables
  BY <1>3, <1>5, <1>6, <1>4, TableParts, TablesOf
<1>. QED
  BY <1>3, <1>7 DEF y

LEMMA WithoutSpeakerType ==
  ASSUME NEW x \in Tables, NEW s \in SpeakerIds
  PROVE  TablesExtend(x, WithoutSpeaker(x, s))
<1> DEFINE w == WithoutSamples(x, SamplesOf(x, s))
           y == WithoutSpeaker(x, s)
<1>1. w \in Tables /\ w.nextSample = x.nextSample /\ w.nextSpeaker = x.nextSpeaker
  BY WithoutSamplesType DEF TablesExtend
<1>2. y = [w EXCEPT !.speakers[s] = NoName, !.profiles[s] = NoProfile]
  BY DEF WithoutSpeaker
<1>. HIDE DEF w, y
<1>3. DOMAIN w = {"speakers", "samples", "profiles", "nextSpeaker", "nextSample"}
  BY <1>1, TableFields
<1>4. /\ y.speakers = [w.speakers EXCEPT ![s] = NoName]
      /\ y.profiles = [w.profiles EXCEPT ![s] = NoProfile]
      /\ y.samples = w.samples
      /\ y.nextSpeaker = w.nextSpeaker /\ y.nextSample = w.nextSample
  BY <1>2, <1>3
<1>5. y = [speakers |-> y.speakers, samples |-> y.samples, profiles |-> y.profiles,
           nextSpeaker |-> y.nextSpeaker, nextSample |-> y.nextSample]
  BY <1>2, <1>3
<1>6. /\ y.speakers \in [SpeakerIds -> Names \union {NoName}]
      /\ y.profiles \in [SpeakerIds -> Profile]
  BY <1>1, <1>4, TableParts, NoProfileType
<1>7. y \in Tables
  BY <1>1, <1>4, <1>6, <1>5, TableParts, TablesOf
<1>. QED
  BY <1>1, <1>4, <1>7 DEF TablesExtend, y

LEMMA RebuiltType ==
  ASSUME NEW x \in Tables, NEW s
  PROVE  TablesExtend(x, Rebuilt(x, s)) /\ Rebuilt(x, s).speakers = x.speakers
<1> DEFINE profiles == [x.profiles EXCEPT ![s] = ProfileOf(x, s)]
<1>1. Rebuilt(x, s) =
        [speakers |-> x.speakers, samples |-> x.samples, profiles |-> profiles,
         nextSpeaker |-> x.nextSpeaker, nextSample |-> x.nextSample]
  BY TableParts DEF Rebuilt
<1>2. profiles \in [SpeakerIds -> Profile]
  BY TableParts, ProfileType
<1>. HIDE DEF profiles
<1>. QED
  BY <1>1, <1>2, TableParts, TablesOf DEF TablesExtend

LEMMA RescoredType ==
  ASSUME NEW x \in Tables, NEW i \in SampleIds, NEW score \in Scores,
         x.samples[i] # NoSample
  PROVE  TablesExtend(x, Rescored(x, i, score)) /\ Rescored(x, i, score).speakers = x.speakers
<1> DEFINE r == [x.samples[i] EXCEPT !.score = score]
           samples == [x.samples EXCEPT ![i] = r]
<1>1. x.samples[i] \in Sample
  BY TableParts
<1>2. r \in Sample
  BY <1>1 DEF Sample
<1>3. Rescored(x, i, score) =
        [speakers |-> x.speakers, samples |-> samples, profiles |-> x.profiles,
         nextSpeaker |-> x.nextSpeaker, nextSample |-> x.nextSample]
  BY TableParts DEF Rescored
<1>. HIDE DEF r
<1>4. samples \in [SampleIds -> Sample \union {NoSample}]
  BY <1>2, TableParts
<1>. HIDE DEF samples
<1>. QED
  BY <1>3, <1>4, TableParts, TablesOf DEF TablesExtend

LEMMA SmallStays == ASSUME StoreTyped, LoopTyped', ThreadTyped', Next PROVE SmallTyped'
<1>1. /\ lock \in {Free, Loop} \union Threads
      /\ rescore \in [runs : BOOLEAN, todo : SUBSET SampleIds]
      /\ unseen \in BOOLEAN /\ spoiled \subseteq SpeakerIds
      /\ loop.at = "rebuild" => loop.of \in SpeakerIds
      /\ \A t \in Threads : thread[t].at = "rebuild" => thread[t].of \in SpeakerIds
  BY DEF StoreTyped, SmallTyped, LoopTyped, ThreadTyped
<1>2. lock' \in {Free, Loop} \union Threads
  <2>1. CASE Api \/ LoopStep
    BY <1>1, <2>1 DEF Api, create_speaker, edit_speaker, delete_speaker, delete_sample,
       enroll, restore, LoopStep, EnrollFind, EnrollInsert, LoopRebuild, LoopFails
  <2>2. CASE \E t \in Threads : AutoStep(t)
    BY <1>1, <2>2 DEF AutoStep, AutoStart, AutoInsert, AutoSkips, AutoRebuild, AutoFails
  <2>3. CASE Rescore \/ RecalPass \/ RecalRead \/ RecalEnd \/ ForeignCommit \/ Crash
    BY <1>1, <2>3 DEF Rescore, RescoreStart, RescoreSample, RescoreEnd, RecalPass,
       RecalRead, RecalEnd, ForeignCommit, Crash
  <2>. QED
    BY <2>1, <2>2, <2>3 DEF Next
<1>3. spoiled' \subseteq SpeakerIds
  <2>1. CASE Api
    BY <1>1, <2>1 DEF Api, create_speaker, edit_speaker, delete_speaker, delete_sample,
       enroll, restore
  <2>2. CASE LoopStep
    BY <1>1, <2>2 DEF LoopStep, EnrollFind, EnrollInsert, LoopRebuild, LoopFails
  <2>3. CASE \E t \in Threads : AutoStep(t)
    BY <1>1, <2>3 DEF AutoStep, AutoStart, AutoInsert, AutoSkips, AutoRebuild, AutoFails
  <2>4. CASE Crash
    BY <1>1, <2>4 DEF Crash
  <2>5. CASE Rescore \/ RecalPass \/ RecalRead \/ RecalEnd \/ ForeignCommit
    BY <1>1, <2>5 DEF Rescore, RescoreStart, RescoreSample, RescoreEnd, RecalPass,
       RecalRead, RecalEnd, ForeignCommit
  <2>. QED
    BY <2>1, <2>2, <2>3, <2>4, <2>5 DEF Next
<1>4. rescore' \in [runs : BOOLEAN, todo : SUBSET SampleIds]
  <2>1. CASE Rescore
    <3>1. \A s : AutosOf(db, s) \subseteq SampleIds
      BY DEF AutosOf, SamplesOf
    <3>2. CASE \E s \in SpeakerIds : RescoreStart(s)
      <4>1. PICK s \in SpeakerIds : rescore' = [runs |-> TRUE, todo |-> AutosOf(db, s)]
        BY <3>2 DEF RescoreStart
      <4>. QED
        BY <3>1, <4>1
    <3>3. CASE \E i \in SampleIds, score \in Scores \ {0} : RescoreSample(i, score)
      <4>1. PICK i \in SampleIds : rescore' = [rescore EXCEPT !.todo = @ \ {i}]
        BY <3>3 DEF RescoreSample
      <4>. QED
        BY <1>1, <4>1
    <3>4. CASE RescoreEnd
      BY <3>4 DEF RescoreEnd
    <3>. QED
      BY <2>1, <3>2, <3>3, <3>4 DEF Rescore
  <2>2. CASE Crash
    BY <2>2 DEF Crash
  <2>3. CASE UNCHANGED rescore
    BY <1>1, <2>3
  <2>4. CASE Api \/ LoopStep
    BY <2>3, <2>4 DEF Api, create_speaker, edit_speaker, delete_speaker, delete_sample,
       enroll, restore, LoopStep, EnrollFind, EnrollInsert, LoopRebuild, LoopFails
  <2>5. CASE \E t \in Threads : AutoStep(t)
    BY <2>3, <2>5 DEF AutoStep, AutoStart, AutoInsert, AutoSkips, AutoRebuild, AutoFails
  <2>6. CASE RecalPass \/ RecalRead \/ RecalEnd \/ ForeignCommit
    BY <2>3, <2>6 DEF RecalPass, RecalRead, RecalEnd, ForeignCommit
  <2>. QED
    BY <2>1, <2>2, <2>4, <2>5, <2>6 DEF Next
<1>5. unseen' \in BOOLEAN
  <2>1. CASE Schedule
    BY <2>1, Zenon DEF Schedule
  <2>2. CASE RecalRead \/ Crash
    BY <2>2, Zenon DEF RecalRead, Crash
  <2>3. CASE UNCHANGED unseen
    BY <1>1, <2>3
  <2>4. CASE RecalPass \/ RecalEnd
    BY <2>3, <2>4 DEF RecalPass, RecalEnd
  <2>. QED
    BY <2>1, <2>2, <2>3, <2>4, RecalFrame
<1>. QED
  BY <1>2, <1>3, <1>4, <1>5 DEF SmallTyped

\* A step for which there is as much room as before.
LEMMA RoomStays ==
  ASSUME Kept, StoreTyped, db' \in Tables,
         db'.nextSample = db.nextSample, db'.nextSpeaker = db.nextSpeaker,
         Reserved' <= Reserved,
         \/ loop'.at = "idle"
         \/ /\ loop.at # "idle" /\ loop'.at # "idle" /\ loop'.rest = loop.rest
            /\ db'.speakers = db.speakers
  PROVE  Room'
<1>1. /\ Reserved \in Nat /\ ToInsert \in Nat /\ ToCreate \in Nat
      /\ db.nextSample \in Nat /\ db.nextSpeaker \in Nat
      /\ Reserved' \in Nat
  BY RoomFacts, ScoringIsFinite DEF Reserved
<1>2. ToInsert' <= ToInsert /\ ToInsert' \in Nat
  BY <1>1 DEF ToInsert
<1>3. ToCreate' <= ToCreate /\ ToCreate' \in Nat
  BY <1>1 DEF ToCreate, NewNames, SpeakersNamed
<1>. QED
  BY <1>1, <1>2, <1>3, SpeakerStoreAssumption DEF StoreTyped, Room

\* The loop is idle and stays so.
LEMMA SpeakerStepsTyped ==
  ASSUME Kept, StoreTyped,
         \/ \E n \in Names : create_speaker(n)
         \/ \E s \in SpeakerIds, n \in Names : edit_speaker(s, n)
         \/ \E s \in SpeakerIds : delete_speaker(s)
  PROVE  db' \in Tables /\ disk' \in Tables /\ LoopTyped' /\ ThreadTyped' /\ Room'
<1>1. loop.at = "idle" /\ UNCHANGED <<loop, thread>> /\ disk' = db'
  BY DEF create_speaker, edit_speaker, delete_speaker, Ready, Commit
<1>2. LoopTyped' /\ ThreadTyped' /\ Reserved' = Reserved
  BY <1>1 DEF StoreTyped, LoopTyped, ThreadTyped, Reserved
<1>3. db \in Tables /\ Reserved \in Nat /\ db.nextSpeaker \in Nat /\ db.nextSample \in Nat
  BY RoomFacts DEF StoreTyped
<1>4. CASE \E n \in Names : create_speaker(n)
  <2>1. PICK n \in Names : create_speaker(n)
    BY <1>4
  <2>2. /\ NameIsFree(db, n) /\ db' = WithSpeaker(db, n)
        /\ db.nextSpeaker - 1 + Cardinality({m \in {n} : SpeakersNamed(db, m) = {}})
             <= MaxSpeaker
    BY <2>1 DEF create_speaker, RoomForSpeakers
  <2>3. Cardinality({m \in {n} : SpeakersNamed(db, m) = {}}) = 1
    <3>1. {m \in {n} : SpeakersNamed(db, m) = {}} = {n}
      BY <2>2 DEF NameIsFree
    <3>. QED
      BY <3>1, FS_Singleton
  <2>4. db.nextSpeaker <= MaxSpeaker
    BY <1>3, <2>2, <2>3, SpeakerStoreAssumption
  <2>5. /\ db' \in Tables /\ db'.nextSample = db.nextSample
        /\ db'.nextSpeaker = db.nextSpeaker + 1
    BY <1>3, <2>2, <2>4, WithSpeakerType
  <2>6. Room'
    <3>1. ToInsert' = 0 /\ ToCreate' = 0 /\ ToInsert = 0
      BY <1>1 DEF ToInsert, ToCreate
    <3>. QED
      BY <1>2, <1>3, <2>4, <2>5, <3>1, SpeakerStoreAssumption DEF StoreTyped, Room
  <2>. QED
    BY <1>1, <1>2, <2>5, <2>6
<1>5. CASE \/ \E s \in SpeakerIds, n \in Names : edit_speaker(s, n)
           \/ \E s \in SpeakerIds : delete_speaker(s)
  <2>1. TablesExtend(db, db')
    <3>1. CASE \E s \in SpeakerIds, n \in Names : edit_speaker(s, n)
      BY <1>3, <3>1, RenamedType DEF edit_speaker
    <3>2. CASE \E s \in SpeakerIds : delete_speaker(s)
      BY <1>3, <3>2, WithoutSpeakerType DEF delete_speaker
    <3>. QED
      BY <1>5, <3>1, <3>2
  <2>2. Reserved' <= Reserved
    BY <1>2, <1>3
  <2>3. Room'
    BY <1>1, <2>1, <2>2, RoomStays DEF TablesExtend
  <2>. QED
    BY <1>1, <1>2, <2>1, <2>3 DEF TablesExtend
<1>. QED
  BY <1>4, <1>5

LEMMA EnrolStartTyped ==
  ASSUME Kept, StoreTyped,
         \/ \E i \in SampleIds : delete_sample(i)
         \/ \E r \in Requests : enroll(r)
  PROVE  db' \in Tables /\ disk' \in Tables /\ LoopTyped' /\ ThreadTyped' /\ Room'
<1>1. UNCHANGED <<disk, thread>> /\ loop.at = "idle"
  BY DEF delete_sample, enroll, Ready
<1>2. ThreadTyped' /\ Reserved' = Reserved /\ disk' \in Tables
  BY <1>1 DEF StoreTyped, ThreadTyped, Reserved
<1>3. db \in Tables /\ Reserved \in Nat /\ db.nextSpeaker \in Nat /\ db.nextSample \in Nat
  BY RoomFacts DEF StoreTyped
<1>4. ASSUME NEW i \in SampleIds, delete_sample(i)
      PROVE  db' \in Tables /\ LoopTyped' /\ Room'
  <2>1. /\ loop'.at = "rebuild" /\ loop'.of = db.samples[i].of /\ loop'.rest = <<>>
        /\ db' = WithoutSamples(db, {i}) /\ db.samples[i] # NoSample
    BY <1>4 DEF delete_sample
  <2>2. DOMAIN loop'.rest = {}
    BY <2>1
  <2>3. IsFiniteSet(DOMAIN loop'.rest) /\ Cardinality(DOMAIN loop'.rest) = 0
    BY <2>2, FS_EmptySet
  <2>4. db.samples[i].of \in SpeakerIds
    <3>1. db.samples[i] \in Sample
      BY <1>3, <2>1, TableParts
    <3>. QED
      BY <3>1 DEF Sample
  <2>5. LoopTyped'
    BY <2>1, <2>2, <2>3, <2>4 DEF LoopTyped
  <2>6. TablesExtend(db, db')
    BY <1>3, <2>1, WithoutSamplesType
  <2>7. Room'
    <3>1. NewNames(db', loop'.rest) = {}
      BY <2>2 DEF NewNames
    <3>2. ToInsert' = 0 /\ ToCreate' = 0 /\ ToInsert = 0 /\ ToCreate = 0
      BY <1>1, <2>1, <2>3, <3>1, FS_EmptySet DEF ToInsert, ToCreate
    <3>. QED
      BY <1>2, <1>3, <2>6, <3>2 DEF StoreTyped, Room, TablesExtend
  <2>. QED
    BY <2>5, <2>6, <2>7 DEF TablesExtend
<1>5. ASSUME NEW r \in Requests, enroll(r)
      PROVE  db' \in Tables /\ LoopTyped' /\ Room'
  <2> DEFINE sample == [name |-> r.name, style |-> r.style, mic |-> r.mic,
                        source |-> "user"]
  <2>1. /\ loop'.at = "find" /\ loop'.rest = <<sample>> /\ db' = db
        /\ db.nextSample + Reserved + 1 - 1 <= MaxSample
        /\ db.nextSpeaker - 1 + Cardinality({n \in {r.name} : SpeakersNamed(db, n) = {}})
             <= MaxSpeaker
    BY <1>5 DEF enroll, RoomForSamples, RoomForSpeakers
  <2>2. sample \in RestType /\ r.name \in Names /\ sample.name = r.name
    BY SpeakerStoreAssumption DEF RestType
  <2>. HIDE DEF sample
  <2>3. DOMAIN loop'.rest = {1} /\ loop'.rest[1] = sample
    BY <2>1
  <2>4. IsFiniteSet(DOMAIN loop'.rest) /\ Cardinality(DOMAIN loop'.rest) = 1
    BY <2>3, FS_Singleton
  <2>5. LoopTyped'
    BY <2>1, <2>2, <2>3, <2>4 DEF LoopTyped
  <2>6. NewNames(db', loop'.rest) = {n \in {r.name} : SpeakersNamed(db, n) = {}}
    BY <2>1, <2>2, <2>3 DEF NewNames
  <2>7. Room'
    <3>1. ToInsert' = 1 /\ ToCreate' \in Nat
          /\ ToCreate' = Cardinality({n \in {r.name} : SpeakersNamed(db, n) = {}})
      BY <2>1, <2>4, <2>6, NewNamesAreFinite DEF ToInsert, ToCreate
    <3>. QED
      BY <1>2, <1>3, <2>1, <3>1, SpeakerStoreAssumption DEF Room
  <2>. QED
    BY <1>3, <2>1, <2>5, <2>7
<1>. QED
  BY <1>2, <1>4, <1>5

LEMMA RestoreTyped ==
  ASSUME Kept, StoreTyped, NEW a \in Archives, NEW replace \in BOOLEAN,
         restore(a, replace)
  PROVE  db' \in Tables /\ disk' \in Tables /\ LoopTyped' /\ ThreadTyped' /\ Room'
<1> DEFINE left == {k \in DOMAIN a : SpeakersNamed(db', a[k].name) = {}}
           row(k) == [name |-> a[k].name, style |-> "normal", mic |-> a[k].mic,
                      source |-> a[k].source]
           S == [name : Names, source : {"user", "auto"}, mic : Mics \union {NoMic}]
           wiped == IF replace
                      THEN [db EXCEPT !.speakers = [s \in SpeakerIds |-> NoName],
                                      !.samples = [i \in SampleIds |-> NoSample],
                                      !.profiles = [s \in SpeakerIds |-> NoProfile]]
                      ELSE db
<1>1. /\ UNCHANGED thread
      /\ disk' = disk \/ disk' = db'
      /\ loop.at = "idle" /\ loop'.at = "find"
      /\ loop'.rest = [k \in left |-> row(k)]
      /\ db' = wiped
  BY DEF restore, Commit, Ready
<1>2. /\ RoomForSamples(Cardinality(left))
      /\ RoomForSpeakers(db', {a[k].name : k \in left})
  BY <1>1 DEF restore
<1>3. db \in Tables /\ Reserved \in Nat /\ db.nextSpeaker \in Nat /\ db.nextSample \in Nat
  BY RoomFacts DEF StoreTyped
<1>4. db' \in Tables /\ db'.nextSample = db.nextSample /\ db'.nextSpeaker = db.nextSpeaker
  <2>1. CASE ~replace
    BY <1>1, <1>3, <2>1
  <2>2. CASE replace
    <3> DEFINE n == [s \in SpeakerIds |-> NoName]
               m == [i \in SampleIds |-> NoSample]
               p == [s \in SpeakerIds |-> NoProfile]
               y == [db EXCEPT !.speakers = n, !.samples = m, !.profiles = p]
    <3>1. /\ n \in [SpeakerIds -> Names \union {NoName}]
          /\ m \in [SampleIds -> Sample \union {NoSample}]
          /\ p \in [SpeakerIds -> Profile]
      BY NoProfileType
    <3>2. db' = y
      BY <1>1, <2>2
    <3>3. DOMAIN db = {"speakers", "samples", "profiles", "nextSpeaker", "nextSample"}
      BY <1>3, TableFields
    <3>. HIDE DEF n, m, p
    <3>4. y = [db EXCEPT !.speakers = n, !.samples = m, !.profiles = p]
      OBVIOUS
    <3>. HIDE DEF y
    <3>5. /\ y.speakers = n /\ y.samples = m /\ y.profiles = p
          /\ y.nextSpeaker = db.nextSpeaker /\ y.nextSample = db.nextSample
      BY <3>3, <3>4
    <3>6. y = [speakers |-> y.speakers, samples |-> y.samples, profiles |-> y.profiles,
               nextSpeaker |-> y.nextSpeaker, nextSample |-> y.nextSample]
      BY <3>3, <3>4
    <3>7. y \in Tables
      BY <1>3, <3>1, <3>5, <3>6, TableParts, TablesOf
    <3>. QED
      BY <3>2, <3>5, <3>7 DEF y
  <2>. QED
    BY <2>1, <2>2
<1>. HIDE DEF wiped
<1>5. a \in Seq(S)
  BY ArchivesAssumption
<1>6. \A e \in S : /\ e.name \in Names /\ e.source \in {"user", "auto"}
                   /\ e.mic \in Mics \union {NoMic}
  OBVIOUS
<1>. HIDE DEF S
<1>7. /\ DOMAIN a = 1 .. Len(a) /\ Len(a) \in Nat
      /\ \A k \in DOMAIN a : a[k] \in S
  BY <1>5
<1>8. \A k \in DOMAIN a : row(k) \in RestType /\ row(k).name = a[k].name
                            /\ a[k].name \in Names
  BY <1>6, <1>7 DEF RestType, Styles
<1>. HIDE DEF left, row
<1>9. left \in SUBSET DOMAIN a
  BY DEF left
<1>10. /\ DOMAIN loop'.rest = left
       /\ \A k \in left : loop'.rest[k] = row(k)
  BY <1>1
<1>11. IsFiniteSet(left) /\ Cardinality(left) \in Nat
  <2>1. IsFiniteSet(DOMAIN a)
    BY <1>7, FS_Interval
  <2>. QED
    BY <1>9, <2>1, FS_Subset, FS_CardinalityType
<1>12. LoopTyped'
  BY <1>1, <1>8, <1>9, <1>10, <1>11 DEF LoopTyped
<1>13. ThreadTyped' /\ disk' \in Tables
  BY <1>1, <1>4 DEF StoreTyped, ThreadTyped
<1>14. Room'
  <2>1. NewNames(db', loop'.rest)
          = {n \in {a[k].name : k \in left} : SpeakersNamed(db', n) = {}}
    BY <1>8, <1>9, <1>10 DEF NewNames
  <2>2. ToInsert' = Cardinality(left)
    BY <1>1, <1>10 DEF ToInsert
  <2>3. /\ ToCreate' \in Nat
        /\ db'.nextSpeaker - 1 + ToCreate' <= MaxSpeaker
    BY <1>1, <1>2, <1>10, <1>11, <2>1, NewNamesAreFinite DEF ToCreate, RoomForSpeakers
  <2>4. Reserved' = Reserved
    BY <1>1 DEF Reserved
  <2>5. db.nextSample + Reserved + Cardinality(left) - 1 <= MaxSample
    BY <1>2 DEF RoomForSamples
  <2>. QED
    BY <1>3, <1>4, <1>11, <2>2, <2>3, <2>4, <2>5, SpeakerStoreAssumption DEF Room
<1>. QED
  BY <1>4, <1>12, <1>13, <1>14

\* The speaker of the next sample is found, or there is room for it.
LEMMA EnrollFindTyped ==
  ASSUME Kept, CapIInv, StoreTyped, EnrollFind
  PROVE  db' \in Tables /\ disk' \in Tables /\ LoopTyped' /\ ThreadTyped' /\ Room'
<1>1. PICK k \in DOMAIN loop.rest :
        LET n == loop.rest[k].name
            found == SpeakersNamed(db, n)
            s == IF found = {} THEN db.nextSpeaker ELSE CHOOSE f \in found : TRUE
        IN /\ db' = IF found = {} THEN WithSpeaker(db, n) ELSE db
           /\ loop' = [at |-> "score", of |-> s, schedules |-> loop.schedules,
                       next |-> k, rest |-> loop.rest]
  BY DEF EnrollFind
<1> DEFINE n == loop.rest[k].name
           found == SpeakersNamed(db, n)
<1>2. /\ loop.at = "find" /\ loop'.at = "score" /\ loop'.rest = loop.rest
      /\ loop'.next = k /\ UNCHANGED <<disk, thread>>
  BY <1>1 DEF EnrollFind
<1>3. /\ db \in Tables /\ Reserved \in Nat /\ ToCreate \in Nat /\ ToInsert \in Nat
      /\ db.nextSpeaker \in Nat /\ db.nextSample \in Nat
      /\ Numbered(db)
  BY RoomFacts DEF StoreTyped, CapIInv, TablesCapped
<1>4. /\ IsFiniteSet(DOMAIN loop.rest) /\ n \in Names
      /\ \A j \in DOMAIN loop.rest : loop.rest[j] \in RestType
  BY <1>2 DEF StoreTyped, LoopTyped, RestType
<1>5. ThreadTyped' /\ disk' \in Tables /\ Reserved' = Reserved
  BY <1>2 DEF StoreTyped, ThreadTyped, Reserved
<1>6. CASE found = {}
  <2>1. db' = WithSpeaker(db, n) /\ loop'.of = db.nextSpeaker
    BY <1>1, <1>6
  <2>2. n \in NewNames(db, loop.rest)
    BY <1>4, <1>6 DEF NewNames
  <2>. HIDE DEF n, found
  <2>3. ToCreate = Cardinality(NewNames(db, loop.rest)) /\ ToCreate # 0
        /\ IsFiniteSet(NewNames(db, loop.rest))
    <3>1. ToCreate = Cardinality(NewNames(db, loop.rest))
      BY <1>2 DEF ToCreate
    <3>2. IsFiniteSet(NewNames(db, loop.rest))
      BY <1>4, NewNamesAreFinite
    <3>. QED
      BY <2>2, <3>1, <3>2, FS_EmptySet
  <2>4. db.nextSpeaker <= MaxSpeaker
    BY <1>3, <2>3, SpeakerStoreAssumption DEF StoreTyped, Room
  <2>5. /\ db' \in Tables /\ db'.nextSample = db.nextSample
        /\ db'.nextSpeaker = db.nextSpeaker + 1 /\ db.nextSpeaker \in SpeakerIds
        /\ db'.speakers[db.nextSpeaker] = n
    BY <1>3, <1>4, <2>1, <2>4, WithSpeakerType
  <2>6. LoopTyped'
    BY <1>2, <1>4, <2>1, <2>5 DEF LoopTyped
  <2>7. NewNames(db', loop.rest) \subseteq NewNames(db, loop.rest) \ {n}
    <3>1. \A s \in SpeakerIds :
            db'.speakers[s] = IF s = db.nextSpeaker THEN n ELSE db.speakers[s]
      BY <1>3, <2>1, WithSpeakerAutos DEF Kept, TablesFit
    <3>2. db.speakers[db.nextSpeaker] = NoName
      BY <1>3, <2>5 DEF Numbered, Exists
    <3>3. \A m \in Names : m # NoName
      BY SpeakerStoreAssumption
    <3>. QED
      BY <2>5, <3>1, <3>2, <3>3 DEF NewNames, SpeakersNamed
  <2>8. ToCreate' \in Nat /\ ToCreate' <= ToCreate - 1
    <3>1. Cardinality(NewNames(db, loop.rest) \ {n}) = ToCreate - 1
          /\ IsFiniteSet(NewNames(db, loop.rest) \ {n})
      BY <2>2, <2>3, FS_RemoveElement
    <3>2. Cardinality(NewNames(db', loop.rest)) <= ToCreate - 1
      BY <2>7, <3>1, FS_Subset
    <3>3. ToCreate' = Cardinality(NewNames(db', loop.rest))
      BY <1>2 DEF ToCreate
    <3>4. Cardinality(NewNames(db', loop.rest)) \in Nat
      BY <1>4, NewNamesAreFinite
    <3>. QED
      BY <3>2, <3>3, <3>4
  <2>9. ToInsert' = ToInsert
    BY <1>2 DEF ToInsert
  <2>10. Room'
    BY <1>3, <1>5, <2>5, <2>8, <2>9, SpeakerStoreAssumption DEF StoreTyped, Room
  <2>. QED
    BY <1>5, <2>5, <2>6, <2>10
<1>7. CASE found # {}
  <2>1. db' = db /\ loop'.of \in found
    BY <1>1, <1>7
  <2>2. loop'.of \in SpeakerIds
    BY <2>1 DEF SpeakersNamed
  <2>. HIDE DEF n, found
  <2>3. LoopTyped'
    BY <1>2, <1>4, <2>2 DEF LoopTyped
  <2>4. Room'
    <3>1. ToInsert' = ToInsert /\ ToCreate' = ToCreate
      BY <1>2, <2>1 DEF ToInsert, ToCreate
    <3>. QED
      BY <1>5, <2>1, <3>1 DEF StoreTyped, Room
  <2>. QED
    BY <1>3, <1>5, <2>1, <2>3, <2>4
<1>. QED
  BY <1>6, <1>7

LEMMA EnrollInsertTyped ==
  ASSUME Kept, StoreTyped, EnrollInsert
  PROVE  db' \in Tables /\ disk' \in Tables /\ LoopTyped' /\ ThreadTyped' /\ Room'
<1> DEFINE new == loop.rest[loop.next]
           r == [of |-> loop.of, source |-> new.source, style |-> new.style,
                 mic |-> new.mic, score |-> 0]
           rest == [k \in DOMAIN loop.rest \ {loop.next} |-> loop.rest[k]]
<1>1. /\ loop.at = "score" /\ loop'.at = "rebuild" /\ loop'.rest = rest
      /\ loop'.of = loop.of /\ db' = WithSample(db, r) /\ UNCHANGED <<disk, thread>>
  BY DEF EnrollInsert
<1>2. /\ db \in Tables /\ Reserved \in Nat /\ ToCreate \in Nat /\ ToInsert \in Nat
      /\ db.nextSpeaker \in Nat /\ db.nextSample \in Nat
  BY RoomFacts DEF StoreTyped
<1>3. /\ IsFiniteSet(DOMAIN loop.rest) /\ loop.next \in DOMAIN loop.rest
      /\ \A k \in DOMAIN loop.rest : loop.rest[k] \in RestType
      /\ loop.of \in SpeakerIds
  BY <1>1 DEF StoreTyped, LoopTyped
<1>4. r \in Sample
  <2>1. new \in RestType
    BY <1>3
  <2>2. 0 \in Scores
    BY SpeakerStoreAssumption DEF Scores
  <2>. HIDE DEF new
  <2>. QED
    BY <1>3, <2>1, <2>2 DEF RestType, Sample
<1>5. /\ DOMAIN rest = DOMAIN loop.rest \ {loop.next}
      /\ \A k \in DOMAIN rest : rest[k] = loop.rest[k]
  OBVIOUS
<1>. HIDE DEF new, r, rest
<1>6. ToInsert = Cardinality(DOMAIN loop.rest)
  BY <1>1 DEF ToInsert
<1>7. IsFiniteSet(DOMAIN rest) /\ Cardinality(DOMAIN rest) = ToInsert - 1
  BY <1>3, <1>5, <1>6, FS_RemoveElement
<1>8. Cardinality(DOMAIN rest) \in Nat
  BY <1>7, FS_CardinalityType
<1>9. db.nextSample <= MaxSample
  BY <1>2, <1>7, <1>8, SpeakerStoreAssumption DEF StoreTyped, Room
<1>10. /\ db' \in Tables /\ db'.nextSample = db.nextSample + 1
       /\ db'.nextSpeaker = db.nextSpeaker /\ db'.speakers = db.speakers
  BY <1>1, <1>2, <1>4, <1>9, WithSampleType
<1>11. LoopTyped'
  BY <1>1, <1>3, <1>5, <1>7 DEF LoopTyped
<1>12. ThreadTyped' /\ disk' \in Tables /\ Reserved' = Reserved
  BY <1>1 DEF StoreTyped, ThreadTyped, Reserved
<1>13. ToCreate' \in Nat /\ ToCreate' <= ToCreate
  <2>1. NewNames(db', rest) \subseteq NewNames(db, loop.rest)
    BY <1>5, <1>10 DEF NewNames, SpeakersNamed
  <2>2. IsFiniteSet(NewNames(db, loop.rest))
    BY <1>3, NewNamesAreFinite
  <2>3. Cardinality(NewNames(db', rest)) <= Cardinality(NewNames(db, loop.rest))
    BY <2>1, <2>2, FS_Subset
  <2>4. Cardinality(NewNames(db', rest)) \in Nat
    BY <1>7, NewNamesAreFinite
  <2>. QED
    BY <1>1, <2>3, <2>4 DEF ToCreate
<1>14. ToInsert' = ToInsert - 1
  BY <1>1, <1>7 DEF ToInsert
<1>15. Room'
  BY <1>2, <1>10, <1>12, <1>13, <1>14, SpeakerStoreAssumption DEF StoreTyped, Room
<1>. QED
  BY <1>10, <1>11, <1>12, <1>15

LEMMA LoopEndTyped ==
  ASSUME Kept, StoreTyped, LoopRebuild \/ LoopFails
  PROVE  db' \in Tables /\ disk' \in Tables /\ LoopTyped' /\ ThreadTyped' /\ Room'
<1>1. /\ loop.at = "rebuild" /\ UNCHANGED thread
      /\ disk' = disk \/ disk' = db'
      /\ \/ loop'.at = "idle"
         \/ loop'.at = "find" /\ loop'.rest = loop.rest
  BY DEF LoopRebuild, LoopFails, Commit, Continue, IdleLoop
<1>2. db \in Tables /\ disk \in Tables /\ Reserved \in Nat
  BY RoomFacts DEF StoreTyped
<1>3. TablesExtend(db, db') /\ db'.speakers = db.speakers
  <2>1. CASE LoopRebuild
    BY <1>2, <2>1, RebuiltType DEF LoopRebuild
  <2>2. CASE LoopFails
    BY <1>2, <2>2 DEF LoopFails, TablesExtend
  <2>. QED
    BY <2>1, <2>2
<1>4. LoopTyped'
  BY <1>1 DEF StoreTyped, LoopTyped
<1>5. ThreadTyped' /\ Reserved' = Reserved
  BY <1>1 DEF StoreTyped, ThreadTyped, Reserved
<1>6. Reserved' <= Reserved
  BY <1>2, <1>5
<1>7. Room'
  BY <1>1, <1>3, <1>6, RoomStays DEF TablesExtend
<1>. QED
  BY <1>1, <1>2, <1>3, <1>4, <1>5, <1>7 DEF TablesExtend

\* A thread goes where it has nothing to insert, or to its insert with an id
\* reserved.
LEMMA ReservedMoves ==
  ASSUME Kept, NEW t \in Threads, NEW to, thread' = [thread EXCEPT ![t] = to]
  PROVE  /\ \A u \in Threads : thread'[u] = IF u = t THEN to ELSE thread[u]
         /\ Reserved \in Nat /\ Reserved' \in Nat
         /\ to.at # "score" => Reserved' <= Reserved
         /\ to.at # "score" /\ thread[t].at = "score" => Reserved' = Reserved - 1
         /\ to.at = "score" /\ thread[t].at # "score" => Reserved' = Reserved + 1
<1> DEFINE scoring == {u \in Threads : thread[u].at = "score"}
           after == {u \in Threads : thread'[u].at = "score"}
<1>1. \A u \in Threads : thread'[u] = IF u = t THEN to ELSE thread[u]
  BY DEF Kept, RebuildsHoldTheLock
<1>2. IsFiniteSet(scoring) /\ Cardinality(scoring) \in Nat /\ Cardinality(after) \in Nat
  BY ScoringIsFinite
<1>3. to.at # "score" => after = scoring \ {t}
  BY <1>1
<1>4. to.at = "score" => after = scoring \union {t}
  BY <1>1
<1>5. t \in scoring <=> thread[t].at = "score"
  OBVIOUS
<1>6. Reserved = Cardinality(scoring) /\ Reserved' = Cardinality(after)
  BY DEF Reserved
<1>. HIDE DEF scoring, after
<1>7. Cardinality(scoring \ {t}) = IF t \in scoring THEN Cardinality(scoring) - 1
                                   ELSE Cardinality(scoring)
  BY <1>2, FS_RemoveElement
<1>8. Cardinality(scoring \union {t}) = IF t \in scoring THEN Cardinality(scoring)
                                        ELSE Cardinality(scoring) + 1
  BY <1>2, FS_AddElement
<1>9. CASE to.at = "score"
  <2>1. Cardinality(after) = Cardinality(scoring \union {t})
    BY <1>4, <1>9
  <2>. QED
    BY <1>1, <1>2, <1>5, <1>6, <1>8, <1>9, <2>1
<1>10. CASE to.at # "score"
  <2>1. Cardinality(after) = Cardinality(scoring \ {t})
    BY <1>3, <1>10
  <2>. QED
    BY <1>1, <1>2, <1>5, <1>6, <1>7, <1>10, <2>1
<1>. QED
  BY <1>9, <1>10

LEMMA AutoInsertTyped ==
  ASSUME Kept, StoreTyped, NEW t \in Threads, NEW score \in Scores,
         NEW gone \in SUBSET SampleIds, AutoInsert(t, score, gone)
  PROVE  db' \in Tables /\ disk' \in Tables /\ LoopTyped' /\ ThreadTyped' /\ Room'
<1> DEFINE s == thread[t].of
           r == [of |-> s, source |-> "auto", style |-> "normal",
                 mic |-> thread[t].mic, score |-> score]
           to == [at |-> "rebuild", of |-> s]
           w == WithoutSamples(db, gone)
<1>1. /\ UNCHANGED <<disk, loop>> /\ thread[t].at = "score"
      /\ thread' = [thread EXCEPT ![t] = to] /\ db' = WithSample(w, r)
  BY DEF AutoInsert
<1>2. /\ db \in Tables /\ Reserved \in Nat /\ ToCreate \in Nat /\ ToInsert \in Nat
      /\ db.nextSpeaker \in Nat /\ db.nextSample \in Nat
  BY RoomFacts DEF StoreTyped
<1>3. r \in Sample /\ s \in SpeakerIds
  BY <1>1 DEF StoreTyped, ThreadTyped, Sample, Styles
<1>4. to.at = "rebuild" /\ to.of = s
  OBVIOUS
<1>. HIDE DEF s, r, to, w
<1>5. /\ \A u \in Threads : thread'[u] = IF u = t THEN to ELSE thread[u]
      /\ Reserved' \in Nat /\ Reserved' = Reserved - 1
  BY <1>1, <1>4, ReservedMoves
<1>6. /\ w \in Tables /\ w.nextSample = db.nextSample /\ w.nextSpeaker = db.nextSpeaker
      /\ w.speakers = db.speakers
  BY <1>2, WithoutSamplesType DEF w, TablesExtend
<1>7. w.nextSample <= MaxSample
  BY <1>2, <1>5, <1>6, SpeakerStoreAssumption DEF StoreTyped, Room
<1>8. /\ db' \in Tables /\ db'.nextSample = db.nextSample + 1
      /\ db'.nextSpeaker = db.nextSpeaker /\ db'.speakers = db.speakers
  BY <1>1, <1>3, <1>6, <1>7, WithSampleType
<1>9. LoopTyped' /\ disk' \in Tables
  BY <1>1 DEF StoreTyped, LoopTyped
<1>10. ThreadTyped'
  BY <1>3, <1>4, <1>5 DEF StoreTyped, ThreadTyped
<1>11. ToInsert' = ToInsert /\ ToCreate' = ToCreate
  BY <1>1, <1>8 DEF ToInsert, ToCreate, NewNames, SpeakersNamed
<1>12. Room'
  BY <1>2, <1>5, <1>8, <1>11, SpeakerStoreAssumption DEF StoreTyped, Room
<1>. QED
  BY <1>8, <1>9, <1>10, <1>12

LEMMA AutoStepTyped ==
  ASSUME Kept, StoreTyped, NEW t \in Threads, AutoStep(t)
  PROVE  db' \in Tables /\ disk' \in Tables /\ LoopTyped' /\ ThreadTyped' /\ Room'
<1> DEFINE Goal == /\ db' \in Tables /\ disk' \in Tables
                   /\ LoopTyped' /\ ThreadTyped' /\ Room'
<1>1. /\ db \in Tables /\ disk \in Tables /\ Reserved \in Nat /\ ToCreate \in Nat
      /\ ToInsert \in Nat /\ db.nextSpeaker \in Nat /\ db.nextSample \in Nat
  BY RoomFacts DEF StoreTyped
<1>2. ASSUME NEW s \in SpeakerIds, NEW mic \in Mics, AutoStart(t, s, mic) PROVE Goal
  <2> DEFINE to == [at |-> "score", of |-> s, mic |-> mic]
  <2>1. /\ thread[t].at = "idle" /\ loop.at = "idle" /\ UNCHANGED <<db, disk, loop>>
        /\ thread' = [thread EXCEPT ![t] = to]
        /\ db.nextSample + Reserved + 1 - 1 <= MaxSample
    BY <1>2 DEF AutoStart, Ready, RoomForSamples
  <2>2. to.at = "score" /\ to.of \in SpeakerIds /\ to.mic \in Mics
    OBVIOUS
  <2>. HIDE DEF to
  <2>3. /\ \A u \in Threads : thread'[u] = IF u = t THEN to ELSE thread[u]
        /\ Reserved' = Reserved + 1
    BY <2>1, <2>2, ReservedMoves
  <2>4. ThreadTyped'
    BY <2>2, <2>3 DEF StoreTyped, ThreadTyped
  <2>5. LoopTyped'
    BY <2>1 DEF StoreTyped, LoopTyped
  <2>6. ToInsert' = 0 /\ ToCreate' = 0 /\ ToCreate = 0
    BY <2>1 DEF ToInsert, ToCreate
  <2>7. Room'
    BY <1>1, <2>1, <2>3, <2>6, SpeakerStoreAssumption DEF StoreTyped, Room
  <2>. QED
    BY <1>1, <2>1, <2>4, <2>5, <2>7
<1>3. ASSUME AutoSkips(t) \/ AutoRebuild(t) \/ AutoFails(t) PROVE Goal
  <2> DEFINE to == [at |-> "idle"]
  <2>1. /\ thread' = [thread EXCEPT ![t] = to] /\ UNCHANGED loop
        /\ disk' = disk \/ disk' = db'
        /\ db' = db \/ db' = Rebuilt(db, thread[t].of)
    BY <1>3 DEF AutoSkips, AutoRebuild, AutoFails, Commit
  <2>2. to.at = "idle"
    OBVIOUS
  <2>. HIDE DEF to
  <2>3. /\ \A u \in Threads : thread'[u] = IF u = t THEN to ELSE thread[u]
        /\ Reserved' <= Reserved
    BY <2>1, <2>2, ReservedMoves
  <2>4. ThreadTyped'
    BY <2>2, <2>3 DEF StoreTyped, ThreadTyped
  <2>5. LoopTyped'
    BY <2>1 DEF StoreTyped, LoopTyped
  <2>6. TablesExtend(db, db') /\ db'.speakers = db.speakers
    BY <1>1, <2>1, RebuiltType DEF TablesExtend
  <2>7. Room'
    BY <2>1, <2>3, <2>6, RoomStays DEF TablesExtend
  <2>. QED
    BY <1>1, <2>1, <2>4, <2>5, <2>6, <2>7 DEF TablesExtend
<1>. HIDE DEF Goal
<1>4. Goal
  BY <1>2, <1>3, AutoInsertTyped DEF AutoStep, Goal
<1>. QED
  BY <1>4 DEF Goal

LEMMA OtherStepsTyped ==
  ASSUME Kept, StoreTyped, UNCHANGED <<loop, thread>>,
         disk' = disk \/ disk' = db',
         \/ db' = db
         \/ \E i \in SampleIds, score \in Scores \ {0} : RescoreSample(i, score)
  PROVE  db' \in Tables /\ disk' \in Tables /\ LoopTyped' /\ ThreadTyped' /\ Room'
<1>1. db \in Tables /\ disk \in Tables /\ Reserved \in Nat
  BY RoomFacts DEF StoreTyped
<1>2. TablesExtend(db, db') /\ db'.speakers = db.speakers
  <2>1. CASE db' = db
    BY <1>1, <2>1 DEF TablesExtend
  <2>2. ASSUME NEW i \in SampleIds, NEW score \in Scores \ {0}, RescoreSample(i, score)
        PROVE  TablesExtend(db, db') /\ db'.speakers = db.speakers
    <3>1. db' = IF db.samples[i] = NoSample THEN db ELSE Rescored(db, i, score)
      BY <2>2 DEF RescoreSample, Rescored
    <3>. QED
      BY <1>1, <2>1, <3>1, RescoredType
  <2>. QED
    BY <2>1, <2>2
<1>3. LoopTyped' /\ ThreadTyped' /\ Reserved' = Reserved
  BY DEF StoreTyped, LoopTyped, ThreadTyped, Reserved
<1>4. /\ Reserved' <= Reserved
      /\ loop'.at = "idle" \/ (loop.at # "idle" /\ loop'.at # "idle" /\ loop'.rest = loop.rest)
  BY <1>1, <1>3
<1>5. Room'
  BY <1>2, <1>4, RoomStays DEF TablesExtend
<1>. QED
  BY <1>1, <1>2, <1>3, <1>5 DEF TablesExtend

LEMMA CrashTyped ==
  ASSUME StoreTyped, Crash
  PROVE  db' \in Tables /\ disk' \in Tables /\ LoopTyped' /\ ThreadTyped' /\ Room'
<1>1. /\ db' = disk /\ disk' = disk /\ loop' = [at |-> "idle"]
      /\ thread' = [t \in Threads |-> [at |-> "idle"]]
  BY DEF Crash, IdleLoop
<1>2. loop'.at = "idle" /\ \A t \in Threads : thread'[t].at = "idle"
  BY <1>1
<1>3. LoopTyped' /\ ThreadTyped'
  BY <1>2 DEF LoopTyped, ThreadTyped
<1>4. {t \in Threads : thread'[t].at = "score"} = {}
  BY <1>2
<1>5. Reserved' = 0 /\ ToInsert' = 0 /\ ToCreate' = 0
  BY <1>2, <1>4, FS_EmptySet DEF Reserved, ToInsert, ToCreate
<1>6. disk \in Tables /\ disk.nextSpeaker \in 1 .. MaxSpeaker + 1
      /\ disk.nextSample \in 1 .. MaxSample + 1
  BY TableParts DEF StoreTyped
<1>7. Room'
  BY <1>1, <1>5, <1>6, SpeakerStoreAssumption DEF Room
<1>. QED
  BY <1>1, <1>3, <1>6, <1>7

LEMMA TypedInit == Init => StoreTyped
<1> SUFFICES ASSUME Init PROVE StoreTyped
  OBVIOUS
<1> DEFINE n == [s \in SpeakerIds |-> NoName]
           m == [i \in SampleIds |-> NoSample]
           p == [s \in SpeakerIds |-> NoProfile]
<1>1. /\ n \in [SpeakerIds -> Names \union {NoName}]
      /\ m \in [SampleIds -> Sample \union {NoSample}]
      /\ p \in [SpeakerIds -> Profile]
  BY NoProfileType
<1>2. db = [speakers |-> n, samples |-> m, profiles |-> p,
            nextSpeaker |-> 1, nextSample |-> 1]
      /\ disk = db /\ lock = Free /\ loop.at = "idle"
      /\ \A t \in Threads : thread[t].at = "idle"
  BY DEF Init, IdleLoop
<1>. HIDE DEF n, m, p
<1>3. 1 \in 1 .. MaxSpeaker + 1 /\ 1 \in 1 .. MaxSample + 1
  BY SpeakerStoreAssumption
<1>4. db \in Tables /\ disk \in Tables
  BY <1>1, <1>2, <1>3, TablesOf
<1>5. LoopTyped /\ ThreadTyped
  BY <1>2 DEF LoopTyped, ThreadTyped
<1>6. SmallTyped
  BY <1>2 DEF Init, SmallTyped
<1>7. {t \in Threads : thread[t].at = "score"} = {}
  BY <1>2
<1>8. Reserved = 0 /\ ToInsert = 0 /\ ToCreate = 0
  BY <1>2, <1>7, FS_EmptySet DEF Reserved, ToInsert, ToCreate
<1>9. Room
  BY <1>2, <1>8, SpeakerStoreAssumption DEF Room
<1>. QED
  BY <1>4, <1>5, <1>6, <1>9 DEF StoreTyped

LEMMA TypedNext == Kept /\ CapIInv /\ StoreTyped /\ [Next]_vars => StoreTyped'
<1> SUFFICES ASSUME Kept, CapIInv, StoreTyped, [Next]_vars PROVE StoreTyped'
  OBVIOUS
<1> DEFINE Goal == /\ db' \in Tables /\ disk' \in Tables
                   /\ LoopTyped' /\ ThreadTyped' /\ Room'
<1>1. CASE UNCHANGED vars
  <2>1. UNCHANGED <<loop, thread, db, disk, lock, rescore, unseen, spoiled>>
    BY <1>1 DEF vars
  <2>2. Goal
    BY <2>1, OtherStepsTyped
  <2>3. SmallTyped'
    BY <2>1 DEF StoreTyped, SmallTyped
  <2>. QED
    BY <2>2, <2>3 DEF StoreTyped
<1>2. ASSUME Api PROVE Goal
  BY <1>2, SpeakerStepsTyped, EnrolStartTyped, RestoreTyped DEF Api
<1>3. ASSUME LoopStep PROVE Goal
  BY <1>3, EnrollFindTyped, EnrollInsertTyped, LoopEndTyped DEF LoopStep
<1>4. ASSUME NEW t \in Threads, AutoStep(t) PROVE Goal
  BY <1>4, AutoStepTyped
<1>5. ASSUME Rescore PROVE Goal
  <2>1. /\ UNCHANGED <<loop, thread>>
        /\ disk' = disk \/ disk' = db'
        /\ \/ db' = db
           \/ \E i \in SampleIds, score \in Scores \ {0} : RescoreSample(i, score)
    BY <1>5 DEF Rescore, RescoreStart, RescoreSample, RescoreEnd
  <2>. QED
    BY <2>1, OtherStepsTyped
<1>6. ASSUME RecalPass \/ RecalRead \/ RecalEnd \/ ForeignCommit PROVE Goal
  <2>1. /\ UNCHANGED <<loop, thread>> /\ db' = db
        /\ disk' = disk \/ disk' = db'
    BY <1>6 DEF RecalPass, RecalRead, RecalEnd, ForeignCommit
  <2>. QED
    BY <2>1, OtherStepsTyped
<1>7. ASSUME Crash PROVE Goal
  BY <1>7, CrashTyped
<1>. HIDE DEF Goal
<1>8. CASE Next
  <2>1. Goal
    BY <1>2, <1>3, <1>4, <1>5, <1>6, <1>7, <1>8 DEF Next
  <2>2. SmallTyped'
    BY <1>8, <2>1, SmallStays DEF Goal
  <2>. QED
    BY <2>1, <2>2 DEF StoreTyped, Goal
<1>. QED
  BY <1>1, <1>8

\* TypeOK.  In particular no operation runs out of ids half-way, whatever
\* threads have reserved meanwhile: what it starts with room for it can insert.
THEOREM StoreIsTyped == Spec => []TypeOK
<1>1. StoreTyped /\ FollowUpIsDue => TypeOK
  BY DEF StoreTyped, SmallTyped, LoopTyped, ThreadTyped, FollowUpIsDue, TypeOK
<1>2. Spec => []FollowUpIsDue
  BY FollowUpKept
<1>. QED
  BY <1>1, <1>2, TypedInit, TypedNext, CapInit, CapNext, KeptInit, KeptNext, PTL DEF Spec
=============================================================================
