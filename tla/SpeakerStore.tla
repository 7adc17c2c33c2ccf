----------------------------- MODULE SpeakerStore -----------------------------
(***************************************************************************)
(* The speakers, their samples and their voiceprints                       *)
(* (core/speaker_store.py, core/db.py), the web API that edits them        *)
(* (api/routes_speakers.py), the part of a restore that brings them back   *)
(* (api/routes_backup.py), auto-enrolment from a session's thread, and the *)
(* debounced recalibration (core/context.py).                              *)
(*                                                                         *)
(* The web API runs on the event loop, one operation at a time.  Auto-     *)
(* enrolments, rescoring and recalibration run in threads of their own.    *)
(* The store's lock is held around groups of statements, not around the    *)
(* slow scoring between them.  All stores share one SQLite connection:     *)
(* any commit makes everyone's open statements permanent, and nothing is   *)
(* ever rolled back, except by a crash.                                    *)
(***************************************************************************)
EXTENDS Integers, FiniteSets, Sequences, FiniteSetsExt

CONSTANTS
  Names, NoName,   \* names of speakers; no speaker under this id
  Mics, NoMic,     \* satellites; a sample of no satellite
  Threads,         \* threads that auto-enrol
  Free, Loop,      \* the lock's holder: nobody, the loop, or a thread
  MaxSpeaker,      \* bounds on the ids that AUTOINCREMENT hands out
  MaxSample,
  AutoCap,         \* auto_enroll_max_samples
  WhisperMin,      \* WHISPER_PROFILE_MIN_SAMPLES
  SatelliteMin,    \* SATELLITE_PROFILE_MIN_SAMPLES
  MaxScore,        \* quality scores are 1 .. MaxScore, 0 is "not scored"
  Requests,        \* enrolments: a name, a style, a satellite, and whether a
                   \* recalibration is scheduled after it
  Archives         \* backups that may be restored, as sequences of samples

SpeakerIds == 1 .. MaxSpeaker
SampleIds == 1 .. MaxSample
Scores == 0 .. MaxScore
Styles == {"normal", "whisper"}
NoSample == [of |-> 0]   \* no sample under this id

ASSUME SpeakerStoreAssumption ==
  /\ MaxSpeaker \in Nat /\ MaxSample \in Nat /\ MaxScore \in Nat
  /\ AutoCap \in Nat \ {0} /\ WhisperMin \in Nat \ {0} /\ SatelliteMin \in Nat \ {0}
  /\ NoName \notin Names /\ NoMic \notin Mics
  /\ Free # Loop /\ Free \notin Threads /\ Loop \notin Threads
  /\ IsFiniteSet(Threads)
  /\ Requests \subseteq [name : Names, style : Styles, mic : Mics \union {NoMic},
                        schedules : BOOLEAN]

\* The backups are of stores with this cap.
ASSUME ArchivesAssumption ==
  \A a \in Archives :
    /\ a \in Seq([name : Names, source : {"user", "auto"}, mic : Mics \union {NoMic}])
    /\ \A n \in Names :
         Cardinality({k \in DOMAIN a : a[k].source = "auto" /\ a[k].name = n}) <= AutoCap

VARIABLES
  db,        \* the tables as the connection shows them
  disk,      \* the tables as they were committed
  lock,      \* who holds the store's lock
  loop,      \* the web API's operation on the event loop
  thread,    \* the auto-enrolments
  rescore,   \* the rescoring thread: the samples it has left, if it runs
  recal,     \* the recalibration task, and the _recalibration_pending flag
  unseen,    \* history: a change asked for a recalibration that has not read it
  spoiled    \* history: speakers whose rebuild an error or a crash cut short

vars == <<db, disk, lock, loop, thread, rescore, recal, unseen, spoiled>>

Sample == [of : SpeakerIds, source : {"user", "auto"}, style : Styles,
           mic : Mics \union {NoMic}, score : Scores]

Profile == [count : Nat, centroid : SUBSET SampleIds, whisper : SUBSET SampleIds,
            satellite : [Mics -> SUBSET SampleIds]]

Tables == [speakers : [SpeakerIds -> Names \union {NoName}],
           samples : [SampleIds -> Sample \union {NoSample}],
           profiles : [SpeakerIds -> Profile],
           nextSpeaker : 1 .. MaxSpeaker + 1, nextSample : 1 .. MaxSample + 1]

TypeOK ==
  /\ db \in Tables /\ disk \in Tables
  /\ lock \in {Free, Loop} \union Threads
  /\ loop.at \in {"idle", "find", "score", "rebuild"}
  /\ \A t \in Threads : thread[t].at \in {"idle", "score", "rebuild"}
  /\ rescore.todo \subseteq SampleIds /\ rescore.runs \in BOOLEAN
  /\ recal \in [at : {"idle", "start", "read", "fit"}, pending : BOOLEAN]
  /\ unseen \in BOOLEAN
  /\ spoiled \subseteq SpeakerIds

-----------------------------------------------------------------------------
(* What the tables hold.                                                   *)

SamplesOf(x, s) == {i \in SampleIds : x.samples[i] # NoSample /\ x.samples[i].of = s}
AutosOf(x, s) == {i \in SamplesOf(x, s) : x.samples[i].source = "auto"}
SpeakersNamed(x, n) == {s \in SpeakerIds : x.speakers[s] = n}
Exists(x, s) == x.speakers[s] # NoName

NoProfile == [count |-> 0, centroid |-> {}, whisper |-> {},
              satellite |-> [m \in Mics |-> {}]]

\* _compute_centroid.  An average is modelled by the samples it is taken of.
ProfileOf(x, s) ==
  LET normal == {i \in SamplesOf(x, s) : x.samples[i].style = "normal"}
      whisper == SamplesOf(x, s) \ normal
      Enough(set, n) == IF Cardinality(set) >= n THEN set ELSE {}
  IN [count |-> Cardinality(normal),
      centroid |-> normal,
      whisper |-> Enough(whisper, WhisperMin),
      satellite |-> [m \in Mics |->
        Enough({i \in normal : x.samples[i].mic = m}, SatelliteMin)]]

-----------------------------------------------------------------------------
(* Statements: each maps tables to tables.                                 *)

NameIsFree(x, n) == SpeakersNamed(x, n) = {}

WithSpeaker(x, n) ==
  [x EXCEPT !.speakers[x.nextSpeaker] = n, !.nextSpeaker = @ + 1]

\* update_speaker; of what it edits only the name matters here.
Renamed(x, s, n) == [x EXCEPT !.speakers[s] = n]

WithSample(x, sample) ==
  [x EXCEPT !.samples[x.nextSample] = sample, !.nextSample = @ + 1]

WithoutSamples(x, gone) ==
  [x EXCEPT !.samples = [i \in SampleIds |-> IF i \in gone THEN NoSample ELSE @[i]]]

\* The samples and the satellite and style voiceprints go with the speaker
\* (ON DELETE CASCADE), the centroid by the second statement.
WithoutSpeaker(x, s) ==
  [WithoutSamples(x, SamplesOf(x, s))
     EXCEPT !.speakers[s] = NoName, !.profiles[s] = NoProfile]

Rebuilt(x, s) == [x EXCEPT !.profiles[s] = ProfileOf(x, s)]

Commit == disk' = db'

-----------------------------------------------------------------------------
(* Recalibration.                                                          *)

\* schedule_recalibration
Schedule ==
  /\ unseen' = TRUE
  /\ recal' = IF recal.at = "idle" THEN [recal EXCEPT !.at = "start"]
              ELSE [recal EXCEPT !.pending = TRUE]

\* The task, on the loop, clears the flag and hands the pass to a thread.
RecalPass ==
  /\ recal.at = "start" /\ loop.at = "idle"
  /\ recal' = [at |-> "read", pending |-> FALSE]
  /\ UNCHANGED <<db, disk, lock, loop, thread, rescore, unseen, spoiled>>

\* collect_calibration_data reads all samples under one hold of the lock.
RecalRead ==
  /\ recal.at = "read" /\ lock = Free
  /\ recal' = [recal EXCEPT !.at = "fit"]
  /\ unseen' = FALSE
  /\ UNCHANGED <<db, disk, lock, loop, thread, rescore, spoiled>>

\* A bug: the request that came during the pass is forgotten.
RecalEndForgets ==
  /\ recal.at = "fit" /\ loop.at = "idle"
  /\ recal' = [at |-> "idle", pending |-> FALSE]
  /\ disk' = db
  /\ UNCHANGED <<db, lock, loop, thread, rescore, unseen, spoiled>>

\* The thread has stored the calibration and the thresholds.  The task, on
\* the loop, runs another pass if one was asked for.
RecalEnd ==
  /\ recal.at = "fit" /\ loop.at = "idle"
  /\ recal' = [recal EXCEPT !.at = IF recal.pending THEN "start" ELSE "idle"]
  /\ disk' = db
  /\ UNCHANGED <<db, lock, loop, thread, rescore, unseen, spoiled>>

-----------------------------------------------------------------------------
(* The web API, on the event loop.                                         *)

IdleLoop == [at |-> "idle"]
Ready == loop.at = "idle" /\ lock = Free

\* The bounds: an operation starts only if the ids it needs are left.
Reserved == Cardinality({t \in Threads : thread[t].at = "score"})
RoomForSamples(n) == db.nextSample + Reserved + n - 1 <= MaxSample
RoomForSpeakers(x, names) ==
  x.nextSpeaker - 1 + Cardinality({n \in names : SpeakersNamed(x, n) = {}}) <= MaxSpeaker

create_speaker(n) ==
  /\ Ready
  /\ NameIsFree(db, n) /\ RoomForSpeakers(db, {n})
  /\ db' = WithSpeaker(db, n) /\ Commit
  /\ UNCHANGED <<lock, loop, thread, rescore, recal, unseen, spoiled>>

edit_speaker(s, n) ==
  /\ Ready
  /\ Exists(db, s) /\ NameIsFree(db, n)
  /\ db' = Renamed(db, s, n) /\ Commit
  /\ UNCHANGED <<lock, loop, thread, rescore, recal, unseen, spoiled>>

\* A bug: the deletion is left to the next commit.
DeleteUncommitted(s) ==
  /\ Ready
  /\ Exists(db, s)
  /\ db' = WithoutSpeaker(db, s) /\ disk' = disk
  /\ spoiled' = spoiled \ {s}
  /\ Schedule
  /\ UNCHANGED <<lock, loop, thread, rescore>>

delete_speaker(s) ==
  /\ Ready
  /\ Exists(db, s)
  /\ db' = WithoutSpeaker(db, s) /\ Commit
  /\ spoiled' = spoiled \ {s}
  /\ Schedule
  /\ UNCHANGED <<lock, loop, thread, rescore>>

\* A bug: the voiceprint waits for the next enrolment.
DeleteSampleOnly(i) ==
  /\ Ready
  /\ db.samples[i] # NoSample
  /\ db' = WithoutSamples(db, {i}) /\ Commit
  /\ Schedule
  /\ UNCHANGED <<lock, loop, thread, rescore, spoiled>>

\* delete_sample: the row, then the rebuild, with the lock held throughout.
delete_sample(i) ==
  /\ Ready
  /\ db.samples[i] # NoSample
  /\ db' = WithoutSamples(db, {i})
  /\ lock' = Loop
  /\ loop' = [at |-> "rebuild", of |-> db.samples[i].of, schedules |-> TRUE,
              rest |-> <<>>]
  /\ UNCHANGED <<disk, thread, rescore, recal, unseen, spoiled>>

\* enroll starts from an upload (and schedules a recalibration), from the
\* postbox of unknown voices (and does not), or from a restore.
enroll(r) ==
  /\ Ready
  /\ RoomForSamples(1) /\ RoomForSpeakers(db, {r.name})
  /\ loop' = [at |-> "find", schedules |-> r.schedules,
              rest |-> <<[name |-> r.name, style |-> r.style, mic |-> r.mic,
                          source |-> "user"]>>]
  /\ UNCHANGED <<db, disk, lock, thread, rescore, recal, unseen, spoiled>>

\* The first hold of the lock: find the speaker of the next sample or insert
\* it, uncommitted.
EnrollFind ==
  /\ loop.at = "find" /\ lock = Free
  /\ \E k \in DOMAIN loop.rest :
       LET n == loop.rest[k].name
           found == SpeakersNamed(db, n)
           s == IF found = {} THEN db.nextSpeaker ELSE CHOOSE f \in found : TRUE
       IN /\ \A j \in DOMAIN loop.rest : k <= j
          /\ db' = IF found = {} THEN WithSpeaker(db, n) ELSE db
          /\ loop' = [at |-> "score", of |-> s, schedules |-> loop.schedules,
                      next |-> k, rest |-> loop.rest]
  /\ UNCHANGED <<disk, lock, thread, rescore, recal, unseen, spoiled>>

\* The second: the sample is scored by now.  Only the scores of automatic
\* samples decide anything, and only those are kept here.
EnrollInsert ==
  LET new == loop.rest[loop.next]
  IN /\ loop.at = "score" /\ lock = Free
     /\ db' = WithSample(db, [of |-> loop.of, source |-> new.source,
                              style |-> new.style, mic |-> new.mic, score |-> 0])
     /\ lock' = Loop
     /\ loop' = [at |-> "rebuild", of |-> loop.of, schedules |-> loop.schedules,
                 rest |-> [k \in DOMAIN loop.rest \ {loop.next} |-> loop.rest[k]]]
     /\ UNCHANGED <<disk, thread, rescore, recal, unseen, spoiled>>

\* A restore goes on with its next sample.
Continue == IF DOMAIN loop.rest = {} THEN IdleLoop
            ELSE [at |-> "find", schedules |-> FALSE, rest |-> loop.rest]

LoopRebuild ==
  /\ loop.at = "rebuild"
  /\ db' = Rebuilt(db, loop.of) /\ Commit
  /\ lock' = Free
  /\ loop' = Continue
  /\ spoiled' = spoiled \ {loop.of}
  /\ IF loop.schedules THEN Schedule ELSE UNCHANGED <<recal, unseen>>
  /\ UNCHANGED <<thread, rescore>>

\* The embedder raises (its model cannot be loaded): the statements stay open.
LoopFails ==
  /\ loop.at = "rebuild" /\ SamplesOf(db, loop.of) # {}
  /\ lock' = Free
  /\ loop' = Continue
  /\ spoiled' = spoiled \union {loop.of}
  /\ UNCHANGED <<db, disk, thread, rescore, recal, unseen>>

\* restore_backup: replace mode deletes the speakers one by one, merge mode
\* skips the names that exist; then one enroll per sample, of which rest holds
\* those to come, under their place in the archive.  An archive says nothing
\* of the style, so every sample comes back as a normal one.
restore(a, replace) ==
  LET wiped == IF replace
                 THEN [db EXCEPT !.speakers = [s \in SpeakerIds |-> NoName],
                                 !.samples = [i \in SampleIds |-> NoSample],
                                 !.profiles = [s \in SpeakerIds |-> NoProfile]]
                 ELSE db
      left == {k \in DOMAIN a : SpeakersNamed(wiped, a[k].name) = {}}
  IN /\ Ready
     /\ left # {}
     /\ RoomForSamples(Cardinality(left)) /\ RoomForSpeakers(wiped, {a[k].name : k \in left})
     /\ db' = wiped
     /\ IF replace THEN Commit /\ spoiled' = {} ELSE UNCHANGED <<disk, spoiled>>
     /\ loop' = [at |-> "find", schedules |-> FALSE,
                 rest |-> [k \in left |->
                   [name |-> a[k].name, style |-> "normal", mic |-> a[k].mic,
                    source |-> a[k].source]]]
     /\ UNCHANGED <<lock, thread, rescore, recal, unseen>>

-----------------------------------------------------------------------------
(* Threads.                                                                *)

\* auto_enroll_embedding: a session, on the loop, matched s by its voiceprint;
\* the thread scores the utterance outside the lock.
AutoStart(t, s, mic) ==
  /\ thread[t].at = "idle" /\ Ready
  /\ Exists(db, s) /\ db.profiles[s].centroid # {} /\ RoomForSamples(1)
  /\ thread' = [thread EXCEPT ![t] = [at |-> "score", of |-> s, mic |-> mic]]
  /\ UNCHANGED <<db, disk, lock, loop, rescore, recal, unseen, spoiled>>

\* A bug: one too many.
OverFull(x, s) == Cardinality(AutosOf(x, s)) > AutoCap

\* At the cap a scored sample replaces the worst if that is worse, and
\* otherwise is dropped; one without a score replaces the oldest.
Full(x, s) == Cardinality(AutosOf(x, s)) >= AutoCap

Worst(x, s, score) ==
  {i \in AutosOf(x, s) :
     /\ x.samples[i].score < score
     /\ \A j \in AutosOf(x, s) : x.samples[i].score <= x.samples[j].score}

\* Which samples may go.  Which are the oldest is left open.
Replaced(x, s, score) ==
  LET excess == Cardinality(AutosOf(x, s)) + 1 - AutoCap
  IN IF ~Full(x, s) THEN {{}}
     ELSE IF score = 0 THEN kSubset(excess, AutosOf(x, s))
     ELSE {{i} : i \in Worst(x, s, score)}

AutoInsert(t, score, gone) ==
  LET s == thread[t].of
  IN /\ thread[t].at = "score" /\ lock = Free
     /\ Exists(db, s) /\ gone \in Replaced(db, s, score)
     /\ db' = WithSample(WithoutSamples(db, gone),
                [of |-> s, source |-> "auto", style |-> "normal",
                 mic |-> thread[t].mic, score |-> score])
     /\ lock' = t
     /\ thread' = [thread EXCEPT ![t] = [at |-> "rebuild", of |-> s]]
     /\ UNCHANGED <<disk, loop, rescore, recal, unseen, spoiled>>

\* The sample is not better than the worst, or the speaker is gone and the
\* foreign key refuses the row.
AutoSkips(t) ==
  /\ thread[t].at = "score" /\ lock = Free
  /\ \/ ~Exists(db, thread[t].of)
     \/ \E score \in Scores : Replaced(db, thread[t].of, score) = {}
  /\ thread' = [thread EXCEPT ![t] = [at |-> "idle"]]
  /\ UNCHANGED <<db, disk, lock, loop, rescore, recal, unseen, spoiled>>

AutoRebuild(t) ==
  /\ thread[t].at = "rebuild"
  /\ db' = Rebuilt(db, thread[t].of) /\ Commit
  /\ lock' = Free
  /\ thread' = [thread EXCEPT ![t] = [at |-> "idle"]]
  /\ spoiled' = spoiled \ {thread[t].of}
  /\ UNCHANGED <<loop, rescore, recal, unseen>>

AutoFails(t) ==
  /\ thread[t].at = "rebuild"
  /\ lock' = Free
  /\ thread' = [thread EXCEPT ![t] = [at |-> "idle"]]
  /\ spoiled' = spoiled \union {thread[t].of}
  /\ UNCHANGED <<db, disk, loop, rescore, recal, unseen>>

\* rescore_all_samples: it reads which samples there are, and writes a score
\* to each; a sample deleted meanwhile takes no score.  One commit at the end.
RescoreStart(s) ==
  /\ ~rescore.runs /\ Ready
  /\ Exists(db, s)
  /\ rescore' = [runs |-> TRUE, todo |-> AutosOf(db, s)]
  /\ UNCHANGED <<db, disk, lock, loop, thread, recal, unseen, spoiled>>

RescoreSample(i, score) ==
  /\ i \in rescore.todo /\ lock = Free
  /\ i = Min(rescore.todo)
  /\ db' = IF db.samples[i] = NoSample THEN db
           ELSE [db EXCEPT !.samples[i].score = score]
  /\ rescore' = [rescore EXCEPT !.todo = @ \ {i}]
  /\ UNCHANGED <<disk, lock, loop, thread, recal, unseen, spoiled>>

RescoreEnd ==
  /\ rescore.runs /\ rescore.todo = {} /\ lock = Free
  /\ rescore' = [runs |-> FALSE, todo |-> {}]
  /\ disk' = db
  /\ UNCHANGED <<db, lock, loop, thread, recal, unseen, spoiled>>

\* Another store commits, under a lock of its own.
ForeignCommit ==
  /\ disk # db /\ disk' = db
  /\ UNCHANGED <<db, lock, loop, thread, rescore, recal, unseen, spoiled>>

\* The process dies and starts again with what was committed.
Crash ==
  /\ db' = disk
  /\ spoiled' = spoiled \union
       (IF loop.at = "rebuild" THEN {loop.of} ELSE {}) \union
       {thread[t].of : t \in {u \in Threads : thread[u].at = "rebuild"}}
  /\ lock' = Free
  /\ loop' = IdleLoop
  /\ thread' = [t \in Threads |-> [at |-> "idle"]]
  /\ rescore' = [runs |-> FALSE, todo |-> {}]
  /\ recal' = [at |-> "idle", pending |-> FALSE]
  /\ unseen' = FALSE
  /\ UNCHANGED disk

-----------------------------------------------------------------------------
Init ==
  /\ db = [speakers |-> [s \in SpeakerIds |-> NoName],
           samples |-> [i \in SampleIds |-> NoSample],
           profiles |-> [s \in SpeakerIds |-> NoProfile],
           nextSpeaker |-> 1, nextSample |-> 1]
  /\ disk = db
  /\ lock = Free
  /\ loop = IdleLoop
  /\ thread = [t \in Threads |-> [at |-> "idle"]]
  /\ rescore = [runs |-> FALSE, todo |-> {}]
  /\ recal = [at |-> "idle", pending |-> FALSE]
  /\ unseen = FALSE
  /\ spoiled = {}

Api ==
  \/ \E n \in Names : create_speaker(n)
  \/ \E s \in SpeakerIds, n \in Names : edit_speaker(s, n)
  \/ \E s \in SpeakerIds : delete_speaker(s)
  \/ \E i \in SampleIds : delete_sample(i)
  \/ \E r \in Requests : enroll(r)
  \/ \E a \in Archives, replace \in BOOLEAN : restore(a, replace)

LoopStep ==
  \/ EnrollFind
  \/ EnrollInsert
  \/ LoopRebuild
  \/ LoopFails

AutoStep(t) ==
  \/ \E s \in SpeakerIds, mic \in Mics : AutoStart(t, s, mic)
  \/ \E score \in Scores, gone \in SUBSET SampleIds : AutoInsert(t, score, gone)
  \/ AutoSkips(t)
  \/ AutoRebuild(t)
  \/ AutoFails(t)

Rescore ==
  \/ \E s \in SpeakerIds : RescoreStart(s)
  \/ \E i \in SampleIds, score \in Scores \ {0} : RescoreSample(i, score)
  \/ RescoreEnd

Next ==
  \/ Api \/ LoopStep
  \/ \E t \in Threads : AutoStep(t)
  \/ Rescore
  \/ RecalPass \/ RecalRead \/ RecalEnd
  \/ ForeignCommit
  \/ Crash

Spec == Init /\ [][Next]_vars

-----------------------------------------------------------------------------
(* Properties.                                                             *)

\* Whenever nobody holds the lock, each speaker's voiceprints and sample
\* count are those of its samples, whatever was enrolled, deleted, replaced
\* or restored meanwhile: the normal voiceprint of the normal samples, the
\* others of enough samples of their kind.  Only a rebuild that an error or
\* a crash cut short leaves them wrong, and the speaker's next one mends it.
ProfilesFitSamples ==
  lock = Free =>
    \A s \in SpeakerIds \ spoiled : db.profiles[s] = ProfileOf(db, s)

\* What is done is on disk: with nobody in an operation, a crash takes or
\* brings back no sample and no speaker.
DoneIsDurable ==
  lock = Free /\ loop.at = "idle" =>
    /\ \A s \in SpeakerIds \ spoiled :
         /\ SamplesOf(db, s) = SamplesOf(disk, s)
         /\ db.profiles[s] = disk.profiles[s]
    /\ spoiled = {} => db.speakers = disk.speakers

\* Concurrent auto-enrolments, each deciding for itself what to replace,
\* never take a speaker over the cap.
AutoSamplesAreCapped ==
  \A s \in SpeakerIds : Cardinality(AutosOf(db, s)) <= AutoCap

\* A change that asked for a recalibration has been read by one when the task
\* ends, also if it came while another pass was running (schedule_recalibration: "a single follow-up
\* pass picks up the latest enrollments").
ChangesAreCalibrated == recal.at = "idle" => ~unseen
=============================================================================
