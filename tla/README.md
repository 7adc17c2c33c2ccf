# A formal model of Murdock

Murdock stands between Home Assistant and a speech recogniser.  It speaks the
Wyoming protocol on both sides: Home Assistant sends the audio of an utterance,
Murdock forwards it upstream while it listens, decides whose voice it is, and
answers with the transcript or with nothing.  Around that sit a database of
speakers, a recognition log, a postbox of unknown voices, a web API, an MQTT
client and a Home Assistant integration.

The TLA+ modules here model the part of it where steps of several tasks,
threads, connections and processes meet.  TLC checks them on small instances;
TLAPS proves theorems about eleven of them for every value of the constants.
`src/` below is the repository.

## 1. Inventory

### The request path

| component | state it keeps | operations | talks to |
|---|---|---|---|
| Connection handler (`wyoming_murdock/handler.py`, one per TCP connection) | the session's audio, flags of three probes, the upstream client and its reader, the transcript future, `_responded` | AudioStart, AudioChunk, AudioStop, disconnect; tasks `_run_early_probe`, `_run_early_reject`, `_read_upstream_transcript` | all of the following |
| Verification decision (`SpeakerStore.verify_embedding`, the thresholds in `core/context.py`, the probes and the full gate in `handler.py`) | what a session has asked with and whom it named | early probe, reject probe, full gate | settings, MQTT context, calibration |
| Shadow gate (`_ShadowGate`, one per process) | counter of mains in flight, an Event, a Lock | `acquire_main`, `release_main`, `run` | handlers, shadow runs |
| Model lock and embedder (`_MODEL_LOCK`, `core/embeddings.py`) | an asyncio lock, a threading lock, the ONNX session | `embed_pcm` in executor threads | probes, verification, web API, recalibration |
| Speech-to-text request (`_get_transcript` and what it calls) and its backends (`core/stt_backend.py`) | flags of the utterance, requests in flight | main with patience, stand-in, fallback chain, late main, shadows | STT services |
| Upstream info cache (`core/info_cache.py`) | language list, time of the fetch, a lock | `get_languages`, `prime`, `invalidate` | upstream recogniser, settings |
| Entry point (`wyoming_murdock/__main__.py`) | - | starts servers, the priming task, the cleanup loops | everything |

### State on disk and its users

| component | state | operations |
|---|---|---|
| Database (`core/db.py`) | one SQLite connection shared by the stores and their threads | open, migrate, get and set a setting |
| Speaker store (`core/speaker_store.py`) | speakers, samples, voiceprints | enrol, auto-enrol with a cap, rename, delete, rescore |
| STT services (`core/stt_services.py`) | services and their roles, caches of both | create, update, delete, `set_roles`, replace, migrate |
| Recognition log (`core/recognition_log.py`) | events, readings of shadows, audio | record and trim, store audio and prune, add a reading, clear |
| Unknown postbox (`core/unknown_store.py`) | samples of unknown voices | capture, expire, tag, assign, delete |
| Vocabulary (`core/vocabulary_store.py`) | words and corrections | edit, apply |
| Backup (`api/routes_backup.py`) | archive of all the above | export, restore (merge, replace) |
| Application context (`core/context.py`) | settings, the recalibration task, caches | settings edits, `schedule_recalibration`, publishing |

### Around it

The MQTT client (`core/mqtt_integration.py`: connection loop, stop,
reconfigure, retained states), the Home Assistant REST client
(`core/ha_integration.py`), the integration in `custom_components/murdock` (a
coordinator that merges MQTT messages, bus events and an initial sync;
entities; an LLM tool), the web API and its browser UI, the audio analysis
(VAD, liveness, whisper, style, extraction, embeddings, calibration) and
scripts.

### Where it is hard

* One handler object serves any number of sessions of its connection.  Its
  probes and readers are tasks that outlive the session they were started in
  and read and write the same attributes.
* Five parties can decide a session: AudioStop, the early probe, the reject
  probe, the silence probe and a cancel phrase.  It must be answered once.
* Each probe reads settings, awaits, reads others, awaits again: settings,
  playing media and the satellite may be others by then.
* Cancelling a coroutine that awaits a thread releases its asyncio lock at
  once; the thread goes on.
* Several tasks wait on one Event and one Lock, and what they waited for can
  be over by the time they run.
* Requests with different timeouts race, outlive the utterance they belong to,
  and carry evidence about the internet.
* One asyncio loop runs the Wyoming server, the web API and MQTT.  A store's
  operation without an await is therefore atomic towards the loop, but not
  towards threads, and never towards a crash: stores commit row by row on one
  shared connection, any commit makes everybody's open statements permanent,
  and nothing is rolled back.
* The MQTT client is stopped and started across awaits by edits that may
  overlap; links break unnoticed; wills come late.
* The coordinator hears of a recognition on two paths, late, twice or never,
  and must tell a dead proxy from a quiet one.

PROJECT.json lists each of these hazards at its line, with the properties that
cover it.

### What makes each part correct

* Handler: one answer per AudioStop; words only under a verdict that allows
  them; a match only on the voice of its own session; the verdict is published,
  and before the answer when it names a speaker; no connection and no main slot
  is left behind; words that were heard are not lost; nothing can make Home
  Assistant wait for ever.
* Verification: what a probe decides in advance on a part of the audio stands up
  to as much noise in the whole as its margin is for; extra voiceprints help
  only their owner.
* Shadow gate: one shadow at a time, none while a main is in flight, none
  starved, no slot lost.
* Model lock: never lost by a cancellation, the ONNX session run by one thread.
* Speech-to-text: the user's order of services is kept; nobody is asked twice;
  remote services are given up only on evidence of this utterance; an answer
  comes whatever the services do.
* Info cache: serialised queries, no query while the list is fresh, every
  Describe is answered.
* STT services: the main on disk is a service, and memory is what is on disk.
* Speaker store: voiceprints fit the samples, what is done is durable, the cap
  holds, no change goes uncalibrated.
* Log and postbox: no reading outlives its event, what is assigned is enrolled.
* MQTT client: an "online" status is backed by a session that will take it
  back, unless an edit or an exception left it behind; a connected client is
  never blind.
* Coordinator: offline for good reason only, and always when the proxy is gone.

## 2. Modules

| module | models | composes |
|---|---|---|
| `Gatekeeper` | what one connection promises Home Assistant: an abstract specification | - |
| `MurdockHandler` | one connection: main coroutine, probes, readers | refines `Gatekeeper` |
| `Verification` | thresholds, tightening, voiceprints; early probe, reject probe and full gate of one session | settings, MQTT context, calibration's thresholds |
| `ShadowGate` | the gate, the slots of several handlers, the shadow runs | - |
| `ModelLock` | `_MODEL_LOCK`, executor threads, the embedder's lock, cancellation | - |
| `SttChain` | main, patience, stand-in, chain, late main, shadow runs; which backend gives which result | - |
| `InfoCache` | Describe requests, priming, edits, TTL | - |
| `SttServices` | services, roles, caches, migration, restore, crashes between commits | store, routes, part of the context and of the restore |
| `SpeakerStore` | speakers, samples, voiceprints; web API, auto-enrolling threads, rescoring, recalibration, foreign commits, crashes | store, routes, handler's auto-enrolment, context's debounce, part of the restore |
| `Recordings` | recognition log, shadow readings, event audio, postbox | both stores, their threads and routes |
| `MqttClient` | connection loop, stop, reconfigure, edits; the broker with retained messages and wills | client, context, routes |
| `Coordinator` | states, availability, initial sync, health poll; both message paths, the proxy | integration and the proxy's publications |
| `ShadowGate_proofs`, `ModelLock_proofs`, `MurdockHandler_proofs`, `Verification_proofs`, `SpeakerStore_proofs`, `Recordings_proofs` | theorems | extend the module they are named after |
| `Stt_proofs` | theorems about an utterance's answer, the services and their roles, and the upstream's languages | extends `SttChain`, `SttServices` and `InfoCache` |
| `HomeAssistant_proofs` | theorems about the two parts that meet at the MQTT broker | extends `Coordinator` and `MqttClient` |
| `MC...` | constants for TLC | extend the module they are named after |

### Reading them against the code

An asyncio task runs from one await to the next without interruption, so one
action is one stretch between awaits, and the state an action starts from is
named after the await it resumes from (`stage` in `MurdockHandler` and
`SttChain`, `at` or `pc` elsewhere).  A call that leaves no trace (a chunk after
the answer, a Describe served from the cache) is no action.  Where a thread
takes part, an action is one hold of the lock it takes.  A definition whose
comment begins "A bug" is a mutant: no specification uses it.

`MurdockHandler`.  Variables have the names of the attributes without the
underscore.  Flags that are a bare boolean, a name or a text in the code
(`_early_match`, `_cancelled`, `_upstream_interim`, ...) hold the number of the
session whose audio they were derived from: the code cannot tell which session
a flag stems from, the properties can.  `Next` never branches on more than
"set or not".  `AudioStart` resets exactly what `_reset_session_state` resets.
`_close_upstream` awaits the disconnect before it clears the attributes; it is
one step in the main coroutine, after whose answer nothing reads them, and two
in the reject probe (`Reject`, `RejectClosed`), where chunks fall between.  A
reader reads the handler's client afresh each time round its loop, so
`readsFrom` and the connection it was started for can differ, and it crashes on
a client that has become `None`.  A read gets the short timeout (`grace`) if
the condition held when it was started.  The audio is a count of blocks; the
three thresholds at which probes are due are constants.

`Verification`.  What is heard of an utterance is its distances to the
speakers' voiceprints (the usual one, the whisper's, one per microphone), in
whole units; distances of two speakers are never equal.  An utterance is heard
three times: `early` is what the early probe embeds, the first seconds, `sofar`
what the reject probe embeds, the audio until then, `whole` what the full gate
embeds after trimming and extraction.  The module assumes no relation between
the three; `Within(n, ...)` in the properties says that two of them are apart by
at most `n`.  Whether it is whispered is found out twice, by the reject probe
and at the end.  `Asked` is the record of what a verification
is asked with; `Names` and `NamesNobody` are its answers.  `settings` and
`room` change by `Edit`, `Recalibrated`, `MediaChange` and `ActiveSatellite`
between any two steps of the session.  The query for candidates is the `Limit`
nearest by the usual voiceprint, as in the code.  `session.asked` keeps what
the last decision was made with.

`ShadowGate`.  `asyncio.Event.wait` does not look at the flag again once its
future is resolved: `woken` is that state.  `asyncio.Lock` is first come first
served and a release with waiters hands over by a later resumption; a newcomer
queues behind them, so `EnterGate` is the one way in.

`ModelLock`.  `thread` outlives `pc`: `Cancel` takes back a submitted call and
leaves a running one.  Threads of the web API and of recalibration never take
`_MODEL_LOCK`.

`SttChain`.  Requests and prefetches are kept per utterance because they
outlive it; the flags belong to the handler and are reset by `Begin`.  Each
service has a kind, and its backend gives text, nothing, an error, or a failure
to connect (`network`), which alone counts as evidence about the internet:
`HttpResult`, `WyomingResult` and the streamed main say which of them a backend
of that kind can give.  What `build_stt_backend` can build is chosen once per
utterance (`ready`).

`InfoCache`.  A language list is identified with the upstream it came from;
`fresh` is "fetched less than the TTL ago".

`SttServices`.  An operation is the sequence of its commits (`todo`), taken one
by one; a crash forgets the rest of it and the memory.  The operation's name
says which caches it drops at its end.  `torn` remembers that a crash cut a
restore short, the one way to a main that is no service.  `Archives` are backups
of this program's own stores, so their main is one of their services, and not of
one that a restore had left torn.

`SpeakerStore`.  `db` is what the one connection shows, `disk` what was
committed; each statement maps tables to tables and `Commit` is `disk' = db'`.
A voiceprint is the set of samples it is the average of.  `enroll` takes the
lock twice, with the scoring between (`EnrollFind`, `EnrollInsert`), and
rebuilds before it lets go (`LoopRebuild`); a restore is a wipe and a sequence
of them: `loop.rest` maps the places in the archive that are left to insert to
what is there.  `Archives` hold per speaker no more automatic samples than the
cap, as the stores they were saved from do if they had the same cap.  `LoopFails` and `AutoFails` are an embedder that raises with the
statements open.  `Crash` is the death of the process; a power cut, after which
WAL with `synchronous = NORMAL` may also lose the last commits, is not modelled.

`Recordings`.  `writing` is what threads have been given to write and have not
written; any of it may come at any time.  Trimming (`record`) and pruning
(`RowsKept`) are as in the SQL: the first counts rows of events, the second
rows of clips.

`MqttClient`.  `loop` is the connection task with the await it stands at,
`editor` the requests inside `reconfigure`, `sessions`, `status` and `contexts`
the broker.  The client and the broker notice a broken link each on its own
(`Fail`, `SessionExpires`).  `Raises` is an exception on a link that works: the
`async with` disconnects cleanly, so the session goes without its will.  `left`
names the prefixes that a change or an exception left behind; a new connection
under a prefix takes it back.

`Coordinator`.  `mqtt` keeps its order and the broker retains the last message;
`bus` keeps none and may lose.  `handle_mqtt_message` and `handle_event` are the
two callbacks, both of which end in `Apply`.  A recognition for which nobody
names a satellite has the origin `Nowhere`: it travels like any other, and
`Apply` drops it.  `heard` is "within the last three
intervals"; `silent` and `refused` are history, for the property only.

`Gatekeeper`.  The refinement mapping in `MurdockHandler` maps `stage` and
`responded` to a phase and answers to "has words or not".

## 3. Runs

All twelve runs pass.  Bounds: each is the smallest at which the interesting
case exists; the reasons are in the third column.

| run | shows | bounds |
|---|---|---|
| `handler` | One utterance: answered once, published, nothing left open or held, no words lost, refines `Gatekeeper`, every AudioStop ends in an answer or the end of the connection | one session of up to 3 blocks; the early probe is due at 1, reject and silence at 2, so each chunk can find any probe in any state, and one more chunk follows every verdict; streaming and buffered mains |
| `handler_reuse` | Two utterances on one connection, tasks of the first alive in the second: a match is the voice of its own session | 2 sessions of one block, the early probe on; the reject and silence probes are off: `handler` has them, and neither names a speaker |
| `verification` | What the early probe named is within the threshold of the whole utterance, and the full gate names no other of the same candidates, as long as the noise between the two keeps to what the quarter and the margin gate allow; nobody whom the reject probe looked at is named in what it dropped, as long as the noise keeps to its margin; extra voiceprints help only their owner | 3 speakers of whom the query returns 2; one satellite with a television in its room; six triples of distances (early, so far, whole) times three whisper and three microphone voiceprints, whispered or not; thresholds 4, 6 and 8, tightening by 0 to 2, noise of 0 to 7, so that every comparison falls on either side; one edit or recalibration, at any step; 4.4 million states |
| `shadow_gate` | slots counted, shadows held back and never starved | 2 handlers, 3 runs of up to 2 services: one run inside, one woken or first in the queue, one behind it; 3,856 states |
| `model_lock` | locks never lost, the session runs alone | 2 probes, a verification, an API request: one thread left behind by a cancellation, one in the block, one queued, one beside |
| `info_cache` | no needless query, everybody answered | 3 clients (one queries, two queue), priming, 2 upstreams, 2 attempts; 4,408 states |
| `stt_chain` | order of fallbacks, one request per service, evidence of this utterance only, everybody answered, late main logged | 2 utterances, a remote main, a remote and a local fallback, every subset configured, kinds such that the main streams or not; 550,792 states |
| `stt_services` | the main on disk is a service; memory is disk | 3 ids: two in use and one to be created or deleted between them; all legacy settings, three archives, roles that name services twice, the main itself, or nothing; a crash between any two commits; 621,613 states |
| `speaker_store` | voiceprints fit, what is done is durable, the cap holds, no change goes uncalibrated | 2 names, 3 samples, 2 threads over a cap of 1: two auto-enrolments in flight when there is room for one; 2 samples make a whisper's or a microphone's voiceprint; threads are interchangeable (symmetry); 3.4 million states |
| `recordings` | no reading outlives its event; what is assigned is enrolled | 3 events in a log of 2 rows, audio kept for 2 clips, so rows are trimmed with everything pending; one sample, assigned once or twice in a call; 886,193 states |
| `mqtt_client` | online is backed by a session; nobody connected is blind | 3 edits, two at a time, 2 prefixes, 3 sessions (one left over, one in use, one to come), 2 context messages; an exception at any moment of a connection; 5.5 million states |
| `coordinator` | offline for good reason; the proxy's death is noticed | 2 satellites and none, 3 recognitions, threshold 3 as in the code: a recognition of either path can fall before, between and after the failed polls; 719,440 states |

Deadlock is checked in all runs but those of systems that may stop: the handler
when its connection is closed, `verification` when the session has ended,
`stt_chain` when its utterances and `mqtt_client` when its edits are used up.

Home Assistant opens a connection per utterance and sends AudioStart before
audio, so what needs a second session on one connection is what the protocol
and the code's own reset allow rather than what happens every day.

### Fairness

The event loop resumes every task whose await is over, and the executor runs
what it was given: weak fairness of the steps of each task.  Every request and
query in the code carries a timeout, so its end is a fair step as well.  A
thread at the embedder's lock competes with others for it, and CPython's lock
does not starve a waiter for ever: strong fairness of its steps.  In
`Coordinator` the poll is asked every minute and answered or given up
(`PollAsks`, `PollFails \/ PollSucceeds`), the initial sync ends
(`SyncApplied \/ SyncFails`), a message on its way arrives or its request fails,
and three intervals without a recognition pass (`HeardFades`).  Nothing is
assumed of Home Assistant, of the upstream server, of the admin or of anybody
who speaks.  `QuietLetsShadowsFinish` therefore assumes explicitly that the
process is quiet again and again, and `DownIsNoticed` that the proxy stays away
and the integration stays loaded.  `Verification`, `MqttClient` and the modules
of the stores state safety only, and no fairness.

## 4. Seen while modelling

The models follow the code in the following places, too; no property says
otherwise.

Handler and gate:

* a silence abort closes the upstream without marking it failed, and the next
  chunk opens it again (`handler.py:432`; `tests/test_silence_abort.py:43`: "The
  upstream is dropped, so no transcript is even requested");
* `_cancelled` is not reset by AudioStart (`handler.py:1730`), so on a reused
  connection a cancel phrase drops the next utterance as well
  (`tests/test_upstream_interim.py:109`); a cancelled utterance publishes
  nothing (`CHANGELOG.md:864`);
* `_ShadowGate.run` does not look at the flag again after its wait
  (`handler.py:128`): a main that starts in between has a shadow beside it
  (`handler.py:87`);
* a reject that falls after AudioStop does not empty the answer, because only
  the early probe is cancelled there (`handler.py:1606`, `README.md:66-68`);
* the read pending when AudioStop is sent has no short timeout
  (`handler.py:642`, the comment at 639);
* a reader that dies of a connection reset gives the empty text although words
  were heard (`handler.py:732`, 623) - `HeardIsNotLost` says so;
* `_audio_stop_sent` and `_upstream_interim` survive AudioStart, so on a reused
  connection an interim can pass for final, and a silent session be answered
  with the words before it (`handler.py:514`);
* AudioStart in a session without AudioStop drops the reference to a running
  early probe without cancelling it, and its match lands in the new session
  (`handler.py:537`): `MatchIsOwnVoice` needs `Abandon = FALSE`;
* on a reused connection the reject probe of the session before can throw this
  one out without announcing it, and its `_close_upstream`, resumed late, drop
  the connection this one opened (`handler.py:1606`, 537): beyond one session
  `EveryVerdictIsPublished` and `UpstreamIsClosed` do not hold, so `handler`
  checks them in one;
* an early match is announced and then followed by "unknown" when one of the
  gates closes, which all come before the early match is looked at
  (`handler.py:1766-1885`);
* two embedder calls of connections overlap after a cancellation
  (`handler.py:777`, the comment at 71).

Verification:

* the early probe does not tighten for playing media and knows nothing of a
  whisper or of a satellite that becomes known later, so `EarlyMatchStands`
  excepts them; its match is logged with the untightened threshold;
* nothing in the code bounds how far the three hearings of an utterance are
  apart.  Beyond the quarter of its threshold an early match may be no match of
  the whole (`handler.py:790`); from the margin gate on the full gate may name
  somebody else, so without one (the default) any noise may do that, and so may
  a query that returns other candidates for the whole than for the first
  seconds.  The early name stands all the same (`handler.py:1888`);
* the reject probe measures its margin from the threshold of the nearest alone
  (`handler.py:883-893`): of a speaker with a higher threshold it leaves that
  much less, of one who is not among its candidates it knows nothing, and what is
  found to be whispered only at the end is gone by then;
* the reject probe reads the base threshold before, and the adaptive thresholds
  after its await: an edit in between gives a wrong offset;
* adaptive thresholds are kept by name, so a renamed speaker loses its own;
* an explicit 0 in the media matrix still falls through to the television's old
  switch; the active-satellite signal is global, the last of two satellites wins.

Speech to text:

* the chain skips a remote fallback whose text is already in hand when the main
  could not be reached (`handler.py:1290`; 1310: "Asked in parallel with the
  main already; often done");
* a fallback that the chain asked itself is asked again as a shadow
  (`handler.py:1316`, `CHANGELOG.md:20`), and when the stand-in has no text the
  rest of the chain is not considered until the main has timed out
  (`handler.py:1255`);
* `transcribe_via_wyoming` takes every OSError, the reset of an established
  connection too, for an unreachable network, and a text already received is
  lost with it; an empty transcript on a connection the server keeps open is
  waited for until the timeout;
* Describes that queue behind a failed query each make one of their own; a
  query in flight at `invalidate` stores the old list as fresh for a TTL
  (`info_cache.py:125`; 174: "Drop the cached upstream languages so the next
  Describe refetches").

Stores:

* an embedder that raises leaves its statements open on the shared connection;
  the next commit of any store makes them permanent with the old voiceprint
  (`spoiled` in `SpeakerStore`);
* assigning from the postbox, auto-enrolment, restoring and renaming schedule no
  recalibration, and a crash forgets a pending one;
* an archive has neither the style of a sample nor speakers without samples; a
  restore in replace mode cut short has wiped what it did not bring back, and
  one of services may leave the main naming none (`torn` in `SttServices`);
* `_maybe_auto_enroll` (`handler.py:2300`) does not look at `_whisper`, so a
  whispered match becomes a normal sample (`tests/test_whisper_profiles.py:5`:
  "a whispered sample must never enter the normal voiceprint");
* with a cap lowered below what is there, a scored sample replaces one only, and
  a restore inserts what the archive has, whatever the cap is by then
  (`routes_backup.py:143-245`): `AutoSamplesAreCapped` is of one cap and of
  archives that keep to it;
* `store_audio` does not ask whether its event still exists, and its pruning
  counts clips (`recognition_log.py:384`): events with two clips leave room for
  fewer;
* a sample of the postbox may be assigned twice.

MQTT and Home Assistant:

* a prefix changed before `stop` publishes sends "offline" to the new prefix; an
  edit overtaken by another closes that one's session without a goodbye; a
  disabling edit that comes while an earlier one stops the client leaves it
  running; the will of an old session may come after the new "online" - `left`
  in `OnlineIsBacked` names the prefixes concerned;
* an exception on a working connection (a publication or a subscription not
  acknowledged in time, a message that the handlers fail on) leaves the `async
  with` by a clean disconnect; the broker drops the will, and the handler of the
  exception publishes nothing and waits up to its backoff
  (`mqtt_integration.py:223-256`; 26: "On disconnect: LWT fires "offline"
  automatically (broker-side)").  "online" stays unbacked until the next
  connection: `left` has that prefix until then, so `OnlineIsBacked` excepts it;
* a recognition without a satellite is no sign of life (`coordinator.py:369-371`;
  270: "A recognition just arrived over MQTT or the event bus: the proxy is
  plainly working, whatever this poll says").  The proxy sends such ones when
  Home Assistant names no satellite and no active-satellite signal is fresh
  (`event_payload.py:55`, `handler.py:1495-1510`), so with failing polls it is
  declared offline in spite of them: `OfflineIsEarned` counts a recognition only
  if it names its satellite;
* timestamps differ between the two message paths, so the coordinator's check
  for duplicates never matches across them; a retained message counts as a sign
  of life after a restart; the initial sync writes its rows over newer states
  (`coordinator.py:248`), and a failed one sets the proxy unavailable even if it
  was just heard.

## 5. Proofs

Each theorem is for every value of the constants that satisfies the module's
assumptions, and an induction over the steps of `Next`: the strengthening named
here, one lemma per action or group of actions that leaves it alone in the same
way, and PTL for the last step.

`ShadowGate_proofs` (any finite set of handlers, any runs, any number of
services; `GateAssumption`): `TypeCorrect`, `ShadowsOneAtATime`,
`SlotsNeverDrift` (`SlotsAreCounted`), `MainsGoFirst` (`MainHoldsShadowsBack`).
The invariant is `TypeOK`, `RunsHaveWork` (a run behind the gate has a service
left: without it the count of services could go negative), `OneShadowAtATime`
(without it the head of the queue could be a run that is not waiting) and
`SlotsAreCounted` (the counter is a cardinality; `release_main` clips at zero,
and only the equality shows that the clip never bites).

`ModelLock_proofs` (any finite set of coroutines): `TypeCorrect`,
`ModelLockNeverLost` (`ModelLockIsOwned`), `SessionNeverShared`
(`SessionRunsAlone`), under any pattern of cancellations.  The invariant adds
`QueuedHaveNoThread` and `SessionLockIsOwned`.  The bound on the queue follows:
it holds no coroutine twice.

`MurdockHandler_proofs` (any number of sessions and blocks, any thresholds):
`TypeCorrect` with `ConnsFit` (a session opens at most one connection per
block); `SlotHeldWithSession` (`SlotFollowsSession`), inductive as it stands;
`AnsweredOnce` (`OneAnswerPerStop`) with `AnswersAwaited`;
`MatchSurvivesReject` (`EarlyMatchIsNotRejected`) with `ProbesInOrder`, where the
order of the model lock and `EarlyAt <= RejectAt` are used; `SpeakerIsOwn`
(`MatchIsOwnVoice`) and `SpeakerIsAnnounced` (`MatchIsAnnouncedFirst`), both
under `~Abandon`, with `OwnMatch`: the name a probe left is of this session, its
speaker was published, and the outcome a session is heading for rests on such a
name or on its own verification.

* `KeepsGate`: a connection implements the safety part of `Gatekeeper`, under
  `~Abandon`.  Its initial state maps to `Gate!Init`, and each action to a step
  or a stutter: `BeginsGate`, `StopsGate`, `AnswersGate`, `LeavesGate` and, for
  all the rest, `GateStays`.  It rests on `WordsMayPass` (words are sent only
  under a verdict that allows them), `OwnMatch` and `AnswersAwaited`.
* `VerdictsArePublished` (`EveryVerdictIsPublished`) and `NothingLeftOpen`
  (`UpstreamIsClosed`), under `~Abandon` and `ProbesEndFirst`: no session begins
  before the reject probes of earlier ones are through.  One that outlives its
  session can throw out the next one and close its connection (section 4), so
  without it both are false.  `ProbesStayHome` says that such a probe then
  touches only its own session (`RejectIsOwn`), goes on to announce
  (`RejectIsAnnounced`), that any other verdict was announced where it fell
  (`VerdictIsAnnounced`), and that only the connection the handler holds can be
  open (`OneIsOpen`).
* `HeardIsAnswered` (`HeardIsNotLost`), under `ProbesEndFirst` and
  `ReadersEndFirst`, which says the same of readers: a reader left over reads
  from the next session's connection and takes its words away.  The argument is
  about what the future is resolved with: words come from where the reader reads
  (`WordsAreHere`), the session has one connection until it gives up its words
  (`OneConnection`), and the future of a session with words is resolved empty
  only by a reader that crashed (`HeardIsKept`).

The two hypotheses restrict behaviours, not constants.  `WhereProbesEndFirst`
and `WhereReadersEndFirst` prove that they hold of every behaviour in which a
connection has one session, which is how Home Assistant uses it, and the first
one also where the early reject is off.

`Stt_proofs`, of the answer to an utterance (any chain, kinds of services, number
of overlapping utterances; `ChainAssumption`): `TypeCorrect`; `OrderIsTheUsers`
(`FirstInOrderAnswers`), `DownOnOwnEvidence` (`RemoteDownIsOwn`),
`EmptyIsDoubted` (`EmptyIsDoubtedToTheEnd`); of steps, `OneRequestEach`
(`AskedOnce`) and `RemoteIsSpared` (`NoRemoteOnceDown`).  The three invariants
are not inductive: they speak of the end of the chain, and what leads there is
`InOrder`.  Nothing is asked for an utterance before its main (`Unasked`); what
is asked is the main, a service asked in advance, or one the chain has come to
(`AskedInOrder`); the stand-in is the first that can be built (`HedgeIsFirst`);
the chain passes a service only if it cannot be built, is remote with the
internet down, or was asked and ended without text (`PassedInOrder`).
`RequestKeeps` says of every action what it does to the requests; the two action
properties follow from it.  The assumption that the main is no fallback is
what `set_roles` establishes (`stt_services.py:327-350`); a crash between its
commits can leave a list that names the new main until roles are next set.

`Stt_proofs`, of the services (any operations, ids, configurations, archives and
legacy settings; `SttServicesAssumption`): `RolesInductive`, `MainIsKept`
(`MainIsAService`), `MemoryIsKept` (`MemoryIsDisk`).  Both are statements about
what a crash finds between two commits, so the invariant `ServicesIInv` speaks of
what is left to commit.  Outside a restore, what is left only adds services to
the table and writes a main after its service (`MainAfterItsService`); a restore
has written the archive's main and ends with its table (`Restoring`); a crash
that finds the main of an operation written finds it a service even after an
earlier one left it torn (`MainWritten`); an operation that leaves a cache alone
has nothing left to commit that the cache holds (`AtRest`).  How a list of
fallbacks is cleaned plays no part, only that the cleaned main is a service or
none (`CleanedMain`).  For the migration, `MigrateCommitsFacts` gives its commits
one by one, with up to three services created.

`Stt_proofs`, of the upstream's languages (any number of requests, upstreams and
attempts): `NobodyDropsOut` and `WaitersUseTheCache` (`FreshCacheIsNotRefetched`,
a property of steps).  `InfoIInv` says that the lock's queue holds exactly the
requests that wait, each once, and that at most one asks: the one that asks is
the one whose question is noted.  `SttServices` and `InfoCache` prefix the names
of their specifications (`ServicesSpec`, `InfoSpec`, ...) so that one module can
extend all three.

`Verification_proofs` (any speakers, voiceprints, distances and settings;
`VerificationAssumption`, `SettingsAssumption`, `VoiceAssumption`):
`TypeCorrect`, `EarlyMatchHolds` (`EarlyMatchStands`), `RejectedHolds`
(`RejectedIsNobody`), `ExtrasHelpTheirOwner` (`ExtraVoiceprintsHelpTheirOwner`).
The strengthening `Kept` says of what the session carries that it was a right
answer, to what it was asked with, about what that probe heard.  The rest is
about two hearings and two records they are asked with.  A distance is the least
of three, so it moves by no more than they do (`DistanceIsClose`).  A name with
a quarter to spare is then still within the threshold after noise and a
tightening that make up that quarter; a lead of a margin gate on both sides
cannot change hands by noise below the gate, which would have to move the two
distances by twice the gate; and what was rejected with the nearest beyond its
threshold by the margin stays out of reach of whoever was no nearer.  Taking
extra voiceprints from others moves nobody nearer.  That noise keeps within the
margins is a hypothesis of the properties, not something the code ensures.

`SpeakerStore_proofs` (any speakers, samples, satellites, threads, requests,
cap and thresholds, archives that keep to the cap; `SpeakerStoreAssumption`,
`ArchivesAssumption`):
`NoChangeIsForgotten` (`ChangesAreCalibrated`) with `FollowUpIsDue`: a change no
pass has read is one the running pass will read, or a follow-up is due.
`ProfilesStayFit` (`ProfilesFitSamples`) and `WhatIsDoneIsDurable`
(`DoneIsDurable`) speak of moments at which nobody is in an operation; the
strengthening says at every moment which speaker is open: who is in a rebuild
holds the lock (`RebuildsHoldTheLock`), all but the open ones fit and are on
disk (`TablesFit`), and outside an enrolment no speaker is only in memory
(`SpeakersAreOnDisk`).  One lemma per statement says whose samples it leaves
alone; no id still to be handed out has a sample, or an insert would touch
another's.

* `CapIsKept` (`AutoSamplesAreCapped`).  A thread finds, under the lock, what to
  replace so that its own insert fits, whatever threads did since it started.  A
  restore asks nobody: it inserts row by row what the archive has, and what must
  fit is what a speaker has together with what is still to come for it
  (`RestFits`).  Names the restore found taken are skipped, so a thread that
  has scored a sample for a speaker from before the restore aims at one for whom
  nothing is to come (`ThreadsFit`); the ids of speakers are not used twice, so
  it never aims at one the restore created.  Tables on disk are capped, too, or a
  crash would bring the excess back (`TablesCapped`).
* `StoreIsTyped` (`TypeOK`, in the stronger form `StoreTyped`).  An operation
  starts only if there are ids for it (`RoomForSamples`, `RoomForSpeakers`), but
  it inserts later, with others in between.  `Room` counts what threads have
  reserved, what a restore has still to insert and the names it has still to
  create, and says that there are ids for all of it: no model step is lost to
  the bounds half-way through an operation.

`Recordings_proofs` (any events, services, limits and batches;
`RecordingsAssumption`): `TypeCorrect`; `ShadowsKeepTheirEvent`
(`ShadowsHaveTheirEvent`), inductive as it stands; `AssignedStaysEnrolled`
(`AssignedIsEnrolled`) with `TagsWhatIsEnrolled`: what the call tags next is
enrolled.

`HomeAssistant_proofs`, of the coordinator (any satellites, recognitions and
threshold; `CoordinatorAssumption`): `TypeCorrect`; `OfflineOnlyIfEarned`
(`OfflineIsEarned`) with `CountedHonestly`: the code never counts more failures
than there were since the last sign of life, and nothing before the sync is over.
A sign of life is an answer, or a recognition that names its satellite.

`HomeAssistant_proofs`, of the MQTT client (any prefixes, any number of edits,
sessions and messages; `MqttClientAssumption`): `ClientTypeCorrect`, where a count
of the edits shows that a new task always has a number of its own;
`OnlineStaysBacked` (`OnlineIsBacked`); `NotBlindAfterRestart` (`NeverBlind`).
`MqttClient` names its specification `ClientSpec` (and its parts `ClientInit`,
`ClientNext`, `clientVars`, `ClientTypeOK`) so that one module can extend both.

* For `OnlineIsBacked` the danger is the two steps that take a session without
  its will.  An exception (`Raises`) leaves its prefix behind, and the next
  connection takes it back.  The other is the clean end of a cancelled loop
  (`TaskEnds`): `StoppedForGood`
  says that by then "offline" was said under the session's prefix, or the prefix
  was left behind: an edit that has spoken its goodbye to a loop finds the stop
  event set, so that loop connects no more, and any later one is another task.
  `LinkIsOwn` ties the link to the one session it belongs to.
* For `NeverBlind`, `KnowsRetained` says of a loop nobody is about to end that
  it listens under the prefix there is, and that the last message on its way, or
  else the last one received, is what is retained.  That an edit which finishes
  late, and clears the context, never finds a running loop it did not wait for
  is `WaitersFirst`.

## 6. What is only model-checked

Liveness and whatever rests on fairness, which with ENABLED is beyond the
prover: that every AudioStop is answered and the rest of `GatekeeperSpec`, of the
model lock `ModelIsNotLost`, of the gate `QuietLetsShadowsFinish`, of the
coordinator `DownIsNoticed`, of `SttChain` that every utterance is answered and a
late main logged, of `InfoCache` that every Describe is.

Every safety property of the runs is stated by a theorem, the safety part of the
refinement included; some of them under the hypotheses section 5 names, where a
run checks the case of one session.  Of the lists of fallbacks and shadows in
`SttServices` no theorem says what cleaning them returns: that is a fold and a
`SelectSeq`, induction over data, and so is `ServicesTypeOK`, which says that they
are sequences of ids.

## 7. What is not modelled

Signal processing and the floating-point arithmetic of embeddings, liveness,
whisper, style and the regression of calibration: each verdict is a choice, each
distance a small integer.  Strings: vocabulary and corrections, satellite names,
hints, templates, discovery payloads.  Requests of the backends and the
conversion of audio for them.  Reads, previews and statistics of the web API,
its UI, and validation.  The entities, the config flow and the LLM tool of the
integration, which present the coordinator's state.  A restore's remaining
settings.  A power cut that takes back commits.  In `Recordings`, a commit of
another store in the middle of `record` or `clear` with a crash behind it: each
is one step there, so that a trimmed event whose readings are still on disk is
not covered.  How far the hearings of an utterance are apart: any distances are
allowed, and the properties speak of those within the margins.  Logging, timing, the monitor
of the event loop, scripts.

## 8. Plan

1. The request path: `MurdockHandler`, `ShadowGate`, `ModelLock`, `SttChain`,
   `InfoCache`, `Verification`.  Done.
2. State on disk: `SttServices`, `SpeakerStore`, `Recordings`.  Done.
3. Tasks and the integration: `MqttClient`, `Coordinator`.  Done.
4. Theorems: the safety properties of the request path, the stores and the
   coordinator, and the safety part of the refinement of `Gatekeeper`.  Done.
5. The MQTT client's safety.  Done.
6. The roles of the services, the upstream's languages, the cap on automatic
   samples and the types of the speaker store.  Done.
7. Left: the liveness of section 6, which the provers do not reach.
