------------------------------ MODULE InfoCache ------------------------------
(***************************************************************************)
(* UpstreamInfoCache (murdock/core/info_cache.py): the languages of the    *)
(* upstream recogniser, asked for when Home Assistant sends Describe, kept *)
(* for a TTL, dropped when the upstream address or the advertised          *)
(* languages are edited.  A language list is the upstream it came from.    *)
(*                                                                         *)
(* Requests run as coroutines on one loop: between two awaits (the lock,   *)
(* the upstream query) a request is one step, and an edit may fall between *)
(* any two steps.                                                          *)
(***************************************************************************)
EXTENDS Integers, Sequences, SequencesExt

CONSTANTS
  Clients,      \* concurrent Describe requests
  Prime,        \* the start-up task, which asks with force=True
  Upstreams,    \* addresses the admin may configure
  Attempts,     \* prime(attempts=5)
  Nothing       \* no languages, no address, no owner

Requests == Clients \union {Prime}

ASSUME InfoCacheAssumption ==
  /\ Prime \notin Clients
  /\ Attempts \in Nat \ {0}
  /\ Nothing \notin Upstreams \union Requests

VARIABLES
  uri,          \* upstream_uri
  override,     \* override_provider() returns a language list
  languages,    \* _languages: the upstream they came from, or Nothing
  fresh,        \* _last_fetch is less than the TTL ago
  pc,           \* request -> idle, queued (at _lock), querying
  queue,        \* _lock: the requests waiting, first come first served
  asked,        \* request -> upstream its query went to, or Nothing
  tries         \* attempts prime() has left

infoVars == <<uri, override, languages, fresh, pc, queue, asked, tries>>

InfoTypeOK ==
  /\ uri \in Upstreams
  /\ override \in BOOLEAN
  /\ languages \in Upstreams \union {Nothing}
  /\ fresh \in BOOLEAN
  /\ pc \in [Requests -> {"idle", "queued", "querying"}]
  /\ queue \in Seq(Requests)
  /\ asked \in [Requests -> Upstreams \union {Nothing}]
  /\ tries \in 0 .. Attempts

InfoInit ==
  /\ uri \in Upstreams
  /\ override \in BOOLEAN
  /\ languages = Nothing
  /\ fresh = FALSE
  /\ pc = [r \in Requests |-> "idle"]
  /\ queue = <<>>
  /\ asked = [r \in Requests |-> Nothing]
  /\ tries = Attempts

CacheValid == languages # Nothing /\ fresh

LockFree == \A r \in Requests : pc[r] # "querying"

-----------------------------------------------------------------------------
(* The admin and the clock.                                                *)

\* The REST layer applies the edit and calls invalidate().
invalidate == languages' = Nothing /\ fresh' = FALSE

EditUpstream(u) ==
  /\ u # uri
  /\ uri' = u
  /\ invalidate
  /\ UNCHANGED <<override, pc, queue, asked, tries>>

EditOverride ==
  /\ override' = ~override
  /\ invalidate
  /\ UNCHANGED <<uri, pc, queue, asked, tries>>

TtlExpires ==
  /\ fresh
  /\ fresh' = FALSE
  /\ UNCHANGED <<uri, override, languages, pc, queue, asked, tries>>

-----------------------------------------------------------------------------
(* get_languages.                                                          *)

\* Only a request that neither the override nor a valid cache answers at once
\* leaves a trace: it waits for the lock.  The others change nothing.
Describe(c) ==
  /\ pc[c] = "idle"
  /\ ~override /\ ~CacheValid
  /\ pc' = [pc EXCEPT ![c] = "queued"]
  /\ queue' = Append(queue, c)
  /\ UNCHANGED <<uri, override, languages, fresh, asked, tries>>

\* Bugs: a retry that is not counted, and one that is not bounded.
PrimeUncounted ==
  /\ pc[Prime] = "idle" /\ tries > 0 /\ ~override
  /\ pc' = [pc EXCEPT ![Prime] = "queued"]
  /\ queue' = Append(queue, Prime)
  /\ UNCHANGED <<uri, override, languages, fresh, asked, tries>>

\* One round of prime(): a forced request, unless an override is set by now.
PrimeAttempt ==
  /\ pc[Prime] = "idle" /\ tries > 0
  /\ IF override
       THEN tries' = 0 /\ UNCHANGED <<pc, queue>>
       ELSE /\ tries' = tries - 1
            /\ pc' = [pc EXCEPT ![Prime] = "queued"]
            /\ queue' = Append(queue, Prime)
  /\ UNCHANGED <<uri, override, languages, fresh, asked>>

\* A waiter that finds the cache filled by the one before it is answered.
AnsweredMeanwhile(r) ==
  /\ LockFree
  /\ queue # <<>> /\ r = Head(queue)
  /\ r # Prime /\ CacheValid
  /\ queue' = Tail(queue)
  /\ pc' = [pc EXCEPT ![r] = "idle"]
  /\ UNCHANGED <<uri, override, languages, fresh, asked, tries>>

\* A bug: the cache is not looked at again behind the lock.
StartQueryAnyway(r) ==
  /\ LockFree
  /\ queue # <<>> /\ r = Head(queue)
  /\ queue' = Tail(queue)
  /\ pc' = [pc EXCEPT ![r] = "querying"]
  /\ asked' = [asked EXCEPT ![r] = uri]
  /\ UNCHANGED <<uri, override, languages, fresh, tries>>

StartQuery(r) ==
  /\ LockFree
  /\ queue # <<>> /\ r = Head(queue)
  /\ r = Prime \/ ~CacheValid
  /\ queue' = Tail(queue)
  /\ pc' = [pc EXCEPT ![r] = "querying"]
  /\ asked' = [asked EXCEPT ![r] = uri]
  /\ UNCHANGED <<uri, override, languages, fresh, tries>>

\* The query returns, whatever it returns: the lock is released, and prime()
\* stops once it got a list, stale or new.
QueryReturns(r, got) ==
  /\ pc[r] = "querying"
  /\ pc' = [pc EXCEPT ![r] = "idle"]
  /\ asked' = [asked EXCEPT ![r] = Nothing]
  /\ tries' = IF r = Prime /\ got # Nothing THEN 0 ELSE tries
  /\ UNCHANGED <<uri, override, queue>>

QuerySucceeds(r) ==
  /\ QueryReturns(r, asked[r])
  /\ languages' = asked[r]
  /\ fresh' = TRUE

\* Unreachable, timed out, closed, or no languages in the Info event: the
\* request is answered with what the cache holds, which is left as it is.
QueryFails(r) ==
  /\ QueryReturns(r, languages)
  /\ UNCHANGED <<languages, fresh>>

RequestStep(r) ==
  AnsweredMeanwhile(r) \/ StartQuery(r) \/ QuerySucceeds(r) \/ QueryFails(r)

InfoNext ==
  \/ \E u \in Upstreams : EditUpstream(u)
  \/ EditOverride
  \/ TtlExpires
  \/ \E c \in Clients : Describe(c)
  \/ PrimeAttempt
  \/ \E r \in Requests : RequestStep(r)

\* The loop resumes ready coroutines; a query ends by its read timeout.
InfoFairness == /\ \A r \in Requests : WF_infoVars(RequestStep(r))
                /\ WF_infoVars(PrimeAttempt)

InfoSpec == InfoInit /\ [][InfoNext]_infoVars /\ InfoFairness

-----------------------------------------------------------------------------
(* Properties.                                                             *)

\* A successful refresh serves the requests queued behind it: a client does
\* not query while the cache holds a list within its TTL.
FreshCacheIsNotRefetched ==
  [][\A c \in Clients :
       pc[c] # "querying" /\ pc'[c] = "querying" => ~CacheValid]_infoVars

\* Every Describe is answered, however many queue and however often the
\* upstream fails; and the start-up task ends.
EveryDescribeIsAnswered ==
  /\ \A c \in Clients : pc[c] = "queued" ~> pc[c] = "idle"
  /\ <>(tries = 0 /\ pc[Prime] = "idle")
=============================================================================
