----------------------------- MODULE SttServices -----------------------------
(***************************************************************************)
(* The speech-to-text services and their roles (core/stt_services.py), the *)
(* web API that edits them (api/routes_stt_services.py), the part of a     *)
(* restore that replaces them, and the migration of older settings.        *)
(*                                                                         *)
(* Only the event loop uses the store, and no operation awaits: the next   *)
(* one starts when this one is done.  But an operation commits row by row  *)
(* and setting by setting, and the process can be killed between any two   *)
(* commits.  An operation is therefore the sequence of its commits.        *)
(***************************************************************************)
EXTENDS Naturals, Sequences, SequencesExt

CONSTANTS
  MaxId,      \* bound on the ids that AUTOINCREMENT hands out
  Wyoming,    \* configurations of Wyoming services, each its own address
  Cloud,      \* configurations of services of other kinds
  NoService,  \* no service under this id
  None,       \* no main
  Absent,     \* the settings table has no row for the main
  DefaultUri, \* the upstream address from before there were services
  Legacies,   \* flat settings an older version may have left
  Archives,   \* backups that may be restored
  Requested   \* roles the user may ask for

Ids == 1 .. MaxId
Configs == Wyoming \union Cloud

Live(r) == {i \in Ids : r[i] # NoService}

\* There is room for the three services of a migration, whose fallback is a
\* Wyoming server.  The backups are this program's, and not of an instance
\* that a restore had left torn: their main is one of their services.
ASSUME SttServicesAssumption ==
  /\ MaxId \in Nat \ 0 .. 2
  /\ NoService \notin Configs
  /\ None \notin Ids /\ Absent \notin Ids /\ None # Absent
  /\ Legacies \subseteq [main : Configs \union {NoService},
                        fallback : Wyoming \union {NoService},
                        shadow : Configs \union {NoService}, rescues : BOOLEAN]
  /\ \A a \in Archives : /\ a.rows \in [Ids -> Configs \union {NoService}]
                         /\ a.roles.main \in Live(a.rows) \union {None}

VARIABLES
  rows,       \* table stt_services: id -> configuration, or NoService
  disk,       \* settings stt_main, stt_fallbacks, stt_shadows
  nextId,     \* sqlite_sequence: ids are not used twice
  services,   \* _services, the rows in memory
  roles,      \* _roles, the roles in memory
  upstream,   \* upstream_uri of the info cache
  op,         \* the operation that runs: its name, what it drops from memory
  todo,       \* the commits it has left
  torn        \* history: a crash cut a restore short, and no main was set since

servicesVars == <<rows, disk, nextId, services, roles, upstream, op, todo, torn>>

RoleSet == [main : Ids \union {None, Absent}, fallbacks : Seq(Ids), shadows : Seq(Ids)]

ServicesTypeOK ==
  /\ rows \in [Ids -> Configs \union {NoService}]
  /\ disk \in RoleSet
  /\ nextId \in Ids \union {MaxId + 1}
  /\ services \in [Ids -> Configs \union {NoService}]
  /\ roles \in RoleSet
  /\ upstream \in Wyoming \union {DefaultUri}
  /\ torn \in BOOLEAN

-----------------------------------------------------------------------------
(* Reading and cleaning.                                                   *)

\* _read_roles: a missing main and an empty one read the same.
ReadRoles(d) == [d EXCEPT !.main = IF d.main = Absent THEN None ELSE d.main]

\* dict.fromkeys: the first of each, in order.
Deduplicated(s) ==
  FoldLeft(LAMBDA kept, i : IF Contains(kept, i) THEN kept ELSE Append(kept, i),
           <<>>, s)

\* What set_roles stores: ids that exist, and never the main as its own
\* fallback or shadow.
Cleaned(r, live) ==
  LET main == IF r.main \in live THEN r.main ELSE None
      Keep(s) == Deduplicated(SelectSeq(s, LAMBDA i : i \in live /\ i # main))
  IN [main |-> main, fallbacks |-> Keep(r.fallbacks), shadows |-> Keep(r.shadows)]

\* The main's address if it is a Wyoming service, or else the first's.
UpstreamUri(r, main) ==
  LET streaming == {i \in Live(r) : r[i] \in Wyoming}
  IN IF main \in streaming THEN r[main]
     ELSE IF streaming # {} THEN r[Min(streaming)] ELSE DefaultUri

-----------------------------------------------------------------------------
(* Commits.  set_roles writes four settings; the fourth, a switch, is left  *)
(* out.                                                                    *)

Commit(key, value) == [key |-> key, value |-> value]

RoleCommits(r) ==
  <<Commit("main", r.main), Commit("fallbacks", r.fallbacks),
    Commit("shadows", r.shadows)>>

Apply(c) ==
  IF c.key = "rows"
    THEN rows' = c.value /\ UNCHANGED disk
    ELSE disk' = [disk EXCEPT ![c.key] = c.value] /\ UNCHANGED rows

Idle == [name |-> "idle", drops |-> {}]
Down == [name |-> "down", drops |-> {}]

\* An operation starts with its first commit.
StartWith(name, drops, commits) ==
  /\ Apply(Head(commits))
  /\ op' = [name |-> name, drops |-> drops]
  /\ todo' = Tail(commits)

-----------------------------------------------------------------------------
(* The operations of the web API.                                          *)

\* create: the row, then, if there is no main, the roles with this one as
\* main.
CreateCommits(r, conf) ==
  LET with == [rows EXCEPT ![nextId] = conf]
  IN <<Commit("rows", with)>> \o
       IF r.main = None
         THEN RoleCommits(Cleaned([r EXCEPT !.main = nextId], Live(with)))
         ELSE <<>>

create(conf) ==
  /\ op = Idle /\ nextId \in Ids
  /\ StartWith("create", IF roles.main = None THEN {"services", "roles"} ELSE {"services"},
           CreateCommits(roles, conf))
  /\ nextId' = nextId + 1
  /\ UNCHANGED <<services, roles, upstream, torn>>

UpdateCommits(i, conf) == <<Commit("rows", [rows EXCEPT ![i] = conf])>>

\* update keeps the kind.
update(i, conf) ==
  /\ op = Idle
  /\ i \in Live(services)
  /\ services[i] \in Wyoming <=> conf \in Wyoming
  /\ StartWith("update", {"services"}, UpdateCommits(i, conf))
  /\ UNCHANGED <<nextId, services, roles, upstream, torn>>

\* delete refuses the main.  It has taken the id off the lists before
\* set_roles looks which of them exist, which comes to the same.
DeleteCommits(i) ==
  LET without == [rows EXCEPT ![i] = NoService]
  IN <<Commit("rows", without)>> \o RoleCommits(Cleaned(roles, Live(without)))

\* A bug: the main can be deleted, and the roles are left for later.
DeleteAnything(i) ==
  /\ op = Idle
  /\ i \in Live(services)
  /\ StartWith("delete", {"services", "roles"}, DeleteCommits(i))
  /\ UNCHANGED <<nextId, services, roles, upstream, torn>>

delete(i) ==
  /\ op = Idle
  /\ i \in Live(services) /\ roles.main # i
  /\ StartWith("delete", {"services", "roles"}, DeleteCommits(i))
  /\ UNCHANGED <<nextId, services, roles, upstream, torn>>

set_roles(r) ==
  /\ op = Idle
  /\ StartWith("roles", {"roles"}, RoleCommits(Cleaned(r, Live(services))))
  /\ UNCHANGED <<nextId, services, roles, upstream, torn>>

\* A restore writes the archive's settings, forgets what is in memory, and
\* swaps the table.  DELETE and INSERT are one transaction of the store, but
\* the connection is shared: another thread's commit may fall between them.
RestoreCommits(a) ==
  RoleCommits(a.roles)
    \o <<Commit("rows", [i \in Ids |-> NoService]), Commit("rows", a.rows)>>

\* A bug: replace_all drops the services and not the roles.
RestoreServicesOnly(a) ==
  /\ op = Idle
  /\ StartWith("restore", {"services"}, RestoreCommits(a))
  /\ nextId' = LET top == Live(a.rows) \union {nextId - 1} IN Max(top) + 1
  /\ UNCHANGED <<services, roles, upstream, torn>>

restore(a) ==
  /\ op = Idle
  /\ StartWith("restore", {"services", "roles"}, RestoreCommits(a))
  /\ nextId' = LET top == Live(a.rows) \union {nextId - 1} IN Max(top) + 1
  /\ UNCHANGED <<services, roles, upstream, torn>>

-----------------------------------------------------------------------------
(* Start-up and migration.                                                 *)

\* The services that the flat settings name, in the order of their creation.
\* A Wyoming server that was named before is not created again.
Wanted(l) ==
  LET New(c, before) ==
        IF c = NoService \/ c \in Wyoming \intersect before THEN <<>> ELSE <<c>>
  IN New(l.main, {}) \o New(l.fallback, {l.main})
       \o New(l.shadow, {l.main, l.fallback})

\* migrate_legacy_settings: a service for each thing the flat settings name;
\* the first one created becomes the main on the way; at last the roles.
MigrateCommits(l) ==
  LET wanted == Wanted(l)
      Id(c) == IF c \in Wyoming THEN CHOOSE i \in DOMAIN wanted : wanted[i] = c
               ELSE Len(wanted)
      Table(n) == [i \in Ids |-> IF i <= n THEN wanted[i] ELSE NoService]
      Fallback == IF l.fallback = NoService THEN <<>> ELSE <<Id(l.fallback)>>
      Shadow == IF l.shadow = NoService THEN <<>> ELSE <<Id(l.shadow)>>
      Created == [n \in 1 .. Len(wanted) |-> Commit("rows", Table(n))]
      FirstIsMain == RoleCommits([main |-> 1, fallbacks |-> <<>>, shadows |-> <<>>])
      Final == Cleaned([main |-> IF l.main = NoService THEN None ELSE 1,
                        fallbacks |-> Fallback \o IF l.rescues THEN Shadow ELSE <<>>,
                        shadows |-> Shadow], 1 .. Len(wanted))
  IN IF wanted = <<>> THEN RoleCommits(Final)
     ELSE <<Created[1]>> \o FirstIsMain \o Tail(Created) \o RoleCommits(Final)

IsConfigured == Live(rows) # {} \/ disk.main # Absent

Boot ==
  /\ op = Down
  /\ services' = rows /\ roles' = ReadRoles(disk)
  /\ upstream' = UpstreamUri(rows, ReadRoles(disk).main)
  /\ IF IsConfigured
       THEN op' = Idle /\ UNCHANGED <<rows, disk, todo, nextId>>
       ELSE \E l \in Legacies :
              /\ StartWith("migrate", {"services", "roles"}, MigrateCommits(l))
              /\ nextId' = 1 + Len(Wanted(l))
  /\ UNCHANGED torn

-----------------------------------------------------------------------------
(* The end of an operation, and the end of the process.                    *)

NextCommit ==
  /\ todo # <<>>
  /\ Apply(Head(todo))
  /\ todo' = Tail(todo)
  /\ UNCHANGED <<nextId, services, roles, upstream, op, torn>>

\* The operation drops what it changed from memory, the route points the info
\* cache at the main's server, and its answer reads everything again.
Finish ==
  /\ op \notin {Idle, Down} /\ todo = <<>>
  /\ services' = IF "services" \in op.drops THEN rows ELSE services
  /\ roles' = IF "roles" \in op.drops THEN ReadRoles(disk) ELSE roles
  /\ upstream' = UpstreamUri(services', roles'.main)
  /\ torn' = (torn /\ "roles" \notin op.drops)
  /\ op' = Idle
  /\ UNCHANGED <<rows, disk, nextId, todo>>

\* What was committed stays; what is in memory is gone.
Crash ==
  /\ op # Down
  /\ op' = Down /\ todo' = <<>>
  /\ torn' = IF todo = <<>> THEN torn /\ "roles" \notin op.drops
             ELSE op.name = "restore" \/ (torn /\ Head(todo).key = "main")
  /\ services' = [i \in Ids |-> NoService]
  /\ roles' = [main |-> None, fallbacks |-> <<>>, shadows |-> <<>>]
  /\ upstream' = DefaultUri
  /\ UNCHANGED <<rows, disk, nextId>>

-----------------------------------------------------------------------------
ServicesInit ==
  /\ rows = [i \in Ids |-> NoService]
  /\ disk = [main |-> Absent, fallbacks |-> <<>>, shadows |-> <<>>]
  /\ nextId = 1
  /\ services = rows
  /\ roles = ReadRoles(disk)
  /\ upstream = DefaultUri
  /\ op = Down /\ todo = <<>>
  /\ torn = FALSE

ServicesNext ==
  \/ Boot
  \/ \E conf \in Configs : create(conf)
  \/ \E i \in Ids, conf \in Configs : update(i, conf)
  \/ \E i \in Ids : delete(i)
  \/ \E r \in Requested : set_roles(r)
  \/ \E a \in Archives : restore(a)
  \/ NextCommit
  \/ Finish
  \/ Crash

ServicesSpec == ServicesInit /\ [][ServicesNext]_servicesVars

-----------------------------------------------------------------------------
(* Properties.                                                             *)

\* The main on disk is a service, or there is none, whatever operation a
\* crash cut short: only a restore, which writes the roles before the
\* services they name, can leave it dangling.
MainIsAService ==
  op.name = "restore" \/ torn \/
    disk.main \in Live(rows) \union {None, Absent}

\* Between operations the memory that the pipeline reads is what is on disk,
\* and the info cache asks the server that the roles imply.
MemoryIsDisk ==
  op = Idle =>
    /\ services = rows
    /\ roles = ReadRoles(disk)
    /\ upstream = UpstreamUri(rows, ReadRoles(disk).main)
=============================================================================
