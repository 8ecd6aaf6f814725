---------------------------- MODULE AppServices -----------------------------
(***************************************************************************)
(* Two services an application is put together from: a registry of         *)
(* sdk/registry (sdk/runtime has one per kind of object, on a sync.Map)    *)
(* and the crontab of sdk/cron.                                            *)
(*                                                                         *)
(* Registering is one call of the map, but Unregister looks up, closes and *)
(* deletes in three.  Register and Get take the empty name for "default",  *)
(* Unregister and IsRegistered do not.  An object may be registered under   *)
(* several names, and again after its removal; it is an io.Closer.         *)
(*                                                                         *)
(* The crontab is used by one goroutine; gcron, external, keeps its        *)
(* entries by name and refuses a name it has.  Jobs have names.            *)
(***************************************************************************)
EXTENDS Naturals, FiniteSets

CONSTANTS Names,     \* names given to the registry; "" is one, "default" another
          Objects,   \* the objects registered, each of them an io.Closer
          Removers,  \* calls of Unregister
          Jobs,      \* the names of cron jobs
          BadJobs,   \* those whose pattern gcron refuses
          NoObject

\* The parameters are as Services assumes them.
AppAssumption ==
  /\ NoObject \notin Objects /\ {"", "default"} \subseteq Names
  /\ IsFiniteSet(Removers)

VARIABLES
  map,       \* registry.m
  remover,   \* a call of Unregister: "new", "close", "delete", "done"
  name,      \* the name it was given
  object,    \* what it has loaded
  closed,    \* history: how often each object was closed
  removed,   \* history: how often each was deleted from the map
  overlap,   \* history: the names that two calls of Unregister had at a time
  rawJobs,   \* crontab.Jobs
  entries,   \* gcron: the names of its entries,
  ticking,   \*   and those that are not stopped
  workers    \* crontab.Workers

registry == << map, remover, name, object, closed, removed, overlap >>
cron == << rawJobs, entries, ticking, workers >>
vars == << registry, cron >>

Init ==
  /\ map = [k \in Names |-> NoObject]
  /\ remover = [u \in Removers |-> "new"]
  /\ name = [u \in Removers |-> ""]
  /\ object = [u \in Removers |-> NoObject]
  /\ closed = [o \in Objects |-> 0]
  /\ removed = [o \in Objects |-> 0] /\ overlap = {}
  /\ rawJobs = {} /\ entries = {} /\ ticking = {} /\ workers = {}

-----------------------------------------------------------------------------
(* The registry *)

Key(n) == IF n = "" THEN "default" ELSE n

\* A bug to detect: Store instead of LoadOrStore.
FreeAlways(k) == TRUE

Free(k) == map[k] = NoObject

\* LoadOrStore; with ErrDup the map stays as it is.
Register(n, o) ==
  /\ map' = IF Free(Key(n)) THEN [map EXCEPT ![Key(n)] = o] ELSE map
  /\ UNCHANGED << remover, name, object, closed, removed, overlap, cron >>

Busy(n) == {u \in Removers : name[u] = n /\ remover[u] \in {"close", "delete"}}

\* Load; an unknown name is nothing to do.
UnregisterLoad(u, n) ==
  /\ remover[u] = "new"
  /\ \/ /\ map[n] = NoObject
        /\ remover' = [remover EXCEPT ![u] = "done"]
        /\ UNCHANGED << name, object, overlap >>
     \/ /\ map[n] # NoObject
        /\ remover' = [remover EXCEPT ![u] = "close"]
        /\ name' = [name EXCEPT ![u] = n]
        /\ object' = [object EXCEPT ![u] = map[n]]
        /\ overlap' = IF Busy(n) = {} THEN overlap ELSE overlap \cup {n}
  /\ UNCHANGED << map, closed, removed, cron >>

UnregisterClose(u) ==
  /\ remover[u] = "close"
  /\ remover' = [remover EXCEPT ![u] = "delete"]
  /\ closed' = [closed EXCEPT ![object[u]] = @ + 1]
  /\ UNCHANGED << map, name, object, removed, overlap, cron >>

\* Delete, whatever the map holds under the name by now
UnregisterDelete(u) ==
  /\ remover[u] = "delete"
  /\ remover' = [remover EXCEPT ![u] = "done"]
  /\ map' = [map EXCEPT ![name[u]] = NoObject]
  /\ removed' = [o \in Objects |->
                   IF map[name[u]] = o THEN removed[o] + 1 ELSE removed[o]]
  /\ UNCHANGED << name, object, closed, overlap, cron >>

Unregister(u) ==
  \/ \E n \in Names : UnregisterLoad(u, n)
  \/ UnregisterClose(u) \/ UnregisterDelete(u)

-----------------------------------------------------------------------------
(* The crontab *)

\* AddJobs replaces the jobs; those that were started go on.
AddJobs(jobs) ==
  /\ rawJobs' = jobs
  /\ UNCHANGED << registry, entries, ticking, workers >>

\* gcron.Add refuses a bad pattern, and a name it has: also one that is stopped.
Added == rawJobs \ (BadJobs \cup entries)

\* A bug to detect: the workers of an earlier start are forgotten.
WorkersAnew == Added

WorkersNow == workers \cup Added

Start ==
  /\ entries' = entries \cup Added
  /\ ticking' = ticking \cup Added
  /\ workers' = WorkersNow
  /\ UNCHANGED << registry, rawJobs >>

StartJob(j) ==
  /\ j \in workers
  /\ ticking' = ticking \cup {j}
  /\ UNCHANGED << registry, rawJobs, entries, workers >>

StopJob(j) ==
  /\ j \in workers
  /\ ticking' = ticking \ {j}
  /\ UNCHANGED << registry, rawJobs, entries, workers >>

Stop ==
  /\ ticking' = ticking \ workers
  /\ UNCHANGED << registry, rawJobs, entries, workers >>

Crontab ==
  \/ \E jobs \in SUBSET Jobs : AddJobs(jobs)
  \/ \E j \in Jobs : StartJob(j) \/ StopJob(j)
  \/ Start \/ Stop

-----------------------------------------------------------------------------
Next == \/ \E n \in Names, o \in Objects : Register(n, o)
        \/ \E u \in Removers : Unregister(u)
        \/ Crontab

Spec == Init /\ [][Next]_vars

-----------------------------------------------------------------------------
(* The properties *)

AppTypeOK ==
  /\ map \in [Names -> Objects \cup {NoObject}]
  /\ remover \in [Removers -> {"new", "close", "delete", "done"}]
  /\ name \in [Removers -> Names]
  /\ object \in [Removers -> Objects \cup {NoObject}]
  /\ closed \in [Objects -> Nat]
  /\ removed \in [Objects -> Nat] /\ overlap \subseteq Names
  /\ rawJobs \subseteq Jobs /\ ticking \subseteq entries
  /\ entries \subseteq Jobs /\ workers \subseteq entries

\* The calls of Unregister that have closed o and are about to delete it
Closing(o) == {u \in Removers : object[u] = o /\ remover[u] = "delete"}

\* An object is closed once each time it leaves the registry, under whatever
\* names it is and however often it is registered: every close is followed by
\* the deletion of what was closed, and nothing is deleted unclosed.  It is so
\* as long as no two calls of Unregister have the same name at a time; then an
\* object may be closed twice, and one registered in between leaves unclosed.
RemovedIsClosed ==
  overlap = {} =>
    \A o \in Objects : closed[o] = removed[o] + Cardinality(Closing(o))

\* Every cron job that ticks can be stopped by its name, and by Stop, however
\* often the jobs are replaced, started and stopped.
TickingCanBeStopped == ticking \subseteq workers
=============================================================================
