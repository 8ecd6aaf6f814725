------------------------------ MODULE UploadLog ------------------------------
(***************************************************************************)
(* What a resumable upload of pkg/tus promises, with requests, locks, info *)
(* files and crashes hidden: each upload is a log.  It begins empty, only  *)
(* grows until it is reported complete and is never changed after, except  *)
(* that it may be removed, for good.  A client is told no offset the log   *)
(* has not reached.                                                        *)
(***************************************************************************)
EXTENDS Naturals, Sequences

CONSTANT Uploads

VARIABLES
  used,     \* the uploads that have begun
  live,     \* those that have not been removed
  log,      \* what has been stored of each
  told,     \* the greatest offset a client was told
  reports   \* how often it has been reported complete

vars == << used, live, log, told, reports >>

Init ==
  /\ used = {} /\ live = {}
  /\ log = [u \in Uploads |-> << >>]
  /\ told = [u \in Uploads |-> 0]
  /\ reports = [u \in Uploads |-> 0]

Create(u) ==
  /\ u \notin used
  /\ used' = used \cup {u} /\ live' = live \cup {u}
  /\ UNCHANGED << log, told, reports >>

Extends(long, short) ==
  Len(long) >= Len(short) /\ SubSeq(long, 1, Len(short)) = short

\* The last part of a concatenation is stored and reported at once.  An empty
\* upload may be reported again: nothing can be lost by that.
Store(u, bytes) ==
  /\ u \in live
  /\ reports[u] = 0 \/ bytes = << >>
  /\ Extends(bytes, log[u])
  /\ log' = [log EXCEPT ![u] = bytes]
  /\ reports' \in {reports, [reports EXCEPT ![u] = @ + 1]}
  /\ UNCHANGED << used, live, told >>

\* A request may still answer for an upload that another has removed.
Tell(u, offset) ==
  /\ u \in live => offset <= Len(log[u])
  /\ told' = [told EXCEPT ![u] = IF offset > @ THEN offset ELSE @]
  /\ UNCHANGED << used, live, log, reports >>

Remove(u) ==
  /\ u \in live
  /\ live' = live \ {u}
  /\ log' = [log EXCEPT ![u] = << >>]
  /\ UNCHANGED << used, told, reports >>

Next ==
  \E u \in Uploads :
    \/ Create(u) \/ Remove(u)
    \/ Store(u, log'[u])
    \/ Tell(u, told'[u])

Spec == Init /\ [][Next]_vars
=============================================================================
