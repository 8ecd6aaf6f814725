-------------------------- MODULE SessionDirectory --------------------------
(***************************************************************************)
(* What the connection manager of pkg/ws promises about sessions, with the *)
(* goroutines, locks and channels hidden.  A session is opened once and    *)
(* closed once, whoever closes it and however many try; it is listed for   *)
(* pushes at most once; it is unlisted only when it is closed, and once it *)
(* is gone nothing of it is left.                                          *)
(***************************************************************************)
CONSTANT Sessions

VARIABLES status,   \* "new", "open", "closed" or "gone"
          listing   \* "no" before it is listed, "yes", and "was" after it

dvars == << status, listing >>

Statuses == {"new", "open", "closed", "gone"}
Listings == {"no", "yes", "was"}

DInit == /\ status = [s \in Sessions |-> "new"]
         /\ listing = [s \in Sessions |-> "no"]

Change(s, from, to) ==
  /\ status[s] = from
  /\ status' = [status EXCEPT ![s] = to]
  /\ UNCHANGED listing

Begin(s) == Change(s, "new", "open")
End(s) == Change(s, "open", "closed")

\* A session may end while it is being set up: it is then listed although
\* closed, for a moment.
List(s) ==
  /\ status[s] \in {"open", "closed"}
  /\ listing[s] = "no"
  /\ listing' = [listing EXCEPT ![s] = "yes"]
  /\ UNCHANGED status

Unlist(s) ==
  /\ status[s] = "closed"
  /\ listing[s] = "yes"
  /\ listing' = [listing EXCEPT ![s] = "was"]
  /\ UNCHANGED status

Retire(s) == listing[s] = "was" /\ Change(s, "closed", "gone")

DNext == \E s \in Sessions :
           Begin(s) \/ End(s) \/ List(s) \/ Unlist(s) \/ Retire(s)

\* A closed session is listed, unlisted and retired without anyone's help.
DFairness == \A s \in Sessions :
  WF_dvars(status[s] = "closed" /\ (List(s) \/ Unlist(s) \/ Retire(s)))

DSpec == DInit /\ [][DNext]_dvars /\ DFairness
=============================================================================
