----------------------------- MODULE WsBroadcast -----------------------------
(***************************************************************************)
(* What a push to everybody promises in pkg/ws, with the dispatch and job  *)
(* workers and their channels hidden.  A message is accepted or refused    *)
(* at once.  An accepted one is handled once by every bucket; while a      *)
(* bucket handles it, each of its connections may get it, once.            *)
(***************************************************************************)
EXTENDS Sequences

CONSTANTS Messages,     \* the messages pushed
          Unsendable,   \* those that cannot be encoded
          Receivers,    \* the connections
          Parts,        \* the buckets
          PartOf(_)     \* the bucket of a connection

VARIABLES verdict,   \* "none", "accepted" or "refused" for each message
          handled,   \* pairs << message, bucket >> that are finished
          inbox      \* what each connection has got, in order

bvars == << verdict, handled, inbox >>

Got(r) == {inbox[r][i] : i \in DOMAIN inbox[r]}

BInit == /\ verdict = [m \in Messages |-> "none"]
         /\ handled = {}
         /\ inbox = [r \in Receivers |-> << >>]

Decide(m, v) ==
  /\ verdict[m] = "none"
  /\ v \in {"accepted", "refused"}
  /\ verdict' = [verdict EXCEPT ![m] = v]
  /\ UNCHANGED << handled, inbox >>

Deliver(m, r) ==
  /\ verdict[m] = "accepted"
  /\ m \notin Unsendable
  /\ << m, PartOf(r) >> \notin handled
  /\ m \notin Got(r)
  /\ inbox' = [inbox EXCEPT ![r] = Append(@, m)]
  /\ UNCHANGED << verdict, handled >>

Finish(m, p) ==
  /\ verdict[m] = "accepted"
  /\ m \notin Unsendable
  /\ << m, p >> \notin handled
  /\ handled' = handled \cup {<< m, p >>}
  /\ UNCHANGED << verdict, inbox >>

BNext ==
  \/ \E m \in Messages, v \in {"accepted", "refused"} : Decide(m, v)
  \/ \E m \in Messages, r \in Receivers : Deliver(m, r)
  \/ \E m \in Messages, p \in Parts : Finish(m, p)

\* Whatever the pressure, an accepted message gets through every bucket.
BFairness ==
  \A m \in Messages \ Unsendable, p \in Parts : WF_bvars(Finish(m, p))

BSpec == BInit /\ [][BNext]_bvars /\ BFairness
=============================================================================
