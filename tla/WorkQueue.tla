----------------------------- MODULE WorkQueue ------------------------------
(***************************************************************************)
(* What a queue of sdk/queue promises to those who publish messages and to *)
(* those who consume them (core/queue/iQueue.go, consumer.go): a message   *)
(* is handled by one consumer of its key at a time, one whose handler      *)
(* fails it waits again, and one that has been handled is done with.  The  *)
(* order among messages is left open.                                      *)
(***************************************************************************)
EXTENDS Naturals

CONSTANTS Messages, Consumers,
          KeyOf  \* the routing key of each message, the name of each consumer

VARIABLE work  \* of each message: "unsent", "waiting", "handled", or who has it

Init == work = [m \in Messages |-> "unsent"]

Submit(m) == work[m] = "unsent" /\ work' = [work EXCEPT ![m] = "waiting"]

Begin(m, c) ==
  /\ work[m] \in {"unsent", "waiting"}
  /\ KeyOf[c] = KeyOf[m]
  /\ \A n \in Messages : work[n] # c
  /\ work' = [work EXCEPT ![m] = c]

Succeed(m) == work[m] \in Consumers /\ work' = [work EXCEPT ![m] = "handled"]

\* A consumer may hand a failed message straight to another one.
GiveBack(m) ==
  /\ work[m] \in Consumers
  /\ \/ work' = [work EXCEPT ![m] = "waiting"]
     \/ \E c \in Consumers :
          /\ KeyOf[c] = KeyOf[m]
          /\ \A n \in Messages : work[n] # c
          /\ work' = [work EXCEPT ![m] = c]

Next ==
  \E m \in Messages :
    \/ Submit(m) \/ Succeed(m) \/ GiveBack(m)
    \/ \E c \in Consumers : Begin(m, c)

Spec == Init /\ [][Next]_work
=============================================================================
