----------------------------- MODULE MCServices -----------------------------
(* Services on small instances. *)
EXTENDS Services, TLC

CONSTANTS m1, m2, c1, c2, c3

\* One message too many for a channel of one, two consumers that compete for
\* them, and one of another key.
KeyOfCalls ==
  (m1 :> "a") @@ (m2 :> "a") @@ (c1 :> "a") @@ (c2 :> "a") @@ (c3 :> "b")

\* Two Consumer calls for one exchange, both messages to the queue of the first.
GroupOfCalls == (m1 :> "g") @@ (m2 :> "g") @@ (c1 :> "g") @@ (c2 :> "g")
ToCalls == (m1 :> c1) @@ (m2 :> c1)

\* Codes repeat: that of a counter comes back within the window and one.
CodeModulo(n) == n % 4

\* A summary and parameters to show or not, given and not given
RawFuncsGiven ==
  {[summary |-> "rows", params |-> "empty"], [summary |-> "blank", params |-> "none"]}

\* Configuration files: what is not named in one is as in the first.
QueueKinds == {"rabbitmq", "memory", "rocketmq", "nsq", "redis"}
File(changed) ==
  [k \in QueueKinds |->
     IF k \in DOMAIN changed THEN changed[k]
     ELSE IF k \in {"nsq", "redis"} THEN "absent" ELSE "good"]
FilesGiven ==
  {File(<< >>), File("rabbitmq" :> "bad"), File("rabbitmq" :> "absent"),
   File("rocketmq" :> "bad"), File("rocketmq" :> "unreadable")}

\* Two RabbitMQ tasks for one exchange, the first with or without a spec
TaskListsGiven ==
  [k \in QueueKinds |->
     CASE k = "rabbitmq" -> {<< "r0", "r2" >>, << "r1", "r2" >>}
       [] k = "memory"   -> {<< "q1" >>}
       [] k = "rocketmq" -> {<< "k1" >>}
       [] k = "nsq"      -> {<< "n1" >>}
       [] OTHER          -> {}]
ConsumerNumGiven == [t \in {"r0", "r1", "r2", "q1", "k1", "n1"} |-> IF t = "r0" THEN 0 ELSE 1]
ExchangeGiven == [t \in {"r0", "r1", "r2"} |-> "exchange"]
ServiceListsGiven == {<< "memory", "nsq" >>, << "rabbitmq", "rocketmq" >>}
=============================================================================
