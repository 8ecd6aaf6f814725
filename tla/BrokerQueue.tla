---------------------------- MODULE BrokerQueue -----------------------------
(***************************************************************************)
(* The clients of sdk/queue/rabbitmq and sdk/queue/rocketmq, which are     *)
(* alike: Consumer finds or makes, under a mutex, the consumer of an       *)
(* exchange (of a group) and gives it a closure that calls the handler and *)
(* answers the broker.  The closure assigns the variable err of the call   *)
(* of Consumer that made it, so all the goroutines that run it share err,  *)
(* and with RabbitMQ, whose consumer runs as soon as it is made, they      *)
(* share it with that call, too.  Publish finds or makes a producer, and   *)
(* with RabbitMQ the connection, under no lock.                            *)
(*                                                                         *)
(* The broker and its client libraries are external: they keep a message   *)
(* until it is acknowledged, deliver it again when it is not, and run at   *)
(* most Concurrency closures of a consumer at once.  Each Consumer call is *)
(* for a queue (a topic) of its own.  The application shuts down once, and *)
(* calls nothing more then; Shutdown takes no lock and may find calls that *)
(* are on their way.                                                       *)
(***************************************************************************)
EXTENDS Naturals, FiniteSets

CONSTANTS Messages,     \* calls of Publish, one message each
          Consumers,    \* calls of Consumer
          Groups,       \* exchange names, or group names
          GroupOf,      \* the group each call names
          To,           \* the call of Consumer whose queue a message goes to
          Concurrency,  \* ConsumeOptions.Concurrency; RocketMQ's client has its own
          MaxErrors,    \* bound on how often a handler fails one message
          Nobody

Callers == Messages \cup Consumers

\* The parameters are as Services assumes them.
BrokerAssumption ==
  /\ IsFiniteSet(Messages)
  /\ To \in [Messages -> Consumers] /\ GroupOf \in [Callers -> Groups]
  /\ Nobody \notin Consumers

VARIABLES
  rabbit,     \* RabbitMQ, otherwise RocketMQ
  mux,        \* who holds mux
  consumers,  \* the map consumers: who made the consumer of each group
  producers,  \* the keys of the map producers
  conn,       \* RabbitMQ.conn, 0 for nil
  dialled,    \* connections made, numbered 1 .. dialled
  call,       \* where each call of Publish or Consumer is
  err,        \* the variable err of each call of Consumer: has it an error?
  running,    \* the calls whose closure the client runs
  shut,       \* has Shutdown been called?
  message,    \* of a message: "unsent", "ready", "handling", "answering", "acked"
  failures,     \* how often the handler has failed it
  succeeded,    \* history: the messages a handler has succeeded with
  early       \* history: those handled while Consumer had yet to return

client == << rabbit, mux, consumers, producers, conn, dialled >>
broker == << message, failures, succeeded, early >>
vars == << client, call, err, running, shut, broker >>

Init ==
  /\ rabbit \in BOOLEAN
  /\ mux = Nobody
  /\ consumers = [g \in Groups |-> Nobody]
  /\ producers = {}
  /\ conn = 0 /\ dialled = 0
  /\ call = [p \in Callers |-> "new"]
  /\ err = [c \in Consumers |-> FALSE]
  /\ running = {} /\ shut = FALSE
  /\ message = [m \in Messages |-> "unsent"]
  /\ failures = [m \in Messages |-> 0]
  /\ succeeded = {} /\ early = {}

Goes(p, pc) == call' = [call EXCEPT ![p] = pc]

-----------------------------------------------------------------------------
(* newConn *)

\* if r.conn == nil; RocketMQ has no connection to share.
Connect(p) ==
  /\ call[p] = "connect"
  /\ Goes(p, IF rabbit /\ conn = 0 THEN "dial" ELSE "make")
  /\ UNCHANGED << client, err, running, shut, broker >>

\* r.conn becomes what the last to dial got: nil when that was an error.
Dial(p) ==
  /\ call[p] = "dial"
  /\ \/ /\ dialled' = dialled + 1 /\ conn' = dialled + 1
        /\ Goes(p, "make")
        /\ mux' = mux
     \/ /\ dialled' = dialled /\ conn' = 0
        /\ Goes(p, "failed")
        /\ mux' = IF mux = p THEN Nobody ELSE mux
  /\ UNCHANGED << rabbit, consumers, producers, err, running, shut, broker >>

-----------------------------------------------------------------------------
(* Consumer *)

LockConsumers(c) ==
  /\ call[c] = "new" /\ ~shut
  /\ mux = Nobody
  /\ \/ /\ consumers[GroupOf[c]] = Nobody
        /\ mux' = c /\ Goes(c, "connect")
     \/ /\ consumers[GroupOf[c]] # Nobody   \* RabbitMQ: the call does nothing
        /\ rabbit
        /\ mux' = mux /\ Goes(c, "returned")
     \/ /\ consumers[GroupOf[c]] # Nobody
        /\ ~rabbit
        /\ mux' = c /\ Goes(c, "subscribe")
  /\ UNCHANGED << rabbit, consumers, producers, conn, dialled, err, running, shut, broker >>

Fails(c) == Goes(c, "failed") /\ mux' = Nobody /\ UNCHANGED << consumers, running >>

\* newConsumer, which runs the closure at once,
MakeRabbitConsumer(c) ==
  /\ rabbit /\ call[c] = "make"
  /\ \/ Goes(c, "assign") /\ running' = running \cup {c} /\ UNCHANGED << mux, consumers >>
     \/ Fails(c)
  /\ UNCHANGED << rabbit, producers, conn, dialled, err, shut, broker >>

\* and that of RocketMQ, which has no closure yet and is stored.
MakeRocketConsumer(c) ==
  /\ ~rabbit /\ call[c] = "make"
  /\ \/ /\ Goes(c, "subscribe")
        /\ consumers' = [consumers EXCEPT ![GroupOf[c]] = c]
        /\ UNCHANGED << mux, running >>
     \/ Fails(c)
  /\ UNCHANGED << rabbit, producers, conn, dialled, err, shut, broker >>

\* c, err = r.newConsumer(...), with the closure running already
AssignErr(c) ==
  /\ call[c] = "assign"
  /\ err' = [err EXCEPT ![c] = FALSE]
  /\ Goes(c, "check")
  /\ UNCHANGED << client, running, shut, broker >>

CheckErr(c) ==
  /\ call[c] = "check"
  /\ consumers' = IF err[c] THEN consumers ELSE [consumers EXCEPT ![GroupOf[c]] = c]
  /\ mux' = Nobody
  /\ Goes(c, "returned")
  /\ UNCHANGED << rabbit, producers, conn, dialled, err, running, shut, broker >>

Subscribe(c) ==
  /\ call[c] = "subscribe"
  /\ mux' = Nobody
  /\ Goes(c, "returned") \/ Goes(c, "failed")
  /\ UNCHANGED << rabbit, consumers, producers, conn, dialled, err, running, shut, broker >>

\* RocketMQ.Run starts what has been subscribed (the task service calls it
\* when all Consumer calls have returned); RabbitMQ's does nothing.
Run ==
  /\ ~rabbit /\ ~shut
  /\ \A c \in Consumers : call[c] \in {"returned", "failed"}
  /\ running # {c \in Consumers : call[c] = "returned"}
  /\ running' = {c \in Consumers : call[c] = "returned"}
  /\ UNCHANGED << client, call, err, shut, broker >>

-----------------------------------------------------------------------------
(* Publish *)

FindProducer(m) ==
  /\ call[m] = "new" /\ ~shut
  /\ Goes(m, IF GroupOf[m] \in producers THEN "send" ELSE "connect")
  /\ UNCHANGED << client, err, running, shut, broker >>

Made(m, pc) == Goes(m, pc) /\ producers' = producers \cup {GroupOf[m]}

\* newProducer and its place in the map
MakeRabbitProducer(m) ==
  /\ rabbit /\ call[m] = "make"
  /\ Made(m, "send") \/ (Goes(m, "failed") /\ UNCHANGED producers)
  /\ UNCHANGED << rabbit, mux, consumers, conn, dialled, err, running, shut, broker >>

\* RocketMQ encodes the message only then, which may fail, too.
MakeRocketProducer(m) ==
  /\ ~rabbit /\ call[m] = "make"
  /\ \/ Made(m, "send") \/ Made(m, "failed")
     \/ Goes(m, "failed") /\ UNCHANGED producers
  /\ UNCHANGED << rabbit, mux, consumers, conn, dialled, err, running, shut, broker >>

Send(m) ==
  /\ call[m] = "send"
  /\ \/ Goes(m, "returned") /\ message' = [message EXCEPT ![m] = "ready"]
     \/ Goes(m, "failed") /\ UNCHANGED message
  /\ UNCHANGED << client, err, running, shut, failures, succeeded, early >>

-----------------------------------------------------------------------------
(* The closure *)

Busy(c) == {m \in Messages : To[m] = c /\ message[m] \in {"handling", "answering"}}

Deliver(m) ==
  /\ message[m] = "ready"
  /\ To[m] \in running
  /\ Cardinality(Busy(To[m])) < Concurrency
  /\ message' = [message EXCEPT ![m] = "handling"]
  /\ UNCHANGED << client, call, err, running, shut, failures, succeeded, early >>

\* err = f(ctx, m)
HandlerReturns(m) ==
  /\ message[m] = "handling"
  /\ message' = [message EXCEPT ![m] = "answering"]
  /\ \/ /\ err' = [err EXCEPT ![To[m]] = FALSE]
        /\ succeeded' = succeeded \cup {m}
        /\ failures' = failures
     \/ /\ failures[m] < MaxErrors
        /\ err' = [err EXCEPT ![To[m]] = TRUE]
        /\ failures' = [failures EXCEPT ![m] = @ + 1]
        /\ succeeded' = succeeded
  /\ early' = IF call[To[m]] = "returned" THEN early ELSE early \cup {m}
  /\ UNCHANGED << client, call, running, shut >>

\* A bug to detect: a message whose handler failed is discarded.
AnswerOfDiscard(c) == "acked"

\* NackRequeue (Rollback) on an error, Ack (ConsumeSuccess) otherwise
AnswerOf(c) == IF err[c] THEN "ready" ELSE "acked"

\* if err != nil, read once more; the broker does not get the answer of a
\* consumer that has been closed, and keeps the message.
Answer(m) ==
  /\ message[m] = "answering"
  /\ \/ message' = [message EXCEPT ![m] = AnswerOf(To[m])]
     \/ To[m] \notin running /\ message' = [message EXCEPT ![m] = "ready"]
  /\ UNCHANGED << client, call, err, running, shut, failures, succeeded, early >>

-----------------------------------------------------------------------------
(* Shutdown *)

\* Closes what is in the maps, and the connection: a consumer of RabbitMQ that
\* is not in the map yet ends with its connection, if it has that one.
Shutdown ==
  /\ ~shut /\ shut' = TRUE
  /\ \E left \in SUBSET {c \in running : rabbit /\ consumers[GroupOf[c]] # c} :
       running' = left
  /\ UNCHANGED << client, call, err, broker >>

-----------------------------------------------------------------------------
Consumer(c) ==
  \/ LockConsumers(c) \/ Connect(c) \/ Dial(c)
  \/ MakeRabbitConsumer(c) \/ MakeRocketConsumer(c)
  \/ AssignErr(c) \/ CheckErr(c) \/ Subscribe(c)

Publish(m) ==
  \/ FindProducer(m) \/ Connect(m) \/ Dial(m)
  \/ MakeRabbitProducer(m) \/ MakeRocketProducer(m) \/ Send(m)

Closure(m) == Deliver(m) \/ HandlerReturns(m) \/ Answer(m)

Next == \/ \E c \in Consumers : Consumer(c)
        \/ \E m \in Messages : Publish(m) \/ Closure(m)
        \/ Run \/ Shutdown

Spec == Init /\ [][Next]_vars

-----------------------------------------------------------------------------
(* The properties *)

BrokerTypeOK ==
  /\ rabbit \in BOOLEAN
  /\ mux \in Consumers \cup {Nobody}
  /\ consumers \in [Groups -> Consumers \cup {Nobody}]
  /\ producers \subseteq Groups
  /\ dialled \in Nat /\ conn \in 0..dialled
  /\ call \in [Callers -> {"new", "connect", "dial", "make", "assign", "check",
                           "subscribe", "send", "returned", "failed"}]
  /\ err \in [Consumers -> BOOLEAN]
  /\ running \subseteq Consumers /\ shut \in BOOLEAN
  /\ message \in [Messages -> {"unsent", "ready", "handling", "answering", "acked"}]
  /\ failures \in [Messages -> 0..MaxErrors]
  /\ succeeded \subseteq Messages /\ early \subseteq Messages

\* A message is acknowledged only after its handler has succeeded with it:
\* what "Requeue msg" is logged for happens ...
AckedWasHandled ==
  \A m \in Messages : message[m] = "acked" => m \in succeeded

\* ... for every message the handler was given after Consumer had returned,
\* whatever connections, producers and consumers the calls make and lose
\* meanwhile, provided that a consumer runs one closure at a time.
AckedWasHandledOrEarly ==
  \A m \in Messages : message[m] = "acked" => m \in succeeded \cup early
=============================================================================
