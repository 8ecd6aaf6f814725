---------------------------- MODULE MemoryQueue -----------------------------
(***************************************************************************)
(* The in-memory queue of sdk/queue/memory: one Go channel per routing key *)
(* in a map that Publish and Consumer fill.  Both look the key up and,     *)
(* finding nothing, store a channel of their own; the mutex is only ever   *)
(* read-locked, so two calls may do this at the same time and the channel  *)
(* stored first is then lost to whoever looks the key up later.  Publish   *)
(* leaves the send to a goroutine of its own; a consumer puts a message    *)
(* its handler failed back into the channel it reads.                      *)
(*                                                                         *)
(* The limit of five errors is a TODO of the code: a message is put back   *)
(* however often it fails.  MaxErrors bounds the failures of the handlers. *)
(***************************************************************************)
EXTENDS Integers, Sequences, FiniteSets

CONSTANTS Messages,   \* calls of Publish, one message each
          Consumers,  \* calls of Consumer
          Keys,       \* routing keys
          KeyOf,      \* the routing key of each message, the name of each consumer
          PoolNums,   \* capacities of a channel to choose from, 0 for a rendezvous
          MaxErrors,  \* bound on how often a handler fails one message
          NoMessage

Callers == Messages \cup Consumers

\* The parameters are as Services assumes them.
QueueCallersAssumption ==
  /\ Messages \cap Consumers = {}
  /\ NoMessage \notin Messages
  /\ {"unsent", "waiting", "handled"} \cap Consumers = {}
  /\ KeyOf \in [Callers -> Keys]
QueueSizesAssumption == PoolNums \subseteq Nat /\ MaxErrors \in Nat

VARIABLES
  queue,    \* Memory.queue: the channel of each key, 0 for none
  made,     \* channels made, numbered 1 .. made
  chan,     \* the content of each of them
  caller,   \* the call: "new", "missing", "ready", and of a message "sent"
  of,       \* the channel the call has got
  holds,    \* the message a consumer's handler has, or puts back
  blocked,  \* the consumers that put a message back
  errors,   \* how often each message has failed
  handled,  \* history: the messages a handler has succeeded with
  poolNum,  \* Memory.PoolNum
  wait,     \* Memory.wait
  runner    \* the call of Run: "new", "waiting", "returned"

lookup == << queue, made, caller, of >>
service == << poolNum, wait, runner >>
vars == << lookup, chan, holds, blocked, errors, handled, service >>

NoQueue == 0

Init ==
  /\ queue = [k \in Keys |-> NoQueue]
  /\ made = 0
  /\ chan = << >>
  /\ caller = [p \in Callers |-> "new"]
  /\ of = [p \in Callers |-> NoQueue]
  /\ holds = [c \in Consumers |-> NoMessage]
  /\ blocked = {}
  /\ errors = [m \in Messages |-> 0]
  /\ handled = {}
  /\ poolNum \in PoolNums /\ wait = 0 /\ runner = "new"

-----------------------------------------------------------------------------
(* Publish and Consumer: the look-up *)

\* m.queue.Load
Load(p) ==
  /\ caller[p] = "new"
  /\ \/ /\ queue[KeyOf[p]] # NoQueue
        /\ caller' = [caller EXCEPT ![p] = "ready"]
        /\ of' = [of EXCEPT ![p] = queue[KeyOf[p]]]
     \/ /\ queue[KeyOf[p]] = NoQueue
        /\ caller' = [caller EXCEPT ![p] = "missing"]
        /\ of' = of
  /\ UNCHANGED << queue, made, chan, holds, blocked, errors, handled, service >>

\* makeQueue and m.queue.Store, whatever has been stored meanwhile
Store(p) ==
  /\ caller[p] = "missing"
  /\ made' = made + 1
  /\ chan' = Append(chan, << >>)
  /\ queue' = [queue EXCEPT ![KeyOf[p]] = made + 1]
  /\ caller' = [caller EXCEPT ![p] = "ready"]
  /\ of' = [of EXCEPT ![p] = made + 1]
  /\ UNCHANGED << holds, blocked, errors, handled, service >>

-----------------------------------------------------------------------------
(* The channels, the sender of a message and the loop of a consumer *)

Idle(c) == caller[c] = "ready" /\ holds[c] = NoMessage

\* A bug to detect: a channel that is full takes one more.
HasRoomForOneMore(q) == Len(chan[q]) <= poolNum

HasRoom(q) == Len(chan[q]) < poolNum

\* The goroutine of Publish puts its message in the channel,
Send(m) ==
  /\ caller[m] = "ready"
  /\ HasRoom(of[m])
  /\ chan' = [chan EXCEPT ![of[m]] = Append(@, m)]
  /\ caller' = [caller EXCEPT ![m] = "sent"]
  /\ UNCHANGED << queue, made, of, holds, blocked, errors, handled, service >>

\* or hands it to a consumer that waits on a channel without capacity.
SendTo(m, c) ==
  /\ poolNum = 0
  /\ caller[m] = "ready"
  /\ Idle(c) /\ of[c] = of[m]
  /\ holds' = [holds EXCEPT ![c] = m]
  /\ caller' = [caller EXCEPT ![m] = "sent"]
  /\ UNCHANGED << queue, made, chan, of, blocked, errors, handled, service >>

\* for iMessage := range q
Receive(c) ==
  /\ Idle(c)
  /\ chan[of[c]] # << >>
  /\ holds' = [holds EXCEPT ![c] = Head(chan[of[c]])]
  /\ chan' = [chan EXCEPT ![of[c]] = Tail(@)]
  /\ UNCHANGED << lookup, blocked, errors, handled, service >>

\* The handler succeeds.
Handle(c) ==
  /\ holds[c] # NoMessage /\ c \notin blocked
  /\ handled' = handled \cup {holds[c]}
  /\ holds' = [holds EXCEPT ![c] = NoMessage]
  /\ UNCHANGED << lookup, chan, blocked, errors, service >>

\* The handler fails: out <- iMessage comes next.
Fail(c) ==
  /\ holds[c] # NoMessage /\ c \notin blocked
  /\ errors[holds[c]] < MaxErrors
  /\ errors' = [errors EXCEPT ![holds[c]] = @ + 1]
  /\ blocked' = blocked \cup {c}
  /\ UNCHANGED << lookup, chan, holds, handled, service >>

\* A bug to detect: a consumer that cannot put a message back drops it.
PutBackOrDrop(c) ==
  /\ c \in blocked
  /\ chan' = IF HasRoom(of[c])
               THEN [chan EXCEPT ![of[c]] = Append(@, holds[c])] ELSE chan
  /\ holds' = [holds EXCEPT ![c] = NoMessage]
  /\ blocked' = blocked \ {c}
  /\ UNCHANGED << lookup, errors, handled, service >>

\* A bug to detect: the consumer goes on with a message it has put back.
PutBackAndRetry(c) ==
  /\ c \in blocked
  /\ HasRoom(of[c])
  /\ chan' = [chan EXCEPT ![of[c]] = Append(@, holds[c])]
  /\ blocked' = blocked \ {c}
  /\ UNCHANGED << lookup, holds, errors, handled, service >>

\* The send to the consumer's own channel waits for room like any other.
PutBack(c) ==
  /\ c \in blocked
  /\ HasRoom(of[c])
  /\ chan' = [chan EXCEPT ![of[c]] = Append(@, holds[c])]
  /\ holds' = [holds EXCEPT ![c] = NoMessage]
  /\ blocked' = blocked \ {c}
  /\ UNCHANGED << lookup, errors, handled, service >>

PutBackTo(c, d) ==
  /\ poolNum = 0
  /\ c \in blocked
  /\ Idle(d) /\ of[d] = of[c]
  /\ holds' = [holds EXCEPT ![c] = NoMessage, ![d] = holds[c]]
  /\ blocked' = blocked \ {c}
  /\ UNCHANGED << lookup, chan, errors, handled, service >>

-----------------------------------------------------------------------------
(* Run and Shutdown: a WaitGroup, which stops no consumer *)

Run == runner = "new" /\ runner' = "waiting" /\ wait' = wait + 1

\* Done before Run's Add would panic: the guard leaves that out.
Shutdown == wait > 0 /\ wait' = wait - 1 /\ runner' = runner

RunReturns == runner = "waiting" /\ wait = 0 /\ runner' = "returned" /\ wait' = wait

Service ==
  /\ Run \/ Shutdown \/ RunReturns
  /\ UNCHANGED << lookup, chan, holds, blocked, errors, handled, poolNum >>

-----------------------------------------------------------------------------
Publish(m) == Load(m) \/ Store(m) \/ Send(m) \/ \E c \in Consumers : SendTo(m, c)

Consumer(c) ==
  \/ Load(c) \/ Store(c) \/ Receive(c) \/ Handle(c) \/ Fail(c) \/ PutBack(c)
  \/ \E d \in Consumers : PutBackTo(c, d)

Next == \/ \E m \in Messages : Publish(m)
        \/ \E c \in Consumers : Consumer(c)
        \/ Service

Spec == Init /\ [][Next]_vars

-----------------------------------------------------------------------------
(* The properties *)

QueueTypeOK ==
  /\ made \in Nat
  /\ queue \in [Keys -> 0..made]
  /\ chan \in Seq(Seq(Messages)) /\ Len(chan) = made
  /\ \A q \in 1..made : Len(chan[q]) <= poolNum
  /\ caller \in [Callers -> {"new", "missing", "ready", "sent"}]
  /\ of \in [Callers -> 0..made]
  /\ holds \in [Consumers -> Messages \cup {NoMessage}]
  /\ blocked \subseteq Consumers
  /\ errors \in [Messages -> 0..MaxErrors]
  /\ handled \subseteq Messages
  /\ poolNum \in PoolNums /\ wait \in 0..1 /\ runner \in {"new", "waiting", "returned"}

\* What the promise sees of a message: its consumer has it also while the
\* consumer waits to put it back.
workOf ==
  [m \in Messages |->
     IF \E c \in Consumers : holds[c] = m
       THEN CHOOSE c \in Consumers : holds[c] = m
       ELSE IF m \in handled THEN "handled"
       ELSE IF caller[m] = "sent" THEN "waiting" ELSE "unsent"]

Promise == INSTANCE WorkQueue WITH work <- workOf

\* Whoever looks a key up when, and whatever fails: the queue keeps the
\* promise of WorkQueue.  No message is handled after it succeeded or by two
\* consumers at once, or gets to a consumer of another key.
ImplementsWorkQueue == Promise!Spec

\* The consumer reads the channel, or will once it looks its key up.
Serves(c, q) ==
  \/ caller[c] = "ready" /\ of[c] = q
  \/ caller[c] = "new" /\ queue[KeyOf[c]] = q

\* Its key has got another channel before a consumer came.
Orphaned(q) == \A c \in Consumers : ~Serves(c, q)

\* It is full and all that read it wait for room in it.
Stuck(q) ==
  /\ q # NoQueue /\ ~HasRoom(q)
  /\ \A c \in Consumers : Serves(c, q) => c \in blocked

\* A published message is handled in the end, unless its channel was lost to a
\* call that stored another, or all its consumers wait for each other to take a
\* message: both hazards of this queue, and nothing else keeps a message.
PublishedIsHandled ==
  \A m \in Messages :
    caller[m] = "ready" ~> (m \in handled \/ Orphaned(of[m]) \/ Stuck(of[m]))
=============================================================================
