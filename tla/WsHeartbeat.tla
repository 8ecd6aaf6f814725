----------------------------- MODULE WsHeartbeat -----------------------------
(***************************************************************************)
(* The heartbeat of one websocket connection in pkg/ws, with the clock     *)
(* that WsSession leaves out: the messages of the client on their way      *)
(* through readLoop and inChan to the router, which runs the handlers of   *)
(* the application and, for a ping, KeepAlive; and IsAlive and             *)
(* heartbeatChecker on another goroutine.  KeepAlive and IsAlive read the  *)
(* clock before they take conn.mutex, so what they store or compare may be *)
(* old by the time they do; and KeepAlive reads it when the router comes   *)
(* to the ping, which may be long after the client sent it.                *)
(*                                                                         *)
(* Time is a number of ticks.  A goroutine that can run does so within     *)
(* MaxLag ticks.  The code sets no limit to the time a handler takes:      *)
(* MaxHandle is a parameter of the application.                            *)
(***************************************************************************)
EXTENDS Integers, Sequences

CONSTANTS Interval,   \* Config.HeartbeatInterval
          MaxLag,     \* scheduling delay of a goroutine
          MaxHandle,  \* the longest time a message other than a ping takes
          Backlog,    \* bound: messages of the client that wait at a time
          ClientGap,  \* longest time between two pings of a prompt client
          MaxTime     \* bound: when the clock stops

ASSUME IntervalAssumption == Interval \in Nat
ASSUME LagAssumption == MaxLag \in Nat /\ MaxHandle \in Nat
ASSUME ClientAssumption == Backlog \in Nat /\ ClientGap \in Nat
ASSUME TimeAssumption == MaxTime \in Nat

VARIABLES
  now,        \* the clock
  pending,    \* what the router has not taken of what the client sent: in
              \* inChan, in the hands of readLoop or in the socket, in order
  lastPing,   \* when the client last sent a ping
  prompt,     \* history: its pings have been at most ClientGap apart
  last,       \* Connection.lastHeartbeatTime
  router,     \* router: "start", "idle", "ping" (has taken one), "store"
              \* (clock read, lock awaited), "handle", "done"
  message,    \* the ping the router is at work on, if it is one
  checker,    \* heartbeatChecker: "none", "wait", "check", "close", "done"
  timer,      \* when the checker's timer fires
  due,        \* for router and checker: when the next step is overdue
  sampled,    \* for router and checker: the time.Now() it read
  isClosed,   \* Connection.isClosed
  dropped     \* the heartbeat checker has closed the connection

client == << lastPing, prompt >>
others == << checker, timer, isClosed, dropped >>
vars == << now, pending, client, last, router, message, due, sampled, others >>

Times == 0 .. MaxTime
Never == MaxTime + 1

\* A message: a ping is told by the time it was sent.
Other == -1
Messages == Times \cup {Other}

Init ==
  /\ now = 0
  /\ pending = << >> /\ message = Other
  /\ lastPing = 0 /\ prompt = TRUE /\ last = 0
  /\ router = "start" /\ checker = "none"
  /\ timer = Never
  /\ due = [router |-> MaxLag, checker |-> Never]
  /\ sampled = [router |-> 0, checker |-> 0]
  /\ isClosed = FALSE /\ dropped = FALSE

RouterDue(time) == due' = [due EXCEPT !.router = time]
CheckerDue(time) == due' = [due EXCEPT !.checker = time]

\* The clock moves unless a goroutine would be late; it stops with the
\* connection, after which no step depends on it.
Tick ==
  /\ now < MaxTime /\ ~isClosed
  /\ now < due.router /\ now < due.checker
  /\ now' = now + 1
  /\ prompt' = (prompt /\ now' - lastPing <= ClientGap)
  /\ UNCHANGED << pending, lastPing, last, router, message, due, sampled,
                  others >>

-----------------------------------------------------------------------------
(* The client, readLoop and the router's goroutine *)

\* The longest a message waits at the head of pending for an idle router: a
\* delay of readLoop and one of the router.
Pickup == 2 * MaxLag

\* The client sends m.  Whether inChan is full or not decides where m waits,
\* and not when its turn comes.
Send(m) ==
  /\ ~isClosed
  /\ Len(pending) < Backlog
  /\ pending' = Append(pending, m)
  /\ IF router = "idle" /\ pending = << >>
     THEN RouterDue(now + Pickup)
     ELSE UNCHANGED due

ClientPing ==
  /\ Send(now)
  /\ lastPing' = now
  /\ UNCHANGED << now, prompt, last, router, message, sampled, others >>

ClientSends ==
  /\ Send(Other)
  /\ UNCHANGED << now, client, last, router, message, sampled, others >>

\* The router is back at ReadMessage.
Resume ==
  /\ router' = "idle"
  /\ RouterDue(IF pending = << >> THEN Never ELSE now + Pickup)

\* RouterHandle starts heartbeatChecker, which arms its timer.
StartChecker ==
  /\ router = "start"
  /\ router' = "idle" /\ checker' = "wait"
  /\ timer' = now + Interval
  /\ due' = [router |-> IF pending = << >> THEN Never ELSE now + Pickup,
             checker |-> now + Interval + MaxLag]
  /\ UNCHANGED << now, pending, client, last, message, sampled, isClosed,
                  dropped >>

\* ReadMessage returns the next message.
RouterTakes ==
  /\ router = "idle" /\ pending # << >>
  /\ message' = Head(pending) /\ pending' = Tail(pending)
  /\ IF Head(pending) = Other
     THEN router' = "handle" /\ RouterDue(now + MaxHandle)
     ELSE router' = "ping" /\ RouterDue(now + MaxLag)
  /\ UNCHANGED << now, client, last, sampled, others >>

\* handlePing: KeepAlive reads the clock.
Ping ==
  /\ router = "ping"
  /\ router' = "store"
  /\ sampled' = [sampled EXCEPT !.router = now]
  /\ RouterDue(now + MaxLag)
  /\ UNCHANGED << now, pending, client, last, message, others >>

\* KeepAlive's locked section
KeepAlive ==
  /\ router = "store"
  /\ last' = sampled.router
  /\ message' = Other
  /\ Resume
  /\ UNCHANGED << now, pending, client, sampled, others >>

\* The handler of the application returns; a binary message is passed over.
Handled ==
  /\ router = "handle"
  /\ Resume
  /\ UNCHANGED << now, pending, client, last, message, sampled, others >>

\* ReadMessage finds closeChan closed.
RouterStops ==
  /\ router = "idle" /\ isClosed
  /\ router' = "done"
  /\ RouterDue(Never)
  /\ UNCHANGED << now, pending, client, last, message, sampled, others >>

-----------------------------------------------------------------------------
(* heartbeatChecker *)

\* The timer fires, IsAlive reads the clock.
TimerFires ==
  /\ checker = "wait" /\ now >= timer
  /\ sampled' = [sampled EXCEPT !.checker = now]
  /\ checker' = "check"
  /\ CheckerDue(now + MaxLag)
  /\ UNCHANGED << now, pending, client, last, router, message, timer,
                  isClosed, dropped >>

\* A bug to detect: the last ping must be younger than the interval.
IsAliveStrict == ~isClosed /\ sampled.checker - last < Interval

\* A bug to detect: a silent connection is given a second chance each time.
IsAliveDouble == ~isClosed /\ sampled.checker - last <= 2 * Interval

IsAlive == ~isClosed /\ sampled.checker - last <= Interval

Check ==
  /\ checker = "check"
  /\ IF IsAlive
     THEN /\ checker' = "wait"
          /\ timer' = now + Interval
          /\ CheckerDue(now + Interval + MaxLag)
     ELSE /\ checker' = "close"
          /\ timer' = Never
          /\ CheckerDue(now + MaxLag)
  /\ UNCHANGED << now, pending, client, last, router, message, sampled,
                  isClosed, dropped >>

CheckerCloses ==
  /\ checker = "close"
  /\ isClosed' = TRUE
  /\ dropped' = (dropped \/ ~isClosed)
  /\ checker' = "done"
  /\ CheckerDue(Never)
  /\ UNCHANGED << now, pending, client, last, router, message, timer, sampled >>

CheckerStops ==
  /\ checker = "wait" /\ isClosed
  /\ checker' = "done"
  /\ timer' = Never
  /\ CheckerDue(Never)
  /\ UNCHANGED << now, pending, client, last, router, message, sampled,
                  isClosed, dropped >>

\* Another goroutine closes the connection (see WsSession), or the router
\* does so for a message it cannot decode.
OtherCloses ==
  /\ ~isClosed
  /\ isClosed' = TRUE
  /\ UNCHANGED << now, pending, client, last, router, message, checker, timer,
                  due, sampled, dropped >>

\* The bounded clock has run out, or stopped with the connection.
TimeUp == (now = MaxTime \/ isClosed) /\ UNCHANGED vars

Next == \/ Tick \/ ClientPing \/ ClientSends
        \/ StartChecker \/ RouterTakes \/ Ping \/ KeepAlive \/ Handled
        \/ RouterStops
        \/ TimerFires \/ Check \/ CheckerCloses \/ CheckerStops
        \/ OtherCloses \/ TimeUp

Spec == Init /\ [][Next]_vars

-----------------------------------------------------------------------------
(* Properties *)

\* The type invariant.
TypeOK ==
  /\ now \in Times /\ lastPing \in Times /\ last \in Times
  /\ pending \in Seq(Messages) /\ message \in Messages
  /\ router \in {"start", "idle", "ping", "store", "handle", "done"}
  /\ checker \in {"none", "wait", "check", "close", "done"}
  /\ timer \in Nat
  /\ due \in [router : Nat, checker : Nat]
  /\ sampled \in [router : Times, checker : Times]
  /\ prompt \in BOOLEAN /\ isClosed \in BOOLEAN /\ dropped \in BOOLEAN

\* The longest time from the router's taking a message to its taking the
\* next, if that one waits.
Service == (IF MaxHandle < 2 * MaxLag THEN 2 * MaxLag ELSE MaxHandle) + Pickup

\* The longest time from the sending of a ping to KeepAlive's reading of the
\* clock: it queues behind Backlog messages, the one in hand among them.
Wait == Backlog * Service + MaxLag

\* A connection that stays silent is closed within two intervals of its last
\* stored heartbeat, and the scheduling delays of the steps on the way; that
\* is, within two intervals of the client's last ping, these delays and the
\* time the ping waits for the router, whose handlers the code does not bound.
SilentIsClosed ==
  ~isClosed => /\ now - last <= 2 * Interval + 4 * MaxLag
               /\ now - lastPing <= 2 * Interval + 4 * MaxLag + Wait

\* The pong tells the client that the session lives for another Interval: a
\* client whose pings are that close, less the time they wait for the router
\* and a lag, is never dropped.
PromptIsKept ==
  prompt /\ ClientGap + Wait + MaxLag <= Interval => ~dropped
=============================================================================
