------------------------- MODULE WsHeartbeat_proofs -------------------------
(***************************************************************************)
(* Theorems about WsHeartbeat, for every interval, lag, handling time,     *)
(* backlog and client.                                                     *)
(***************************************************************************)
EXTENDS WsHeartbeat, WellFoundedInduction, TLAPS

-----------------------------------------------------------------------------
(* Constants *)

LEMMA NumberFacts ==
  /\ Interval \in Nat /\ MaxLag \in Nat /\ MaxHandle \in Nat
  /\ Backlog \in Nat /\ ClientGap \in Nat /\ MaxTime \in Nat /\ Never \in Nat
  /\ 0 \in Times /\ (\A t \in Times : t \in Nat /\ t \in Messages)
  /\ Other \in Messages /\ Other \notin Times
BY IntervalAssumption, LagAssumption, ClientAssumption, TimeAssumption
DEF Times, Never, Messages, Other

\* What a message costs those that wait behind it.
LEMMA ServiceFacts ==
  /\ Service \in Nat /\ Pickup \in Nat
  /\ MaxLag + MaxLag + Pickup <= Service
  /\ MaxHandle + Pickup <= Service
BY LagAssumption DEF Service, Pickup

\* The time n messages take.
Cost(n) == n * Service

LEMMA CostStep ==
  ASSUME NEW n \in Nat
  PROVE  /\ Cost(n) \in Nat /\ Cost(0) = 0
         /\ Cost(n + 1) = Cost(n) + Service
BY ServiceFacts DEF Cost

LEMMA CostGrows ==
  ASSUME NEW m \in Nat, NEW n \in Nat, m <= n
  PROVE  Cost(m) <= Cost(n)
<1>1. PICK k \in Nat : n = m + k
  <2>1. n - m \in Nat /\ n = m + (n - m)
    OBVIOUS
  <2> QED
    BY <2>1
<1>2. k * Service \in Nat /\ m * Service \in Nat
  BY ServiceFacts
<1>3. (m + k) * Service = m * Service + k * Service
  BY ServiceFacts
<1> QED
  BY <1>1, <1>2, <1>3 DEF Cost

LEMMA WaitIsCost == Wait = Cost(Backlog) + MaxLag /\ Wait \in Nat
<1>1. Wait = Cost(Backlog) + MaxLag
  BY DEF Wait, Cost
<1> QED
  BY <1>1, CostStep, NumberFacts

\* Two intervals and the delays of one, two and four steps.
Span1 == 2 * Interval + MaxLag
Span2 == 2 * Interval + 2 * MaxLag
Span4 == 2 * Interval + 4 * MaxLag

LEMMA SpanNumbers ==
  /\ Span1 \in Nat /\ Span2 \in Nat /\ Span4 \in Nat
  /\ Span1 = Interval + Interval + MaxLag
  /\ Span2 = Span1 + MaxLag
  /\ Span4 = Span2 + MaxLag + MaxLag
BY NumberFacts DEF Span1, Span2, Span4

\* Arithmetic, on constants.
LEMMA Difference ==
  ASSUME NEW a \in Nat, NEW b \in Nat, NEW c \in Nat, a - b <= c
  PROVE  a <= b + c
OBVIOUS

LEMMA LeTrans ==
  ASSUME NEW a \in Nat, NEW b \in Nat, NEW c \in Nat, a <= b, b <= c
  PROVE  a <= c
OBVIOUS

LEMMA SoonerStill ==
  ASSUME NEW x \in Nat, NEW y \in Nat, NEW k \in Nat, NEW b \in Nat,
         NEW c \in Nat, x + k <= b + c, y <= x
  PROVE  y <= b + c /\ y + k <= b + c
OBVIOUS

LEMMA OneBehind ==
  ASSUME NEW x \in Nat, NEW s \in Nat, NEW c \in Nat, NEW d \in Nat,
         NEW e \in Nat, NEW t \in Nat, x <= t + s, c <= d, e = d + s
  PROVE  x + c <= t + e
OBVIOUS

LEMMA OneTaken ==
  ASSUME NEW x \in Nat, NEW y \in Nat, NEW s \in Nat, NEW c \in Nat,
         NEW d \in Nat, NEW b \in Nat, NEW e \in Nat,
         y <= x + s, x + d <= b + e, d = c + s
  PROVE  y + c <= b + e
OBVIOUS

LEMMA AddLag ==
  ASSUME NEW t \in Nat, NEW p \in Nat, NEW c \in Nat, NEW w \in Nat,
         t <= p + c, w = c + MaxLag
  PROVE  t + MaxLag <= p + w
BY NumberFacts

LEMMA FreshEnough ==
  ASSUME NEW t \in Nat, NEW p \in Nat, NEW c \in Nat, NEW w \in Nat,
         NEW l \in Nat, t <= p + c, p <= l + ClientGap, w = c + MaxLag,
         ClientGap + w + MaxLag <= Interval
  PROVE  t <= l + Interval
BY NumberFacts

LEMMA Shift ==
  ASSUME NEW a \in Nat, NEW b \in Nat, a <= b
  PROVE  /\ a + Span1 \in Nat /\ b + Span1 \in Nat /\ a + Span1 <= b + Span1
         /\ a + Span2 \in Nat /\ b + Span2 \in Nat /\ a + Span2 <= b + Span2
         /\ a + Span4 \in Nat /\ b + Span4 \in Nat /\ a + Span4 <= b + Span4
<1>1. Span1 \in Nat /\ Span2 \in Nat /\ Span4 \in Nat
  BY SpanNumbers
<1> QED
  BY <1>1

\* The numbers among the constants, without quantifiers.
LEMMA ConstantNumbers ==
  /\ Interval \in Nat /\ MaxLag \in Nat /\ MaxHandle \in Nat
  /\ Backlog \in Nat /\ ClientGap \in Nat /\ Never \in Nat
  /\ Service \in Nat /\ Pickup \in Nat /\ Wait \in Nat
  /\ MaxLag + MaxLag + Pickup <= Service
  /\ MaxHandle + Pickup <= Service
BY NumberFacts, ServiceFacts, WaitIsCost

-----------------------------------------------------------------------------
(* Types *)

LEMMA TypeInit == Init => TypeOK
<1> SUFFICES ASSUME Init PROVE TypeOK
  OBVIOUS
<1>1. isClosed \in BOOLEAN /\ dropped \in BOOLEAN /\ prompt \in BOOLEAN
  BY DEF Init
<1>2. pending \in Seq(Messages)
  BY DEF Init
<1> QED
  BY <1>1, <1>2, NumberFacts DEF Init, TypeOK

\* What the times of due become.
LEMMA DueFacts ==
  ASSUME TypeOK, NEW t \in Nat
  PROVE  /\ RouterDue(t) => /\ due' \in [router : Nat, checker : Nat]
                            /\ due'.router = t /\ due'.checker = due.checker
         /\ CheckerDue(t) => /\ due' \in [router : Nat, checker : Nat]
                             /\ due'.checker = t /\ due'.router = due.router
BY DEF TypeOK, RouterDue, CheckerDue

LEMMA TimeFacts ==
  ASSUME TypeOK
  PROVE  /\ now \in Nat /\ now \in Messages
         /\ now + MaxLag \in Nat /\ now + Interval \in Nat
         /\ now + Interval + MaxLag \in Nat
         /\ now + MaxHandle \in Nat /\ now + Pickup \in Nat
         /\ Never \in Nat
         /\ (IF pending = << >> THEN Never ELSE now + Pickup) \in Nat
<1>1. now \in Nat /\ now \in Messages
  BY NumberFacts DEF TypeOK
<1>2. now + MaxLag \in Nat /\ now + Interval \in Nat
  BY <1>1, NumberFacts
<1>3. now + Interval + MaxLag \in Nat
  BY <1>1, NumberFacts
<1>4. now + MaxHandle \in Nat /\ now + Pickup \in Nat
  BY <1>1, NumberFacts, ServiceFacts
<1> QED
  BY <1>1, <1>2, <1>3, <1>4, NumberFacts

\* What sending does to the queue.
LEMMA SendAppends ==
  ASSUME TypeOK, NEW m \in Messages, Send(m)
  PROVE  /\ pending' \in Seq(Messages)
         /\ Len(pending') = Len(pending) + 1
         /\ Len(pending) < Backlog
         /\ pending'[Len(pending) + 1] = m
         /\ \A p \in 1 .. Len(pending) : pending'[p] = pending[p]
         /\ pending' # << >>
         /\ due' \in [router : Nat, checker : Nat]
         /\ due'.checker = due.checker
<1>1. pending' = Append(pending, m) /\ Len(pending) < Backlog
  BY DEF Send
<1>2. pending \in Seq(Messages)
  BY DEF TypeOK
<1>3. due' \in [router : Nat, checker : Nat] /\ due'.checker = due.checker
  BY TimeFacts, DueFacts DEF Send, TypeOK
<1> QED
  BY <1>1, <1>2, <1>3

\* What taking a message does to it.
LEMMA TakeRemoves ==
  ASSUME TypeOK, RouterTakes
  PROVE  /\ pending' \in Seq(Messages)
         /\ Len(pending) = Len(pending') + 1
         /\ message' = pending[1] /\ message' \in Messages
         /\ \A p \in 1 .. Len(pending') : pending'[p] = pending[p + 1]
         /\ due' \in [router : Nat, checker : Nat]
         /\ due'.checker = due.checker
<1>1. pending \in Seq(Messages) /\ pending # << >>
  BY DEF TypeOK, RouterTakes
<1>2. message' = Head(pending) /\ pending' = Tail(pending)
  BY DEF RouterTakes
<1>3. due' \in [router : Nat, checker : Nat] /\ due'.checker = due.checker
  BY TimeFacts, DueFacts DEF RouterTakes
<1> QED
  BY <1>1, <1>2, <1>3

LEMMA TypeStep == TypeOK /\ [Next]_vars => TypeOK'
<1> SUFFICES ASSUME TypeOK, [Next]_vars PROVE TypeOK'
  OBVIOUS
<1> USE NumberFacts, TimeFacts, DueFacts DEF TypeOK, Resume, client, others
<1>1. CASE Tick
  <2>1. now' \in Times
    BY <1>1 DEF Tick, Times
  <2>2. prompt' \in BOOLEAN
    BY <1>1 DEF Tick
  <2> QED
    BY <1>1, <2>1, <2>2 DEF Tick
<1>2. CASE ClientPing
  <2>1. now \in Messages /\ Send(now)
    BY <1>2 DEF ClientPing
  <2> QED
    BY <1>2, <2>1, SendAppends DEF ClientPing
<1>3. CASE ClientSends
  <2>1. Send(Other)
    BY <1>3 DEF ClientSends
  <2> QED
    BY <1>3, <2>1, SendAppends DEF ClientSends
<1>4. CASE StartChecker
  BY <1>4 DEF StartChecker
<1>5. CASE RouterTakes
  BY <1>5, TakeRemoves DEF RouterTakes
<1>6. CASE Ping
  BY <1>6 DEF Ping
<1>7. CASE KeepAlive
  BY <1>7 DEF KeepAlive
<1>8. CASE Handled
  BY <1>8 DEF Handled
<1>9. CASE RouterStops
  BY <1>9 DEF RouterStops
<1>10. CASE TimerFires
  BY <1>10 DEF TimerFires
<1>11. CASE Check
  BY <1>11 DEF Check
<1>12. CASE CheckerCloses
  BY <1>12 DEF CheckerCloses
<1>13. CASE CheckerStops
  BY <1>13 DEF CheckerStops
<1>14. CASE OtherCloses
  BY <1>14 DEF OtherCloses
<1>15. CASE UNCHANGED vars
  BY <1>15 DEF vars
<1> QED
  BY <1>1, <1>2, <1>3, <1>4, <1>5, <1>6, <1>7, <1>8, <1>9, <1>10, <1>11,
     <1>12, <1>13, <1>14, <1>15 DEF Next, TimeUp

\* Every variable keeps its type.
THEOREM TypeCorrect == Spec => []TypeOK
BY TypeInit, TypeStep, PTL DEF Spec

-----------------------------------------------------------------------------
(* How long a ping can wait, and how old the last stored heartbeat can be *)

\* By when the router takes the next message, if there is one.
NextBy ==
  IF router = "idle"
  THEN IF pending = << >> THEN now + Pickup ELSE due.router
  ELSE IF router = "ping" THEN due.router + MaxLag + Pickup
                          ELSE due.router + Pickup

\* The router is never late for the next message, nor a ping for KeepAlive.
QueueInv ==
  ~isClosed =>
    /\ router # "done"
    /\ Len(pending) <= Backlog
    /\ lastPing <= now /\ last <= now /\ last <= lastPing + Wait
    /\ router # "idle" \/ pending # << >> => now <= due.router
    /\ NextBy <= now + Service
    /\ router = "start" => last = 0 /\ due.router = MaxLag
    /\ router = "ping" => /\ message \in Times /\ message <= lastPing
                          /\ due.router <= message + Wait
    /\ router = "store" => /\ message \in Times /\ message <= lastPing
                           /\ message <= sampled.router
                           /\ last <= sampled.router
                           /\ sampled.router <= now
                           /\ sampled.router <= message + Wait
                           /\ due.router <= message + Wait + MaxLag

\* The p-th message waits for the next taking and the p - 1 after it.
PingsInv ==
  ~isClosed => \A p \in 1 .. Len(pending) : pending[p] # Other =>
    /\ pending[p] <= lastPing
    /\ NextBy + Cost(p - 1) <= pending[p] + Cost(Backlog)

\* Until the connection is closed, the checker is never late either: each of
\* its steps follows the last stored heartbeat within a known time.
CheckerInv ==
  ~isClosed =>
    /\ (router = "start") = (checker = "none")
    /\ checker # "done"
    /\ checker = "wait" => /\ timer <= last + Span1
                           /\ due.checker = timer + MaxLag
                           /\ now <= due.checker
    /\ checker = "check" => /\ sampled.checker <= last + Span2
                            /\ due.checker = sampled.checker + MaxLag
                            /\ sampled.checker <= now
                            /\ now <= due.checker
    /\ checker = "close" => /\ due.checker <= last + Span4
                            /\ now <= due.checker

SilentInv == TypeOK /\ QueueInv /\ PingsInv /\ CheckerInv

\* What is known of the numbers of a state, for the arithmetic below.
Numbers ==
  /\ now \in Nat /\ lastPing \in Nat /\ last \in Nat /\ timer \in Nat
  /\ due.router \in Nat /\ due.checker \in Nat
  /\ sampled.router \in Nat /\ sampled.checker \in Nat
  /\ Len(pending) \in Nat /\ NextBy \in Nat
  /\ (pending = << >>) = (Len(pending) = 0)
  /\ message \in Times => message \in Nat

LEMMA StateNumbers == TypeOK => Numbers
<1> SUFFICES ASSUME TypeOK PROVE Numbers
  OBVIOUS
<1>1. /\ now \in Nat /\ lastPing \in Nat /\ last \in Nat /\ timer \in Nat
      /\ due.router \in Nat /\ due.checker \in Nat
      /\ sampled.router \in Nat /\ sampled.checker \in Nat
      /\ Len(pending) \in Nat /\ (pending = << >>) = (Len(pending) = 0)
  BY NumberFacts DEF TypeOK
<1>2. message \in Times => message \in Nat
  BY NumberFacts
<1>3. NextBy \in Nat
  <2>1. /\ now + Pickup \in Nat /\ due.router + Pickup \in Nat
        /\ due.router + MaxLag + Pickup \in Nat
    BY <1>1, ConstantNumbers
  <2> QED
    BY <1>1, <2>1 DEF NextBy
<1> QED
  BY <1>1, <1>2, <1>3 DEF Numbers

LEMMA NextNumbers ==
  ASSUME TypeOK, TypeOK'
  PROVE  Numbers /\ Numbers'
BY StateNumbers, PTL

LEMMA MessageNumbers ==
  ASSUME TypeOK, NEW p \in 1 .. Len(pending), pending[p] # Other
  PROVE  pending[p] \in Times /\ pending[p] \in Nat
<1>1. pending[p] \in Messages
  BY DEF TypeOK
<1> QED
  BY <1>1, NumberFacts DEF Messages

LEMMA PingsKept ==
  ASSUME TypeOK, TypeOK', PingsInv, isClosed' \in {isClosed, TRUE},
         pending' = pending, lastPing' = lastPing,
         pending # << >> => NextBy' <= NextBy
  PROVE  PingsInv'
<1>0. Numbers /\ Numbers'
  BY NextNumbers
<1> USE <1>0 DEF Numbers
<1> SUFFICES ASSUME ~isClosed', NEW p \in 1 .. Len(pending'),
                    pending'[p] # Other
             PROVE  /\ pending'[p] <= lastPing'
                    /\ NextBy' + Cost(p - 1) <= pending'[p] + Cost(Backlog)
  BY DEF PingsInv
<1>1. /\ pending[p] <= lastPing
      /\ NextBy + Cost(p - 1) <= pending[p] + Cost(Backlog)
  BY DEF PingsInv
<1>2. pending # << >>
  OBVIOUS
<1>3. Cost(p - 1) \in Nat /\ Cost(Backlog) \in Nat
  <2>1. p - 1 \in Nat /\ Backlog \in Nat
    BY ConstantNumbers
  <2> QED
    BY <2>1, CostStep
<1>4. NextBy \in Nat /\ NextBy' \in Nat /\ pending[p] \in Nat
  BY <1>2, MessageNumbers
<1>5. NextBy' <= NextBy
  BY <1>2
<1>6. NextBy' + Cost(p - 1) <= pending[p] + Cost(Backlog)
  BY ONLY <1>1, <1>3, <1>4, <1>5, SoonerStill
<1> QED
  BY <1>1, <1>6

LEMMA TickKeeps ==
  ASSUME SilentInv, Tick, TypeOK'
  PROVE  QueueInv' /\ PingsInv' /\ CheckerInv'
<1>0. Numbers /\ Numbers'
  BY NextNumbers DEF SilentInv
<1> USE <1>0, ConstantNumbers
    DEF Numbers, Tick, SilentInv, client, others
<1>1. now' = now + 1 /\ now < due.router /\ now < due.checker
  OBVIOUS
<1>2. NextBy' <= now' + Service /\ (pending # << >> => NextBy' <= NextBy)
  <2>1. CASE router = "idle" /\ pending = << >>
    <3>1. NextBy' = now + 1 + Pickup
      BY <1>1, <2>1 DEF NextBy
    <3>2. now + 1 + Pickup <= now + 1 + Service
      OBVIOUS
    <3> QED
      BY <1>1, <2>1, <3>1, <3>2
  <2>2. CASE ~(router = "idle" /\ pending = << >>)
    <3>1. NextBy' = NextBy /\ NextBy <= now + Service
      BY <2>2 DEF NextBy, QueueInv
    <3>2. /\ NextBy \in Nat /\ now + Service \in Nat
          /\ now + 1 + Service \in Nat /\ now + Service <= now + 1 + Service
      BY <3>1
    <3>3. NextBy <= now + 1 + Service
      BY ONLY <3>1, <3>2, LeTrans
    <3> QED
      BY <1>1, <3>1, <3>2, <3>3
  <2> QED
    BY <2>1, <2>2
<1>3. QueueInv'
  BY <1>1, <1>2 DEF QueueInv
<1>4. PingsInv'
  BY <1>2, PingsKept
<1>5. CheckerInv'
  BY <1>1 DEF CheckerInv
<1> QED
  BY <1>3, <1>4, <1>5

\* The new message is the last of at most Backlog.
LEMMA SendKeeps ==
  ASSUME SilentInv, NEW m \in Messages, Send(m), m \in {now, Other}, TypeOK',
         lastPing' = (IF m = Other THEN lastPing ELSE now),
         UNCHANGED << now, last, router, message, sampled, others >>
  PROVE  QueueInv' /\ PingsInv' /\ CheckerInv'
<1>0. Numbers /\ Numbers'
  BY NextNumbers DEF SilentInv
<1> USE <1>0, ConstantNumbers DEF SilentInv, Numbers
<1>1. /\ ~isClosed /\ ~isClosed' /\ Len(pending) < Backlog
      /\ Len(pending') = Len(pending) + 1
      /\ due'.checker = due.checker /\ pending' # << >>
  BY SendAppends DEF Send, others
<1>2. IF router = "idle" /\ pending = << >>
      THEN due'.router = now + Pickup ELSE due'.router = due.router
  BY DueFacts, TimeFacts DEF Send
<1>3. NextBy' = NextBy
  BY <1>1, <1>2 DEF NextBy
<1>4. lastPing <= lastPing' /\ lastPing' <= now
  BY <1>1 DEF QueueInv
<1>5. QueueInv'
  <2>1. Len(pending') <= Backlog
    BY <1>1
  <2>2. due'.router \in {due.router, now + Pickup}
    BY <1>2
  <2>3. now <= due'.router
    BY <1>1, <1>2 DEF QueueInv
  <2>4. last <= lastPing' + Wait
    <3>1. last <= lastPing + Wait
      BY <1>1 DEF QueueInv
    <3> QED
      BY <1>4, <3>1
  <2>5. router # "idle" => due'.router = due.router
    BY <1>2
  <2>6. UNCHANGED << now, last, router, message, sampled >>
    OBVIOUS
  <2>7. NextBy' <= now + Service
    BY <1>1, <1>3 DEF QueueInv
  <2>8. message \in Times /\ message <= lastPing => message <= lastPing'
    BY <1>4
  <2> QED
    BY <1>1, <1>4, <2>1, <2>3, <2>4, <2>5, <2>6, <2>7, <2>8 DEF QueueInv
<1>6. ASSUME NEW p \in 1 .. Len(pending'), pending'[p] # Other
      PROVE  /\ pending'[p] <= lastPing'
             /\ NextBy' + Cost(p - 1) <= pending'[p] + Cost(Backlog)
  <2>1. CASE p \in 1 .. Len(pending)
    <3>1. pending'[p] = pending[p]
      BY <2>1, SendAppends
    <3>2. /\ pending[p] <= lastPing
          /\ NextBy + Cost(p - 1) <= pending[p] + Cost(Backlog)
      BY <1>1, <1>6, <2>1, <3>1 DEF PingsInv
    <3>3. pending[p] \in Nat
      BY <1>6, <2>1, <3>1, MessageNumbers
    <3>4. pending'[p] <= lastPing'
      BY ONLY <1>0, <1>4, <3>1, <3>2, <3>3, LeTrans DEF Numbers
    <3> QED
      BY <1>3, <3>1, <3>2, <3>4
  <2>2. CASE p \notin 1 .. Len(pending)
    <3>1. p = Len(pending) + 1
      BY <1>1, <2>2
    <3>2. pending'[p] = now /\ lastPing' = now
      BY <1>6, <3>1, SendAppends
    <3>3. Cost(p - 1) <= Cost(Backlog - 1) /\ Backlog - 1 \in Nat
      BY <1>1, <3>1, CostGrows
    <3>4. Cost(Backlog) = Cost(Backlog - 1) + Service
      <4>1. Backlog - 1 \in Nat /\ Backlog - 1 + 1 = Backlog
        BY <3>3
      <4> QED
        BY <4>1, CostStep
    <3>5. NextBy <= now + Service
      BY <1>1 DEF QueueInv
    <3>6. Cost(p - 1) \in Nat /\ Cost(Backlog - 1) \in Nat
      BY <3>1, <3>3, CostStep
    <3>7. NextBy + Cost(p - 1) <= now + Cost(Backlog)
      <4>1. NextBy \in Nat /\ now \in Nat /\ Service \in Nat
        BY <1>0, ConstantNumbers DEF Numbers
      <4>2. Cost(Backlog) \in Nat
        BY CostStep, ConstantNumbers
      <4> QED
        BY ONLY <3>3, <3>4, <3>5, <3>6, <4>1, <4>2, OneBehind
    <3> QED
      BY <1>3, <3>2, <3>7
  <2> QED
    BY <2>1, <2>2
<1>7. PingsInv'
  BY <1>6 DEF PingsInv
<1>8. CheckerInv'
  BY <1>1 DEF CheckerInv, others
<1> QED
  BY <1>5, <1>7, <1>8

\* Those behind the message taken wait for one message less, and for its
\* service.
LEMMA TakeKeeps ==
  ASSUME SilentInv, RouterTakes, TypeOK'
  PROVE  QueueInv' /\ PingsInv' /\ CheckerInv'
<1>0. Numbers /\ Numbers'
  BY NextNumbers DEF SilentInv
<1> USE <1>0, ConstantNumbers DEF SilentInv, Numbers
<1>1. CASE isClosed
  BY <1>1 DEF RouterTakes, others, QueueInv, PingsInv, CheckerInv
<1>2. CASE ~isClosed
  <2>1. /\ router = "idle" /\ pending # << >> /\ Len(pending) \in Nat \ {0}
        /\ message' = pending[1] /\ Len(pending) = Len(pending') + 1
        /\ due'.checker = due.checker
    BY TakeRemoves DEF RouterTakes, TypeOK
  <2>2. UNCHANGED << now, lastPing, last, sampled, checker, timer, isClosed >>
    BY DEF RouterTakes, client, others
  <2>3. \/ /\ pending[1] = Other /\ router' = "handle"
           /\ due'.router = now + MaxHandle
        \/ /\ pending[1] # Other /\ router' = "ping"
           /\ due'.router = now + MaxLag
    <3>1. CASE pending[1] = Other
      <4>1. router' = "handle" /\ due' = [due EXCEPT !.router = now + MaxHandle]
        BY <3>1 DEF RouterTakes, RouterDue
      <4> QED
        BY <3>1, <4>1 DEF TypeOK
    <3>2. CASE pending[1] # Other
      <4>1. router' = "ping" /\ due' = [due EXCEPT !.router = now + MaxLag]
        BY <3>2 DEF RouterTakes, RouterDue
      <4> QED
        BY <3>2, <4>1 DEF TypeOK
    <3> QED
      BY <3>1, <3>2
  <2>4. NextBy = due.router /\ now <= NextBy
    BY <1>2, <2>1 DEF NextBy, QueueInv
  <2>5. NextBy' <= now + Service /\ NextBy' <= NextBy + Service
    <3>1. now' = now
      BY <2>2
    <3>2. NextBy' <= now + Service
      <4>1. CASE router' = "handle" /\ due'.router = now + MaxHandle
        <5>1. NextBy' = now + MaxHandle + Pickup
          BY <4>1 DEF NextBy
        <5> QED
          BY <5>1
      <4>2. CASE router' = "ping" /\ due'.router = now + MaxLag
        <5>1. NextBy' = now + MaxLag + MaxLag + Pickup
          BY <4>2 DEF NextBy
        <5> QED
          BY <5>1
      <4> QED
        BY <2>3, <4>1, <4>2
    <3> QED
      BY <2>4, <3>2
  <2>7. pending[1] # Other => /\ pending[1] \in Times /\ pending[1] <= lastPing
                              /\ now + MaxLag <= pending[1] + Wait
    <3>1. ASSUME pending[1] # Other
          PROVE  /\ pending[1] \in Times /\ pending[1] <= lastPing
                 /\ now + MaxLag <= pending[1] + Wait
      <4>1. pending[1] \in Times /\ pending[1] \in Nat
        BY <2>1, <3>1, MessageNumbers
      <4>2. /\ pending[1] <= lastPing
            /\ NextBy + Cost(1 - 1) <= pending[1] + Cost(Backlog)
        BY <1>2, <2>1, <3>1 DEF PingsInv
      <4>3. Cost(1 - 1) = 0 /\ Cost(Backlog) \in Nat
        <5>1. 1 - 1 = 0
          OBVIOUS
        <5> QED
          BY <5>1, CostStep, ConstantNumbers
      <4>4. Wait = Cost(Backlog) + MaxLag
        BY WaitIsCost
      <4>7. now \in Nat /\ NextBy \in Nat /\ Wait \in Nat
        OBVIOUS
      <4>5. now <= pending[1] + Cost(Backlog)
        BY ONLY <2>4, <4>1, <4>2, <4>3, <4>7, SoonerStill
      <4>6. now + MaxLag <= pending[1] + Wait
        BY ONLY <4>1, <4>3, <4>4, <4>5, <4>7, AddLag
      <4> QED
        BY <4>1, <4>2, <4>6
    <3> QED
      BY <3>1
  <2>8. QueueInv'
    <3>1. CASE pending[1] = Other
      BY <1>2, <2>1, <2>2, <2>3, <2>5, <3>1 DEF QueueInv
    <3>2. CASE pending[1] # Other
      <4>1. /\ router' = "ping" /\ message' \in Times /\ message' <= lastPing
            /\ due'.router <= message' + Wait /\ now <= due'.router
        BY <2>1, <2>3, <2>7, <3>2
      <4> QED
        BY <1>2, <2>1, <2>2, <2>5, <4>1 DEF QueueInv
    <3> QED
      BY <3>1, <3>2
  <2>9. ASSUME NEW p \in 1 .. Len(pending'), pending'[p] # Other
        PROVE  /\ pending'[p] <= lastPing'
               /\ NextBy' + Cost(p - 1) <= pending'[p] + Cost(Backlog)
    <3>1. pending'[p] = pending[p + 1] /\ p + 1 \in 1 .. Len(pending)
      BY <2>1, TakeRemoves
    <3>2. /\ pending[p + 1] <= lastPing
          /\ NextBy + Cost(p + 1 - 1) <= pending[p + 1] + Cost(Backlog)
      BY <1>2, <2>9, <3>1 DEF PingsInv
    <3>6. pending[p + 1] \in Nat
      BY <2>9, <3>1, MessageNumbers
    <3>3. p \in Nat /\ p - 1 \in Nat /\ p - 1 + 1 = p /\ p + 1 - 1 = p
      OBVIOUS
    <3>4. Cost(p) = Cost(p - 1) + Service /\ Cost(p - 1) \in Nat
      BY <3>3, CostStep
    <3>5. NextBy' \in Nat /\ Cost(Backlog) \in Nat
      BY CostStep
    <3> QED
      <4>1. NextBy \in Nat /\ Service \in Nat /\ Cost(p) \in Nat
        <5>1. NextBy \in Nat
          BY ONLY <1>0 DEF Numbers
        <5>2. Service \in Nat
          BY ONLY ConstantNumbers
        <5>3. Cost(p) \in Nat
          BY ONLY <3>3, CostStep
        <5> QED
          BY ONLY <5>1, <5>2, <5>3
      <4>2. NextBy' + Cost(p - 1) <= pending[p + 1] + Cost(Backlog)
        <5>1. NextBy + Cost(p) <= pending[p + 1] + Cost(Backlog)
          BY ONLY <3>2, <3>3, Zenon
        <5>2. NextBy' <= NextBy + Service
          BY ONLY <2>5
        <5> QED
          BY ONLY <3>4, <3>5, <3>6, <4>1, <5>1, <5>2, OneTaken
      <4>3. lastPing' = lastPing
        BY ONLY <2>2
      <4> QED
        BY ONLY <3>1, <3>2, <4>2, <4>3, Zenon
  <2>10. PingsInv'
    BY <2>9 DEF PingsInv
  <2>11. CheckerInv'
    BY <1>2, <2>1, <2>2, <2>3 DEF CheckerInv
  <2> QED
    BY <2>8, <2>10, <2>11
<1> QED
  BY <1>1, <1>2

\* A step of the router that leaves the queue alone.
LEMMA RouterKeeps ==
  ASSUME SilentInv, StartChecker \/ Ping \/ KeepAlive \/ Handled \/ RouterStops,
         TypeOK'
  PROVE  QueueInv' /\ PingsInv' /\ CheckerInv'
<1>0. Numbers /\ Numbers'
  BY NextNumbers DEF SilentInv
<1> USE <1>0, ConstantNumbers
    DEF Numbers, SilentInv, client, others, Resume
<1>1. pending' = pending /\ lastPing' = lastPing /\ now' = now
  BY DEF StartChecker, Ping, KeepAlive, Handled, RouterStops
<1>2. isClosed' = isClosed
  BY DEF StartChecker, Ping, KeepAlive, Handled, RouterStops
<1>3. CASE isClosed
  BY <1>2, <1>3 DEF QueueInv, PingsInv, CheckerInv
<1>4. CASE ~isClosed
  <2> USE <1>1, <1>2, <1>4
  <2>1. CASE StartChecker
    <3>1. /\ due'.router = (IF pending = << >> THEN Never ELSE now + Pickup)
          /\ due'.checker = now + Interval + MaxLag
      BY <2>1, DueFacts, TimeFacts DEF StartChecker
    <3>2. NextBy' <= NextBy /\ NextBy' <= now + Service
      BY <2>1, <3>1 DEF StartChecker, NextBy, QueueInv
    <3>3. QueueInv'
      BY <2>1, <3>1, <3>2 DEF StartChecker, QueueInv
    <3>4. PingsInv'
      BY <3>2, PingsKept
    <3>5. CheckerInv'
      BY <2>1, <3>1, SpanNumbers DEF StartChecker, CheckerInv, QueueInv
    <3> QED
      BY <3>3, <3>4, <3>5
  <2>2. CASE Ping
    <3>1. due'.router = now + MaxLag /\ due'.checker = due.checker
      BY <2>2, DueFacts, TimeFacts DEF Ping
    <3>2. sampled'.router = now /\ sampled'.checker = sampled.checker
      BY <2>2 DEF Ping, TypeOK
    <3>3. NextBy' <= NextBy /\ NextBy' <= now + Service
      <4>1. NextBy' = now + MaxLag + Pickup
        BY <2>2, <3>1 DEF Ping, NextBy
      <4>2. NextBy = due.router + MaxLag + Pickup /\ now <= due.router
        BY <2>2 DEF Ping, NextBy, QueueInv
      <4>3. due.router \in Nat /\ now \in Nat /\ MaxLag + Pickup \in Nat
        OBVIOUS
      <4>4. now + MaxLag + Pickup <= now + Service
        OBVIOUS
      <4>5. now + MaxLag + Pickup <= due.router + MaxLag + Pickup
        BY <4>2, <4>3
      <4> QED
        BY <4>1, <4>2, <4>4, <4>5
    <3>4. QueueInv'
      <4>1. /\ message \in Times /\ message <= lastPing /\ lastPing <= now
            /\ now <= due.router /\ due.router <= message + Wait
            /\ last <= now /\ last <= lastPing + Wait
            /\ Len(pending) <= Backlog
        BY <2>2 DEF Ping, QueueInv
      <4>5. /\ message \in Nat /\ lastPing \in Nat /\ now \in Nat
            /\ due.router \in Nat /\ message + Wait \in Nat
        <5>1. /\ message \in Nat /\ lastPing \in Nat /\ now \in Nat
              /\ due.router \in Nat
          BY ONLY <1>0, <4>1 DEF Numbers
        <5>2. Wait \in Nat
          BY ONLY ConstantNumbers
        <5> QED
          BY ONLY <5>1, <5>2
      <4>2. message <= now /\ now <= message + Wait
        BY ONLY <4>1, <4>5, LeTrans
      <4>3. now + MaxLag <= message + Wait + MaxLag
        BY <4>1, <4>2
      <4>4. router' = "store" /\ UNCHANGED << last, message >>
        BY <2>2 DEF Ping
      <4> QED
        BY <3>1, <3>2, <3>3, <4>1, <4>2, <4>3, <4>4 DEF QueueInv
    <3>5. PingsInv'
      BY <3>3, PingsKept
    <3>6. CheckerInv'
      BY <2>2, <3>1, <3>2 DEF Ping, CheckerInv
    <3> QED
      BY <3>4, <3>5, <3>6
  <2>3. CASE KeepAlive
    <3>1. /\ due'.router = (IF pending = << >> THEN Never ELSE now + Pickup)
          /\ due'.checker = due.checker /\ last' = sampled.router
      BY <2>3, DueFacts, TimeFacts DEF KeepAlive
    <3>2. NextBy' <= NextBy /\ NextBy' <= now + Service
      <4>1. NextBy' = now + Pickup
        BY <2>3, <3>1 DEF KeepAlive, Resume, NextBy
      <4>2. NextBy = due.router + Pickup /\ now <= due.router
        BY <2>3 DEF KeepAlive, NextBy, QueueInv
      <4>3. due.router \in Nat /\ now \in Nat
        OBVIOUS
      <4>4. now + Pickup <= due.router + Pickup
        BY <4>2, <4>3
      <4>5. now + Pickup <= now + Service
        OBVIOUS
      <4> QED
        BY <4>1, <4>2, <4>4, <4>5
    <3>3. QueueInv'
      BY <2>3, <3>1, <3>2 DEF KeepAlive, QueueInv
    <3>4. PingsInv'
      BY <3>2, PingsKept
    <3>5. last <= last'
      BY <2>3, <3>1 DEF KeepAlive, QueueInv
    <3>6. CheckerInv'
      <4>1. UNCHANGED << checker, timer >> /\ sampled' = sampled
        BY <2>3 DEF KeepAlive
      <4>2. router # "start" /\ router' # "start" /\ checker # "none"
        BY <2>3 DEF KeepAlive, CheckerInv
      <4>3. /\ last + Span1 \in Nat /\ last' + Span1 \in Nat
            /\ last + Span1 <= last' + Span1
            /\ last + Span2 \in Nat /\ last' + Span2 \in Nat
            /\ last + Span2 <= last' + Span2
            /\ last + Span4 \in Nat /\ last' + Span4 \in Nat
            /\ last + Span4 <= last' + Span4
        <5>1. last \in Nat /\ last' \in Nat
          BY <1>0 DEF Numbers
        <5> QED
          BY ONLY <3>5, <5>1, Shift
      <4>4. CASE checker = "wait"
        <5>1. /\ timer <= last + Span1
              /\ due.checker = timer + MaxLag /\ now <= due.checker
          BY <4>4 DEF CheckerInv
        <5>2. timer <= last' + Span1
          BY ONLY <1>0, <4>3, <5>1, LeTrans DEF Numbers
        <5> QED
          BY <3>1, <4>1, <4>2, <4>4, <5>1, <5>2 DEF CheckerInv
      <4>5. CASE checker = "check"
        <5>1. /\ sampled.checker <= last + Span2
              /\ due.checker = sampled.checker + MaxLag
              /\ sampled.checker <= now /\ now <= due.checker
          BY <4>5 DEF CheckerInv
        <5>2. sampled.checker <= last' + Span2
          BY ONLY <1>0, <4>3, <5>1, LeTrans DEF Numbers
        <5> QED
          BY <3>1, <4>1, <4>2, <4>5, <5>1, <5>2 DEF CheckerInv
      <4>6. CASE checker = "close"
        <5>1. /\ due.checker <= last + Span4
              /\ now <= due.checker
          BY <4>6 DEF CheckerInv
        <5>2. due.checker <= last' + Span4
          BY ONLY <1>0, <4>3, <5>1, LeTrans DEF Numbers
        <5> QED
          BY <3>1, <4>1, <4>2, <4>6, <5>1, <5>2 DEF CheckerInv
      <4>7. checker # "done"
        BY DEF CheckerInv
      <4>8. checker \in {"wait", "check", "close"}
        BY <4>2, <4>7 DEF TypeOK
      <4> QED
        BY <4>4, <4>5, <4>6, <4>8
    <3> QED
      BY <3>3, <3>4, <3>6
  <2>4. CASE Handled
    <3>1. /\ due'.router = (IF pending = << >> THEN Never ELSE now + Pickup)
          /\ due'.checker = due.checker
      BY <2>4, DueFacts, TimeFacts DEF Handled
    <3>2. NextBy' <= NextBy /\ NextBy' <= now + Service
      BY <2>4, <3>1 DEF Handled, NextBy, QueueInv
    <3>3. QueueInv'
      BY <2>4, <3>1, <3>2 DEF Handled, QueueInv
    <3>4. PingsInv'
      BY <3>2, PingsKept
    <3>5. CheckerInv'
      BY <2>4, <3>1 DEF Handled, CheckerInv
    <3> QED
      BY <3>3, <3>4, <3>5
  <2>5. CASE RouterStops
    BY <2>5 DEF RouterStops
  <2> QED
    BY <2>1, <2>2, <2>3, <2>4, <2>5
<1> QED
  BY <1>3, <1>4

\* A step of the heartbeat checker.
LEMMA CheckerKeeps ==
  ASSUME SilentInv, TimerFires \/ Check \/ CheckerCloses \/ CheckerStops,
         TypeOK'
  PROVE  QueueInv' /\ PingsInv' /\ CheckerInv'
<1>0. Numbers /\ Numbers'
  BY NextNumbers DEF SilentInv
<1> USE <1>0, ConstantNumbers DEF SilentInv, Numbers
<1>1. /\ UNCHANGED << now, pending, lastPing, last, router, message >>
      /\ sampled'.router = sampled.router /\ due'.router = due.router
      /\ isClosed' \in {isClosed, TRUE}
  BY DueFacts, TimeFacts
  DEF TimerFires, Check, CheckerCloses, CheckerStops, client, TypeOK
<1>2. NextBy' = NextBy
  BY <1>1 DEF NextBy
<1>3. QueueInv'
  BY <1>1, <1>2 DEF QueueInv
<1>4. PingsInv'
  <2>1. NextBy' <= NextBy /\ pending' = pending /\ lastPing' = lastPing
    BY <1>1, <1>2
  <2> QED
    BY <1>1, <2>1, PingsKept
<1>5. CASE isClosed'
  <2>1. CheckerInv'
    BY <1>5 DEF CheckerInv
  <2> QED
    BY <1>3, <1>4, <2>1
<1>6. CASE ~isClosed'
  <2>1. ~isClosed
    BY <1>1, <1>6
  <2>2. CASE TimerFires
    <3>1. sampled'.checker = now /\ due'.checker = now + MaxLag
      BY <2>2, DueFacts, TimeFacts DEF TimerFires, TypeOK
    <3>2. timer <= last + Span1 /\ now <= timer + MaxLag
      BY <2>1, <2>2 DEF TimerFires, CheckerInv
    <3>3. checker' = "check" /\ checker = "wait"
      BY <2>2 DEF TimerFires
    <3> QED
      <4>1. now <= last + Span2
        BY <3>2, SpanNumbers
      <4>2. CheckerInv'
        BY <1>1, <2>1, <3>1, <3>3, <4>1 DEF CheckerInv
      <4> QED
        BY <1>3, <1>4, <4>2
  <2>3. CASE Check
    <3>1. /\ checker = "check" /\ sampled' = sampled
          /\ \/ /\ IsAlive /\ checker' = "wait" /\ timer' = now + Interval
                /\ due'.checker = now + Interval + MaxLag
             \/ checker' = "close" /\ due'.checker = now + MaxLag
      BY <2>3, DueFacts, TimeFacts DEF Check
    <3>2. /\ sampled.checker <= last + Span2
          /\ now <= sampled.checker + MaxLag
      BY <2>1, <3>1 DEF CheckerInv
    <3>3. IsAlive => now + Interval <= last + Span1
      <4>1. /\ now \in Nat /\ last \in Nat /\ sampled.checker \in Nat
            /\ Interval \in Nat /\ MaxLag \in Nat
        BY ONLY <1>0, ConstantNumbers DEF Numbers
      <4> QED
        BY ONLY <3>2, <4>1, SpanNumbers DEF IsAlive
    <3>4. now + MaxLag <= last + Span4
      BY <3>2, SpanNumbers
    <3>5. router # "start"
      BY <2>1, <3>1 DEF CheckerInv
    <3> QED
      <4>1. CASE IsAlive /\ checker' = "wait"
        <5>1. /\ timer' = now + Interval /\ now + Interval <= last + Span1
              /\ due'.checker = timer' + MaxLag /\ now <= due'.checker
          BY <3>1, <3>3, <4>1
        <5> QED
          BY <1>1, <1>3, <1>4, <3>5, <4>1, <5>1 DEF CheckerInv
      <4>2. CASE checker' = "close" /\ due'.checker = now + MaxLag
        <5>1. now <= now + MaxLag
          OBVIOUS
        <5> QED
          BY <1>1, <1>3, <1>4, <3>4, <3>5, <4>2, <5>1 DEF CheckerInv
      <4> QED
        BY <3>1, <4>1, <4>2
  <2>4. ~CheckerCloses /\ ~CheckerStops
    BY <1>6, <2>1 DEF CheckerCloses, CheckerStops
  <2> QED
    BY <2>2, <2>3, <2>4
<1> QED
  BY <1>5, <1>6

LEMMA SilentStep == SilentInv /\ [Next]_vars => SilentInv'
<1> SUFFICES ASSUME SilentInv, [Next]_vars PROVE SilentInv'
  OBVIOUS
<1>1. TypeOK'
  BY TypeStep DEF SilentInv
<1> SUFFICES QueueInv' /\ PingsInv' /\ CheckerInv'
  BY <1>1 DEF SilentInv
<1>2. CASE Tick
  BY <1>1, <1>2, TickKeeps
<1>3. CASE ClientPing
  <2>1. now \in Messages /\ now # Other
    BY TimeFacts, NumberFacts DEF SilentInv, TypeOK
  <2> QED
    BY <1>1, <1>3, <2>1, SendKeeps DEF ClientPing
<1>4. CASE ClientSends
  BY <1>1, <1>4, NumberFacts, SendKeeps DEF ClientSends, client
<1>5. CASE RouterTakes
  BY <1>1, <1>5, TakeKeeps
<1>6. CASE StartChecker \/ Ping \/ KeepAlive \/ Handled \/ RouterStops
  BY <1>1, <1>6, RouterKeeps
<1>7. CASE TimerFires \/ Check \/ CheckerCloses \/ CheckerStops
  BY <1>1, <1>7, CheckerKeeps
<1>8. CASE OtherCloses
  BY <1>8 DEF OtherCloses, QueueInv, PingsInv, CheckerInv
<1>9. CASE UNCHANGED vars
  BY <1>9 DEF SilentInv, QueueInv, PingsInv, CheckerInv, NextBy, vars,
     client, others
<1> QED
  BY <1>2, <1>3, <1>4, <1>5, <1>6, <1>7, <1>8, <1>9 DEF Next, TimeUp

LEMMA SilentInit == Init => SilentInv
<1> SUFFICES ASSUME Init PROVE SilentInv
  OBVIOUS
<1>1. TypeOK
  BY TypeInit
<1>2. NextBy = MaxLag + Pickup /\ Len(pending) = 0
  BY DEF Init, NextBy
<1>3. QueueInv
  BY <1>2, ConstantNumbers DEF Init, QueueInv
<1>4. PingsInv
  BY <1>2 DEF PingsInv
<1>5. CheckerInv
  BY DEF Init, CheckerInv
<1> QED
  BY <1>1, <1>3, <1>4, <1>5 DEF SilentInv

\* A silent connection is closed within two intervals and four delays of its
\* last stored heartbeat, which is at most Wait after its client's last ping.
THEOREM SilenceEnds == Spec => []SilentIsClosed
<1>1. SilentInv => SilentIsClosed
  <2> SUFFICES ASSUME SilentInv, ~isClosed
               PROVE  /\ now - last <= Span4
                      /\ now - lastPing <= Span4 + Wait
    BY DEF SilentIsClosed, Span4
  <2>1. Numbers
    BY StateNumbers DEF SilentInv
  <2>2. now <= last + Span4
    <3>1. CASE checker = "none"
      <4>1. now <= MaxLag /\ last = 0
        BY <3>1 DEF SilentInv, QueueInv, CheckerInv
      <4> QED
        BY <4>1, <2>1, ConstantNumbers, SpanNumbers DEF Numbers
    <3>2. CASE checker = "wait"
      BY <3>2, <2>1, ConstantNumbers, SpanNumbers
      DEF SilentInv, CheckerInv, Numbers
    <3>3. CASE checker = "check"
      BY <3>3, <2>1, ConstantNumbers, SpanNumbers
      DEF SilentInv, CheckerInv, Numbers
    <3>4. CASE checker = "close"
      BY <3>4, <2>1, ConstantNumbers, SpanNumbers
      DEF SilentInv, CheckerInv, Numbers
    <3> QED
      BY <3>1, <3>2, <3>3, <3>4 DEF SilentInv, TypeOK, CheckerInv
  <2>3. last <= lastPing + Wait
    BY DEF SilentInv, QueueInv
  <2> QED
    BY <2>1, <2>2, <2>3, ConstantNumbers, SpanNumbers DEF Numbers
<1> QED
  BY <1>1, SilentInit, SilentStep, PTL DEF Spec

-----------------------------------------------------------------------------
(* A client that pings in time *)

\* The premise of PromptIsKept.
Prompt == prompt /\ ClientGap + Wait + MaxLag <= Interval

AtPing == router \in {"ping", "store"}

\* The ping the router works on, or else the heartbeat it stored last.
Base == IF AtPing THEN message ELSE last

IsPing(p) == pending[p] # Other
Between(m, n) == {p \in 1 .. Len(pending) : m < p /\ p < n}

\* Each waiting ping was sent at most a gap after the one before it, the first
\* of them at most a gap after Base; and the client's last ping is the last one
\* that waits, or not younger than Base.
GapsInv ==
  Prompt /\ ~isClosed =>
    /\ \A q \in 1 .. Len(pending) : IsPing(q) =>
         \/ /\ pending[q] <= Base + ClientGap
            /\ \A p \in Between(0, q) : ~IsPing(p)
         \/ \E m \in 1 .. Len(pending) :
              /\ m < q /\ IsPing(m) /\ pending[q] <= pending[m] + ClientGap
              /\ \A p \in Between(m, q) : ~IsPing(p)
    /\ \/ /\ lastPing <= Base
          /\ \A p \in 1 .. Len(pending) : ~IsPing(p)
       \/ \E m \in 1 .. Len(pending) :
            /\ IsPing(m) /\ pending[m] = lastPing
            /\ \A p \in Between(m, Len(pending) + 1) : ~IsPing(p)

PromptInv ==
  Prompt =>
    /\ ~dropped
    /\ ~isClosed => /\ checker # "close"
                    /\ now <= lastPing + ClientGap
                    /\ AtPing => message <= last + ClientGap

LEMMA LeastNatural ==
  ASSUME NEW T, T \subseteq Nat, T # {}
  PROVE  \E x \in T : \A y \in T : x <= y
<1>1. IsWellFoundedOn(OpToRel(<, Nat), Nat)
  BY NatLessThanWellFounded
<1>2. PICK x \in T : \A y \in T : ~(<< y, x >> \in OpToRel(<, Nat))
  BY <1>1, WFMin
<1>3. \A y \in T : ~(y < x)
  BY <1>2 DEF OpToRel
<1> QED
  BY <1>3

\* The last stored heartbeat of a prompt client is at most an interval old:
\* the next ping is waiting, in hand or yet to be sent.
LEMMA HeartbeatIsFresh ==
  ASSUME SilentInv, PromptInv, GapsInv, Prompt, ~isClosed
  PROVE  now <= last + Interval
<1>0. Numbers
  BY StateNumbers DEF SilentInv
<1>1. now <= lastPing + ClientGap /\ (AtPing => message <= last + ClientGap)
  BY DEF PromptInv
<1>2. ClientGap + Wait + MaxLag <= Interval
  BY DEF Prompt
<1>3. CASE AtPing
  <2>1. message \in Nat /\ now <= message + Wait + MaxLag
    BY <1>0, <1>3, ConstantNumbers DEF AtPing, SilentInv, QueueInv, Numbers
  <2> QED
    BY <1>0, <1>1, <1>2, <1>3, <2>1, ConstantNumbers DEF Numbers
<1>4. CASE ~AtPing /\ \A p \in 1 .. Len(pending) : ~IsPing(p)
  <2>1. lastPing <= last
    BY <1>4 DEF GapsInv, Base
  <2> QED
    BY <1>0, <1>1, <1>2, <2>1, ConstantNumbers DEF Numbers
<1>5. CASE ~AtPing /\ \E p \in 1 .. Len(pending) : IsPing(p)
  <2> DEFINE T == {p \in 1 .. Len(pending) : IsPing(p)}
  <2>1. PICK q \in T : \A p \in T : q <= p
    <3>1. T \subseteq Nat /\ T # {}
      BY <1>5
    <3> HIDE DEF T
    <3> QED
      BY <3>1, LeastNatural
  <2>2. q \in 1 .. Len(pending) /\ pending[q] # Other
    BY DEF IsPing
  <2>3. \A m \in 1 .. Len(pending) : ~(m < q /\ IsPing(m))
    BY <1>0, <2>1 DEF Numbers
  <2>4. pending[q] <= last + ClientGap
    BY <1>5, <2>2, <2>3 DEF GapsInv, Base, IsPing
  <2>5. pending[q] \in Nat
    BY <2>2, MessageNumbers DEF SilentInv
  <2>6. NextBy + Cost(q - 1) <= pending[q] + Cost(Backlog)
    BY <2>2 DEF SilentInv, PingsInv
  <2>7. now <= NextBy
    <3>1. pending # << >>
      BY <1>0, <2>2 DEF Numbers
    <3>2. now <= due.router
      BY <3>1 DEF SilentInv, QueueInv
    <3> QED
      BY <1>0, <3>1, <3>2, ConstantNumbers DEF NextBy, Numbers
  <2>8. Cost(q - 1) \in Nat /\ Cost(Backlog) \in Nat
    <3>1. q - 1 \in Nat
      BY <1>0, <2>2 DEF Numbers
    <3> QED
      BY <3>1, CostStep, ConstantNumbers
  <2>9. now <= pending[q] + Cost(Backlog)
    BY ONLY <1>0, <2>5, <2>6, <2>7, <2>8, SoonerStill DEF Numbers
  <2>10. Wait = Cost(Backlog) + MaxLag
    BY WaitIsCost
  <2> HIDE DEF T
  <2> QED
    BY ONLY <1>0, <1>2, <2>4, <2>5, <2>8, <2>9, <2>10, ConstantNumbers,
       FreshEnough DEF Numbers
<1> QED
  BY <1>3, <1>4, <1>5

BaseOK == ~isClosed => Base \in Nat

LEMMA BaseNumber == SilentInv => BaseOK
<1> SUFFICES ASSUME SilentInv, ~isClosed PROVE Base \in Nat
  BY DEF BaseOK
<1>1. Numbers
  BY StateNumbers DEF SilentInv
<1> QED
  BY <1>1 DEF Base, AtPing, SilentInv, QueueInv, Numbers

LEMMA GapsKept ==
  ASSUME SilentInv, SilentInv', GapsInv, isClosed' \in {isClosed, TRUE},
         pending' = pending, lastPing' = lastPing, prompt' => prompt,
         ~isClosed => Base <= Base'
  PROVE  GapsInv'
<1> SUFFICES ASSUME Prompt', ~isClosed' PROVE GapsInv'
  BY DEF GapsInv
<1>1. Prompt /\ ~isClosed
  BY DEF Prompt, SilentInv, TypeOK
<1>2. Base \in Nat /\ Base' \in Nat /\ Base <= Base'
  <2>1. BaseOK /\ BaseOK'
    BY BaseNumber, PTL
  <2> QED
    BY <1>1, <2>1 DEF BaseOK
<1>3. Numbers
  BY StateNumbers DEF SilentInv
<1>4. /\ \A p \in 1 .. Len(pending) : IsPing(p)' = IsPing(p)
      /\ \A m, n \in Nat : Between(m, n)' = Between(m, n)
  BY DEF IsPing, Between
<1>5. ASSUME NEW q \in 1 .. Len(pending), pending[q] # Other,
             pending[q] <= Base + ClientGap
      PROVE  pending[q] <= Base' + ClientGap
  <2>1. pending[q] \in Nat
    BY <1>5, MessageNumbers DEF SilentInv
  <2> QED
    BY <1>2, <1>5, <2>1, ConstantNumbers
<1>6. lastPing <= Base => lastPing <= Base'
  BY <1>2, <1>3 DEF Numbers
<1>7. \A q \in 1 .. Len(pending) : IsPing(q) =>
        \/ /\ pending[q] <= Base' + ClientGap
           /\ \A p \in Between(0, q) : ~IsPing(p)
        \/ \E m \in 1 .. Len(pending) :
             /\ m < q /\ IsPing(m) /\ pending[q] <= pending[m] + ClientGap
             /\ \A p \in Between(m, q) : ~IsPing(p)
  BY <1>1, <1>5 DEF GapsInv, IsPing
<1>8. \/ /\ lastPing <= Base'
         /\ \A p \in 1 .. Len(pending) : ~IsPing(p)
      \/ \E m \in 1 .. Len(pending) :
           /\ IsPing(m) /\ pending[m] = lastPing
           /\ \A p \in Between(m, Len(pending) + 1) : ~IsPing(p)
  BY <1>1, <1>6 DEF GapsInv
<1> QED
  BY <1>7, <1>8 DEF GapsInv, IsPing, Between

\* A new ping comes at most a gap after the client's last one.
LEMMA SendGaps ==
  ASSUME SilentInv, SilentInv', GapsInv, PromptInv,
         NEW m \in Messages, Send(m), m \in {now, Other},
         lastPing' = (IF m = Other THEN lastPing ELSE now),
         UNCHANGED << now, last, prompt, router, message, others >>
  PROVE  GapsInv' /\ PromptInv'
<1>1. /\ ~isClosed /\ Len(pending') = Len(pending) + 1
      /\ pending'[Len(pending) + 1] = m
      /\ \A p \in 1 .. Len(pending) : pending'[p] = pending[p]
  BY SendAppends DEF Send, SilentInv
<1>2. Numbers /\ now # Other
  BY StateNumbers, NumberFacts DEF SilentInv, TypeOK
<1>3. Base' = Base /\ Prompt' = Prompt /\ AtPing' = AtPing
  BY DEF Base, AtPing, Prompt
<1>4. Prompt => now <= lastPing + ClientGap
  BY <1>1 DEF PromptInv
<1>5. PromptInv'
  <2>1. m # Other => now <= now + ClientGap
    BY <1>2, ConstantNumbers DEF Numbers
  <2> QED
    BY <1>1, <1>2, <1>3, <2>1 DEF PromptInv, others
<1>14. PICK n \in Nat : n = Len(pending) + 1
  BY <1>2 DEF Numbers
<1>6. /\ n \in Nat /\ Len(pending) \in Nat /\ Len(pending') = n
      /\ n = Len(pending) + 1
  BY <1>1, <1>2, <1>14 DEF Numbers
<1>7. /\ \A p \in 1 .. Len(pending) : IsPing(p)' = IsPing(p)
      /\ IsPing(n)' = (m # Other)
  BY <1>1, <1>6 DEF IsPing
<1>8. \A i \in Nat, q \in 1 .. n : Between(i, q)' = Between(i, q)
  BY <1>6 DEF Between
<1>9. \A p \in Between(0, n) : p \in 1 .. Len(pending)
  BY <1>6 DEF Between
<1> SUFFICES ASSUME Prompt PROVE GapsInv'
  BY <1>3, <1>5 DEF GapsInv
<1>10. ASSUME NEW q \in 1 .. Len(pending), IsPing(q)
       PROVE  \/ /\ pending'[q] <= Base' + ClientGap
                 /\ \A p \in Between(0, q)' : ~IsPing(p)'
              \/ \E i \in 1 .. n :
                   /\ i < q /\ IsPing(i)' /\ pending'[q] <= pending'[i] + ClientGap
                   /\ \A p \in Between(i, q)' : ~IsPing(p)'
  <2>1. \A i \in Nat : Between(i, q)' = Between(i, q)
    BY <1>6, <1>8
  <2>2. \A i \in Nat : \A p \in Between(i, q) : p \in 1 .. Len(pending)
    BY DEF Between
  <2>3. CASE /\ pending[q] <= Base + ClientGap
             /\ \A p \in Between(0, q) : ~IsPing(p)
    BY <1>1, <1>3, <1>7, <2>1, <2>2, <2>3
  <2>4. ASSUME NEW i \in 1 .. Len(pending), i < q, IsPing(i),
               pending[q] <= pending[i] + ClientGap,
               \A p \in Between(i, q) : ~IsPing(p)
        PROVE  /\ i \in 1 .. n /\ i < q /\ IsPing(i)'
               /\ pending'[q] <= pending'[i] + ClientGap
               /\ \A p \in Between(i, q)' : ~IsPing(p)'
    BY <1>1, <1>6, <1>7, <2>1, <2>2, <2>4
  <2> QED
    BY <1>1, <1>10, <2>3, <2>4 DEF GapsInv
<1>11. ASSUME m # Other
       PROVE  \/ /\ now <= Base' + ClientGap
                 /\ \A p \in Between(0, n)' : ~IsPing(p)'
              \/ \E i \in 1 .. n :
                   /\ i < n /\ IsPing(i)' /\ now <= pending'[i] + ClientGap
                   /\ \A p \in Between(i, n)' : ~IsPing(p)'
  <2>1. n \in 1 .. n
    BY <1>6
  <2>2. CASE lastPing <= Base /\ \A p \in 1 .. Len(pending) : ~IsPing(p)
    <3>1. Base \in Nat /\ now <= Base + ClientGap
      BY <1>1, <1>2, <1>4, <2>2, BaseNumber, ConstantNumbers
      DEF BaseOK, Numbers
    <3>2. \A p \in Between(0, n)' : ~IsPing(p)'
      BY <1>7, <1>8, <1>9, <2>1, <2>2
    <3> QED
      BY <1>3, <3>1, <3>2
  <2>3. ASSUME NEW i \in 1 .. Len(pending), IsPing(i), pending[i] = lastPing,
               \A p \in Between(i, n) : ~IsPing(p)
        PROVE  /\ i \in 1 .. n /\ i < n /\ IsPing(i)'
               /\ now <= pending'[i] + ClientGap
               /\ \A p \in Between(i, n)' : ~IsPing(p)'
    <3>1. \A p \in Between(i, n) : p \in 1 .. Len(pending)
      BY <1>6 DEF Between
    <3>2. Between(i, n)' = Between(i, n)
      BY <1>8, <2>1, <2>3
    <3> QED
      BY <1>1, <1>4, <1>6, <1>7, <2>3, <3>1, <3>2
  <2> QED
    BY <1>1, <1>6, <2>2, <2>3 DEF GapsInv
<1>12. \A q \in 1 .. n : IsPing(q)' =>
         \/ /\ pending'[q] <= Base' + ClientGap
            /\ \A p \in Between(0, q)' : ~IsPing(p)'
         \/ \E i \in 1 .. n :
              /\ i < q /\ IsPing(i)' /\ pending'[q] <= pending'[i] + ClientGap
              /\ \A p \in Between(i, q)' : ~IsPing(p)'
  <2>1. \A q \in 1 .. n : q \in 1 .. Len(pending) \/ q = n
    BY <1>6
  <2> SUFFICES ASSUME NEW q \in 1 .. n, IsPing(q)'
               PROVE  \/ /\ pending'[q] <= Base' + ClientGap
                         /\ \A p \in Between(0, q)' : ~IsPing(p)'
                      \/ \E i \in 1 .. n :
                           /\ i < q /\ IsPing(i)'
                           /\ pending'[q] <= pending'[i] + ClientGap
                           /\ \A p \in Between(i, q)' : ~IsPing(p)'
    OBVIOUS
  <2>2. CASE q \in 1 .. Len(pending)
    BY <1>7, <1>10, <2>2
  <2>3. CASE q = n
    <3>1. m # Other /\ pending'[n] = now
      BY <1>1, <1>6, <1>7, <2>3
    <3> QED
      BY <1>11, <2>3, <3>1
  <2> QED
    BY <2>1, <2>2, <2>3
<1>13. \/ /\ lastPing' <= Base'
          /\ \A p \in 1 .. n : ~IsPing(p)'
       \/ \E i \in 1 .. n :
            /\ IsPing(i)' /\ pending'[i] = lastPing'
            /\ \A p \in Between(i, n + 1)' : ~IsPing(p)'
  <2>1. \A p \in 1 .. n : p \in 1 .. Len(pending) \/ p = n
    BY <1>6
  <2>2. \A i \in 1 .. n : \A p \in Between(i, n + 1)' :
          p \in 1 .. n /\ i < p /\ (p = n \/ p \in Between(i, n))
    BY <1>6 DEF Between
  <2>3. CASE m = Other
    <3>1. \A p \in Between(0, n) : p \in 1 .. Len(pending)
      BY <1>9
    <3>2. CASE lastPing <= Base /\ \A p \in 1 .. Len(pending) : ~IsPing(p)
      BY <1>3, <1>7, <2>1, <2>3, <3>2
    <3>3. ASSUME NEW i \in 1 .. Len(pending), IsPing(i), pending[i] = lastPing,
                 \A p \in Between(i, n) : ~IsPing(p)
          PROVE  /\ i \in 1 .. n /\ IsPing(i)' /\ pending'[i] = lastPing'
                 /\ \A p \in Between(i, n + 1)' : ~IsPing(p)'
      <4>1. i \in 1 .. n
        BY <1>6
      <4>2. \A p \in Between(i, n + 1)' : ~IsPing(p)'
        BY <1>7, <2>1, <2>2, <2>3, <3>3, <4>1
      <4> QED
        BY <1>1, <1>7, <2>3, <3>3, <4>1, <4>2
    <3> QED
      BY <1>1, <1>6, <3>2, <3>3 DEF GapsInv
  <2>4. CASE m # Other
    <3>1. n \in 1 .. n /\ IsPing(n)' /\ pending'[n] = lastPing'
      <4>1. lastPing' = now /\ m = now
        BY <2>4
      <4> QED
        <5>1. n \in 1 .. n /\ pending'[n] = m
          BY <1>1, <1>6
        <5>2. IsPing(n)'
          BY <1>7, <2>4
        <5> QED
          BY <4>1, <5>1, <5>2
    <3>2. \A p \in Between(n, n + 1)' : FALSE
      BY <1>6 DEF Between
    <3> QED
      BY <3>1, <3>2
  <2> QED
    BY <2>3, <2>4
<1> QED
  BY <1>6, <1>12, <1>13 DEF GapsInv

\* The ping taken is the first one, and Base from then on.
LEMMA TakeGaps ==
  ASSUME SilentInv, SilentInv', GapsInv, PromptInv, RouterTakes
  PROVE  GapsInv' /\ PromptInv'
<1>1. /\ UNCHANGED << now, last, lastPing, prompt, dropped, isClosed, checker >>
      /\ router = "idle" /\ router' \in {"ping", "handle"}
      /\ router' = "ping" <=> pending[1] # Other
  BY DEF RouterTakes, client, others, SilentInv, TypeOK
<1>2. PICK n \in Nat : n = Len(pending')
  <2>1. Numbers'
    BY NextNumbers DEF SilentInv
  <2> QED
    BY <2>1 DEF Numbers
<1>3. /\ Len(pending) = n + 1 /\ message' = pending[1]
      /\ \A p \in 1 .. n : pending'[p] = pending[p + 1]
  BY <1>2, TakeRemoves DEF SilentInv
<1>4. Prompt' = Prompt /\ ~AtPing /\ Base = last
      /\ AtPing' = IsPing(1) /\ Base' = (IF IsPing(1) THEN pending[1] ELSE last)
  BY <1>1, <1>3 DEF Prompt, AtPing, Base, IsPing
<1>5. /\ \A p \in 1 .. n : p + 1 \in 1 .. n + 1 /\ p \in Nat
      /\ \A p \in 1 .. n + 1 : p # 1 => p - 1 \in 1 .. n /\ p - 1 + 1 = p
      /\ 1 \in 1 .. n + 1
  OBVIOUS
<1>6. \A p \in 1 .. n : IsPing(p)' = IsPing(p + 1)
  BY <1>3 DEF IsPing
<1>7. ASSUME NEW i \in Nat, NEW q \in 1 .. n + 1,
             NEW p \in Between(i, q)'
      PROVE  p \in 1 .. n /\ p + 1 \in Between(i + 1, q + 1)
  BY <1>2, <1>3 DEF Between
<1>8. PromptInv'
  <2>1. ASSUME Prompt, ~isClosed, IsPing(1)
        PROVE  pending[1] <= last + ClientGap
    <3>1. \A m \in 1 .. n + 1 : ~(m < 1)
      OBVIOUS
    <3> QED
      BY <1>3, <1>4, <1>5, <2>1, <3>1 DEF GapsInv
  <2> QED
    BY <1>1, <1>3, <1>4, <2>1 DEF PromptInv
<1> SUFFICES ASSUME Prompt, ~isClosed PROVE GapsInv'
  BY <1>1, <1>4, <1>8 DEF GapsInv
<1>9. ASSUME NEW q \in 1 .. n, IsPing(q + 1)
      PROVE  \/ /\ pending[q + 1] <= Base' + ClientGap
                /\ \A p \in Between(0, q)' : ~IsPing(p)'
             \/ \E m \in 1 .. n :
                  /\ m < q /\ IsPing(m)'
                  /\ pending[q + 1] <= pending[m + 1] + ClientGap
                  /\ \A p \in Between(m, q)' : ~IsPing(p)'
  <2>0. q + 1 \in 1 .. n + 1 /\ q \in 1 .. n + 1
    OBVIOUS
  <2>1. CASE /\ pending[q + 1] <= last + ClientGap
             /\ \A p \in Between(0, q + 1) : ~IsPing(p)
    <3>1. 1 \in Between(0, q + 1)
      BY <1>3 DEF Between
    <3>2. ~IsPing(1) /\ Base' = last
      BY <1>4, <2>1, <3>1
    <3>3. \A p \in Between(0, q)' : p \in 1 .. n /\ p + 1 \in Between(0, q + 1)
      BY <1>2, <1>3 DEF Between
    <3>4. \A p \in Between(0, q)' : ~IsPing(p)'
      BY <1>6, <2>1, <3>3
    <3> QED
      BY <2>1, <3>2, <3>4
  <2>2. ASSUME NEW m \in 1 .. n + 1, m < q + 1, IsPing(m),
               pending[q + 1] <= pending[m] + ClientGap,
               \A p \in Between(m, q + 1) : ~IsPing(p)
        PROVE  \/ /\ pending[q + 1] <= Base' + ClientGap
                  /\ \A p \in Between(0, q)' : ~IsPing(p)'
               \/ \E i \in 1 .. n :
                    /\ i < q /\ IsPing(i)'
                    /\ pending[q + 1] <= pending[i + 1] + ClientGap
                    /\ \A p \in Between(i, q)' : ~IsPing(p)'
    <3>1. CASE m = 1
      <4>1. Base' = pending[1]
        BY <1>4, <2>2, <3>1
      <4>2. \A p \in Between(0, q)' : p \in 1 .. n /\ p + 1 \in Between(1, q + 1)
        BY <1>2, <1>3 DEF Between
      <4>3. \A p \in Between(0, q)' : ~IsPing(p)'
        BY <1>6, <2>2, <3>1, <4>2
      <4> QED
        BY <2>2, <3>1, <4>1, <4>3
    <3>2. CASE m # 1
      <4>1. PICK i \in 1 .. n : m = i + 1
        BY <1>5, <3>2
      <4>2. i < q /\ IsPing(i)'
        BY <1>6, <2>2, <4>1
      <4>3. \A p \in Between(i, q)' : p \in 1 .. n /\ p + 1 \in Between(m, q + 1)
        BY <1>7, <2>0, <4>1
      <4>4. \A p \in Between(i, q)' : ~IsPing(p)'
        BY <1>6, <2>2, <4>3
      <4> QED
        BY <2>2, <4>1, <4>2, <4>4
    <3> QED
      BY <3>1, <3>2
  <2> QED
    BY <1>3, <1>4, <1>9, <2>0, <2>1, <2>2 DEF GapsInv
<1>10. \A q \in 1 .. n : IsPing(q)' =>
         \/ /\ pending'[q] <= Base' + ClientGap
            /\ \A p \in Between(0, q)' : ~IsPing(p)'
         \/ \E m \in 1 .. n :
              /\ m < q /\ IsPing(m)' /\ pending'[q] <= pending'[m] + ClientGap
              /\ \A p \in Between(m, q)' : ~IsPing(p)'
  BY <1>3, <1>6, <1>9
<1>11. \/ /\ lastPing' <= Base'
          /\ \A p \in 1 .. n : ~IsPing(p)'
       \/ \E m \in 1 .. n :
            /\ IsPing(m)' /\ pending'[m] = lastPing'
            /\ \A p \in Between(m, n + 1)' : ~IsPing(p)'
  <2>1. CASE lastPing <= last /\ \A p \in 1 .. n + 1 : ~IsPing(p)
    BY <1>1, <1>4, <1>5, <1>6, <2>1
  <2>2. ASSUME NEW m \in 1 .. n + 1, IsPing(m), pending[m] = lastPing,
               \A p \in Between(m, n + 1 + 1) : ~IsPing(p)
        PROVE  \/ /\ lastPing <= Base'
                  /\ \A p \in 1 .. n : ~IsPing(p)'
               \/ \E i \in 1 .. n :
                    /\ IsPing(i)' /\ pending'[i] = lastPing
                    /\ \A p \in Between(i, n + 1)' : ~IsPing(p)'
    <3>1. CASE m = 1
      <4>1. Base' = lastPing /\ lastPing <= lastPing
        <5>1. lastPing \in Nat
          BY StateNumbers DEF SilentInv, Numbers
        <5> QED
          BY <1>4, <2>2, <3>1, <5>1
      <4>2. \A p \in 1 .. n : p + 1 \in Between(1, n + 1 + 1)
        BY <1>3 DEF Between
      <4> QED
        BY <1>6, <2>2, <3>1, <4>1, <4>2
    <3>2. CASE m # 1
      <4>1. PICK i \in 1 .. n : m = i + 1
        BY <1>5, <3>2
      <4>2. n + 1 \in 1 .. n + 1 /\ i \in Nat
        OBVIOUS
      <4>3. \A p \in Between(i, n + 1)' :
              p \in 1 .. n /\ p + 1 \in Between(m, n + 1 + 1)
        BY <1>7, <4>1, <4>2
      <4>4. \A p \in Between(i, n + 1)' : ~IsPing(p)'
        BY <1>6, <2>2, <4>3
      <4>5. IsPing(i)' /\ pending'[i] = lastPing
        BY <1>3, <1>6, <2>2, <4>1
      <4> QED
        BY <4>4, <4>5
    <3> QED
      BY <3>1, <3>2
  <2> QED
    BY <1>1, <1>3, <1>4, <2>1, <2>2 DEF GapsInv
<1> QED
  BY <1>2, <1>10, <1>11 DEF GapsInv

\* The other steps leave the queue alone, and Base to grow.
LEMMA OtherGaps ==
  ASSUME SilentInv, SilentInv', GapsInv, PromptInv, [Next]_vars,
         ~ClientPing, ~ClientSends, ~RouterTakes
  PROVE  GapsInv' /\ PromptInv'
<1>1. /\ pending' = pending /\ lastPing' = lastPing
      /\ prompt' => prompt
  <2>1. CASE Tick
    BY <2>1 DEF Tick
  <2>2. CASE ~Tick
    BY <2>2 DEF Next, TimeUp, StartChecker, Ping, KeepAlive, Handled,
       RouterStops, TimerFires, Check, CheckerCloses, CheckerStops, OtherCloses,
       Resume, client, vars
  <2> QED
    BY <2>1, <2>2
<1>2. isClosed' \in {isClosed, TRUE}
  <2>1. isClosed' = isClosed \/ isClosed' = TRUE
    BY DEF Next, TimeUp, Tick, StartChecker, Ping, KeepAlive, Handled,
       RouterStops, TimerFires, Check, CheckerCloses, CheckerStops, OtherCloses,
       Resume, client, others, vars
  <2> QED
    BY <2>1
<1>3. Numbers /\ Numbers'
  BY NextNumbers DEF SilentInv
<1>4. BaseOK
  BY BaseNumber
<1>5. \/ router' = router /\ message' = message /\ last' = last
      \/ /\ router = "store" /\ router' = "idle" /\ last' = sampled.router
      \/ /\ router = "ping" /\ router' = "store" /\ message' = message
         /\ last' = last
      \/ ~AtPing /\ ~AtPing' /\ last' = last
  <2>1. CASE KeepAlive
    BY <2>1 DEF KeepAlive, Resume
  <2>2. CASE Ping
    BY <2>2 DEF Ping
  <2>3. CASE StartChecker \/ Handled \/ RouterStops
    BY <2>3 DEF StartChecker, Handled, RouterStops, Resume, AtPing
  <2>4. CASE \/ Tick \/ TimerFires \/ Check \/ CheckerCloses \/ CheckerStops
             \/ OtherCloses \/ UNCHANGED vars
    BY <2>4 DEF Tick, TimerFires, Check, CheckerCloses, CheckerStops,
       OtherCloses, vars
  <2> QED
    BY <2>1, <2>2, <2>3, <2>4 DEF Next, TimeUp
<1>6. ~isClosed => /\ Base <= Base' /\ last <= last'
                   /\ AtPing' => AtPing /\ message' = message /\ last' = last
  <2> SUFFICES ASSUME ~isClosed
               PROVE  /\ Base <= Base' /\ last <= last'
                      /\ AtPing' => AtPing /\ message' = message /\ last' = last
    OBVIOUS
  <2>1. CASE router' = router /\ message' = message /\ last' = last
    BY <1>3, <1>4, <2>1 DEF Base, BaseOK, AtPing, Numbers
  <2>2. CASE router = "store" /\ router' = "idle" /\ last' = sampled.router
    <3>1. message <= sampled.router /\ last <= sampled.router
      BY <2>2 DEF SilentInv, QueueInv
    <3> QED
      BY <2>2, <3>1 DEF Base, AtPing
  <2>3. CASE /\ router = "ping" /\ router' = "store" /\ message' = message
             /\ last' = last
    BY <1>3, <1>4, <2>3 DEF Base, BaseOK, AtPing, Numbers
  <2>4. CASE ~AtPing /\ ~AtPing' /\ last' = last
    BY <1>3, <2>4 DEF Base, Numbers
  <2> QED
    BY <1>5, <2>1, <2>2, <2>3, <2>4
<1>7. GapsInv'
  BY <1>1, <1>2, <1>6, GapsKept
<1>8. ASSUME Prompt' PROVE PromptInv'
  <2>1. Prompt
    BY <1>1, <1>8 DEF Prompt
  <2>2. dropped' = dropped \/ CheckerCloses
    BY DEF Next, TimeUp, Tick, StartChecker, Ping, KeepAlive, Handled,
       RouterStops, TimerFires, Check, CheckerStops, OtherCloses, Resume,
       client, others, vars
  <2>3. ~dropped'
    BY <2>1, <2>2 DEF PromptInv, CheckerCloses, SilentInv, TypeOK
  <2>4. ASSUME ~isClosed'
        PROVE  /\ checker' # "close" /\ now' <= lastPing' + ClientGap
               /\ AtPing' => message' <= last' + ClientGap
    <3>1. ~isClosed
      BY <1>2, <2>4 DEF SilentInv, TypeOK
    <3>2. now <= lastPing + ClientGap /\ checker # "close"
      BY <2>1, <3>1 DEF PromptInv
    <3>3. now' = now \/ Tick
      BY DEF Next, TimeUp, StartChecker, Ping, KeepAlive, Handled, RouterStops,
         TimerFires, Check, CheckerCloses, CheckerStops, OtherCloses, Resume, vars
    <3>4. Tick => now' <= lastPing' + ClientGap
      <4>1. ASSUME Tick PROVE now' <= lastPing' + ClientGap
        <5>1. now' - lastPing <= ClientGap
          BY <1>8, <4>1 DEF Tick, Prompt
        <5> QED
          <6>1. now' \in Nat /\ lastPing \in Nat /\ ClientGap \in Nat
            BY <1>3, ConstantNumbers DEF Numbers
          <6>2. now' <= lastPing + ClientGap
            BY ONLY <5>1, <6>1, Difference
          <6> QED
            BY <1>1, <6>2
      <4> QED
        BY <4>1
    <3>5. now' <= lastPing' + ClientGap
      BY <1>1, <3>2, <3>3, <3>4
    <3>6. AtPing' => message' <= last' + ClientGap
      BY <1>6, <2>1, <3>1 DEF PromptInv
    <3>7. checker' # "close"
      <4>1. CASE Check
        <5>1. now <= last + Interval
          BY <2>1, <3>1, HeartbeatIsFresh
        <5>2. sampled.checker <= now
          BY <3>1, <4>1 DEF Check, SilentInv, CheckerInv
        <5>3. IsAlive
          BY <1>3, <3>1, <5>1, <5>2, ConstantNumbers DEF IsAlive, Numbers
        <5> QED
          BY <4>1, <5>3 DEF Check
      <4>2. CASE ~Check
        BY <3>2, <4>2 DEF Next, TimeUp, Tick, StartChecker, Ping, KeepAlive,
           Handled, RouterStops, TimerFires, CheckerCloses, CheckerStops,
           OtherCloses, Resume, client, others, vars
      <4> QED
        BY <4>1, <4>2
    <3> QED
      BY <3>5, <3>6, <3>7
  <2> QED
    BY <2>3, <2>4 DEF PromptInv
<1> QED
  BY <1>7, <1>8 DEF PromptInv

LEMMA PromptStep ==
  SilentInv /\ SilentInv' /\ GapsInv /\ PromptInv /\ [Next]_vars
    => GapsInv' /\ PromptInv'
<1> SUFFICES ASSUME SilentInv, SilentInv', GapsInv, PromptInv, [Next]_vars
             PROVE  GapsInv' /\ PromptInv'
  OBVIOUS
<1>1. CASE ClientPing
  <2>1. now \in Messages /\ now # Other
    BY TimeFacts, NumberFacts DEF SilentInv, TypeOK
  <2>2. /\ Send(now) /\ lastPing' = now
        /\ UNCHANGED << now, last, prompt, router, message, others >>
    BY <1>1 DEF ClientPing
  <2> QED
    BY <2>1, <2>2, SendGaps
<1>2. CASE ClientSends
  <2>1. /\ Send(Other) /\ lastPing' = lastPing
        /\ UNCHANGED << now, last, prompt, router, message, others >>
    BY <1>2 DEF ClientSends, client
  <2> QED
    BY <2>1, NumberFacts, SendGaps
<1>3. CASE RouterTakes
  BY <1>3, TakeGaps
<1>4. CASE ~ClientPing /\ ~ClientSends /\ ~RouterTakes
  BY <1>4, OtherGaps
<1> QED
  BY <1>1, <1>2, <1>3, <1>4

\* A client whose pings are at most an interval apart, the wait for the router
\* and a lag allowed for, is never dropped by the heartbeat checker.
THEOREM PromptClientsStay == Spec => []PromptIsKept
<1>1. Init => GapsInv /\ PromptInv
  <2> SUFFICES ASSUME Init PROVE GapsInv /\ PromptInv
    OBVIOUS
  <2>1. Len(pending) = 0 /\ Base = 0 /\ lastPing = 0 /\ ~AtPing
    BY DEF Init, Base, AtPing
  <2>2. GapsInv
    BY <2>1 DEF GapsInv
  <2>3. PromptInv
    BY <2>1, ConstantNumbers DEF Init, PromptInv
  <2> QED
    BY <2>2, <2>3
<1>2. PromptInv => PromptIsKept
  BY DEF PromptInv, Prompt, PromptIsKept
<1> QED
  BY <1>1, <1>2, SilentInit, SilentStep, PromptStep, PTL DEF Spec
=============================================================================
