------------------------- MODULE WsDispatch_proofs -------------------------
(***************************************************************************)
(* Theorems about WsDispatch, for any number of messages, connections,     *)
(* buckets and workers and any capacity of the channels.                   *)
(***************************************************************************)
EXTENDS WsDispatch, FiniteSetTheorems, SequenceTheorems, TLAPS

FanJobs == [job : Msgs \cup {NoJob}, next : Buckets]

\* TypeOK, and which connections a job worker visits
Typed ==
  /\ TypeOK
  /\ \A b \in Buckets, i \in JobWorkers :
       /\ work[b][i].todo \subseteq {c \in Conns : GetBucket(c) = b}
       /\ work[b][i].job = NoJob => work[b][i] = IdleWork
       /\ ~work[b][i].locked => work[b][i].todo = {}
  /\ \A w \in DispatchWorkers : fan[w].job = NoJob => fan[w] = IdleFan

-----------------------------------------------------------------------------
(* Types *)

LEMMA BucketOf == ASSUME NEW c \in Conns PROVE GetBucket(c) \in Buckets
BY CountsAssumption DEF GetBucket, Buckets

LEMMA FirstBucket == 0 \in Buckets
BY CountsAssumption DEF Buckets

LEMMA JobsAreNamed == NoJob \notin Msgs /\ AllMsgs \subseteq Msgs /\ RoomMsgs \subseteq Msgs
BY MessagesAssumption DEF Msgs

LEMMA InitTyped == ASSUME Init PROVE Typed
<1>1. << >> \in Seq(Msgs) /\ << >> \in Seq(AllMsgs) /\ Len(<< >>) = 0
  OBVIOUS
<1> QED
  BY <1>1, FirstBucket, SizesAssumption DEF Init, Typed, TypeOK, OwesOK, IdleFan, IdleWork

\* A step of a counter alone changes nothing else.
LEMMA CountsOnly ==
  ASSUME \/ \E w \in DispatchWorkers : DispatchPendingDesc(w) \/ PushJobPendingIncr(w)
         \/ \E b \in Buckets, i \in JobWorkers : PushJobPendingDesc(b, i)
  PROVE  UNCHANGED << caller, audience, dispatchChan, fan, jobChan, work, handled, conn,
                      outChan, got, full >>
BY DEF DispatchPendingDesc, PushJobPendingIncr, PushJobPendingDesc, pushing, jobs, delivery

LEMMA OwesStay == ASSUME OwesOK, UNCHANGED << fan, fanOwes, workOwes >> PROVE OwesOK'
BY DEF OwesOK

LEMMA DispatchOwes ==
  ASSUME TypeOK, NEW w \in DispatchWorkers, Dispatch(w)
  PROVE  OwesOK'
<1>0. /\ fanOwes \in [DispatchWorkers -> {"nothing", "DispatchPending", "PushJobPending"}]
      /\ \A v \in DispatchWorkers : fanOwes[v] = "PushJobPending" => fan[v] # IdleFan
      /\ fan \in [DispatchWorkers -> FanJobs] /\ workOwes \subseteq Buckets \X JobWorkers
  BY DEF TypeOK, OwesOK, FanJobs
<1>1. CASE DispatchTake(w)
  <2>1. /\ fanOwes' = [fanOwes EXCEPT ![w] = "DispatchPending"]
        /\ workOwes' = workOwes
        /\ \A v \in DispatchWorkers : v # w => fan'[v] = fan[v]
    BY <1>0, <1>1 DEF DispatchTake, jobs
  <2> QED  BY <1>0, <2>1 DEF OwesOK
<1>2. CASE DispatchPendingDesc(w)
  <2>1. /\ \/ fanOwes' = [fanOwes EXCEPT ![w] = "nothing"]
           \/ fan[w] # IdleFan /\ fanOwes' = [fanOwes EXCEPT ![w] = "PushJobPending"]
        /\ workOwes' = workOwes /\ fan' = fan
    BY <1>2 DEF DispatchPendingDesc, jobs
  <2> QED  BY <1>0, <2>1 DEF OwesOK
<1>3. CASE PushJobPendingIncr(w)
  <2>1. /\ fanOwes' = [fanOwes EXCEPT ![w] = "nothing"]
        /\ workOwes' = workOwes /\ fan' = fan
    BY <1>3 DEF PushJobPendingIncr, jobs
  <2> QED  BY <1>0, <2>1 DEF OwesOK
<1>4. CASE DispatchSend(w)
  <2>1. PICK b \in Buckets : b = fan[w].next
    BY <1>0 DEF FanJobs
  <2>2. /\ workOwes' = workOwes /\ fanOwes' = [fanOwes EXCEPT ![w] = CountNext(b)]
        /\ \A v \in DispatchWorkers : v # w => fan'[v] = fan[v]
    BY <1>0, <1>4, <2>1 DEF DispatchSend, jobs
  <2>3. CountNext(b) \in {"nothing", "PushJobPending"}
    BY DEF CountNext
  <2>4. CountNext(b) = "PushJobPending" => fan'[w] # IdleFan
    <3> SUFFICES ASSUME b # BucketCount - 1 PROVE fan'[w] # IdleFan
      BY DEF CountNext
    <3>1. fan'[w].next = b + 1
      BY <1>0, <1>4, <2>1 DEF DispatchSend, FanJobs
    <3>2. b + 1 # 0
      BY CountsAssumption DEF Buckets
    <3> QED  BY <3>1, <3>2 DEF IdleFan
  <2> QED  BY <1>0, <2>2, <2>3, <2>4 DEF OwesOK
<1> QED  BY <1>1, <1>2, <1>3, <1>4 DEF Dispatch

LEMMA JobOwes ==
  ASSUME TypeOK, NEW b \in Buckets, NEW i \in JobWorkers, Job(b, i)
  PROVE  OwesOK'
<1>1. CASE JobTake(b, i) \/ PushJobPendingDesc(b, i)
  <2>1. /\ workOwes' = workOwes \cup {<< b, i >>} \/ workOwes' = workOwes \ {<< b, i >>}
        /\ UNCHANGED << fan, fanOwes >>
    BY <1>1 DEF JobTake, PushJobPendingDesc
  <2> QED  BY <2>1 DEF TypeOK, OwesOK
<1>2. CASE JobLock(b, i) \/ JobDone(b, i) \/ \E c \in Conns : JobSend(b, i, c)
  <2>1. UNCHANGED << fan, fanOwes, workOwes >>
    BY <1>2 DEF JobLock, JobDone, JobSend, backlog
  <2> QED  BY <2>1, OwesStay DEF TypeOK
<1> QED  BY <1>1, <1>2 DEF Job

LEMMA OwesTyped == ASSUME TypeOK, [Next]_vars PROVE OwesOK'
<1>1. ASSUME UNCHANGED << fan, fanOwes, workOwes >> PROVE OwesOK'
  BY <1>1, OwesStay DEF TypeOK
<1>2. ASSUME NEW m \in Msgs, Push(m) PROVE OwesOK'
  BY <1>1, <1>2 DEF Push, PushSend, PushCount, PushRefused, backlog, jobs
<1>3. ASSUME NEW c \in Conns, AddConn(c) \/ CloseConn(c) \/ DelConn(c) \/ Write(c)
      PROVE  OwesOK'
  BY <1>1, <1>3 DEF AddConn, CloseConn, DelConn, ConnGoes, Write, backlog, jobs
<1>4. CASE UNCHANGED vars
  BY <1>1, <1>4 DEF vars, backlog, jobs
<1> QED  BY <1>2, <1>3, <1>4, DispatchOwes, JobOwes DEF Next, Idle

LEMMA PushTyped == ASSUME Typed, OwesOK', NEW m \in Msgs, Push(m) PROVE Typed'
<1>1. CASE PushSend(m)
  <2>1. dispatchChan' \in Seq(Msgs) /\ Len(dispatchChan') = Len(dispatchChan) + 1
    BY <1>1 DEF Typed, TypeOK, PushSend
  <2> QED
    BY <1>1, <2>1, SizesAssumption
       DEF Typed, TypeOK, PushSend, DispatchRoom, jobs, delivery, counters
<1>2. CASE PushCount(m)
  BY <1>2 DEF Typed, TypeOK, PushCount, jobs, delivery
<1>3. CASE PushRefused(m)
  BY <1>3 DEF Typed, TypeOK, PushRefused, jobs, delivery, backlog, counters
<1> QED  BY <1>1, <1>2, <1>3 DEF Push

\* What a dispatch worker does to fan
LEMMA FanTyped ==
  ASSUME Typed, NEW w \in DispatchWorkers, NEW f \in FanJobs,
         f.job = NoJob => f = IdleFan, fan' = [fan EXCEPT ![w] = f]
  PROVE  /\ fan' \in [DispatchWorkers -> FanJobs]
         /\ \A v \in DispatchWorkers : fan'[v].job = NoJob => fan'[v] = IdleFan
<1>1. fan \in [DispatchWorkers -> FanJobs]
  BY DEF Typed, TypeOK, FanJobs
<1> QED  BY <1>1 DEF Typed

LEMMA TakeFan ==
  ASSUME Typed, NEW w \in DispatchWorkers, DispatchTake(w)
  PROVE  \/ Head(dispatchChan) \in BadMsgs /\ fan' = fan
         \/ /\ Head(dispatchChan) \notin BadMsgs
            /\ [job |-> Head(dispatchChan), next |-> 0] \in FanJobs
            /\ fan' = [fan EXCEPT ![w] = [job |-> Head(dispatchChan), next |-> 0]]
<1>1. Head(dispatchChan) \in Msgs
  BY DEF Typed, TypeOK, DispatchTake
<1>2. fan \in [DispatchWorkers -> FanJobs] /\ fan[w] = IdleFan
  BY DEF Typed, TypeOK, FanJobs, DispatchTake
<1>3. fan = [fan EXCEPT ![w] = IdleFan]
  BY <1>2
<1> QED  BY <1>1, <1>3, FirstBucket DEF DispatchTake, FanJobs

LEMMA SendFan ==
  ASSUME Typed, NEW w \in DispatchWorkers, DispatchSend(w)
  PROVE  /\ fan[w].next \in Buckets /\ fan[w].job \in Msgs
         /\ \/ /\ fan[w].next = BucketCount - 1
               /\ fan' = [fan EXCEPT ![w] = IdleFan]
               /\ fanOwes' = [fanOwes EXCEPT ![w] = "nothing"]
            \/ /\ fan[w].next # BucketCount - 1
               /\ [job |-> fan[w].job, next |-> fan[w].next + 1] \in FanJobs
               /\ fan' = [fan EXCEPT ![w] = [job |-> fan[w].job, next |-> fan[w].next + 1]]
               /\ fanOwes' = [fanOwes EXCEPT ![w] = "PushJobPending"]
<1>1. fan[w] \in FanJobs /\ fan \in [DispatchWorkers -> FanJobs] /\ fan[w] # IdleFan
  BY DEF Typed, TypeOK, FanJobs, DispatchSend
<1>2. fan[w].next \in Buckets /\ fan[w].job \in Msgs
  BY <1>1 DEF Typed, FanJobs
<1>3. [fan[w] EXCEPT !.next = fan[w].next + 1] = [job |-> fan[w].job, next |-> fan[w].next + 1]
  BY <1>1 DEF FanJobs
<1>4. fan[w].next # BucketCount - 1 => fan[w].next + 1 \in Buckets
  BY <1>2, CountsAssumption DEF Buckets
<1> QED  BY <1>1, <1>2, <1>3, <1>4 DEF DispatchSend, CountNext, FanJobs

LEMMA IdleFanTyped == IdleFan \in FanJobs
BY FirstBucket DEF IdleFan, FanJobs

LEMMA DispatchTyped ==
  ASSUME Typed, OwesOK', NEW w \in DispatchWorkers, Dispatch(w)
  PROVE  Typed'
<1>1. CASE DispatchTake(w)
  <2>1. dispatchChan' \in Seq(Msgs) /\ Len(dispatchChan') = Len(dispatchChan) - 1
    BY <1>1 DEF Typed, TypeOK, DispatchTake
  <2>2. /\ fan' \in [DispatchWorkers -> FanJobs]
        /\ \A v \in DispatchWorkers : fan'[v].job = NoJob => fan'[v] = IdleFan
    <3>1. Head(dispatchChan) \in Msgs
      BY <1>1 DEF Typed, TypeOK, DispatchTake
    <3>2. fan \in [DispatchWorkers -> FanJobs]
      BY DEF Typed, TypeOK, FanJobs
    <3> DEFINE f == [job |-> Head(dispatchChan), next |-> 0]
    <3>3. f.job # NoJob
      BY <3>1, JobsAreNamed
    <3>4. CASE Head(dispatchChan) \in BadMsgs
      BY <1>1, <3>2, <3>4, TakeFan DEF Typed
    <3>5. CASE Head(dispatchChan) \notin BadMsgs
      <4>1. f \in FanJobs /\ fan' = [fan EXCEPT ![w] = f]
        BY <1>1, <3>5, TakeFan
      <4> HIDE DEF f
      <4> QED  BY <3>3, <4>1, FanTyped
    <3> QED  BY <3>4, <3>5
  <2> QED
    BY <1>1, <2>1, <2>2, SizesAssumption
       DEF Typed, TypeOK, FanJobs, DispatchTake, jobs, delivery, pushing, counters
<1>2. CASE DispatchSend(w)
  <2>1. fan[w].next \in Buckets /\ fan[w].job \in Msgs
    BY <1>2, SendFan
  <2>2. /\ jobChan' \in [Buckets -> Seq(Msgs)]
        /\ \A a \in Buckets : Len(jobChan'[a]) <= BucketJobChannelSize
    <3>1. jobChan' = [jobChan EXCEPT ![fan[w].next] = Append(@, fan[w].job)]
      BY <1>2 DEF DispatchSend, Enqueue
    <3>2. Len(jobChan[fan[w].next]) < BucketJobChannelSize
      BY <1>2 DEF DispatchSend, Enqueue
    <3>3. jobChan \in [Buckets -> Seq(Msgs)] /\ jobChan[fan[w].next] \in Seq(Msgs)
      BY <2>1 DEF Typed, TypeOK
    <3>4. /\ Append(jobChan[fan[w].next], fan[w].job) \in Seq(Msgs)
          /\ Len(Append(jobChan[fan[w].next], fan[w].job)) <= BucketJobChannelSize
      BY <2>1, <3>2, <3>3, SizesAssumption
    <3> QED  BY <2>1, <3>1, <3>3, <3>4 DEF Typed, TypeOK
  <2>3. PICK f \in FanJobs : fan' = [fan EXCEPT ![w] = f] /\ (f.job = NoJob => f = IdleFan)
    <3>1. CASE fan[w].next = BucketCount - 1
      BY <1>2, <3>1, SendFan, IdleFanTyped
    <3>2. CASE fan[w].next # BucketCount - 1
      <4>1. /\ [job |-> fan[w].job, next |-> fan[w].next + 1] \in FanJobs
            /\ fan' = [fan EXCEPT ![w] = [job |-> fan[w].job, next |-> fan[w].next + 1]]
        BY <1>2, <3>2, SendFan
      <4>2. fan[w].job # NoJob
        BY <2>1, JobsAreNamed
      <4> QED  BY <4>1, <4>2
    <3> QED  BY <3>1, <3>2
  <2>4. /\ fan' \in [DispatchWorkers -> FanJobs]
        /\ \A v \in DispatchWorkers : fan'[v].job = NoJob => fan'[v] = IdleFan
    BY <2>3, FanTyped
  <2>5. UNCHANGED << caller, audience, dispatchChan, dispatchPending, pushJobPending, work,
                     handled, conn, outChan, got, full >>
    BY <1>2 DEF DispatchSend, jobs, delivery, pushing, counters
  <2> QED
    BY <2>2, <2>4, <2>5 DEF Typed, TypeOK, FanJobs
<1>3. CASE DispatchPendingDesc(w) \/ PushJobPendingIncr(w)
  <2>1. UNCHANGED << caller, audience, dispatchChan, fan, jobChan, work, handled, conn,
                     outChan, got, full >>
    BY <1>3, CountsOnly
  <2>2. dispatchPending' \in Int /\ pushJobPending' \in Int
    BY <1>3 DEF DispatchPendingDesc, PushJobPendingIncr, Typed, TypeOK
  <2> QED
    BY <2>1, <2>2 DEF Typed, TypeOK
<1> QED  BY <1>1, <1>2, <1>3 DEF Dispatch

\* What a job worker does to work
WorkJobs == [job : AllMsgs \cup {NoJob}, locked : BOOLEAN, todo : SUBSET Conns]

WorkFits(b, x) ==
  /\ x \in WorkJobs
  /\ x.todo \subseteq {c \in Conns : GetBucket(c) = b}
  /\ x.job = NoJob => x = IdleWork
  /\ ~x.locked => x.todo = {}

LEMMA WorkTyped ==
  ASSUME Typed, NEW b \in Buckets, NEW i \in JobWorkers, NEW x, WorkFits(b, x),
         work' = [work EXCEPT ![b][i] = x]
  PROVE  /\ work' \in [Buckets -> [JobWorkers -> WorkJobs]]
         /\ \A a \in Buckets, j \in JobWorkers : WorkFits(a, work'[a][j])
         /\ \A a \in Buckets, j \in JobWorkers :
              work'[a][j] = IF a = b /\ j = i THEN x ELSE work[a][j]
<1>1. work \in [Buckets -> [JobWorkers -> WorkJobs]]
  BY DEF Typed, TypeOK, WorkJobs
<1>2. \A a \in Buckets, j \in JobWorkers : WorkFits(a, work[a][j])
  BY <1>1 DEF Typed, WorkFits
<1>3. \A a \in Buckets, j \in JobWorkers :
        work'[a][j] = IF a = b /\ j = i THEN x ELSE work[a][j]
  BY <1>1
<1>4. work' \in [Buckets -> [JobWorkers -> WorkJobs]]
  BY <1>1 DEF WorkFits
<1> QED  BY <1>2, <1>3, <1>4

LEMMA FitsNow ==
  ASSUME Typed, NEW b \in Buckets, NEW i \in JobWorkers
  PROVE  WorkFits(b, work[b][i]) /\ work[b][i] \in WorkJobs
BY DEF Typed, TypeOK, WorkJobs, WorkFits

LEMMA IdleFits == ASSUME NEW b PROVE WorkFits(b, IdleWork)
BY DEF WorkFits, WorkJobs, IdleWork

LEMMA WaitingFits == ASSUME NEW b, NEW m \in AllMsgs PROVE WorkFits(b, Waiting(m))
BY JobsAreNamed DEF WorkFits, WorkJobs, Waiting

LEMMA LockedFits ==
  ASSUME NEW b, NEW m \in AllMsgs, NEW todo, todo \subseteq {c \in Conns : GetBucket(c) = b}
  PROVE  WorkFits(b, Ranging(m, todo))
BY JobsAreNamed DEF WorkFits, WorkJobs, Ranging

\* The steps of a job worker, in terms of its record
LEMMA TakeWork ==
  ASSUME Typed, NEW b \in Buckets, NEW i \in JobWorkers, JobTake(b, i)
  PROVE  /\ Head(jobChan[b]) \in Msgs /\ jobChan[b] \in Seq(Msgs) /\ jobChan[b] # << >>
         /\ jobChan' = [jobChan EXCEPT ![b] = Tail(jobChan[b])]
         /\ \/ /\ Head(jobChan[b]) \in AllMsgs
               /\ work' = [work EXCEPT ![b][i] = Waiting(Head(jobChan[b]))]
               /\ handled' = handled
            \/ /\ Head(jobChan[b]) \in RoomMsgs
               /\ work' = work
               /\ handled' = handled \cup {<< Head(jobChan[b]), b >>}
<1>1. Head(jobChan[b]) \in Msgs /\ jobChan[b] \in Seq(Msgs)
  BY DEF Typed, TypeOK, JobTake
<1> QED  BY <1>1 DEF JobTake, Dequeue, Msgs

LEMMA LockWork ==
  ASSUME Typed, NEW b \in Buckets, NEW i \in JobWorkers, JobLock(b, i)
  PROVE  /\ work[b][i].job \in AllMsgs
         /\ Registered(b) \subseteq {c \in Conns : GetBucket(c) = b}
         /\ work' = [work EXCEPT ![b][i] = Ranging(work[b][i].job, Registered(b))]
<1>1. WorkFits(b, work[b][i]) /\ work[b][i] # IdleWork
  BY FitsNow DEF JobLock
<1>2. work[b][i].job \in AllMsgs
  BY <1>1 DEF WorkFits, WorkJobs
<1> QED  BY <1>2 DEF JobLock, Registered

LEMMA SendWork ==
  ASSUME Typed, NEW b \in Buckets, NEW i \in JobWorkers, NEW c \in Conns, JobSend(b, i, c)
  PROVE  /\ work[b][i].job \in AllMsgs /\ work[b][i].locked
         /\ c \in work[b][i].todo /\ GetBucket(c) = b
         /\ work[b][i].todo \subseteq {d \in Conns : GetBucket(d) = b}
         /\ work' = [work EXCEPT ![b][i] = Ranging(work[b][i].job,
                                                    work[b][i].todo \ {c})]
<1>1. WorkFits(b, work[b][i]) /\ c \in work[b][i].todo
  BY FitsNow DEF JobSend
<1>2. work[b][i].job \in AllMsgs /\ work[b][i].locked /\ GetBucket(c) = b
  BY <1>1 DEF WorkFits, WorkJobs, IdleWork
<1> QED  BY <1>1, <1>2 DEF JobSend, Rest, WorkFits

\* What comes of the message: it is sent, or it is refused.
LEMMA SentOrRefused ==
  ASSUME NEW b \in Buckets, NEW i \in JobWorkers, NEW c \in Conns, JobSend(b, i, c),
         NEW m, m = work[b][i].job
  PROVE  \/ /\ Len(outChan[c]) < OutChannelSize
            /\ outChan' = [outChan EXCEPT ![c] = Append(outChan[c], m)] /\ full' = full
         \/ conn[c] = "closed" /\ outChan' = outChan /\ full' = full
         \/ full' = [full EXCEPT ![c] = full[c] \cup {m}] /\ outChan' = outChan
BY Zenon DEF JobSend

LEMMA DoneWork ==
  ASSUME Typed, NEW b \in Buckets, NEW i \in JobWorkers, JobDone(b, i)
  PROVE  /\ work[b][i].job \in AllMsgs /\ work[b][i].locked /\ work[b][i].todo = {}
         /\ work' = [work EXCEPT ![b][i] = IdleWork]
         /\ handled' = handled \cup {<< work[b][i].job, b >>}
BY FitsNow DEF JobDone, WorkFits, WorkJobs, IdleWork

LEMMA JobTyped ==
  ASSUME Typed, OwesOK', NEW b \in Buckets, NEW i \in JobWorkers, Job(b, i)
  PROVE  Typed'
<1> DEFINE Works(x) == WorkFits(b, x) /\ work' = [work EXCEPT ![b][i] = x]
<1> HIDE DEF Works
<1>1. ASSUME NEW x, Works(x)
      PROVE  /\ work' \in [Buckets -> [JobWorkers -> WorkJobs]]
             /\ \A a \in Buckets, j \in JobWorkers : WorkFits(a, work'[a][j])
  BY <1>1, WorkTyped DEF Works
<1>2. ASSUME NEW x, Works(x), UNCHANGED << caller, audience, dispatchChan, fan,
                                           dispatchPending, conn, got >>,
             jobChan' \in [Buckets -> Seq(Msgs)],
             \A a \in Buckets : Len(jobChan'[a]) <= BucketJobChannelSize,
             outChan' \in [Conns -> Seq(AllMsgs)],
             \A c \in Conns : Len(outChan'[c]) <= OutChannelSize,
             pushJobPending' \in Int, handled' \subseteq Msgs \X Buckets,
             full' \in [Conns -> SUBSET AllMsgs]
      PROVE  Typed'
  BY <1>1, <1>2 DEF Typed, TypeOK, WorkFits, WorkJobs
<1>3. CASE JobTake(b, i)
  <2>1. /\ jobChan' \in [Buckets -> Seq(Msgs)]
        /\ \A a \in Buckets : Len(jobChan'[a]) <= BucketJobChannelSize
    <3>1. Tail(jobChan[b]) \in Seq(Msgs) /\ Len(Tail(jobChan[b])) <= Len(jobChan[b])
      BY <1>3, TakeWork
    <3>2. jobChan' = [jobChan EXCEPT ![b] = Tail(jobChan[b])]
      BY <1>3, TakeWork
    <3>3. /\ jobChan \in [Buckets -> Seq(Msgs)]
          /\ \A a \in Buckets : Len(jobChan[a]) <= BucketJobChannelSize
      BY DEF Typed, TypeOK
    <3> QED  BY <3>1, <3>2, <3>3, SizesAssumption
  <2>2. PICK x : Works(x)
    <3>1. CASE Head(jobChan[b]) \in AllMsgs
      <4>1. work' = [work EXCEPT ![b][i] = Waiting(Head(jobChan[b]))]
        BY <1>3, <3>1, TakeWork, MessagesAssumption
      <4> QED  BY <3>1, <4>1, WaitingFits DEF Works
    <3>2. CASE Head(jobChan[b]) \in RoomMsgs
      <4>1. work' = work
        BY <1>3, <3>2, TakeWork, MessagesAssumption
      <4>2. work = [work EXCEPT ![b][i] = work[b][i]]
        BY DEF Typed, TypeOK
      <4> QED  BY <4>1, <4>2, FitsNow DEF Works
    <3> QED  BY <1>3, <3>1, <3>2, TakeWork
  <2>3. handled' \subseteq Msgs \X Buckets
    <3>1. handled \subseteq Msgs \X Buckets
      BY DEF Typed, TypeOK
    <3> QED  BY <1>3, <3>1, TakeWork
  <2>4. UNCHANGED << caller, audience, dispatchChan, fan, dispatchPending, conn, got,
                     outChan, full >>
    BY <1>3 DEF JobTake, pushing, delivery, counters
  <2>5. /\ outChan' \in [Conns -> Seq(AllMsgs)] /\ pushJobPending' \in Int
        /\ \A c \in Conns : Len(outChan'[c]) <= OutChannelSize
        /\ full' \in [Conns -> SUBSET AllMsgs]
    BY <1>3, <2>4 DEF Typed, TypeOK, JobTake, counters
  <2> QED  BY <1>2, <2>1, <2>2, <2>3, <2>4, <2>5
<1>4. CASE JobLock(b, i)
  <2>1. PICK x : Works(x)
    BY <1>4, LockWork, LockedFits DEF Works
  <2>2. UNCHANGED << caller, audience, dispatchChan, fan, dispatchPending, conn, got,
                     outChan, full, jobChan, pushJobPending, handled >>
    BY <1>4 DEF JobLock, pushing, delivery, backlog, counters
  <2>3. /\ jobChan' \in [Buckets -> Seq(Msgs)]
        /\ \A a \in Buckets : Len(jobChan'[a]) <= BucketJobChannelSize
    BY <2>2 DEF Typed, TypeOK
  <2>4. /\ outChan' \in [Conns -> Seq(AllMsgs)] /\ pushJobPending' \in Int
        /\ \A c \in Conns : Len(outChan'[c]) <= OutChannelSize
        /\ full' \in [Conns -> SUBSET AllMsgs] /\ handled' \subseteq Msgs \X Buckets
    BY <2>2 DEF Typed, TypeOK
  <2>5. UNCHANGED << caller, audience, dispatchChan, fan, dispatchPending, conn, got >>
    BY <2>2
  <2> QED  BY <1>2, <2>1, <2>3, <2>4, <2>5
<1>5. CASE \E c \in Conns : JobSend(b, i, c)
  <2>1. PICK c \in Conns : JobSend(b, i, c)
    BY <1>5
  <2>2. PICK x : Works(x)
    <3>1. /\ work[b][i].job \in AllMsgs
          /\ work[b][i].todo \ {c} \subseteq {d \in Conns : GetBucket(d) = b}
          /\ work' = [work EXCEPT ![b][i] = Ranging(work[b][i].job,
                                                     work[b][i].todo \ {c})]
      BY <2>1, SendWork
    <3> QED  BY <3>1, LockedFits DEF Works
  <2>3. UNCHANGED << caller, audience, dispatchChan, fan, dispatchPending, conn, got,
                     jobChan, pushJobPending, handled >>
    BY <2>1 DEF JobSend, pushing, backlog, counters
  <2>4. /\ outChan' \in [Conns -> Seq(AllMsgs)]
        /\ \A d \in Conns : Len(outChan'[d]) <= OutChannelSize
        /\ full' \in [Conns -> SUBSET AllMsgs]
    <3>1. /\ outChan \in [Conns -> Seq(AllMsgs)] /\ full \in [Conns -> SUBSET AllMsgs]
          /\ \A d \in Conns : Len(outChan[d]) <= OutChannelSize
      BY DEF Typed, TypeOK
    <3>2. work[b][i].job \in AllMsgs
      BY <2>1, SendWork
    <3>3. /\ Append(outChan[c], work[b][i].job) \in Seq(AllMsgs)
          /\ Len(Append(outChan[c], work[b][i].job)) = Len(outChan[c]) + 1
      BY <3>1, <3>2
    <3>4. \/ /\ Len(outChan[c]) < OutChannelSize
             /\ outChan' = [outChan EXCEPT ![c] = Append(outChan[c], work[b][i].job)]
             /\ full' = full
          \/ conn[c] = "closed" /\ outChan' = outChan /\ full' = full
          \/ /\ full' = [full EXCEPT ![c] = full[c] \cup {work[b][i].job}]
             /\ outChan' = outChan
      BY <2>1, SentOrRefused
    <3>5. full' \in [Conns -> SUBSET AllMsgs]
      BY <3>1, <3>2, <3>4
    <3>6. CASE outChan' = outChan
      BY <3>1, <3>5, <3>6
    <3>7. CASE /\ Len(outChan[c]) < OutChannelSize
               /\ outChan' = [outChan EXCEPT ![c] = Append(outChan[c], work[b][i].job)]
      BY <3>1, <3>3, <3>5, <3>7, SizesAssumption
    <3> QED  BY <3>4, <3>6, <3>7
  <2>5. /\ jobChan' \in [Buckets -> Seq(Msgs)] /\ pushJobPending' \in Int
        /\ \A a \in Buckets : Len(jobChan'[a]) <= BucketJobChannelSize
        /\ handled' \subseteq Msgs \X Buckets
    BY <2>3 DEF Typed, TypeOK
  <2> QED  BY <1>2, <2>2, <2>3, <2>4, <2>5
<1>6. CASE JobDone(b, i)
  <2>1. PICK x : Works(x)
    BY <1>6, DoneWork, IdleFits DEF Works
  <2>2. UNCHANGED << caller, audience, dispatchChan, fan, dispatchPending, conn, got,
                     outChan, full, jobChan, pushJobPending >>
    BY <1>6 DEF JobDone, pushing, delivery, backlog, counters
  <2>3. handled' \subseteq Msgs \X Buckets
    BY <1>6, DoneWork, JobsAreNamed DEF Typed, TypeOK
  <2> QED  BY <1>2, <2>1, <2>2, <2>3 DEF Typed, TypeOK
<1>7. CASE PushJobPendingDesc(b, i)
  <2>1. UNCHANGED << caller, audience, dispatchChan, fan, jobChan, work, handled, conn,
                     outChan, got, full >>
    BY <1>7, CountsOnly
  <2>2. dispatchPending' \in Int /\ pushJobPending' \in Int
    BY <1>7 DEF PushJobPendingDesc, Typed, TypeOK
  <2> QED
    BY <2>1, <2>2 DEF Typed, TypeOK
<1> QED  BY <1>3, <1>4, <1>5, <1>6, <1>7 DEF Job

LEMMA ConnTyped ==
  ASSUME Typed, OwesOK', NEW c \in Conns, AddConn(c) \/ CloseConn(c) \/ DelConn(c) \/ Write(c)
  PROVE  Typed'
<1>1. CASE Write(c)
  <2>1. /\ outChan \in [Conns -> Seq(AllMsgs)] /\ got \in [Conns -> Seq(AllMsgs)]
        /\ \A d \in Conns : Len(outChan[d]) <= OutChannelSize
    BY DEF Typed, TypeOK
  <2>2. /\ Head(outChan[c]) \in AllMsgs /\ Tail(outChan[c]) \in Seq(AllMsgs)
        /\ Len(Tail(outChan[c])) <= Len(outChan[c])
    BY <1>1, <2>1 DEF Write
  <2>3. /\ outChan' = [outChan EXCEPT ![c] = Tail(outChan[c])]
        /\ got' = [got EXCEPT ![c] = Append(got[c], Head(outChan[c]))]
    BY <1>1 DEF Write
  <2>4. /\ outChan' \in [Conns -> Seq(AllMsgs)] /\ got' \in [Conns -> Seq(AllMsgs)]
        /\ \A d \in Conns : Len(outChan'[d]) <= OutChannelSize
    BY <2>1, <2>2, <2>3, SizesAssumption
  <2>5. UNCHANGED << caller, audience, dispatchChan, fan, jobChan, dispatchPending,
                     pushJobPending, work, handled, conn, full >>
    BY <1>1 DEF Write, pushing, backlog, counters, jobs
  <2> QED  BY <2>4, <2>5 DEF Typed, TypeOK
<1>2. CASE AddConn(c) \/ CloseConn(c) \/ DelConn(c)
  <2>1. \E to \in {"open", "closed", "gone"} : conn' = [conn EXCEPT ![c] = to]
    BY <1>2 DEF AddConn, CloseConn, DelConn, ConnGoes
  <2>2. UNCHANGED << caller, audience, dispatchChan, fan, jobChan, dispatchPending,
                     pushJobPending, work, handled, outChan, got, full >>
    BY <1>2 DEF AddConn, CloseConn, DelConn, ConnGoes, pushing, backlog, counters, jobs
  <2> QED  BY <2>1, <2>2 DEF Typed, TypeOK
<1> QED  BY <1>1, <1>2

LEMMA StutterTyped == ASSUME Typed, OwesOK', UNCHANGED vars PROVE Typed'
BY DEF Typed, TypeOK, vars, pushing, backlog, counters, jobs, delivery

LEMMA NextTyped == ASSUME Typed, [Next]_vars PROVE Typed'
<1>1. OwesOK'
  BY OwesTyped DEF Typed
<1> QED
  BY <1>1, PushTyped, DispatchTyped, JobTyped, ConnTyped, StutterTyped DEF Next, Idle

\* Every channel keeps within its capacity and holds messages, and every
\* variable keeps its type, for any numbers of workers, buckets and connections.
THEOREM TypeCorrect == Spec => []TypeOK
<1>1. Init => Typed
  BY InitTyped
<1>2. Typed /\ [Next]_vars => Typed'
  BY NextTyped
<1>3. Typed => TypeOK
  BY DEF Typed
<1> QED  BY <1>1, <1>2, <1>3, PTL DEF Spec

-----------------------------------------------------------------------------
(* PushJobPending *)

LEMMA FiniteBacklog ==
  IsFiniteSet(Sending) /\ IsFiniteSet(Queued) /\ (TypeOK => IsFiniteSet(workOwes))
<1>1. IsFiniteSet(Sending)
  BY CountsAssumption, FS_Subset DEF Sending
<1>2. IsFiniteSet(Buckets) /\ IsFiniteSet(1 .. BucketJobChannelSize)
  BY CountsAssumption, SizesAssumption, FS_Interval DEF Buckets
<1>3. IsFiniteSet(Buckets \X (1 .. BucketJobChannelSize))
  BY <1>2, FS_Product
<1>4. IsFiniteSet(Buckets \X JobWorkers)
  BY <1>2, CountsAssumption, FS_Product
<1>5. TypeOK => workOwes \subseteq Buckets \X JobWorkers
  BY DEF TypeOK, OwesOK
<1> QED  BY <1>1, <1>3, <1>4, <1>5, FS_Subset DEF Queued

\* A place more: the channel of b is one longer.
LEMMA QueuedGrows ==
  ASSUME Typed, NEW b \in Buckets, NEW m \in Msgs,
         Len(jobChan[b]) < BucketJobChannelSize,
         jobChan' = [jobChan EXCEPT ![b] = Append(jobChan[b], m)]
  PROVE  Cardinality(Queued') = Cardinality(Queued) + 1
<1> DEFINE place == << b, Len(jobChan[b]) + 1 >>
<1>1. jobChan \in [Buckets -> Seq(Msgs)]
  BY DEF Typed, TypeOK
<1>2. \A a \in Buckets : Len(jobChan'[a]) = IF a = b THEN Len(jobChan[a]) + 1
                                                     ELSE Len(jobChan[a])
  BY <1>1
<1>3. Len(jobChan[b]) \in Nat
  BY <1>1
<1>4. Queued' = Queued \cup {place}
  <2>1. place \in Buckets \X (1 .. BucketJobChannelSize)
    BY <1>3, SizesAssumption
  <2>2. ASSUME NEW bi \in Buckets \X (1 .. BucketJobChannelSize)
        PROVE  bi \in Queued' <=> bi \in Queued \cup {place}
    <3>1. bi[1] \in Buckets /\ bi[2] \in Int /\ bi = << bi[1], bi[2] >>
      BY <2>2
    <3>2. Len(jobChan[bi[1]]) \in Nat
      BY <1>1, <3>1
    <3>3. bi = place <=> bi[1] = b /\ bi[2] = Len(jobChan[b]) + 1
      BY <3>1
    <3>4. CASE bi[1] = b
      BY <1>2, <1>3, <3>1, <3>3, <3>4 DEF Queued
    <3>5. CASE bi[1] # b
      BY <1>2, <3>1, <3>3, <3>5 DEF Queued
    <3> QED  BY <3>4, <3>5
  <2> QED  BY <2>1, <2>2 DEF Queued
<1>5. place \notin Queued
  BY <1>3 DEF Queued
<1> QED  BY <1>4, <1>5, FiniteBacklog, FS_AddElement

\* A place less: the channel of b is one shorter.
LEMMA QueuedShrinks ==
  ASSUME Typed, NEW b \in Buckets, jobChan[b] # << >>,
         jobChan' = [jobChan EXCEPT ![b] = Tail(jobChan[b])]
  PROVE  Cardinality(Queued') = Cardinality(Queued) - 1
<1> DEFINE place == << b, Len(jobChan[b]) >>
<1>1. jobChan \in [Buckets -> Seq(Msgs)] /\ Len(jobChan[b]) <= BucketJobChannelSize
  BY DEF Typed, TypeOK
<1>2. Len(jobChan[b]) \in Nat \ {0} /\ Len(Tail(jobChan[b])) = Len(jobChan[b]) - 1
  BY <1>1
<1>3. \A a \in Buckets : Len(jobChan'[a]) = IF a = b THEN Len(jobChan[a]) - 1
                                                     ELSE Len(jobChan[a])
  BY <1>1, <1>2
<1>4. place \in Queued
  BY <1>1, <1>2, SizesAssumption DEF Queued
<1>5. Queued' = Queued \ {place}
  <2>1. ASSUME NEW bi \in Buckets \X (1 .. BucketJobChannelSize)
        PROVE  bi \in Queued' <=> bi \in Queued \ {place}
    <3>1. bi[1] \in Buckets /\ bi[2] \in Int /\ bi = << bi[1], bi[2] >>
      BY <2>1
    <3>2. Len(jobChan[bi[1]]) \in Nat
      BY <1>1, <3>1
    <3>3. bi = place <=> bi[1] = b /\ bi[2] = Len(jobChan[b])
      BY <3>1
    <3>4. CASE bi[1] = b
      BY <1>2, <1>3, <3>1, <3>3, <3>4 DEF Queued
    <3>5. CASE bi[1] # b
      BY <1>3, <3>1, <3>3, <3>5 DEF Queued
    <3> QED  BY <3>4, <3>5
  <2> QED  BY <2>1 DEF Queued
<1> QED  BY <1>4, <1>5, FiniteBacklog, FS_RemoveElement

JobsCounted == Typed /\ JobPendingIsBacklog

LEMMA Cardinals ==
  ASSUME JobsCounted
  PROVE  /\ Cardinality(Queued) \in Nat /\ Cardinality(Sending) \in Nat
         /\ Cardinality(workOwes) \in Nat
         /\ pushJobPending =
              Cardinality(Queued) + Cardinality(Sending) + Cardinality(workOwes)
BY FiniteBacklog, FS_CardinalityType DEF JobsCounted, Typed, JobPendingIsBacklog

LEMMA BacklogStays ==
  ASSUME JobPendingIsBacklog, jobChan' = jobChan, Sending' = Sending,
         workOwes' = workOwes, pushJobPending' = pushJobPending
  PROVE  JobPendingIsBacklog'
BY DEF JobPendingIsBacklog, Queued

\* A job in a worker's hands is counted when the worker owes the counter no more.
LEMMA DispatchCounted ==
  ASSUME JobsCounted, NEW w \in DispatchWorkers, Dispatch(w)
  PROVE  JobPendingIsBacklog'
<1>0. /\ fanOwes \in [DispatchWorkers -> {"nothing", "DispatchPending", "PushJobPending"}]
      /\ fanOwes[w] = "PushJobPending" => fan[w] # IdleFan
      /\ fan \in [DispatchWorkers -> FanJobs]
  BY DEF JobsCounted, Typed, TypeOK, OwesOK, FanJobs
<1>1. CASE DispatchTake(w)
  <2>1. /\ fan[w] = IdleFan /\ fanOwes' = [fanOwes EXCEPT ![w] = "DispatchPending"]
        /\ \A v \in DispatchWorkers : v # w => fan'[v] = fan[v]
        /\ UNCHANGED << jobChan, workOwes, pushJobPending >>
    BY <1>0, <1>1 DEF DispatchTake, jobs, counters
  <2>2. \A v \in DispatchWorkers :
          v # w => (v \in Sending' <=> v \in Sending)
    BY <1>0, <2>1 DEF Sending
  <2>3. w \notin Sending /\ w \notin Sending'
    BY <1>0, <2>1 DEF Sending
  <2>4. Sending' = Sending
    BY <2>2, <2>3 DEF Sending
  <2> QED  BY <2>1, <2>4, BacklogStays DEF JobsCounted
<1>2. CASE DispatchPendingDesc(w)
  <2>1. /\ fan' = fan /\ fanOwes[w] = "DispatchPending"
        /\ fanOwes' = [fanOwes EXCEPT ![w] = IF fan[w] = IdleFan THEN "nothing"
                                             ELSE "PushJobPending"]
        /\ UNCHANGED << jobChan, workOwes, pushJobPending >>
    BY <1>2 DEF DispatchPendingDesc, jobs
  <2>2. Sending' = Sending
    BY <1>0, <2>1 DEF Sending
  <2> QED  BY <2>1, <2>2, BacklogStays DEF JobsCounted
<1>3. CASE PushJobPendingIncr(w)
  <2>1. /\ fan' = fan /\ fanOwes[w] = "PushJobPending"
        /\ fanOwes' = [fanOwes EXCEPT ![w] = "nothing"]
        /\ UNCHANGED << jobChan, workOwes >> /\ pushJobPending' = pushJobPending + 1
    BY <1>3 DEF PushJobPendingIncr, jobs
  <2>2. Sending' = Sending \cup {w} /\ w \notin Sending
    BY <1>0, <2>1 DEF Sending
  <2>3. Cardinality(Sending') = Cardinality(Sending) + 1
    BY <2>2, FiniteBacklog, FS_AddElement
  <2>4. Queued' = Queued
    BY <2>1 DEF Queued
  <2> QED  BY <2>1, <2>3, <2>4, Cardinals DEF JobPendingIsBacklog
<1>4. CASE DispatchSend(w)
  <2>1. PICK b \in Buckets : b = fan[w].next
    BY <1>4, SendFan DEF JobsCounted
  <2>2. PICK m \in Msgs : m = fan[w].job
    BY <1>4, SendFan DEF JobsCounted
  <2>3. /\ Len(jobChan[b]) < BucketJobChannelSize
        /\ jobChan' = [jobChan EXCEPT ![b] = Append(jobChan[b], m)]
        /\ fan[w] # IdleFan /\ fanOwes[w] = "nothing"
        /\ UNCHANGED << workOwes, pushJobPending >>
    BY <1>4, <2>1, <2>2 DEF DispatchSend, Enqueue, jobs, counters
  <2>4. Cardinality(Queued') = Cardinality(Queued) + 1
    BY <2>3, QueuedGrows DEF JobsCounted
  <2>5. fan'[w] = IdleFan \/ fanOwes'[w] = "PushJobPending"
    BY <1>0, <1>4, SendFan DEF JobsCounted
  <2>6. \A v \in DispatchWorkers : v # w => fan'[v] = fan[v] /\ fanOwes'[v] = fanOwes[v]
    <3>1. /\ \E f : fan' = [fan EXCEPT ![w] = f]
          /\ \E o : fanOwes' = [fanOwes EXCEPT ![w] = o]
      BY <1>4, SendFan DEF JobsCounted
    <3>2. DOMAIN fan = DispatchWorkers /\ DOMAIN fanOwes = DispatchWorkers
      BY <1>0
    <3> QED
      BY ONLY <3>1, <3>2
  <2>7. Sending' = Sending \ {w} /\ w \in Sending
    BY <2>3, <2>5, <2>6 DEF Sending
  <2>8. Cardinality(Sending') = Cardinality(Sending) - 1
    BY <2>7, FiniteBacklog, FS_RemoveElement
  <2> QED  BY <2>3, <2>4, <2>8, Cardinals DEF JobPendingIsBacklog
<1> QED  BY <1>1, <1>2, <1>3, <1>4 DEF Dispatch

LEMMA JobCounted ==
  ASSUME JobsCounted, NEW b \in Buckets, NEW i \in JobWorkers, Job(b, i)
  PROVE  JobPendingIsBacklog'
<1>0. IsFiniteSet(workOwes)
  BY FiniteBacklog DEF JobsCounted, Typed
<1>1. CASE JobTake(b, i)
  <2>1. jobChan[b] # << >> /\ jobChan' = [jobChan EXCEPT ![b] = Tail(jobChan[b])]
    BY <1>1, TakeWork DEF JobsCounted
  <2>2. /\ workOwes' = workOwes \cup {<< b, i >>} /\ << b, i >> \notin workOwes
        /\ UNCHANGED << fan, fanOwes, pushJobPending >>
    BY <1>1 DEF JobTake, Ready, counters
  <2>3. Cardinality(workOwes') = Cardinality(workOwes) + 1
    BY <1>0, <2>2, FS_AddElement
  <2>4. Cardinality(Queued') = Cardinality(Queued) - 1
    BY <2>1, QueuedShrinks DEF JobsCounted
  <2>5. Sending' = Sending
    BY <2>2 DEF Sending
  <2> QED  BY <2>2, <2>3, <2>4, <2>5, Cardinals DEF JobPendingIsBacklog
<1>2. CASE PushJobPendingDesc(b, i)
  <2>1. /\ workOwes' = workOwes \ {<< b, i >>} /\ << b, i >> \in workOwes
        /\ UNCHANGED << fan, fanOwes, jobChan >> /\ pushJobPending' = pushJobPending - 1
    BY <1>2 DEF PushJobPendingDesc
  <2>2. Cardinality(workOwes') = Cardinality(workOwes) - 1
    BY <1>0, <2>1, FS_RemoveElement
  <2>3. Sending' = Sending /\ Queued' = Queued
    BY <2>1 DEF Sending, Queued
  <2> QED  BY <2>1, <2>2, <2>3, Cardinals DEF JobPendingIsBacklog
<1>3. CASE JobLock(b, i) \/ JobDone(b, i) \/ \E c \in Conns : JobSend(b, i, c)
  <2>1. UNCHANGED << fan, fanOwes, workOwes, jobChan, pushJobPending >>
    BY <1>3 DEF JobLock, JobDone, JobSend, backlog, counters
  <2>2. Sending' = Sending
    BY <2>1 DEF Sending
  <2> QED  BY <2>1, <2>2, BacklogStays DEF JobsCounted
<1> QED  BY <1>1, <1>2, <1>3 DEF Job

LEMMA NextCounted == ASSUME JobsCounted, [Next]_vars PROVE JobsCounted'
<1>1. Typed'
  BY NextTyped DEF JobsCounted
<1>2. ASSUME UNCHANGED << fan, fanOwes, workOwes, jobChan, pushJobPending >>
      PROVE  JobPendingIsBacklog'
  <2>1. Sending' = Sending
    BY <1>2 DEF Sending
  <2> QED  BY <1>2, <2>1, BacklogStays DEF JobsCounted
<1>3. ASSUME NEW m \in Msgs, Push(m) PROVE JobPendingIsBacklog'
  BY <1>2, <1>3 DEF Push, PushSend, PushCount, PushRefused, counters, backlog, jobs
<1>4. ASSUME NEW c \in Conns, AddConn(c) \/ CloseConn(c) \/ DelConn(c) \/ Write(c)
      PROVE  JobPendingIsBacklog'
  BY <1>2, <1>4 DEF AddConn, CloseConn, DelConn, ConnGoes, Write, backlog, counters, jobs
<1>5. ASSUME UNCHANGED vars PROVE JobPendingIsBacklog'
  BY <1>2, <1>5 DEF vars, backlog, counters, jobs
<1> QED
  BY <1>1, <1>3, <1>4, <1>5, DispatchCounted, JobCounted DEF JobsCounted, Next, Idle

LEMMA InitCounted == ASSUME Init PROVE JobsCounted
<1>1. Sending = {} /\ workOwes = {}
  BY DEF Init, Sending
<1>2. Queued = {}
  <2>1. \A b \in Buckets : Len(jobChan[b]) = 0
    BY DEF Init
  <2> QED  BY <2>1 DEF Queued
<1>3. pushJobPending = 0
  BY DEF Init
<1> QED
  BY <1>1, <1>2, <1>3, FS_EmptySet, InitTyped DEF JobsCounted, JobPendingIsBacklog

\* PushJobPending is at every moment the jobs in the buckets' channels and those
\* in the hands of the workers between a count and a send or a receive and a
\* count, of whatever workers in whatever order.
THEOREM PushJobsCounted == Spec => []JobPendingIsBacklog
<1>1. Init => JobsCounted
  BY InitCounted
<1>2. JobsCounted /\ [Next]_vars => JobsCounted'
  BY NextCounted
<1>3. JobsCounted => JobPendingIsBacklog
  BY DEF JobsCounted
<1> QED  BY <1>1, <1>2, <1>3, PTL DEF Spec

-----------------------------------------------------------------------------
(* DispatchPending *)

\* Only finitely many messages have been pushed, however many there may be.
PushesCounted ==
  /\ Typed
  /\ IsFiniteSet(Uncounted) /\ IsFiniteSet(NeverCounted)
  /\ DispatchPendingIsBacklog

LEMMA Pushes ==
  ASSUME PushesCounted
  PROVE  /\ Cardinality(Uncounted) \in Nat /\ Cardinality(NeverCounted) \in Nat
         /\ Cardinality(Overcounting) \in Nat /\ IsFiniteSet(Overcounting)
         /\ dispatchPending \in Int /\ Len(dispatchChan) \in Nat
         /\ dispatchPending + Cardinality(Uncounted) + Cardinality(NeverCounted)
              = Len(dispatchChan) + Cardinality(Overcounting)
<1>1. IsFiniteSet(Overcounting)
  BY CountsAssumption, FS_Subset DEF Overcounting
<1> QED
  BY <1>1, FS_CardinalityType
     DEF PushesCounted, Typed, TypeOK, DispatchPendingIsBacklog

LEMMA InitPushes == ASSUME Init PROVE PushesCounted
<1>1. /\ Uncounted = {} /\ NeverCounted = {} /\ Overcounting = {}
      /\ Len(dispatchChan) = 0 /\ dispatchPending = 0
  BY JobsAreNamed DEF Init, Uncounted, NeverCounted, Overcounting
<1> QED
  BY <1>1, FS_EmptySet, InitTyped DEF PushesCounted, DispatchPendingIsBacklog

LEMMA PushSendPushes ==
  ASSUME PushesCounted, Typed', NEW m \in Msgs, PushSend(m)
  PROVE  PushesCounted'
<1>9. /\ Cardinality(Uncounted) \in Nat /\ Cardinality(NeverCounted) \in Nat
      /\ Cardinality(Overcounting) \in Nat
      /\ dispatchPending \in Int /\ Len(dispatchChan) \in Nat
      /\ dispatchPending + Cardinality(Uncounted) + Cardinality(NeverCounted)
           = Len(dispatchChan) + Cardinality(Overcounting)
  BY Pushes
<1>1. caller' = [caller EXCEPT ![m] = "sent"] /\ caller[m] = "new"
  BY DEF PushSend
<1>2. caller \in [Msgs -> {"new", "sent", "accepted", "refused"}]
  BY DEF PushesCounted, Typed, TypeOK
<1>3. /\ dispatchPending' = dispatchPending /\ Len(dispatchChan') = Len(dispatchChan) + 1
      /\ fanOwes' = fanOwes
  BY DEF PushSend, counters, PushesCounted, Typed, TypeOK
<1>4. Overcounting' = Overcounting
  BY <1>3 DEF Overcounting
<1>5. CASE m \in AllMsgs
  <2>1. Uncounted' = Uncounted \cup {m} /\ m \notin Uncounted
    BY <1>1, <1>2, <1>5, JobsAreNamed DEF Uncounted
  <2>2. NeverCounted' = NeverCounted
    BY <1>1, <1>2, <1>5, MessagesAssumption, JobsAreNamed DEF NeverCounted
  <2>3. IsFiniteSet(Uncounted') /\ Cardinality(Uncounted') = Cardinality(Uncounted) + 1
    BY <2>1, FS_AddElement DEF PushesCounted
  <2> QED
    BY <1>3, <1>4, <2>2, <2>3, <1>9 DEF PushesCounted, DispatchPendingIsBacklog
<1>6. CASE m \in RoomMsgs
  <2>1. NeverCounted' = NeverCounted \cup {m} /\ m \notin NeverCounted
    BY <1>1, <1>2, <1>6, JobsAreNamed DEF NeverCounted
  <2>2. Uncounted' = Uncounted
    BY <1>1, <1>2, <1>6, MessagesAssumption, JobsAreNamed DEF Uncounted
  <2>3. /\ IsFiniteSet(NeverCounted')
        /\ Cardinality(NeverCounted') = Cardinality(NeverCounted) + 1
    BY <2>1, FS_AddElement DEF PushesCounted
  <2> QED
    BY <1>3, <1>4, <2>2, <2>3, <1>9 DEF PushesCounted, DispatchPendingIsBacklog
<1> QED  BY <1>5, <1>6 DEF Msgs

LEMMA PushCountPushes ==
  ASSUME PushesCounted, Typed', NEW m \in Msgs, PushCount(m)
  PROVE  PushesCounted'
<1>9. /\ Cardinality(Uncounted) \in Nat /\ Cardinality(NeverCounted) \in Nat
      /\ Cardinality(Overcounting) \in Nat
      /\ dispatchPending \in Int /\ Len(dispatchChan) \in Nat
      /\ dispatchPending + Cardinality(Uncounted) + Cardinality(NeverCounted)
           = Len(dispatchChan) + Cardinality(Overcounting)
  BY Pushes
<1>1. caller' = [caller EXCEPT ![m] = "accepted"] /\ caller[m] = "sent"
  BY DEF PushCount
<1>2. caller \in [Msgs -> {"new", "sent", "accepted", "refused"}]
  BY DEF PushesCounted, Typed, TypeOK
<1>3. dispatchChan' = dispatchChan /\ fanOwes' = fanOwes
  BY DEF PushCount
<1>4. Overcounting' = Overcounting
  BY <1>3 DEF Overcounting
<1>5. NeverCounted' = NeverCounted
  BY <1>1, <1>2, JobsAreNamed DEF NeverCounted
<1>6. CASE m \in AllMsgs
  <2>1. Uncounted' = Uncounted \ {m} /\ m \in Uncounted
    BY <1>1, <1>2, <1>6, JobsAreNamed DEF Uncounted
  <2>2. IsFiniteSet(Uncounted') /\ Cardinality(Uncounted') = Cardinality(Uncounted) - 1
    BY <2>1, FS_RemoveElement DEF PushesCounted
  <2>3. dispatchPending' = dispatchPending + 1
    BY <1>6 DEF PushCount
  <2> QED
    BY <1>3, <1>4, <1>5, <2>2, <2>3, <1>9 DEF PushesCounted, DispatchPendingIsBacklog
<1>7. CASE m \notin AllMsgs
  <2>1. Uncounted' = Uncounted
    BY <1>1, <1>2, <1>7, JobsAreNamed DEF Uncounted
  <2>2. dispatchPending' = dispatchPending
    BY <1>7 DEF PushCount
  <2> QED
    BY <1>3, <1>4, <1>5, <2>1, <2>2 DEF PushesCounted, DispatchPendingIsBacklog
<1> QED  BY <1>6, <1>7

LEMMA PushRefusedPushes ==
  ASSUME PushesCounted, Typed', NEW m \in Msgs, PushRefused(m)
  PROVE  PushesCounted'
<1>1. caller' = [caller EXCEPT ![m] = "refused"] /\ caller[m] = "new"
  BY DEF PushRefused
<1>2. caller \in [Msgs -> {"new", "sent", "accepted", "refused"}]
  BY DEF PushesCounted, Typed, TypeOK
<1>3. Uncounted' = Uncounted /\ NeverCounted' = NeverCounted
  BY <1>1, <1>2, JobsAreNamed DEF Uncounted, NeverCounted
<1>4. UNCHANGED << dispatchChan, dispatchPending, fanOwes >>
  BY DEF PushRefused, backlog, counters
<1> QED
  BY <1>3, <1>4 DEF PushesCounted, DispatchPendingIsBacklog, Overcounting

LEMMA DispatchPushes ==
  ASSUME PushesCounted, Typed', NEW w \in DispatchWorkers, Dispatch(w)
  PROVE  PushesCounted'
<1>9. /\ Cardinality(Uncounted) \in Nat /\ Cardinality(NeverCounted) \in Nat
      /\ Cardinality(Overcounting) \in Nat
      /\ dispatchPending \in Int /\ Len(dispatchChan) \in Nat
      /\ dispatchPending + Cardinality(Uncounted) + Cardinality(NeverCounted)
           = Len(dispatchChan) + Cardinality(Overcounting)
  BY Pushes
<1>0. fanOwes \in [DispatchWorkers -> {"nothing", "DispatchPending", "PushJobPending"}]
  BY DEF PushesCounted, Typed, TypeOK, OwesOK
<1>1. Uncounted' = Uncounted /\ NeverCounted' = NeverCounted
  BY DEF Dispatch, DispatchTake, DispatchPendingDesc, PushJobPendingIncr, DispatchSend,
         pushing, Uncounted, NeverCounted
<1>2. CASE DispatchTake(w)
  <2>1. /\ fanOwes[w] = "nothing" /\ fanOwes' = [fanOwes EXCEPT ![w] = "DispatchPending"]
        /\ dispatchPending' = dispatchPending
        /\ Len(dispatchChan') = Len(dispatchChan) - 1
    BY <1>2 DEF DispatchTake, counters, PushesCounted, Typed, TypeOK
  <2>2. Overcounting' = Overcounting \cup {w} /\ w \notin Overcounting
    BY <1>0, <2>1 DEF Overcounting
  <2>3. Cardinality(Overcounting') = Cardinality(Overcounting) + 1
    BY <2>2, Pushes, FS_AddElement
  <2> QED  BY <1>1, <2>1, <2>3, <1>9 DEF PushesCounted, DispatchPendingIsBacklog
<1>3. CASE DispatchPendingDesc(w)
  <2>1. /\ fanOwes[w] = "DispatchPending" /\ fanOwes'[w] # "DispatchPending"
        /\ \A v \in DispatchWorkers : v # w => fanOwes'[v] = fanOwes[v]
        /\ dispatchPending' = dispatchPending - 1 /\ dispatchChan' = dispatchChan
    BY <1>0, <1>3 DEF DispatchPendingDesc
  <2>2. Overcounting' = Overcounting \ {w} /\ w \in Overcounting
    BY <2>1 DEF Overcounting
  <2>3. Cardinality(Overcounting') = Cardinality(Overcounting) - 1
    BY <2>2, Pushes, FS_RemoveElement
  <2> QED  BY <1>1, <2>1, <2>3, <1>9 DEF PushesCounted, DispatchPendingIsBacklog
<1>4. CASE PushJobPendingIncr(w) \/ DispatchSend(w)
  <2>1. /\ fanOwes[w] # "DispatchPending" /\ fanOwes'[w] # "DispatchPending"
        /\ \A v \in DispatchWorkers : v # w => fanOwes'[v] = fanOwes[v]
        /\ UNCHANGED << dispatchChan, dispatchPending >>
    BY <1>0, <1>4 DEF PushJobPendingIncr, DispatchSend, CountNext, counters
  <2>2. Overcounting' = Overcounting
    BY <2>1 DEF Overcounting
  <2> QED  BY <1>1, <2>1, <2>2 DEF PushesCounted, DispatchPendingIsBacklog
<1> QED  BY <1>2, <1>3, <1>4 DEF Dispatch

LEMMA NextPushes == ASSUME PushesCounted, [Next]_vars PROVE PushesCounted'
<1>1. Typed'
  BY NextTyped DEF PushesCounted
<1>2. ASSUME UNCHANGED << caller, dispatchChan, fanOwes, dispatchPending >>
      PROVE  PushesCounted'
  BY <1>1, <1>2 DEF PushesCounted, DispatchPendingIsBacklog, Uncounted, NeverCounted,
                    Overcounting
<1>3. ASSUME NEW m \in Msgs, Push(m) PROVE PushesCounted'
  BY <1>1, <1>3, PushSendPushes, PushCountPushes, PushRefusedPushes DEF Push
<1>4. ASSUME NEW w \in DispatchWorkers, Dispatch(w) PROVE PushesCounted'
  BY <1>1, <1>4, DispatchPushes
<1>5. ASSUME NEW b \in Buckets, NEW i \in JobWorkers, Job(b, i) PROVE PushesCounted'
  BY <1>2, <1>5
     DEF Job, JobTake, PushJobPendingDesc, JobLock, JobSend, JobDone, pushing, backlog,
         counters
<1>6. ASSUME NEW c \in Conns, AddConn(c) \/ CloseConn(c) \/ DelConn(c) \/ Write(c)
      PROVE  PushesCounted'
  BY <1>2, <1>6 DEF AddConn, CloseConn, DelConn, ConnGoes, Write, pushing, backlog, counters
<1>7. CASE UNCHANGED vars
  BY <1>2, <1>7 DEF vars, pushing, backlog, counters
<1> QED  BY <1>3, <1>4, <1>5, <1>6, <1>7 DEF Next, Idle

\* DispatchPending is off by the pushes to rooms ever accepted, and otherwise by
\* nothing but what workers and callers are about to count.
THEOREM PushesAreCounted == Spec => []DispatchPendingIsBacklog
<1>1. Init => PushesCounted
  BY InitPushes
<1>2. PushesCounted /\ [Next]_vars => PushesCounted'
  BY NextPushes
<1>3. PushesCounted => DispatchPendingIsBacklog
  BY DEF PushesCounted
<1> QED  BY <1>1, <1>2, <1>3, PTL DEF Spec

-----------------------------------------------------------------------------
(* Sequences *)

Elems(s) == {s[i] : i \in 1 .. Len(s)}

LEMMA ElemsOfAppend ==
  ASSUME NEW S, NEW s \in Seq(S), NEW e \in S
  PROVE  Append(s, e) \in Seq(S) /\ Elems(Append(s, e)) = Elems(s) \cup {e}
<1>1. /\ Append(s, e) \in Seq(S) /\ Len(Append(s, e)) = Len(s) + 1 /\ Len(s) \in Nat
      /\ \A i \in 1 .. Len(s) : Append(s, e)[i] = s[i]
      /\ Append(s, e)[Len(s) + 1] = e
  OBVIOUS
<1>2. 1 .. Len(s) + 1 = (1 .. Len(s)) \cup {Len(s) + 1}
  BY <1>1
<1> QED  BY <1>1, <1>2 DEF Elems

LEMMA ElemsOfTail ==
  ASSUME NEW S, NEW s \in Seq(S), s # << >>
  PROVE  /\ Head(s) \in S /\ Tail(s) \in Seq(S)
         /\ Elems(s) = {Head(s)} \cup Elems(Tail(s))
<1>1. /\ Len(s) \in Nat \ {0} /\ Tail(s) \in Seq(S) /\ Len(Tail(s)) = Len(s) - 1
      /\ \A i \in 1 .. Len(s) - 1 : Tail(s)[i] = s[i + 1]
      /\ Head(s) = s[1] /\ Head(s) \in S
  OBVIOUS
<1>2. ASSUME NEW e \in Elems(s) PROVE e \in {Head(s)} \cup Elems(Tail(s))
  <2>1. PICK i \in 1 .. Len(s) : e = s[i]
    BY <1>2 DEF Elems
  <2>2. CASE i = 1
    BY <1>1, <2>1, <2>2
  <2>3. CASE i # 1
    <3>1. i - 1 \in 1 .. Len(s) - 1 /\ Tail(s)[i - 1] = s[i]
      BY <1>1, <2>1, <2>3
    <3> QED  BY <1>1, <2>1, <3>1 DEF Elems
  <2> QED  BY <2>2, <2>3
<1>3. ASSUME NEW e \in {Head(s)} \cup Elems(Tail(s)) PROVE e \in Elems(s)
  <2>1. CASE e = Head(s)
    <3>1. 1 \in 1 .. Len(s)
      BY <1>1
    <3> QED  BY <1>1, <2>1, <3>1 DEF Elems
  <2>2. CASE e \in Elems(Tail(s))
    <3>1. PICK i \in 1 .. Len(s) - 1 : e = Tail(s)[i]
      BY <1>1, <2>2 DEF Elems
    <3>2. i + 1 \in 1 .. Len(s) /\ e = s[i + 1]
      BY <1>1, <3>1
    <3> QED  BY <3>2 DEF Elems
  <2> QED  BY <1>3, <2>1, <2>2
<1> QED  BY <1>1, <1>2, <1>3

\* The write loop moves a message on, which leaves the inbox as it is.
LEMMA MovedOn ==
  ASSUME NEW S, NEW g \in Seq(S), NEW o \in Seq(S), o # << >>
  PROVE  Append(g, Head(o)) \o Tail(o) = g \o o
<1> DEFINE l == Append(g, Head(o)) \o Tail(o)
           r == g \o o
<1>1. /\ Len(o) \in Nat \ {0} /\ Len(g) \in Nat /\ Head(o) \in S /\ Head(o) = o[1]
      /\ Tail(o) \in Seq(S) /\ Len(Tail(o)) = Len(o) - 1
      /\ \A i \in 1 .. Len(o) - 1 : Tail(o)[i] = o[i + 1]
  OBVIOUS
<1>2. /\ Append(g, Head(o)) \in Seq(S) /\ Len(Append(g, Head(o))) = Len(g) + 1
      /\ \A i \in 1 .. Len(g) : Append(g, Head(o))[i] = g[i]
      /\ Append(g, Head(o))[Len(g) + 1] = o[1]
  BY <1>1
<1>3. l \in Seq(S) /\ r \in Seq(S) /\ Len(l) = Len(g) + Len(o) /\ Len(r) = Len(g) + Len(o)
  BY <1>1, <1>2
<1>4. ASSUME NEW i \in 1 .. Len(g) + Len(o) PROVE l[i] = r[i]
  <2>1. CASE i <= Len(g)
    BY <1>1, <1>2, <2>1
  <2>2. CASE i = Len(g) + 1
    BY <1>1, <1>2, <2>2
  <2>3. CASE i > Len(g) + 1
    <3>1. l[i] = Tail(o)[i - (Len(g) + 1)]
      BY <1>1, <1>2, <2>3
    <3>2. i - (Len(g) + 1) \in 1 .. Len(o) - 1
      BY <1>1, <1>4, <2>3
    <3>3. l[i] = o[(i - (Len(g) + 1)) + 1]
      BY <1>1, <3>1, <3>2
    <3>4. r[i] = o[i - Len(g)]
      BY <1>1, <2>3
    <3> QED  BY <1>1, <3>3, <3>4
  <2> QED  BY <1>1, <1>4, <2>1, <2>2, <2>3
<1> HIDE DEF l, r
<1>5. l = r
  BY <1>3, <1>4, SeqEqual
<1> QED  BY <1>5 DEF l, r

\* A message sent to a connection comes at the end of the inbox.
LEMMA SentLast ==
  ASSUME NEW S, NEW g \in Seq(S), NEW o \in Seq(S), NEW m \in S
  PROVE  g \o Append(o, m) = Append(g \o o, m)
<1> DEFINE l == g \o Append(o, m)
           r == Append(g \o o, m)
<1>1. /\ g \o o \in Seq(S) /\ Len(g \o o) = Len(g) + Len(o)
      /\ Len(g) \in Nat /\ Len(o) \in Nat
      /\ Append(o, m) \in Seq(S) /\ Len(Append(o, m)) = Len(o) + 1
  OBVIOUS
<1>2. /\ l \in Seq(S) /\ r \in Seq(S) /\ Len(l) = Len(g) + Len(o) + 1
      /\ Len(r) = Len(g) + Len(o) + 1
  BY <1>1
<1>3. ASSUME NEW i \in 1 .. Len(g) + Len(o) + 1 PROVE l[i] = r[i]
  <2>1. CASE i <= Len(g)
    BY <1>1, <2>1
  <2>2. CASE i > Len(g) /\ i <= Len(g) + Len(o)
    BY <1>1, <2>2
  <2>3. CASE i = Len(g) + Len(o) + 1
    BY <1>1, <2>3
  <2> QED  BY <1>1, <2>1, <2>2, <2>3
<1> HIDE DEF l, r
<1>4. l = r
  BY <1>2, <1>3, SeqEqual
<1> QED  BY <1>4 DEF l, r

-----------------------------------------------------------------------------
(* What a connection has received *)

LEMMA InboxTyped ==
  ASSUME Typed, NEW c \in Conns
  PROVE  Inbox(c) \in Seq(AllMsgs) /\ Received(c) = Elems(Inbox(c)) /\ Received(c) \subseteq AllMsgs
<1>1. got[c] \in Seq(AllMsgs) /\ outChan[c] \in Seq(AllMsgs)
  BY DEF Typed, TypeOK
<1>2. Inbox(c) \in Seq(AllMsgs)
  BY <1>1, ConcatProperties DEF Inbox
<1>3. Received(c) = Elems(Inbox(c))
  BY <1>2 DEF Received, Elems
<1> QED  BY <1>2, <1>3 DEF Elems

LEMMA ReceivedOne ==
  ASSUME Typed, NEW c \in Conns, NEW m \in AllMsgs,
         got' = got, outChan' = [outChan EXCEPT ![c] = Append(outChan[c], m)]
  PROVE  /\ Inbox(c)' = Append(Inbox(c), m)
         /\ \A d \in Conns : Inbox(d)' = IF d = c THEN Append(Inbox(c), m) ELSE Inbox(d)
         /\ \A d \in Conns : Received(d)' = IF d = c THEN Received(c) \cup {m} ELSE Received(d)
<1>1. /\ got[c] \in Seq(AllMsgs) /\ outChan[c] \in Seq(AllMsgs)
      /\ outChan \in [Conns -> Seq(AllMsgs)]
  BY DEF Typed, TypeOK
<1>2. \A d \in Conns : outChan'[d] = IF d = c THEN Append(outChan[c], m) ELSE outChan[d]
  BY <1>1
<1>3. Inbox(c)' = Append(Inbox(c), m)
  <2>1. got'[c] \o outChan'[c] = got[c] \o Append(outChan[c], m)
    BY <1>2
  <2>2. got[c] \o Append(outChan[c], m) = Append(got[c] \o outChan[c], m)
    <3> DEFINE g == got[c]
               o == outChan[c]
    <3>1. g \in Seq(AllMsgs) /\ o \in Seq(AllMsgs)
      BY <1>1
    <3> HIDE DEF g, o
    <3>2. g \o Append(o, m) = Append(g \o o, m)
      BY <3>1, SentLast
    <3> QED  BY <3>2 DEF g, o
  <2> QED  BY <2>1, <2>2 DEF Inbox
<1>4. \A d \in Conns : Inbox(d)' = IF d = c THEN Append(Inbox(c), m) ELSE Inbox(d)
  <2>1. ASSUME NEW d \in Conns, d # c PROVE Inbox(d)' = Inbox(d)
    BY <1>2, <2>1 DEF Inbox
  <2> QED  BY <1>3, <2>1
<1>5. Append(Inbox(c), m) \in Seq(AllMsgs) /\ Elems(Append(Inbox(c), m)) = Received(c) \cup {m}
  BY InboxTyped, ElemsOfAppend
<1>6. Received(c)' = Elems(Append(Inbox(c), m))
  BY <1>3, <1>5 DEF Received, Elems
<1>7. \A d \in Conns : d # c => Received(d)' = Received(d)
  BY <1>4 DEF Received
<1> QED  BY <1>3, <1>4, <1>5, <1>6, <1>7

LEMMA ReceivedStays ==
  ASSUME UNCHANGED << got, outChan >>
  PROVE  \A c \in Conns : Inbox(c)' = Inbox(c) /\ Received(c)' = Received(c)
BY DEF Inbox, Received

LEMMA WriteReceives ==
  ASSUME Typed, NEW c \in Conns, Write(c)
  PROVE  \A d \in Conns : Inbox(d)' = Inbox(d) /\ Received(d)' = Received(d)
<1>1. /\ got \in [Conns -> Seq(AllMsgs)] /\ outChan \in [Conns -> Seq(AllMsgs)]
      /\ outChan[c] # << >>
      /\ got' = [got EXCEPT ![c] = Append(got[c], Head(outChan[c]))]
      /\ outChan' = [outChan EXCEPT ![c] = Tail(outChan[c])]
  BY DEF Typed, TypeOK, Write
<1>2. /\ got'[c] = Append(got[c], Head(outChan[c])) /\ outChan'[c] = Tail(outChan[c])
      /\ \A d \in Conns : d # c => got'[d] = got[d] /\ outChan'[d] = outChan[d]
  BY <1>1
<1>3. Append(got[c], Head(outChan[c])) \o Tail(outChan[c]) = got[c] \o outChan[c]
  BY <1>1, MovedOn
<1>4. \A d \in Conns : Inbox(d)' = Inbox(d)
  BY <1>2, <1>3 DEF Inbox
<1> QED  BY <1>4 DEF Received

-----------------------------------------------------------------------------
(* Where a message is on its way to a bucket: at one place at most *)

Once(s) == \A i, j \in 1 .. Len(s) : s[i] = s[j] => i = j

LEMMA OnceAppend ==
  ASSUME NEW S, NEW s \in Seq(S), NEW e \in S, Once(s), e \notin Elems(s)
  PROVE  Once(Append(s, e))
<1>1. /\ Len(Append(s, e)) = Len(s) + 1 /\ Len(s) \in Nat
      /\ \A i \in 1 .. Len(s) : Append(s, e)[i] = s[i]
      /\ Append(s, e)[Len(s) + 1] = e
  OBVIOUS
<1>2. \A i \in 1 .. Len(s) : s[i] # e
  BY DEF Elems
<1>3. \A i \in 1 .. Len(s) + 1 : i \in 1 .. Len(s) \/ i = Len(s) + 1
  BY <1>1
<1>4. Len(s) + 1 \notin 1 .. Len(s)
  BY <1>1
<1> QED  BY <1>1, <1>2, <1>3, <1>4 DEF Once

LEMMA OnceTail ==
  ASSUME NEW S, NEW s \in Seq(S), s # << >>, Once(s)
  PROVE  Once(Tail(s)) /\ Head(s) \notin Elems(Tail(s))
<1>1. /\ Len(s) \in Nat \ {0} /\ Len(Tail(s)) = Len(s) - 1
      /\ \A i \in 1 .. Len(s) - 1 : Tail(s)[i] = s[i + 1]
      /\ Head(s) = s[1]
  OBVIOUS
<1>2. ASSUME NEW i \in 1 .. Len(s) - 1, NEW j \in 1 .. Len(s) - 1, Tail(s)[i] = Tail(s)[j]
      PROVE  i = j
  <2>1. i + 1 \in 1 .. Len(s) /\ j + 1 \in 1 .. Len(s) /\ s[i + 1] = s[j + 1]
    BY <1>1, <1>2
  <2>2. i + 1 = j + 1
    BY <2>1 DEF Once
  <2> QED  BY <2>2
<1>3. ASSUME NEW i \in 1 .. Len(s) - 1 PROVE Tail(s)[i] # Head(s)
  <2>1. i + 1 \in 1 .. Len(s) /\ 1 \in 1 .. Len(s) /\ i + 1 # 1
    BY <1>1
  <2>2. s[i + 1] # s[1]
    BY <2>1 DEF Once
  <2> QED  BY <1>1, <2>2
<1> QED  BY <1>1, <1>2, <1>3 DEF Once, Elems

Pushed(m) == caller[m] \in {"sent", "accepted"}

\* A job worker of the bucket has taken the message.
Seen(m, b) ==
  \/ \E i \in JobWorkers : work[b][i].job = m
  \/ << m, b >> \in handled
  \/ \E c \in Conns : GetBucket(c) = b /\ m \in Received(c)

InDispatchChan ==
  /\ Once(dispatchChan)
  /\ \A m \in Elems(dispatchChan) :
       /\ Pushed(m)
       /\ \A w \in DispatchWorkers : fan[w].job # m
       /\ \A b \in Buckets : m \notin Elems(jobChan[b]) /\ ~Seen(m, b)

WithDispatcher ==
  \A w \in DispatchWorkers : fan[w] # IdleFan =>
    /\ Pushed(fan[w].job) /\ fan[w].job \notin BadMsgs
    /\ \A v \in DispatchWorkers : fan[v].job = fan[w].job => v = w
    /\ \A b \in Buckets :
         b >= fan[w].next => fan[w].job \notin Elems(jobChan[b]) /\ ~Seen(fan[w].job, b)

InJobChan ==
  \A b \in Buckets :
    /\ Once(jobChan[b])
    /\ \A m \in Elems(jobChan[b]) : Pushed(m) /\ m \notin BadMsgs /\ ~Seen(m, b)

WithWorker ==
  \A b \in Buckets, i \in JobWorkers : work[b][i] # IdleWork =>
    /\ Pushed(work[b][i].job) /\ work[b][i].job \notin BadMsgs
    /\ \A j \in JobWorkers : work[b][j].job = work[b][i].job => j = i
    /\ << work[b][i].job, b >> \notin handled
    /\ \A c \in Conns : GetBucket(c) = b /\ (work[b][i].locked => c \in work[b][i].todo) =>
         work[b][i].job \notin Received(c)

Through ==
  /\ \A h \in handled : Pushed(h[1])
  /\ \A c \in Conns : \A m \in Received(c) : Pushed(m)

OnePlace ==
  /\ Typed
  /\ InDispatchChan /\ WithDispatcher /\ InJobChan /\ WithWorker /\ Through

LEMMA InitPlaced == ASSUME Init PROVE OnePlace
<1>1. Len(dispatchChan) = 0 /\ \A b \in Buckets : Len(jobChan[b]) = 0
  BY DEF Init
<1>2. \A c \in Conns : Received(c) = {}
  BY DEF Init, Received, Inbox
<1>3. InDispatchChan /\ InJobChan
  BY <1>1 DEF InDispatchChan, InJobChan, Once, Elems
<1>4. WithDispatcher /\ WithWorker /\ Through
  BY <1>2 DEF Init, WithDispatcher, WithWorker, Through
<1> QED  BY <1>3, <1>4, InitTyped DEF OnePlace

LEMMA NewIsNowhere ==
  ASSUME OnePlace, NEW m \in Msgs, ~Pushed(m)
  PROVE  /\ m \notin Elems(dispatchChan)
         /\ \A w \in DispatchWorkers : fan[w].job # m
         /\ \A b \in Buckets : m \notin Elems(jobChan[b]) /\ ~Seen(m, b)
<1>1. m # NoJob
  BY JobsAreNamed
<1>2. \A w \in DispatchWorkers : fan[w].job # m
  BY <1>1 DEF OnePlace, WithDispatcher, IdleFan
<1>3. ASSUME NEW b \in Buckets, NEW i \in JobWorkers PROVE work[b][i].job # m
  <2>1. work[b][i].job = m => work[b][i] # IdleWork
    BY <1>1 DEF IdleWork
  <2> QED  BY <2>1 DEF OnePlace, WithWorker
<1>4. \A b \in Buckets : << m, b >> \notin handled
  BY DEF OnePlace, Through
<1>5. \A c \in Conns : m \notin Received(c)
  BY DEF OnePlace, Through
<1>6. m \notin Elems(dispatchChan) /\ \A b \in Buckets : m \notin Elems(jobChan[b])
  BY DEF OnePlace, InDispatchChan, InJobChan
<1> QED  BY <1>2, <1>3, <1>4, <1>5, <1>6 DEF Seen

LEMMA SeenStays ==
  ASSUME UNCHANGED << work, handled >>, \A c \in Conns : Received(c)' = Received(c)
  PROVE  \A m, b : Seen(m, b)' <=> Seen(m, b)
BY DEF Seen

\* What a step that only adds to the messages pushed leaves as it is
LEMMA PlacesStay ==
  ASSUME OnePlace, Typed', \A m \in Msgs : Pushed(m) => Pushed(m)',
         UNCHANGED << dispatchChan, fan, jobChan, work, handled >>,
         \A c \in Conns : Received(c)' = Received(c)
  PROVE  OnePlace'
<1>1. \A m, b : Seen(m, b)' <=> Seen(m, b)
  BY SeenStays
<1>2. /\ Elems(dispatchChan) \subseteq Msgs
      /\ \A b \in Buckets : Elems(jobChan[b]) \subseteq Msgs
      /\ \A c \in Conns : Received(c) \subseteq Msgs
      /\ \A w \in DispatchWorkers : fan[w] # IdleFan => fan[w].job \in Msgs
      /\ \A b \in Buckets, i \in JobWorkers : work[b][i] # IdleWork => work[b][i].job \in Msgs
      /\ \A h \in handled : h[1] \in Msgs
  <2>1. dispatchChan \in Seq(Msgs) /\ \A b \in Buckets : jobChan[b] \in Seq(Msgs)
    BY DEF OnePlace, Typed, TypeOK
  <2>2. \A c \in Conns : Received(c) \subseteq Msgs
    BY InboxTyped, JobsAreNamed DEF OnePlace
  <2>3. \A w \in DispatchWorkers : fan[w] \in FanJobs /\ (fan[w].job = NoJob => fan[w] = IdleFan)
    BY DEF OnePlace, Typed, TypeOK, FanJobs
  <2>4. \A b \in Buckets, i \in JobWorkers : WorkFits(b, work[b][i])
    BY FitsNow DEF OnePlace
  <2>5. \A h \in handled : h[1] \in Msgs
    BY DEF OnePlace, Typed, TypeOK
  <2> QED
    BY <2>1, <2>2, <2>3, <2>4, <2>5, JobsAreNamed DEF Elems, FanJobs, WorkFits, WorkJobs
<1>3. InDispatchChan'
  BY <1>1, <1>2 DEF OnePlace, InDispatchChan
<1>4. WithDispatcher'
  BY <1>1, <1>2 DEF OnePlace, WithDispatcher
<1>5. InJobChan'
  BY <1>1, <1>2 DEF OnePlace, InJobChan
<1>6. WithWorker'
  BY <1>2 DEF OnePlace, WithWorker
<1>7. Through'
  BY <1>2 DEF OnePlace, Through
<1> QED  BY <1>3, <1>4, <1>5, <1>6, <1>7 DEF OnePlace

LEMMA PushSendPlaces ==
  ASSUME OnePlace, Typed', NEW m \in Msgs, PushSend(m)
  PROVE  OnePlace'
<1>1. /\ dispatchChan' = Append(dispatchChan, m) /\ dispatchChan \in Seq(Msgs)
      /\ UNCHANGED << fan, jobChan, work, handled, got, outChan >>
  BY DEF PushSend, OnePlace, Typed, TypeOK, jobs, delivery
<1>2. caller' = [caller EXCEPT ![m] = "sent"] /\ ~Pushed(m)
  BY DEF PushSend, Pushed
<1>3. /\ \A n \in Msgs : Pushed(n) => Pushed(n)'
      /\ Pushed(m)'
  BY <1>2 DEF Pushed, OnePlace, Typed, TypeOK
<1>4. \A n, b : Seen(n, b)' <=> Seen(n, b)
  BY <1>1, ReceivedStays, SeenStays
<1>5. Elems(dispatchChan') = Elems(dispatchChan) \cup {m}
  BY <1>1, ElemsOfAppend
<1>6. Once(dispatchChan')
  BY <1>1, <1>2, NewIsNowhere, OnceAppend DEF OnePlace, InDispatchChan
<1>7. Elems(dispatchChan) \subseteq Msgs
  BY <1>1 DEF Elems
<1>8. ASSUME NEW n \in Elems(dispatchChan)'
      PROVE  /\ Pushed(n)'
             /\ \A w \in DispatchWorkers : fan'[w].job # n
             /\ \A b \in Buckets : n \notin Elems(jobChan[b])' /\ ~Seen(n, b)'
  <2>1. CASE n = m
    BY <1>1, <1>2, <1>3, <1>4, <2>1, NewIsNowhere
  <2>2. CASE n \in Elems(dispatchChan)
    BY <1>1, <1>3, <1>4, <1>7, <2>2 DEF OnePlace, InDispatchChan
  <2> QED  BY <1>5, <1>8, <2>1, <2>2
<1>9. InDispatchChan'
  BY <1>6, <1>8 DEF InDispatchChan
<1>10. WithDispatcher'
  <2> SUFFICES ASSUME NEW w \in DispatchWorkers, fan[w] # IdleFan
               PROVE  Pushed(fan[w].job)'
    BY <1>1, <1>4 DEF OnePlace, WithDispatcher
  <2>1. fan[w].job \in Msgs
    BY DEF OnePlace, Typed, TypeOK, FanJobs
  <2> QED  BY <1>1, <1>3, <2>1 DEF OnePlace, WithDispatcher
<1>11. InJobChan'
  <2>1. \A b \in Buckets : Elems(jobChan[b]) \subseteq Msgs
    BY DEF OnePlace, Typed, TypeOK, Elems
  <2> QED  BY <1>1, <1>3, <1>4, <2>1 DEF OnePlace, InJobChan
<1>12. WithWorker'
  <2>1. \A b \in Buckets, i \in JobWorkers : work[b][i] # IdleWork => work[b][i].job \in Msgs
    BY FitsNow, JobsAreNamed DEF OnePlace, WorkFits, WorkJobs
  <2> QED  BY <1>1, <1>3, <2>1, ReceivedStays DEF OnePlace, WithWorker
<1>13. Through'
  <2>1. \A c \in Conns : Received(c) \subseteq Msgs
    BY InboxTyped, JobsAreNamed DEF OnePlace
  <2>2. \A h \in handled : h[1] \in Msgs
    BY DEF OnePlace, Typed, TypeOK
  <2> QED  BY <1>1, <1>3, <2>1, <2>2, ReceivedStays DEF OnePlace, Through
<1> QED  BY <1>9, <1>10, <1>11, <1>12, <1>13 DEF OnePlace

LEMMA SeenOnly ==
  ASSUME UNCHANGED << caller, work, handled, got, outChan >>
  PROVE  /\ \A m, b : Seen(m, b)' <=> Seen(m, b)
         /\ \A m : Pushed(m)' <=> Pushed(m)
         /\ \A c \in Conns : Received(c)' = Received(c)
BY ReceivedStays, SeenStays DEF Pushed

LEMMA TakePlaces ==
  ASSUME OnePlace, Typed', NEW w \in DispatchWorkers, DispatchTake(w)
  PROVE  OnePlace'
<1>1. /\ dispatchChan' = Tail(dispatchChan) /\ dispatchChan \in Seq(Msgs)
      /\ dispatchChan # << >> /\ fan[w] = IdleFan
      /\ UNCHANGED << caller, jobChan, work, handled, got, outChan >>
  BY DEF DispatchTake, OnePlace, Typed, TypeOK, pushing, jobs, delivery
<1>2. PICK m \in Msgs : m = Head(dispatchChan)
  BY <1>1
<1>3. /\ \A n, b : Seen(n, b)' <=> Seen(n, b)
      /\ \A n : Pushed(n)' <=> Pushed(n)
      /\ \A c \in Conns : Received(c)' = Received(c)
  BY <1>1, SeenOnly
<1>4. /\ Elems(dispatchChan) = {m} \cup Elems(dispatchChan')
      /\ m \notin Elems(dispatchChan') /\ Once(dispatchChan')
  BY <1>1, <1>2, ElemsOfTail, OnceTail DEF OnePlace, InDispatchChan
<1>5. /\ Pushed(m) /\ \A v \in DispatchWorkers : fan[v].job # m
      /\ \A b \in Buckets : m \notin Elems(jobChan[b]) /\ ~Seen(m, b)
  BY <1>4 DEF OnePlace, InDispatchChan
<1>6. /\ \A v \in DispatchWorkers : v # w => fan'[v] = fan[v]
      /\ fan'[w] = IdleFan \/ (fan'[w] = [job |-> m, next |-> 0] /\ m \notin BadMsgs)
  <2>1. fan \in [DispatchWorkers -> FanJobs]
    BY DEF OnePlace, Typed, TypeOK, FanJobs
  <2> QED  BY <1>1, <1>2, <2>1, TakeFan DEF OnePlace
<1>7. fan'[w].job \in {NoJob, m}
  BY <1>6 DEF IdleFan
<1>8. InDispatchChan'
  <2>1. Elems(dispatchChan') \subseteq Msgs
    BY <1>1, <1>4 DEF Elems
  <2>2. \A n \in Elems(dispatchChan') : n # m /\ n # NoJob /\ n \in Elems(dispatchChan)
    BY <1>4, <2>1, JobsAreNamed
  <2>3. \A n \in Elems(dispatchChan') : \A v \in DispatchWorkers : fan'[v].job # n
    BY <1>6, <1>7, <2>2 DEF OnePlace, InDispatchChan
  <2> QED  BY <1>1, <1>3, <1>4, <2>2, <2>3 DEF OnePlace, InDispatchChan
<1>9. WithDispatcher'
  <2>1. ASSUME NEW v \in DispatchWorkers, fan'[v] # IdleFan
        PROVE  /\ Pushed(fan'[v].job) /\ fan'[v].job \notin BadMsgs
               /\ \A u \in DispatchWorkers : fan'[u].job = fan'[v].job => u = v
               /\ \A b \in Buckets : b >= fan'[v].next =>
                    fan'[v].job \notin Elems(jobChan[b]) /\ ~Seen(fan'[v].job, b)
    <3>1. CASE v = w
      <4>1. fan'[v].job = m /\ m \notin BadMsgs
        BY <1>6, <2>1, <3>1
      <4>2. \A u \in DispatchWorkers : fan'[u].job = m => u = v
        BY <1>5, <1>6, <3>1
      <4> QED  BY <1>5, <4>1, <4>2
    <3>2. CASE v # w
      <4>1. fan'[v] = fan[v] /\ fan[v] # IdleFan /\ fan[v].job # m
        BY <1>5, <1>6, <2>1, <3>2
      <4>2. fan[v].job # NoJob
        BY <4>1 DEF OnePlace, Typed
      <4>3. \A u \in DispatchWorkers : fan'[u].job = fan'[v].job => u = v
        BY <1>6, <1>7, <3>2, <4>1, <4>2 DEF OnePlace, WithDispatcher
      <4> QED  BY <4>1, <4>3 DEF OnePlace, WithDispatcher
    <3> QED  BY <3>1, <3>2
  <2> QED  BY <1>1, <1>3, <2>1 DEF WithDispatcher
<1>10. InJobChan' /\ WithWorker' /\ Through'
  BY <1>1, <1>3 DEF OnePlace, InJobChan, WithWorker, Through
<1> QED  BY <1>8, <1>9, <1>10 DEF OnePlace

LEMMA SendPlaces ==
  ASSUME OnePlace, Typed', NEW w \in DispatchWorkers, DispatchSend(w)
  PROVE  OnePlace'
<1>1. /\ fan[w] # IdleFan
      /\ UNCHANGED << caller, dispatchChan, work, handled, got, outChan >>
  BY DEF DispatchSend, pushing, jobs, delivery
<1>2. PICK b \in Buckets : b = fan[w].next
  BY SendFan DEF OnePlace
<1>3. PICK m \in Msgs : m = fan[w].job
  BY SendFan DEF OnePlace
<1>4. /\ jobChan' = [jobChan EXCEPT ![b] = Append(jobChan[b], m)]
      /\ jobChan \in [Buckets -> Seq(Msgs)] /\ jobChan[b] \in Seq(Msgs)
  BY <1>2, <1>3 DEF DispatchSend, Enqueue, OnePlace, Typed, TypeOK
<1>5. /\ \A n, a : Seen(n, a)' <=> Seen(n, a)
      /\ \A n : Pushed(n)' <=> Pushed(n)
      /\ \A c \in Conns : Received(c)' = Received(c)
  BY <1>1, SeenOnly
<1>6. /\ Pushed(m) /\ m \notin BadMsgs /\ m # NoJob
      /\ \A v \in DispatchWorkers : fan[v].job = m => v = w
      /\ \A a \in Buckets : a >= b => m \notin Elems(jobChan[a]) /\ ~Seen(m, a)
  BY <1>1, <1>2, <1>3, JobsAreNamed DEF OnePlace, WithDispatcher
<1>7. m \notin Elems(jobChan[b]) /\ ~Seen(m, b) /\ b \in Int
  BY <1>6 DEF Buckets
<1>8. /\ Elems(jobChan'[b]) = Elems(jobChan[b]) \cup {m} /\ Once(jobChan'[b])
      /\ \A a \in Buckets : a # b => jobChan'[a] = jobChan[a]
  <2>1. jobChan'[b] = Append(jobChan[b], m)
    BY <1>4
  <2>2. Once(jobChan[b])
    BY DEF OnePlace, InJobChan
  <2> QED  BY <1>4, <1>7, <2>1, <2>2, ElemsOfAppend, OnceAppend
<1>9. /\ \A v \in DispatchWorkers : v # w => fan'[v] = fan[v]
      /\ fan'[w] = IdleFan \/ fan'[w] = [job |-> m, next |-> b + 1]
  <2>1. fan \in [DispatchWorkers -> FanJobs]
    BY DEF OnePlace, Typed, TypeOK, FanJobs
  <2> QED  BY <1>2, <1>3, <2>1, SendFan DEF OnePlace
<1>10. fan'[w].job \in {NoJob, m}
  BY <1>9 DEF IdleFan
<1>11. InDispatchChan'
  <2>1. Elems(dispatchChan) \subseteq Msgs
    BY DEF OnePlace, Typed, TypeOK, Elems
  <2>2. \A n \in Elems(dispatchChan) : n # m /\ n # NoJob
    BY <1>3, <2>1, JobsAreNamed DEF OnePlace, InDispatchChan
  <2>3. \A n \in Elems(dispatchChan) : \A v \in DispatchWorkers : fan'[v].job # n
    BY <1>9, <1>10, <2>2 DEF OnePlace, InDispatchChan
  <2>4. \A n \in Elems(dispatchChan), a \in Buckets : n \notin Elems(jobChan'[a])
    BY <1>8, <2>2 DEF OnePlace, InDispatchChan
  <2> QED  BY <1>1, <1>5, <2>3, <2>4 DEF OnePlace, InDispatchChan
<1>12. WithDispatcher'
  <2>1. ASSUME NEW v \in DispatchWorkers, fan'[v] # IdleFan
        PROVE  /\ Pushed(fan'[v].job) /\ fan'[v].job \notin BadMsgs
               /\ \A u \in DispatchWorkers : fan'[u].job = fan'[v].job => u = v
               /\ \A a \in Buckets : a >= fan'[v].next =>
                    fan'[v].job \notin Elems(jobChan'[a]) /\ ~Seen(fan'[v].job, a)
    <3>1. CASE v = w
      <4>1. fan'[v].job = m /\ fan'[v].next = b + 1
        BY <1>9, <2>1, <3>1
      <4>2. \A u \in DispatchWorkers : fan'[u].job = m => u = v
        BY <1>6, <1>9, <3>1
      <4>3. \A a \in Buckets : a >= b + 1 => a # b /\ a >= b
        BY <1>7 DEF Buckets
      <4> QED  BY <1>6, <1>8, <4>1, <4>2, <4>3
    <3>2. CASE v # w
      <4>1. fan'[v] = fan[v] /\ fan[v] # IdleFan /\ fan[v].job # m
        BY <1>6, <1>9, <2>1, <3>2
      <4>2. fan[v].job # NoJob
        BY <4>1 DEF OnePlace, Typed
      <4>3. \A u \in DispatchWorkers : fan'[u].job = fan'[v].job => u = v
        BY <1>9, <1>10, <3>2, <4>1, <4>2 DEF OnePlace, WithDispatcher
      <4>4. \A a \in Buckets : a >= fan[v].next => fan[v].job \notin Elems(jobChan'[a])
        BY <1>8, <4>1 DEF OnePlace, WithDispatcher
      <4> QED  BY <4>1, <4>3, <4>4 DEF OnePlace, WithDispatcher
    <3> QED  BY <3>1, <3>2
  <2> QED  BY <1>5, <2>1 DEF WithDispatcher
<1>13. InJobChan'
  <2>1. ASSUME NEW a \in Buckets
        PROVE  /\ Once(jobChan'[a])
               /\ \A n \in Elems(jobChan'[a]) : Pushed(n) /\ n \notin BadMsgs /\ ~Seen(n, a)
    BY <1>6, <1>7, <1>8 DEF OnePlace, InJobChan
  <2> QED  BY <1>5, <2>1 DEF InJobChan
<1>14. WithWorker' /\ Through'
  BY <1>1, <1>5 DEF OnePlace, WithWorker, Through
<1> QED  BY <1>11, <1>12, <1>13, <1>14 DEF OnePlace

LEMMA WorkIsTyped == ASSUME Typed PROVE work \in [Buckets -> [JobWorkers -> WorkJobs]]
BY DEF Typed, TypeOK, WorkJobs

LEMMA MsgsOnly ==
  ASSUME Typed
  PROVE  /\ Elems(dispatchChan) \subseteq Msgs
         /\ \A b \in Buckets : Elems(jobChan[b]) \subseteq Msgs
         /\ \A w \in DispatchWorkers : fan[w] # IdleFan => fan[w].job \in Msgs
         /\ \A b \in Buckets, i \in JobWorkers : work[b][i] # IdleWork => work[b][i].job \in AllMsgs
<1>1. dispatchChan \in Seq(Msgs) /\ \A b \in Buckets : jobChan[b] \in Seq(Msgs)
  BY DEF Typed, TypeOK
<1>2. \A w \in DispatchWorkers : fan[w] \in FanJobs /\ (fan[w].job = NoJob => fan[w] = IdleFan)
  BY DEF Typed, TypeOK, FanJobs
<1>3. \A b \in Buckets, i \in JobWorkers : WorkFits(b, work[b][i])
  BY FitsNow
<1> QED  BY <1>1, <1>2, <1>3 DEF Elems, FanJobs, WorkFits, WorkJobs

LEMMA JobTakePlaces ==
  ASSUME OnePlace, Typed', NEW b \in Buckets, NEW i \in JobWorkers, JobTake(b, i)
  PROVE  OnePlace'
<1>1. PICK m \in Msgs : m = Head(jobChan[b])
  BY TakeWork DEF OnePlace
<1>2. /\ work[b][i] = IdleWork
      /\ UNCHANGED << caller, dispatchChan, fan, got, outChan >>
  BY DEF JobTake, Ready, pushing, delivery
<1>3. /\ jobChan[b] \in Seq(Msgs) /\ jobChan[b] # << >>
      /\ jobChan' = [jobChan EXCEPT ![b] = Tail(jobChan[b])]
      /\ jobChan \in [Buckets -> Seq(Msgs)]
  BY TakeWork DEF OnePlace, Typed, TypeOK
<1>4. /\ Elems(jobChan[b]) = {m} \cup Elems(jobChan'[b])
      /\ m \notin Elems(jobChan'[b]) /\ Once(jobChan'[b])
      /\ \A a \in Buckets : a # b => jobChan'[a] = jobChan[a]
  <2>1. jobChan'[b] = Tail(jobChan[b])
    BY <1>3
  <2>2. Once(jobChan[b])
    BY DEF OnePlace, InJobChan
  <2> QED  BY <1>1, <1>3, <2>1, <2>2, ElemsOfTail, OnceTail
<1>5. Pushed(m) /\ m \notin BadMsgs /\ ~Seen(m, b) /\ m # NoJob
  BY <1>1, <1>4, JobsAreNamed DEF OnePlace, InJobChan
<1>6. \/ /\ m \in AllMsgs /\ handled' = handled
         /\ \A a \in Buckets, j \in JobWorkers :
              work'[a][j] = IF a = b /\ j = i THEN Waiting(m) ELSE work[a][j]
      \/ work' = work /\ handled' = handled \cup {<< m, b >>}
  <2>1. CASE m \in AllMsgs
    <3>1. handled' = handled /\ work' = [work EXCEPT ![b][i] = Waiting(m)]
      BY <1>1, <2>1, TakeWork, MessagesAssumption DEF OnePlace
    <3>2. work \in [Buckets -> [JobWorkers -> WorkJobs]]
      BY WorkIsTyped DEF OnePlace
    <3> HIDE DEF Waiting
    <3>3. \A a \in Buckets, j \in JobWorkers :
            work'[a][j] = IF a = b /\ j = i THEN Waiting(m) ELSE work[a][j]
      BY <3>1, <3>2
    <3> QED  BY <2>1, <3>1, <3>3
  <2>2. CASE m \in RoomMsgs
    BY <1>1, <2>2, TakeWork, MessagesAssumption DEF OnePlace
  <2> QED  BY <2>1, <2>2 DEF Msgs
<1>7. \A n : Pushed(n)' <=> Pushed(n)
  BY <1>2 DEF Pushed
<1>8. \A c \in Conns : Received(c)' = Received(c)
  BY <1>2, ReceivedStays
<1>9. \A n \in Msgs, a \in Buckets : Seen(n, a)' <=> Seen(n, a) \/ (n = m /\ a = b)
  <2>1. CASE /\ m \in AllMsgs /\ handled' = handled
             /\ \A a \in Buckets, j \in JobWorkers :
                  work'[a][j] = IF a = b /\ j = i THEN Waiting(m) ELSE work[a][j]
    <3>1. \A n \in Msgs, a \in Buckets :
            (\E j \in JobWorkers : work'[a][j].job = n) <=>
              ((\E j \in JobWorkers : work[a][j].job = n) \/ (n = m /\ a = b))
      BY <1>2, <2>1, JobsAreNamed DEF IdleWork, Waiting
    <3> QED  BY <1>8, <2>1, <3>1 DEF Seen
  <2>2. CASE work' = work /\ handled' = handled \cup {<< m, b >>}
    BY <1>8, <2>2 DEF Seen
  <2> QED  BY <1>6, <2>1, <2>2
<1>10. \A a \in Buckets : Elems(jobChan'[a]) \subseteq Elems(jobChan[a])
  BY <1>4
<1>11. InDispatchChan'
  <2>1. Elems(dispatchChan) \subseteq Msgs
    BY MsgsOnly DEF OnePlace
  <2>2. \A n \in Elems(dispatchChan) : n # m
    BY <1>4 DEF OnePlace, InDispatchChan
  <2> QED
    BY <1>2, <1>7, <1>9, <1>10, <2>1, <2>2 DEF OnePlace, InDispatchChan
<1>12. WithDispatcher'
  <2>1. ASSUME NEW w \in DispatchWorkers, fan[w] # IdleFan, NEW a \in Buckets, a >= fan[w].next,
               NEW n \in Msgs, n = fan[w].job
        PROVE  n \notin Elems(jobChan'[a]) /\ ~Seen(n, a)'
    <3>1. n \notin Elems(jobChan[a]) /\ ~Seen(n, a)
      BY <2>1 DEF OnePlace, WithDispatcher
    <3>2. ~(n = m /\ a = b)
      BY <1>4, <3>1
    <3> QED  BY <1>9, <1>10, <3>1, <3>2
  <2>2. \A w \in DispatchWorkers : fan[w] # IdleFan => fan[w].job \in Msgs
    BY MsgsOnly DEF OnePlace
  <2> QED  BY <1>2, <1>7, <2>1, <2>2 DEF OnePlace, WithDispatcher
<1>13. InJobChan'
  <2>1. ASSUME NEW a \in Buckets
        PROVE  /\ Once(jobChan'[a])
               /\ \A n \in Elems(jobChan'[a]) : Pushed(n) /\ n \notin BadMsgs /\ ~Seen(n, a)'
    <3>1. Once(jobChan'[a])
      BY <1>4 DEF OnePlace, InJobChan
    <3>2. ASSUME NEW n \in Elems(jobChan'[a])
          PROVE  Pushed(n) /\ n \notin BadMsgs /\ ~Seen(n, a)'
      <4>1. n \in Elems(jobChan[a]) /\ n \in Msgs
        BY <1>10, <3>2, MsgsOnly DEF OnePlace
      <4>2. ~(n = m /\ a = b)
        BY <1>4, <3>2
      <4> QED  BY <1>9, <4>1, <4>2 DEF OnePlace, InJobChan
    <3> QED  BY <3>1, <3>2
  <2> QED  BY <1>7, <2>1 DEF InJobChan
<1>14. WithWorker'
  <2> DEFINE Held(a, j) ==
        /\ Pushed(work'[a][j].job) /\ work'[a][j].job \notin BadMsgs
        /\ \A k \in JobWorkers : work'[a][k].job = work'[a][j].job => k = j
        /\ << work'[a][j].job, a >> \notin handled'
        /\ \A c \in Conns : GetBucket(c) = a /\ (work'[a][j].locked => c \in work'[a][j].todo) =>
             work'[a][j].job \notin Received(c)
  <2>1. ASSUME NEW a \in Buckets, NEW j \in JobWorkers, work'[a][j] # IdleWork
        PROVE  Held(a, j)
    <3>1. CASE work' = work /\ handled' = handled \cup {<< m, b >>}
      <4>1. work[a][j] # IdleWork
        BY <2>1, <3>1
      <4>2. << work[a][j].job, a >> # << m, b >>
        BY <1>5 DEF Seen
      <4> QED  BY <3>1, <4>1, <4>2 DEF OnePlace, WithWorker
    <3>2. CASE /\ m \in AllMsgs /\ handled' = handled
               /\ \A x \in Buckets, y \in JobWorkers :
                    work'[x][y] = IF x = b /\ y = i THEN Waiting(m) ELSE work[x][y]
      <4>1. CASE a = b /\ j = i
        <5>1. work'[a][j].job = m
          BY <3>2, <4>1 DEF Waiting
        <5>2. \A k \in JobWorkers : work[b][k].job # m
          BY <1>5 DEF Seen
        <5>3. \A k \in JobWorkers : work'[a][k].job = m => k = j
          BY <3>2, <4>1, <5>2
        <5> QED  BY <1>5, <3>2, <4>1, <5>1, <5>3 DEF Seen
      <4>2. CASE ~(a = b /\ j = i)
        <5>1. work'[a][j] = work[a][j] /\ work[a][j] # IdleWork
          BY <2>1, <3>2, <4>2
        <5>2. a = b => work[a][j].job # m
          BY <1>5 DEF Seen
        <5>3. work[a][j].job # NoJob
          BY <5>1 DEF OnePlace, Typed
        <5>4. \A k \in JobWorkers : work'[a][k].job = work[a][j].job => k = j
          <6>1. ASSUME NEW k \in JobWorkers, work'[a][k].job = work[a][j].job PROVE k = j
            <7>1. CASE a = b /\ k = i
              BY <3>2, <5>2, <6>1, <7>1 DEF Waiting
            <7>2. CASE ~(a = b /\ k = i)
              <8>1. work'[a][k] = work[a][k]
                BY <3>2, <7>2
              <8>2. work[a][k].job = work[a][j].job
                BY <6>1, <8>1
              <8> QED  BY <5>1, <8>2 DEF OnePlace, WithWorker
            <7> QED  BY <7>1, <7>2
          <6> QED  BY <6>1
        <5> QED  BY <3>2, <5>1, <5>4 DEF OnePlace, WithWorker
      <4> QED  BY <4>1, <4>2
    <3> QED  BY <1>6, <3>1, <3>2
  <2> QED  BY <1>7, <1>8, <2>1 DEF WithWorker
<1>15. Through'
  <2>1. \A h \in handled' : Pushed(h[1])
    BY <1>5, <1>6 DEF OnePlace, Through
  <2> QED  BY <1>7, <1>8, <2>1 DEF OnePlace, Through
<1> QED  BY <1>11, <1>12, <1>13, <1>14, <1>15 DEF OnePlace

\* A step of a job worker that leaves alone what the dispatchers do
LEMMA SeenAsBefore ==
  ASSUME OnePlace, UNCHANGED << caller, dispatchChan, fan, jobChan >>,
         \A n \in Msgs, a \in Buckets : Seen(n, a)' <=> Seen(n, a)
  PROVE  InDispatchChan' /\ WithDispatcher' /\ InJobChan'
<1>1. \A n : Pushed(n)' <=> Pushed(n)
  BY DEF Pushed
<1>2. InDispatchChan'
  <2>1. ASSUME NEW n \in Elems(dispatchChan)
        PROVE  /\ Pushed(n) /\ \A w \in DispatchWorkers : fan[w].job # n
               /\ \A a \in Buckets : n \notin Elems(jobChan[a]) /\ ~Seen(n, a)'
    BY <2>1, MsgsOnly DEF OnePlace, InDispatchChan
  <2> QED  BY <1>1, <2>1 DEF OnePlace, InDispatchChan
<1>3. WithDispatcher'
  <2>1. ASSUME NEW w \in DispatchWorkers, fan[w] # IdleFan, NEW n \in Msgs, n = fan[w].job
        PROVE  /\ Pushed(n) /\ n \notin BadMsgs
               /\ \A v \in DispatchWorkers : fan[v].job = n => v = w
               /\ \A a \in Buckets : a >= fan[w].next =>
                    n \notin Elems(jobChan[a]) /\ ~Seen(n, a)'
    BY <2>1 DEF OnePlace, WithDispatcher
  <2>2. \A w \in DispatchWorkers : fan[w] # IdleFan => fan[w].job \in Msgs
    BY MsgsOnly DEF OnePlace
  <2> QED  BY <1>1, <2>1, <2>2 DEF WithDispatcher
<1>4. InJobChan'
  <2>1. ASSUME NEW a \in Buckets
        PROVE  /\ Once(jobChan[a])
               /\ \A n \in Elems(jobChan[a]) : Pushed(n) /\ n \notin BadMsgs /\ ~Seen(n, a)'
    BY MsgsOnly DEF OnePlace, InJobChan
  <2> QED  BY <1>1, <2>1 DEF InJobChan
<1> QED  BY <1>2, <1>3, <1>4

\* What a worker does with its job, once it has one
LEMMA WorkGoesOn ==
  ASSUME OnePlace, Typed', NEW b \in Buckets, NEW i \in JobWorkers, NEW m \in AllMsgs,
         work[b][i] # IdleWork, work[b][i].job = m, work'[b][i].job = m,
         UNCHANGED << caller, dispatchChan, fan, jobChan, handled >>,
         \A a \in Buckets, j \in JobWorkers :
           ~(a = b /\ j = i) => work'[a][j] = work[a][j],
         \A c \in Conns : \/ Received(c)' = Received(c)
                          \/ Received(c)' = Received(c) \cup {m} /\ GetBucket(c) = b,
         \A c \in Conns :
           GetBucket(c) = b /\ (work'[b][i].locked => c \in work'[b][i].todo) =>
             m \notin Received(c)'
  PROVE  OnePlace'
<1>1. \A a \in Buckets, j \in JobWorkers : work'[a][j].job = work[a][j].job
  OBVIOUS
<1>2. /\ Pushed(m) /\ m \notin BadMsgs /\ << m, b >> \notin handled
      /\ \A j \in JobWorkers : work[b][j].job = m => j = i
  BY DEF OnePlace, WithWorker
<1>3. \A n : Pushed(n)' <=> Pushed(n)
  BY DEF Pushed
<1>4. \A n \in Msgs, a \in Buckets : Seen(n, a)' <=> Seen(n, a)
  BY <1>1 DEF Seen
<1>5. InDispatchChan' /\ WithDispatcher' /\ InJobChan'
  BY <1>4, SeenAsBefore
<1>6. WithWorker'
  <2> DEFINE Held(a, j) ==
        /\ Pushed(work'[a][j].job) /\ work'[a][j].job \notin BadMsgs
        /\ \A k \in JobWorkers : work'[a][k].job = work'[a][j].job => k = j
        /\ << work'[a][j].job, a >> \notin handled
        /\ \A c \in Conns : GetBucket(c) = a /\ (work'[a][j].locked => c \in work'[a][j].todo) =>
             work'[a][j].job \notin Received(c)'
  <2>1. ASSUME NEW a \in Buckets, NEW j \in JobWorkers, work'[a][j] # IdleWork
        PROVE  Held(a, j)
    <3>1. CASE a = b /\ j = i
      BY <1>1, <1>2, <3>1
    <3>2. CASE ~(a = b /\ j = i)
      <4>1. work'[a][j] = work[a][j] /\ work[a][j] # IdleWork
        BY <2>1, <3>2
      <4>2. a = b => work[a][j].job # m
        BY <1>2, <3>2
      <4>3. \A c \in Conns : GetBucket(c) = a =>
              (work[a][j].job \in Received(c)' => work[a][j].job \in Received(c))
        BY <4>2
      <4> QED  BY <1>1, <4>1, <4>3 DEF OnePlace, WithWorker
    <3> QED  BY <3>1, <3>2
  <2> QED  BY <1>3, <2>1 DEF WithWorker
<1>7. Through'
  BY <1>2, <1>3 DEF OnePlace, Through
<1> QED  BY <1>5, <1>6, <1>7 DEF OnePlace

LEMMA JobLockPlaces ==
  ASSUME OnePlace, Typed', NEW b \in Buckets, NEW i \in JobWorkers, JobLock(b, i)
  PROVE  OnePlace'
<1>1. PICK m \in AllMsgs : m = work[b][i].job
  BY LockWork DEF OnePlace
<1>2. PICK x : x = Ranging(m, Registered(b)) /\ work \in [Buckets -> [JobWorkers -> WorkJobs]]
  BY WorkIsTyped DEF OnePlace
<1>3. work' = [work EXCEPT ![b][i] = x] /\ x.job = m
  BY <1>1, <1>2, LockWork DEF OnePlace, Ranging
<1>4. \A a \in Buckets, j \in JobWorkers :
        work'[a][j] = IF a = b /\ j = i THEN x ELSE work[a][j]
  BY <1>2, <1>3
<1>5. /\ work[b][i] # IdleWork /\ ~work[b][i].locked
      /\ UNCHANGED << caller, dispatchChan, fan, jobChan, handled, got, outChan >>
  BY DEF JobLock, pushing, backlog, delivery
<1>6. \A c \in Conns : Received(c)' = Received(c)
  BY <1>5, ReceivedStays
<1>7. \A c \in Conns : GetBucket(c) = b => m \notin Received(c)
  BY <1>1, <1>5 DEF OnePlace, WithWorker
<1> QED  BY <1>1, <1>3, <1>4, <1>5, <1>6, <1>7, WorkGoesOn

LEMMA JobSendPlaces ==
  ASSUME OnePlace, Typed', NEW b \in Buckets, NEW i \in JobWorkers, NEW c \in Conns,
         JobSend(b, i, c)
  PROVE  OnePlace'
<1>1. PICK m \in AllMsgs : m = work[b][i].job
  BY SendWork DEF OnePlace
<1>2. PICK x : /\ x = Ranging(m, work[b][i].todo \ {c})
                /\ work \in [Buckets -> [JobWorkers -> WorkJobs]]
  BY WorkIsTyped DEF OnePlace
<1>3. /\ work' = [work EXCEPT ![b][i] = x]
      /\ x.job = m /\ x.locked /\ x.todo = work[b][i].todo \ {c}
      /\ work[b][i].locked /\ c \in work[b][i].todo /\ GetBucket(c) = b
  BY <1>1, <1>2, SendWork DEF OnePlace, Ranging
<1>4. \A a \in Buckets, j \in JobWorkers :
        work'[a][j] = IF a = b /\ j = i THEN x ELSE work[a][j]
  BY <1>2, <1>3
<1>5. /\ work[b][i] # IdleWork
      /\ UNCHANGED << caller, dispatchChan, fan, jobChan, handled, got >>
  BY <1>3 DEF JobSend, IdleWork, pushing, backlog
<1>6. \A d \in Conns : \/ Received(d)' = Received(d)
                       \/ d = c /\ Received(d)' = Received(d) \cup {m}
  <2>1. CASE outChan' = outChan
    BY <1>5, <2>1, ReceivedStays
  <2>2. CASE outChan' = [outChan EXCEPT ![c] = Append(outChan[c], m)]
    BY <1>5, <2>2, ReceivedOne DEF OnePlace
  <2>3. outChan' = outChan \/ outChan' = [outChan EXCEPT ![c] = Append(outChan[c], m)]
    BY <1>1, SentOrRefused
  <2> QED  BY <2>1, <2>2, <2>3
<1>7. \A d \in Conns : GetBucket(d) = b /\ d \in work[b][i].todo => m \notin Received(d)
  BY <1>1, <1>5 DEF OnePlace, WithWorker
<1> QED  BY <1>1, <1>3, <1>4, <1>5, <1>6, <1>7, WorkGoesOn

LEMMA JobDonePlaces ==
  ASSUME OnePlace, Typed', NEW b \in Buckets, NEW i \in JobWorkers, JobDone(b, i)
  PROVE  OnePlace'
<1>1. PICK m \in AllMsgs : m = work[b][i].job
  BY DoneWork DEF OnePlace
<1>2. /\ work' = [work EXCEPT ![b][i] = IdleWork]
      /\ handled' = handled \cup {<< m, b >>} /\ work[b][i].locked
  BY <1>1, DoneWork DEF OnePlace
<1>3. \A a \in Buckets, j \in JobWorkers :
        work'[a][j] = IF a = b /\ j = i THEN IdleWork ELSE work[a][j]
  BY <1>2, WorkIsTyped DEF OnePlace
<1>4. /\ work[b][i] # IdleWork
      /\ UNCHANGED << caller, dispatchChan, fan, jobChan, got, outChan >>
  BY <1>2 DEF JobDone, IdleWork, pushing, backlog, delivery
<1>5. /\ Pushed(m) /\ m \notin BadMsgs /\ m \in Msgs /\ m # NoJob
      /\ \A j \in JobWorkers : work[b][j].job = m => j = i
  BY <1>1, <1>4, JobsAreNamed DEF OnePlace, WithWorker
<1>6. \A n : Pushed(n)' <=> Pushed(n)
  BY <1>4 DEF Pushed
<1>7. \A c \in Conns : Received(c)' = Received(c)
  BY <1>4, ReceivedStays
<1>8. \A n \in Msgs, a \in Buckets : Seen(n, a)' <=> Seen(n, a)
  <2>1. \A n \in Msgs, a \in Buckets, j \in JobWorkers :
          work'[a][j].job = n <=> work[a][j].job = n /\ ~(a = b /\ j = i)
    BY <1>3, JobsAreNamed DEF IdleWork
  <2>2. \A n, a : << n, a >> \in handled' <=> << n, a >> \in handled \/ (n = m /\ a = b)
    BY <1>2
  <2>3. ASSUME NEW n \in Msgs, NEW a \in Buckets PROVE Seen(n, a)' <=> Seen(n, a)
    <3>1. CASE n = m /\ a = b
      BY <1>1, <1>2, <3>1 DEF Seen
    <3>2. CASE ~(n = m /\ a = b)
      <4>1. (\E j \in JobWorkers : work'[a][j].job = n) <=>
              \E j \in JobWorkers : work[a][j].job = n
        BY <1>1, <2>1, <3>2
      <4> QED  BY <1>7, <2>2, <3>2, <4>1 DEF Seen
    <3> QED  BY <3>1, <3>2
  <2> QED  BY <2>3
<1>9. InDispatchChan' /\ WithDispatcher' /\ InJobChan'
  BY <1>4, <1>8, SeenAsBefore
<1>12. WithWorker'
  <2>1. ASSUME NEW a \in Buckets, NEW j \in JobWorkers, work'[a][j] # IdleWork
        PROVE  /\ Pushed(work'[a][j].job) /\ work'[a][j].job \notin BadMsgs
               /\ \A k \in JobWorkers : work'[a][k].job = work'[a][j].job => k = j
               /\ << work'[a][j].job, a >> \notin handled'
               /\ \A c \in Conns : GetBucket(c) = a /\
                    (work'[a][j].locked => c \in work'[a][j].todo) =>
                      work'[a][j].job \notin Received(c)
    <3>1. work'[a][j] = work[a][j] /\ work[a][j] # IdleWork /\ ~(a = b /\ j = i)
      BY <1>3, <2>1
    <3>2. work[a][j].job # NoJob /\ (a = b => work[a][j].job # m)
      BY <1>5, <3>1 DEF OnePlace, Typed
    <3>3. \A k \in JobWorkers : work'[a][k].job = work[a][j].job => k = j
      <4>1. ASSUME NEW k \in JobWorkers, work'[a][k].job = work[a][j].job PROVE k = j
        <5>1. ~(a = b /\ k = i)
          BY <1>3, <3>2, <4>1 DEF IdleWork
        <5>2. work[a][k].job = work[a][j].job
          BY <1>3, <4>1, <5>1
        <5> QED  BY <3>1, <5>2 DEF OnePlace, WithWorker
      <4> QED  BY <4>1
    <3>4. << work[a][j].job, a >> \notin handled'
      BY <1>2, <3>1, <3>2 DEF OnePlace, WithWorker
    <3> QED  BY <3>1, <3>3, <3>4 DEF OnePlace, WithWorker
  <2> QED  BY <1>6, <1>7, <2>1 DEF WithWorker
<1>13. Through'
  BY <1>2, <1>5, <1>6, <1>7 DEF OnePlace, Through
<1> QED  BY <1>9, <1>12, <1>13 DEF OnePlace

LEMMA NextPlaced == ASSUME OnePlace, [Next]_vars PROVE OnePlace'
<1>1. Typed'
  BY NextTyped DEF OnePlace
<1>2. ASSUME NEW m \in Msgs, Push(m) PROVE OnePlace'
  <2>1. CASE PushSend(m)
    BY <1>1, <2>1, PushSendPlaces
  <2>2. CASE PushCount(m) \/ PushRefused(m)
    <3>1. UNCHANGED << dispatchChan, fan, jobChan, work, handled, got, outChan >>
      BY <2>2 DEF PushCount, PushRefused, backlog, jobs, delivery
    <3>2. \A n \in Msgs : Pushed(n) => Pushed(n)'
      BY <2>2 DEF PushCount, PushRefused, Pushed, OnePlace, Typed, TypeOK
    <3> QED  BY <1>1, <3>1, <3>2, ReceivedStays, PlacesStay
  <2> QED  BY <1>2, <2>1, <2>2 DEF Push
<1>3. ASSUME NEW w \in DispatchWorkers, Dispatch(w) PROVE OnePlace'
  <2>1. CASE DispatchPendingDesc(w) \/ PushJobPendingIncr(w)
    <3>1. UNCHANGED << caller, dispatchChan, fan, jobChan, work, handled, got, outChan >>
      BY <2>1, CountsOnly
    <3> QED  BY <1>1, <3>1, ReceivedStays, PlacesStay DEF Pushed
  <2> QED  BY <1>1, <1>3, <2>1, TakePlaces, SendPlaces DEF Dispatch
<1>4. ASSUME NEW b \in Buckets, NEW i \in JobWorkers, Job(b, i) PROVE OnePlace'
  <2>1. CASE PushJobPendingDesc(b, i)
    <3>1. UNCHANGED << caller, dispatchChan, fan, jobChan, work, handled, got, outChan >>
      BY <2>1, CountsOnly
    <3> QED  BY <1>1, <3>1, ReceivedStays, PlacesStay DEF Pushed
  <2> QED
    BY <1>1, <1>4, <2>1, JobTakePlaces, JobLockPlaces, JobSendPlaces, JobDonePlaces DEF Job
<1>5. ASSUME NEW c \in Conns, AddConn(c) \/ CloseConn(c) \/ DelConn(c) \/ Write(c)
      PROVE  OnePlace'
  <2>1. UNCHANGED << caller, dispatchChan, fan, jobChan, work, handled >>
    BY <1>5 DEF AddConn, CloseConn, DelConn, ConnGoes, Write, pushing, backlog, jobs
  <2>2. \A d \in Conns : Received(d)' = Received(d)
    <3>1. CASE Write(c)
      BY <3>1, WriteReceives DEF OnePlace
    <3>2. CASE AddConn(c) \/ CloseConn(c) \/ DelConn(c)
      BY <3>2, ReceivedStays DEF AddConn, CloseConn, DelConn, ConnGoes
    <3> QED  BY <1>5, <3>1, <3>2
  <2> QED  BY <1>1, <2>1, <2>2, PlacesStay DEF Pushed
<1>6. CASE UNCHANGED vars
  <2>1. UNCHANGED << caller, dispatchChan, fan, jobChan, work, handled, got, outChan >>
    BY <1>6 DEF vars, pushing, backlog, jobs, delivery
  <2> QED  BY <1>1, <2>1, ReceivedStays, PlacesStay DEF Pushed
<1> QED  BY <1>2, <1>3, <1>4, <1>5, <1>6 DEF Next, Idle

-----------------------------------------------------------------------------
(* The abstract broadcast *)

LEMMA InboxStays ==
  ASSUME \A c \in Conns : Inbox(c)' = Inbox(c)
  PROVE  absInbox' = absInbox
BY DEF absInbox

LEMMA VerdictStays == ASSUME caller' = caller PROVE absVerdict' = absVerdict
BY DEF absVerdict

LEMMA InitBroadcast == ASSUME Init PROVE Broadcast!BInit
<1>1. absVerdict = [m \in Msgs |-> "none"]
  BY DEF Init, absVerdict
<1>2. absInbox = [c \in Conns |-> << >>]
  BY DEF Init, absInbox, Inbox
<1> QED  BY <1>1, <1>2 DEF Init, Broadcast!BInit

LEMMA PushBroadcasts ==
  ASSUME Typed, NEW m \in Msgs, Push(m)
  PROVE  [Broadcast!BNext]_(Broadcast!bvars)
<1>1. handled' = handled /\ absInbox' = absInbox
  BY InboxStays, ReceivedStays
     DEF Push, PushSend, PushCount, PushRefused, jobs, delivery
<1>2. caller \in [Msgs -> {"new", "sent", "accepted", "refused"}]
  BY DEF Typed, TypeOK
<1>3. ASSUME NEW s \in {"sent", "refused"}, caller[m] = "new",
             caller' = [caller EXCEPT ![m] = s],
             NEW v \in {"accepted", "refused"}, v = IF s = "sent" THEN "accepted" ELSE "refused"
      PROVE  Broadcast!BNext
  <2>1. absVerdict' = [absVerdict EXCEPT ![m] = v]
    BY <1>2, <1>3 DEF absVerdict
  <2>2. absVerdict[m] = "none"
    BY <1>3 DEF absVerdict
  <2>3. Broadcast!Decide(m, v)
    BY <1>1, <2>1, <2>2 DEF Broadcast!Decide
  <2> QED  BY <2>3 DEF Broadcast!BNext
<1>4. CASE PushSend(m)
  BY <1>3, <1>4 DEF PushSend
<1>5. CASE PushRefused(m)
  BY <1>3, <1>5 DEF PushRefused
<1>6. CASE PushCount(m)
  <2>1. absVerdict' = absVerdict
    BY <1>2, <1>6 DEF PushCount, absVerdict
  <2> QED  BY <1>1, <2>1 DEF Broadcast!bvars
<1> QED  BY <1>4, <1>5, <1>6 DEF Push

LEMMA PushedIsAccepted ==
  ASSUME NEW m \in Msgs, Pushed(m)
  PROVE  absVerdict[m] = "accepted"
BY DEF Pushed, absVerdict

\* The message a connection is sent has not reached it before.
LEMMA SendBroadcasts ==
  ASSUME OnePlace, NEW b \in Buckets, NEW i \in JobWorkers, NEW c \in Conns,
         JobSend(b, i, c)
  PROVE  [Broadcast!BNext]_(Broadcast!bvars)
<1>1. PICK m \in AllMsgs : m = work[b][i].job
  BY SendWork DEF OnePlace
<1>2. /\ work[b][i] # IdleWork /\ work[b][i].locked /\ c \in work[b][i].todo
      /\ GetBucket(c) = b /\ UNCHANGED << caller, handled, got >>
  <2>1. /\ work[b][i].locked /\ c \in work[b][i].todo /\ GetBucket(c) = b
    BY SendWork DEF OnePlace
  <2> QED  BY <2>1 DEF JobSend, IdleWork, pushing
<1>3. absVerdict' = absVerdict
  BY <1>2, VerdictStays
<1>4. CASE outChan' = outChan
  BY <1>2, <1>3, <1>4, InboxStays, ReceivedStays DEF Broadcast!bvars
<1>5. CASE outChan' = [outChan EXCEPT ![c] = Append(outChan[c], m)]
  <2>1. /\ Pushed(m) /\ m \notin BadMsgs /\ << m, b >> \notin handled
        /\ m \notin Received(c) /\ m \in Msgs
    BY <1>1, <1>2, JobsAreNamed DEF OnePlace, WithWorker
  <2>2. absInbox' = [absInbox EXCEPT ![c] = Append(absInbox[c], m)]
    <3>1. \A d \in Conns : Inbox(d)' = IF d = c THEN Append(Inbox(c), m) ELSE Inbox(d)
      BY <1>2, <1>5, ReceivedOne DEF OnePlace
    <3> QED  BY <3>1 DEF absInbox
  <2>3. Broadcast!Got(c) = Received(c)
    BY DEF Broadcast!Got, Received, absInbox
  <2>4. Broadcast!Deliver(m, c)
    BY <1>2, <1>3, <2>1, <2>2, <2>3, PushedIsAccepted DEF Broadcast!Deliver
  <2> QED  BY <2>1, <2>4 DEF Broadcast!BNext
<1> QED  BY <1>1, <1>4, <1>5, SentOrRefused

\* A bucket is through with a message once.
LEMMA FinishBroadcasts ==
  ASSUME OnePlace, NEW b \in Buckets, NEW m \in Msgs,
         Pushed(m), m \notin BadMsgs, << m, b >> \notin handled,
         handled' = handled \cup {<< m, b >>}, UNCHANGED << caller, outChan, got >>
  PROVE  Broadcast!BNext
<1>1. absVerdict' = absVerdict /\ absInbox' = absInbox
  BY VerdictStays, InboxStays, ReceivedStays
<1>2. Broadcast!Finish(m, b)
  BY <1>1, PushedIsAccepted DEF Broadcast!Finish
<1> QED  BY <1>2 DEF Broadcast!BNext

LEMMA JobBroadcasts ==
  ASSUME OnePlace, NEW b \in Buckets, NEW i \in JobWorkers, Job(b, i)
  PROVE  [Broadcast!BNext]_(Broadcast!bvars)
<1>1. ASSUME UNCHANGED << caller, handled, outChan, got >>
      PROVE  UNCHANGED Broadcast!bvars
  BY <1>1, VerdictStays, InboxStays, ReceivedStays DEF Broadcast!bvars
<1>2. CASE JobTake(b, i)
  <2>1. PICK m \in Msgs : m = Head(jobChan[b])
    BY <1>2, TakeWork DEF OnePlace
  <2>2. UNCHANGED << caller, outChan, got >>
    BY <1>2 DEF JobTake, pushing, delivery
  <2>3. m \in Elems(jobChan[b])
    BY <1>2, <2>1, TakeWork, ElemsOfTail DEF OnePlace
  <2>4. Pushed(m) /\ m \notin BadMsgs /\ << m, b >> \notin handled
    BY <2>3 DEF OnePlace, InJobChan, Seen
  <2>5. handled' = handled \/ handled' = handled \cup {<< m, b >>}
    BY <1>2, <2>1, TakeWork DEF OnePlace
  <2> QED  BY <1>1, <2>2, <2>4, <2>5, FinishBroadcasts
<1>3. CASE JobLock(b, i)
  BY <1>1, <1>3 DEF JobLock, pushing, delivery
<1>4. CASE JobDone(b, i)
  <2>1. PICK m \in AllMsgs : m = work[b][i].job
    BY <1>4, DoneWork DEF OnePlace
  <2>2. /\ work[b][i].locked /\ handled' = handled \cup {<< m, b >>}
        /\ UNCHANGED << caller, outChan, got >>
    BY <1>4, <2>1, DoneWork DEF OnePlace, JobDone, pushing, delivery
  <2>3. /\ Pushed(m) /\ m \notin BadMsgs /\ << m, b >> \notin handled /\ m \in Msgs
    BY <2>1, <2>2, JobsAreNamed DEF OnePlace, WithWorker, IdleWork
  <2> QED  BY <2>2, <2>3, FinishBroadcasts
<1>5. CASE PushJobPendingDesc(b, i)
  BY <1>1, <1>5, CountsOnly
<1> QED  BY <1>2, <1>3, <1>4, <1>5, SendBroadcasts DEF Job

LEMMA NextBroadcasts ==
  ASSUME OnePlace, [Next]_vars
  PROVE  [Broadcast!BNext]_(Broadcast!bvars)
<1>1. ASSUME caller' = caller, handled' = handled, \A c \in Conns : Inbox(c)' = Inbox(c)
      PROVE  UNCHANGED Broadcast!bvars
  BY <1>1, VerdictStays, InboxStays DEF Broadcast!bvars
<1>2. ASSUME NEW w \in DispatchWorkers, Dispatch(w) PROVE UNCHANGED Broadcast!bvars
  <2>1. UNCHANGED << caller, handled, got, outChan >>
    BY <1>2, CountsOnly DEF Dispatch, DispatchTake, DispatchSend, pushing, jobs, delivery
  <2> QED  BY <1>1, <2>1, ReceivedStays
<1>3. ASSUME NEW c \in Conns, AddConn(c) \/ CloseConn(c) \/ DelConn(c) \/ Write(c)
      PROVE  UNCHANGED Broadcast!bvars
  <2>1. caller' = caller /\ handled' = handled
    BY <1>3 DEF AddConn, CloseConn, DelConn, ConnGoes, Write, pushing, jobs
  <2>2. CASE Write(c)
    BY <1>1, <2>1, <2>2, WriteReceives DEF OnePlace
  <2>3. CASE AddConn(c) \/ CloseConn(c) \/ DelConn(c)
    BY <1>1, <2>1, <2>3, ReceivedStays DEF AddConn, CloseConn, DelConn, ConnGoes
  <2> QED  BY <1>3, <2>2, <2>3
<1>4. CASE UNCHANGED vars
  BY <1>1, <1>4, ReceivedStays DEF vars, pushing, jobs, delivery
<1> QED
  BY <1>2, <1>3, <1>4, PushBroadcasts, JobBroadcasts DEF OnePlace, Next, Idle

\* Dispatching implements the abstract broadcast, step by step: a verdict is
\* given once, a bucket finishes a message once and only an accepted one that
\* encodes, and no connection is sent a message twice or once its bucket has
\* finished.
THEOREM BroadcastsOnce == Spec => Broadcast!BInit /\ [][Broadcast!BNext]_(Broadcast!bvars)
<1>1. Init => OnePlace /\ Broadcast!BInit
  BY InitPlaced, InitBroadcast
<1>2. OnePlace /\ [Next]_vars => OnePlace'
  BY NextPlaced
<1>3. OnePlace /\ [Next]_vars => [Broadcast!BNext]_(Broadcast!bvars)
  BY NextBroadcasts
<1> QED  BY <1>1, <1>2, <1>3, PTL DEF Spec

-----------------------------------------------------------------------------
(* The audience of a message *)

\* Connection c, of the audience, has had its turn with the message.
Turn(m, c) == m \in Received(c) \cup full[c]

\* Who was registered and open at the push, and still is, is left to visit or
\* has had its turn.
HadTurns(b, i) ==
  work[b][i].locked =>
    \A c \in Conns :
      /\ GetBucket(c) = b /\ c \in audience[work[b][i].job] /\ conn[c] = "open"
      /\ c \notin work[b][i].todo
      => Turn(work[b][i].job, c)

Audience ==
  \A m \in Msgs : /\ ~Pushed(m) => audience[m] = {}
                  /\ \A c \in audience[m] : conn[c] # "new"

Served ==
  /\ OnePlace /\ Audience
  /\ \A b \in Buckets, i \in JobWorkers : HadTurns(b, i)
  /\ AudienceServed

LEMMA InitServed == ASSUME Init PROVE Served
<1>1. OnePlace
  BY InitPlaced
<1>2. Audience /\ AudienceServed
  BY DEF Init, Audience, AudienceServed
<1>3. \A b \in Buckets, i \in JobWorkers : HadTurns(b, i)
  BY DEF Init, HadTurns, IdleWork
<1> QED  BY <1>1, <1>2, <1>3 DEF Served

\* A connection that comes is in no audience yet; one that goes is in none more.
LEMMA ServedStays ==
  ASSUME Served, OnePlace', UNCHANGED << work, handled, audience, full >>,
         \A m \in Msgs : Pushed(m) => Pushed(m)',
         \A c \in Conns : Received(c)' = Received(c),
         \A c \in Conns : \/ conn'[c] = conn[c]
                          \/ conn[c] = "new" /\ conn'[c] = "open"
                          \/ conn'[c] \in {"closed", "gone"}
  PROVE  Served'
<1>1. \A m \in Msgs : audience[m] \subseteq Conns
  BY DEF Served, OnePlace, Typed, TypeOK
<1>2. Audience'
  BY <1>1 DEF Served, Audience
<1>3. \A m \in Msgs : \A c \in audience[m] : conn'[c] = "open" => conn[c] = "open"
  BY <1>1 DEF Served, Audience
<1>4. ASSUME NEW b \in Buckets, NEW i \in JobWorkers PROVE HadTurns(b, i)'
  <2>1. CASE work[b][i].locked
    <3>1. PICK m \in Msgs : m = work[b][i].job
      BY <2>1, MsgsOnly, JobsAreNamed DEF Served, OnePlace, IdleWork
    <3>2. \A c \in Conns :
            /\ GetBucket(c) = b /\ c \in audience[m] /\ conn'[c] = "open"
            /\ c \notin work[b][i].todo
            => m \in Received(c) \cup full[c]
      BY <1>3, <2>1, <3>1 DEF Served, HadTurns, Turn
    <3> QED  BY <3>1, <3>2 DEF HadTurns, Turn
  <2>2. CASE ~work[b][i].locked
    BY <2>2 DEF HadTurns
  <2> QED  BY <2>1, <2>2
<1>5. AudienceServed'
  <2>1. ASSUME NEW m \in AllMsgs \ BadMsgs, NEW c \in Conns, c \in audience[m],
               conn'[c] = "open", << m, GetBucket(c) >> \in handled
        PROVE  m \in Received(c) \cup full[c]
    BY <1>3, <2>1, JobsAreNamed DEF Served, AudienceServed
  <2> QED  BY <2>1 DEF AudienceServed
<1> QED  BY <1>2, <1>4, <1>5 DEF Served

LEMMA PushSendServed ==
  ASSUME Served, OnePlace', NEW m \in Msgs, PushSend(m)
  PROVE  Served'
<1>1. /\ ~Pushed(m)
      /\ audience' = [audience EXCEPT ![m] = {c \in Conns : m \in AllMsgs /\ conn[c] = "open"}]
      /\ caller' = [caller EXCEPT ![m] = "sent"]
      /\ UNCHANGED << work, handled, conn, outChan, got, full >>
  BY DEF PushSend, Pushed, jobs, delivery
<1>2. /\ caller \in [Msgs -> {"new", "sent", "accepted", "refused"}]
      /\ audience \in [Msgs -> SUBSET Conns]
  BY DEF Served, OnePlace, Typed, TypeOK
<1>3. \A n \in Msgs : n # m => audience'[n] = audience[n] /\ (Pushed(n)' <=> Pushed(n))
  BY <1>1, <1>2 DEF Pushed
<1>4. Audience'
  BY <1>1, <1>2, <1>3 DEF Served, Audience, Pushed
<1>5. \A b \in Buckets : ~Seen(m, b)
  BY <1>1, NewIsNowhere DEF Served
<1>6. \A c \in Conns : Received(c)' = Received(c)
  BY <1>1, ReceivedStays
<1>7. ASSUME NEW b \in Buckets, NEW i \in JobWorkers PROVE HadTurns(b, i)'
  <2>1. CASE work[b][i].locked
    <3>1. PICK n \in Msgs : n = work[b][i].job
      BY <2>1, MsgsOnly, JobsAreNamed DEF Served, OnePlace, IdleWork
    <3>2. n # m
      BY <1>5, <3>1 DEF Seen
    <3>3. audience'[n] = audience[n]
      BY <1>3, <3>2
    <3> QED  BY <1>1, <1>6, <3>1, <3>3 DEF Served, HadTurns, Turn
  <2>2. CASE ~work[b][i].locked
    BY <1>1, <2>2 DEF HadTurns
  <2> QED  BY <2>1, <2>2
<1>8. AudienceServed'
  <2>1. ASSUME NEW n \in AllMsgs \ BadMsgs, NEW c \in Conns, c \in audience'[n],
               conn[c] = "open", << n, GetBucket(c) >> \in handled
        PROVE  n \in Received(c) \cup full[c]
    <3>1. n # m
      BY <1>5, <2>1, BucketOf DEF Seen
    <3>2. audience'[n] = audience[n]
      BY <1>3, <3>1, JobsAreNamed
    <3> QED  BY <2>1, <3>2 DEF Served, AudienceServed
  <2> QED  BY <1>1, <1>6, <2>1 DEF AudienceServed
<1> QED  BY <1>4, <1>7, <1>8 DEF Served

\* A step of a job worker: what is handled now had its turns.
LEMMA JobServed ==
  ASSUME Served, OnePlace', NEW b \in Buckets, NEW i \in JobWorkers,
         UNCHANGED << caller, audience, conn >>,
         \A a \in Buckets, j \in JobWorkers :
           ~(a = b /\ j = i) => work'[a][j] = work[a][j],
         \A c \in Conns : Received(c) \subseteq Received(c)' /\ full[c] \subseteq full'[c],
         HadTurns(b, i)',
         \A m \in AllMsgs, a \in Buckets :
           << m, a >> \in handled' /\ << m, a >> \notin handled =>
             \A c \in Conns : /\ GetBucket(c) = a /\ c \in audience[m] /\ conn[c] = "open"
                              => m \in Received(c)' \cup full'[c]
  PROVE  Served'
<1>1. Audience'
  BY DEF Served, Audience, Pushed
<1>2. ASSUME NEW a \in Buckets, NEW j \in JobWorkers PROVE HadTurns(a, j)'
  <2>1. CASE a = b /\ j = i
    BY <2>1
  <2>2. CASE ~(a = b /\ j = i)
    <3>1. PICK x : x = work[a][j]
      OBVIOUS
    <3>2. work'[a][j] = x
      BY <2>2, <3>1
    <3>3. x.locked => \A c \in Conns :
            /\ GetBucket(c) = a /\ c \in audience[x.job] /\ conn[c] = "open"
            /\ c \notin x.todo
            => x.job \in Received(c) \cup full[c]
      BY <3>1 DEF Served, HadTurns, Turn
    <3>4. x.locked => \A c \in Conns :
            /\ GetBucket(c) = a /\ c \in audience[x.job] /\ conn[c] = "open"
            /\ c \notin x.todo
            => x.job \in Received(c)' \cup full'[c]
      BY <3>3
    <3> QED  BY <3>2, <3>4 DEF HadTurns, Turn
  <2> QED  BY <2>1, <2>2
<1>3. AudienceServed'
  <2>1. ASSUME NEW m \in AllMsgs \ BadMsgs, NEW c \in Conns, c \in audience[m],
               conn[c] = "open", << m, GetBucket(c) >> \in handled'
        PROVE  m \in Received(c)' \cup full'[c]
    <3>1. CASE << m, GetBucket(c) >> \in handled
      BY <2>1, <3>1 DEF Served, AudienceServed
    <3>2. CASE << m, GetBucket(c) >> \notin handled
      BY <2>1, <3>2, BucketOf
    <3> QED  BY <3>1, <3>2
  <2> QED  BY <2>1 DEF AudienceServed
<1> QED  BY <1>1, <1>2, <1>3 DEF Served

LEMMA JobTakeServed ==
  ASSUME Served, OnePlace', NEW b \in Buckets, NEW i \in JobWorkers, JobTake(b, i)
  PROVE  Served'
<1>1. PICK m \in Msgs : m = Head(jobChan[b])
  BY TakeWork DEF Served, OnePlace
<1>2. /\ work[b][i] = IdleWork
      /\ UNCHANGED << caller, audience, conn, outChan, got, full >>
  BY DEF JobTake, Ready, pushing, delivery
<1>3. \A c \in Conns : Received(c)' = Received(c)
  BY <1>2, ReceivedStays
<1>4. \/ m \in AllMsgs /\ handled' = handled /\ work' = [work EXCEPT ![b][i] = Waiting(m)]
      \/ m \in RoomMsgs /\ handled' = handled \cup {<< m, b >>} /\ work' = work
  BY <1>1, TakeWork DEF Served, OnePlace
<1>5. work \in [Buckets -> [JobWorkers -> WorkJobs]]
  BY WorkIsTyped DEF Served, OnePlace
<1>6. /\ ~work'[b][i].locked
      /\ \A a \in Buckets, j \in JobWorkers : ~(a = b /\ j = i) => work'[a][j] = work[a][j]
  <2>1. CASE work' = work
    BY <1>2, <2>1 DEF IdleWork
  <2>2. CASE work' = [work EXCEPT ![b][i] = Waiting(m)]
    BY <1>5, <2>2 DEF Waiting
  <2> QED  BY <1>4, <2>1, <2>2
<1>7. HadTurns(b, i)'
  BY <1>6 DEF HadTurns
<1>8. \A n \in AllMsgs, a \in Buckets : << n, a >> \in handled' => << n, a >> \in handled
  BY <1>4, MessagesAssumption
<1> QED  BY <1>2, <1>3, <1>6, <1>7, <1>8, JobServed

LEMMA JobLockServed ==
  ASSUME Served, OnePlace', NEW b \in Buckets, NEW i \in JobWorkers, JobLock(b, i)
  PROVE  Served'
<1>1. PICK m \in AllMsgs : m = work[b][i].job
  BY LockWork DEF Served, OnePlace
<1>2. PICK x : /\ x = Ranging(m, Registered(b))
               /\ work \in [Buckets -> [JobWorkers -> WorkJobs]]
  BY WorkIsTyped DEF Served, OnePlace
<1>3. work' = [work EXCEPT ![b][i] = x] /\ x.todo = Registered(b)
  BY <1>1, <1>2, LockWork DEF Served, OnePlace, Ranging
<1>4. \A a \in Buckets, j \in JobWorkers :
        work'[a][j] = IF a = b /\ j = i THEN x ELSE work[a][j]
  BY <1>2, <1>3
<1>5. UNCHANGED << caller, audience, conn, outChan, got, full, handled >>
  BY DEF JobLock, pushing, delivery
<1>6. \A c \in Conns : Received(c)' = Received(c)
  BY <1>5, ReceivedStays
<1>7. \A c \in Conns : GetBucket(c) = b /\ conn[c] = "open" => c \in work'[b][i].todo
  BY <1>3, <1>4 DEF Registered
<1>8. HadTurns(b, i)'
  BY <1>5, <1>7 DEF HadTurns
<1> QED  BY <1>4, <1>5, <1>6, <1>8, JobServed

\* Open, a connection is sent the message or refuses it with its outChan full.
LEMMA JobSendServed ==
  ASSUME Served, OnePlace', NEW b \in Buckets, NEW i \in JobWorkers, NEW c \in Conns,
         JobSend(b, i, c)
  PROVE  Served'
<1>1. PICK m \in AllMsgs : m = work[b][i].job
  BY SendWork DEF Served, OnePlace
<1>2. PICK x : /\ x = Ranging(m, work[b][i].todo \ {c})
               /\ work \in [Buckets -> [JobWorkers -> WorkJobs]]
  BY WorkIsTyped DEF Served, OnePlace
<1>3. /\ work' = [work EXCEPT ![b][i] = x]
      /\ x.job = m /\ x.locked /\ x.todo = work[b][i].todo \ {c} /\ work[b][i].locked
  BY <1>1, <1>2, SendWork DEF Served, OnePlace, Ranging
<1>4. \A a \in Buckets, j \in JobWorkers :
        work'[a][j] = IF a = b /\ j = i THEN x ELSE work[a][j]
  BY <1>2, <1>3
<1>5. UNCHANGED << caller, audience, conn, got, handled >>
  BY DEF JobSend, pushing
<1>6. /\ \A d \in Conns : Received(d) \subseteq Received(d)' /\ full[d] \subseteq full'[d]
      /\ conn[c] = "open" => m \in Received(c)' \cup full'[c]
  <2>1. full \in [Conns -> SUBSET AllMsgs]
    BY DEF Served, OnePlace, Typed, TypeOK
  <2>2. CASE /\ full' = full
             /\ outChan' = [outChan EXCEPT ![c] = Append(outChan[c], m)]
    <3>1. \A d \in Conns : Received(d)' = IF d = c THEN Received(c) \cup {m} ELSE Received(d)
      BY <1>5, <2>2, ReceivedOne DEF Served, OnePlace
    <3> QED  BY <2>2, <3>1
  <2>3. CASE conn[c] = "closed" /\ outChan' = outChan /\ full' = full
    BY <1>5, <2>3, ReceivedStays
  <2>4. CASE full' = [full EXCEPT ![c] = full[c] \cup {m}] /\ outChan' = outChan
    <3>1. \A d \in Conns : Received(d)' = Received(d)
      BY <1>5, <2>4, ReceivedStays
    <3> QED  BY <2>1, <2>4, <3>1
  <2> QED  BY <1>1, <2>2, <2>3, <2>4, SentOrRefused
<1>7. HadTurns(b, i)'
  <2>1. \A d \in Conns :
          /\ GetBucket(d) = b /\ d \in audience[m] /\ conn[d] = "open"
          /\ d \notin work[b][i].todo
          => m \in Received(d) \cup full[d]
    BY <1>1, <1>3 DEF Served, HadTurns, Turn
  <2>2. \A d \in Conns :
          /\ GetBucket(d) = b /\ d \in audience[m] /\ conn[d] = "open"
          /\ d \notin x.todo
          => m \in Received(d)' \cup full'[d]
    BY <1>3, <1>6, <2>1
  <2>3. work'[b][i] = x
    BY <1>4
  <2> QED  BY <1>3, <1>5, <2>2, <2>3 DEF HadTurns, Turn
<1> QED  BY <1>4, <1>5, <1>6, <1>7, JobServed

LEMMA JobDoneServed ==
  ASSUME Served, OnePlace', NEW b \in Buckets, NEW i \in JobWorkers, JobDone(b, i)
  PROVE  Served'
<1>1. PICK m \in AllMsgs : m = work[b][i].job
  BY DoneWork DEF Served, OnePlace
<1>2. /\ work' = [work EXCEPT ![b][i] = IdleWork] /\ handled' = handled \cup {<< m, b >>}
      /\ work[b][i].locked /\ work[b][i].todo = {}
      /\ work \in [Buckets -> [JobWorkers -> WorkJobs]]
  BY <1>1, DoneWork, WorkIsTyped DEF Served, OnePlace
<1>3. \A a \in Buckets, j \in JobWorkers :
        work'[a][j] = IF a = b /\ j = i THEN IdleWork ELSE work[a][j]
  BY <1>2
<1>4. UNCHANGED << caller, audience, conn, outChan, got, full >>
  BY DEF JobDone, pushing, delivery
<1>5. \A c \in Conns : Received(c)' = Received(c)
  BY <1>4, ReceivedStays
<1>6. HadTurns(b, i)'
  BY <1>3 DEF HadTurns, IdleWork
<1>7. \A c \in Conns : /\ GetBucket(c) = b /\ c \in audience[m] /\ conn[c] = "open"
                       => m \in Received(c) \cup full[c]
  BY <1>1, <1>2 DEF Served, HadTurns, Turn
<1> QED  BY <1>2, <1>3, <1>4, <1>5, <1>6, <1>7, JobServed

LEMMA NextServed == ASSUME Served, [Next]_vars PROVE Served'
<1>1. OnePlace'
  BY NextPlaced DEF Served
<1>2. ASSUME NEW m \in Msgs, Push(m) PROVE Served'
  <2>1. CASE PushSend(m)
    BY <1>1, <2>1, PushSendServed
  <2>2. CASE PushCount(m) \/ PushRefused(m)
    <3>1. UNCHANGED << work, handled, audience, full, conn, outChan, got >>
      BY <2>2 DEF PushCount, PushRefused, backlog, jobs, delivery
    <3>2. \A n \in Msgs : Pushed(n) => Pushed(n)'
      BY <2>2 DEF PushCount, PushRefused, Pushed, Served, OnePlace, Typed, TypeOK
    <3> QED  BY <1>1, <3>1, <3>2, ReceivedStays, ServedStays
  <2> QED  BY <1>2, <2>1, <2>2 DEF Push
<1>3. ASSUME NEW w \in DispatchWorkers, Dispatch(w) PROVE Served'
  <2>1. UNCHANGED << caller, work, handled, audience, full, conn, outChan, got >>
    BY <1>3, CountsOnly DEF Dispatch, DispatchTake, DispatchSend, pushing, jobs, delivery
  <2> QED  BY <1>1, <2>1, ReceivedStays, ServedStays DEF Pushed
<1>4. ASSUME NEW b \in Buckets, NEW i \in JobWorkers, Job(b, i) PROVE Served'
  <2>1. CASE PushJobPendingDesc(b, i)
    <3>1. UNCHANGED << caller, work, handled, audience, full, conn, outChan, got >>
      BY <2>1, CountsOnly
    <3> QED  BY <1>1, <3>1, ReceivedStays, ServedStays DEF Pushed
  <2> QED
    BY <1>1, <1>4, <2>1, JobTakeServed, JobLockServed, JobSendServed, JobDoneServed DEF Job
<1>5. ASSUME NEW c \in Conns, AddConn(c) \/ CloseConn(c) \/ DelConn(c) \/ Write(c)
      PROVE  Served'
  <2>1. UNCHANGED << caller, audience, work, handled, full >>
    BY <1>5 DEF AddConn, CloseConn, DelConn, ConnGoes, Write, pushing, jobs
  <2>2. CASE Write(c)
    BY <1>1, <2>1, <2>2, WriteReceives, ServedStays DEF Write, Pushed, Served, OnePlace
  <2>3. CASE AddConn(c) \/ CloseConn(c) \/ DelConn(c)
    <3>1. conn \in [Conns -> {"new", "open", "closed", "gone"}]
      BY DEF Served, OnePlace, Typed, TypeOK
    <3>2. \A d \in Conns : \/ conn'[d] = conn[d]
                           \/ conn[d] = "new" /\ conn'[d] = "open"
                           \/ conn'[d] \in {"closed", "gone"}
      BY <2>3, <3>1 DEF AddConn, CloseConn, DelConn, ConnGoes
    <3>3. \A d \in Conns : Received(d)' = Received(d)
      BY <2>3, ReceivedStays DEF AddConn, CloseConn, DelConn, ConnGoes
    <3> QED  BY <1>1, <2>1, <3>2, <3>3, ServedStays DEF Pushed
  <2> QED  BY <1>5, <2>2, <2>3
<1>6. CASE UNCHANGED vars
  <2>1. UNCHANGED << caller, work, handled, audience, full, conn, outChan, got >>
    BY <1>6 DEF vars, pushing, jobs, delivery
  <2> QED  BY <1>1, <2>1, ReceivedStays, ServedStays DEF Pushed
<1> QED  BY <1>2, <1>3, <1>4, <1>5, <1>6 DEF Next, Idle

\* Who was registered and open at the push of a message to all, and still is when
\* its bucket is through, has got it or had a full outChan: no error of another
\* connection, and no connection that comes or goes, cuts the range short.
THEOREM AudienceIsServed == Spec => []AudienceServed
<1>1. Init => Served
  BY InitServed
<1>2. Served /\ [Next]_vars => Served'
  BY NextServed
<1>3. Served => AudienceServed
  BY DEF Served
<1> QED  BY <1>1, <1>2, <1>3, PTL DEF Spec

-----------------------------------------------------------------------------
(* The order of the messages, with one dispatch worker and one job worker per *)
(* bucket: the order in which dispatchChan took them                          *)

OneEach ==
  /\ \A v, w \in DispatchWorkers : v = w
  /\ \A i, j \in JobWorkers : i = j

\* The messages that dispatchChan and the dispatch worker still have for bucket b
Coming(b) ==
  Elems(dispatchChan) \cup
  {m \in Msgs : \E w \in DispatchWorkers : fan[w].job = m /\ fan[w].next <= b}

\* ... and its job channel
Ahead(b) == Elems(jobChan[b]) \cup Coming(b)

Rising(s, rank) == \A i, j \in 1 .. Len(s) : i < j => rank[s[i]] < rank[s[j]]

Below(S, T, rank) == \A l \in S, m \in T : rank[l] < rank[m]

InOrder(rank) ==
  /\ Rising(dispatchChan, rank)
  /\ \A w \in DispatchWorkers : fan[w] # IdleFan =>
       Below({fan[w].job}, Elems(dispatchChan), rank)
  /\ \A b \in Buckets :
       Rising(jobChan[b], rank) /\ Below(Elems(jobChan[b]), Coming(b), rank)
  /\ \A b \in Buckets, i \in JobWorkers : work[b][i] # IdleWork =>
       Below({work[b][i].job}, Ahead(b), rank)

InOrderAt(c, rank) ==
  /\ Rising(Inbox(c), rank)
  /\ Below(Received(c), Ahead(GetBucket(c)), rank)
  /\ \A i \in JobWorkers :
       LET x == work[GetBucket(c)][i]
       IN  x # IdleWork /\ (x.locked => c \in x.todo) => Below(Received(c), {x.job}, rank)

Ranks(rank, n) ==
  /\ rank \in [Msgs -> Nat] /\ n \in Nat
  /\ \A m \in Msgs : Pushed(m) => rank[m] < n

Ordered ==
  /\ OnePlace
  /\ OneEach => \E rank \in [Msgs -> Nat], n \in Nat :
       /\ Ranks(rank, n) /\ InOrder(rank)
       /\ \A c \in Conns : InOrderAt(c, rank)

LEMMA InitOrdered == ASSUME Init PROVE Ordered
<1>1. PICK rank \in [Msgs -> Nat] : rank = [m \in Msgs |-> 0]
  OBVIOUS
<1>2. Len(dispatchChan) = 0 /\ \A b \in Buckets : Len(jobChan[b]) = 0
  BY DEF Init
<1>3. \A c \in Conns : Len(Inbox(c)) = 0 /\ Received(c) = {}
  BY DEF Init, Received, Inbox
<1>4. /\ Elems(dispatchChan) = {} /\ \A b \in Buckets : Elems(jobChan[b]) = {}
      /\ \A w \in DispatchWorkers : fan[w] = IdleFan
      /\ \A b \in Buckets, i \in JobWorkers : work[b][i] = IdleWork
  BY <1>2 DEF Init, Elems
<1>5. InOrder(rank)
  BY <1>2, <1>4, JobsAreNamed DEF InOrder, Rising, Below, Coming, IdleFan
<1>6. \A c \in Conns : InOrderAt(c, rank)
  BY <1>3, <1>4, BucketOf DEF InOrderAt, Rising, Below
<1>7. Ranks(rank, 0)
  BY DEF Init, Ranks, Pushed
<1> QED  BY <1>5, <1>6, <1>7, InitPlaced DEF Ordered

LEMMA RisingAppend ==
  ASSUME NEW S, NEW s \in Seq(S), NEW e \in S, NEW rank \in [S -> Nat],
         Rising(s, rank), Below(Elems(s), {e}, rank)
  PROVE  Rising(Append(s, e), rank)
<1>1. /\ Len(Append(s, e)) = Len(s) + 1 /\ Len(s) \in Nat
      /\ \A i \in 1 .. Len(s) : Append(s, e)[i] = s[i]
      /\ Append(s, e)[Len(s) + 1] = e
  OBVIOUS
<1>2. \A i \in 1 .. Len(s) : rank[s[i]] < rank[e]
  BY DEF Below, Elems
<1>3. ASSUME NEW i \in 1 .. Len(s) + 1, NEW j \in 1 .. Len(s) + 1, i < j
      PROVE  rank[Append(s, e)[i]] < rank[Append(s, e)[j]]
  <2>1. i \in 1 .. Len(s) /\ Append(s, e)[i] = s[i]
    BY <1>1, <1>3
  <2>2. CASE j = Len(s) + 1
    BY <1>1, <1>2, <2>1, <2>2
  <2>3. CASE j \in 1 .. Len(s)
    BY <1>1, <1>3, <2>1, <2>3 DEF Rising
  <2> QED  BY <1>1, <2>2, <2>3
<1> QED  BY <1>1, <1>3 DEF Rising

LEMMA RisingTail ==
  ASSUME NEW S, NEW s \in Seq(S), s # << >>, NEW rank \in [S -> Nat], Rising(s, rank)
  PROVE  Rising(Tail(s), rank) /\ Below({Head(s)}, Elems(Tail(s)), rank)
<1>1. /\ Len(s) \in Nat \ {0} /\ Len(Tail(s)) = Len(s) - 1
      /\ \A i \in 1 .. Len(s) - 1 : Tail(s)[i] = s[i + 1]
      /\ Head(s) = s[1]
  OBVIOUS
<1>2. ASSUME NEW i \in 1 .. Len(s) - 1, NEW j \in 1 .. Len(s) - 1, i < j
      PROVE  rank[Tail(s)[i]] < rank[Tail(s)[j]]
  <2>1. i + 1 \in 1 .. Len(s) /\ j + 1 \in 1 .. Len(s) /\ i + 1 < j + 1
    BY <1>1, <1>2
  <2>2. rank[s[i + 1]] < rank[s[j + 1]]
    BY <2>1 DEF Rising
  <2> QED  BY <1>1, <2>2
<1>3. ASSUME NEW i \in 1 .. Len(s) - 1 PROVE rank[Head(s)] < rank[Tail(s)[i]]
  <2>1. i + 1 \in 1 .. Len(s) /\ 1 \in 1 .. Len(s) /\ 1 < i + 1
    BY <1>1
  <2>2. rank[s[1]] < rank[s[i + 1]]
    BY <2>1 DEF Rising
  <2> QED  BY <1>1, <2>2
<1> QED  BY <1>1, <1>2, <1>3 DEF Rising, Below, Elems

\* A rank that differs only for a message which is in neither place
LEMMA RanksElsewhere ==
  ASSUME NEW S, NEW rank, NEW rank2, NEW m,
         \A l \in S : l # m => rank2[l] = rank[l]
  PROVE  /\ \A s \in Seq(S) : Rising(s, rank) /\ m \notin Elems(s) => Rising(s, rank2)
         /\ \A A, B \in SUBSET S :
              Below(A, B, rank) /\ m \notin A \cup B => Below(A, B, rank2)
<1>1. ASSUME NEW s \in Seq(S), Rising(s, rank), m \notin Elems(s) PROVE Rising(s, rank2)
  <2>1. \A i \in 1 .. Len(s) : s[i] \in S /\ s[i] # m
    BY <1>1 DEF Elems
  <2>2. \A i \in 1 .. Len(s) : rank2[s[i]] = rank[s[i]]
    BY <2>1
  <2> QED  BY <1>1, <2>2 DEF Rising
<1>2. ASSUME NEW A \in SUBSET S, NEW B \in SUBSET S, Below(A, B, rank), m \notin A \cup B
      PROVE  Below(A, B, rank2)
  <2>1. \A l \in A \cup B : l \in S /\ l # m
    BY <1>2
  <2> QED  BY <1>2, <2>1 DEF Below
<1> QED  BY <1>1, <1>2

\* From ranks to the order of two connections
LEMMA OrderedAgree == ASSUME Ordered PROVE AgreedOrder
<1> SUFFICES ASSUME Cardinality(DispatchWorkers) = 1, Cardinality(JobWorkers) = 1,
                    NEW c \in Conns, NEW d \in Conns,
                    NEW i \in DOMAIN Inbox(c), NEW j \in DOMAIN Inbox(c),
                    NEW k \in DOMAIN Inbox(d), NEW l \in DOMAIN Inbox(d),
                    Inbox(c)[i] = Inbox(d)[k], Inbox(c)[j] = Inbox(d)[l]
             PROVE  i < j <=> k < l
  BY DEF AgreedOrder
<1>1. OneEach
  <2>1. PICK w : DispatchWorkers = {w}
    BY FS_Singleton, CountsAssumption
  <2>2. PICK u : JobWorkers = {u}
    BY FS_Singleton, CountsAssumption
  <2> QED  BY <2>1, <2>2 DEF OneEach
<1>2. PICK rank \in [Msgs -> Nat] : \A e \in Conns : Rising(Inbox(e), rank)
  BY <1>1 DEF Ordered, InOrderAt
<1>3. /\ Inbox(c) \in Seq(AllMsgs) /\ Inbox(d) \in Seq(AllMsgs)
  BY InboxTyped DEF Ordered, OnePlace
<1>4. /\ i \in 1 .. Len(Inbox(c)) /\ j \in 1 .. Len(Inbox(c))
      /\ k \in 1 .. Len(Inbox(d)) /\ l \in 1 .. Len(Inbox(d))
      /\ Inbox(c)[i] \in Msgs /\ Inbox(c)[j] \in Msgs
  BY <1>3, JobsAreNamed
<1>5. PICK p \in Nat, q \in Nat : p = rank[Inbox(c)[i]] /\ q = rank[Inbox(c)[j]]
  BY <1>4
<1>6. /\ i < j => p < q
      /\ j < i => q < p
      /\ k < l => p < q
      /\ l < k => q < p
  BY <1>2, <1>4, <1>5 DEF Rising
<1>7. i = j => p = q
  BY <1>5
<1>8. k = l => p = q
  BY <1>5
<1> QED  BY <1>4, <1>5, <1>6, <1>7, <1>8

LEMMA PlacesAreMsgs ==
  ASSUME OnePlace
  PROVE  /\ dispatchChan \in Seq(Msgs) /\ Elems(dispatchChan) \subseteq Msgs
         /\ \A b \in Buckets : /\ jobChan[b] \in Seq(Msgs) /\ Elems(jobChan[b]) \subseteq Msgs
                               /\ Coming(b) \subseteq Msgs /\ Ahead(b) \subseteq Msgs
         /\ \A c \in Conns : /\ Inbox(c) \in Seq(Msgs) /\ Inbox(c) \in Seq(AllMsgs)
                             /\ Received(c) = Elems(Inbox(c)) /\ Received(c) \subseteq Msgs
<1>1. dispatchChan \in Seq(Msgs) /\ \A b \in Buckets : jobChan[b] \in Seq(Msgs)
  BY DEF OnePlace, Typed, TypeOK
<1>2. ASSUME NEW c \in Conns
      PROVE  /\ Inbox(c) \in Seq(Msgs) /\ Inbox(c) \in Seq(AllMsgs)
             /\ Received(c) = Elems(Inbox(c)) /\ Received(c) \subseteq Msgs
  <2>1. Inbox(c) \in Seq(AllMsgs) /\ Received(c) = Elems(Inbox(c)) /\ Received(c) \subseteq AllMsgs
    BY InboxTyped DEF OnePlace
  <2>2. Inbox(c) \in Seq(Msgs)
    BY <2>1, JobsAreNamed
  <2> QED  BY <2>1, <2>2, JobsAreNamed
<1>3. Elems(dispatchChan) \subseteq Msgs /\ \A b \in Buckets : Elems(jobChan[b]) \subseteq Msgs
  BY MsgsOnly DEF OnePlace
<1> QED  BY <1>1, <1>2, <1>3 DEF Coming, Ahead

\* Whatever is on its way was pushed, and a message not pushed is nowhere.
LEMMA PlacesArePushed ==
  ASSUME OnePlace
  PROVE  /\ \A l \in Elems(dispatchChan) : Pushed(l)
         /\ \A w \in DispatchWorkers : fan[w] # IdleFan => fan[w].job \in Msgs /\ Pushed(fan[w].job)
         /\ \A b \in Buckets : \A l \in Elems(jobChan[b]) \cup Coming(b) \cup Ahead(b) : Pushed(l)
         /\ \A b \in Buckets, i \in JobWorkers : work[b][i] # IdleWork =>
              work[b][i].job \in Msgs /\ Pushed(work[b][i].job)
         /\ \A c \in Conns : \A l \in Received(c) : Pushed(l)
<1>1. \A l \in Elems(dispatchChan) : Pushed(l)
  BY DEF OnePlace, InDispatchChan
<1>2. \A w \in DispatchWorkers : fan[w] # IdleFan => fan[w].job \in Msgs /\ Pushed(fan[w].job)
  BY MsgsOnly DEF OnePlace, WithDispatcher
<1>3. \A w \in DispatchWorkers : fan[w].job \in Msgs => fan[w] # IdleFan
  BY JobsAreNamed DEF IdleFan
<1>4. \A b \in Buckets : \A l \in Coming(b) : Pushed(l)
  BY <1>1, <1>2, <1>3 DEF Coming
<1>5. \A b \in Buckets : \A l \in Elems(jobChan[b]) : Pushed(l)
  BY DEF OnePlace, InJobChan
<1>6. \A b \in Buckets, i \in JobWorkers : work[b][i] # IdleWork =>
        work[b][i].job \in Msgs /\ Pushed(work[b][i].job)
  BY MsgsOnly, JobsAreNamed DEF OnePlace, WithWorker
<1>7. \A c \in Conns : \A l \in Received(c) : Pushed(l)
  BY DEF OnePlace, Through
<1> QED  BY <1>1, <1>2, <1>4, <1>5, <1>6, <1>7 DEF Ahead

LEMMA PushSendOrders ==
  ASSUME OnePlace, NEW rank \in [Msgs -> Nat], NEW n \in Nat, Ranks(rank, n),
         InOrder(rank), \A c \in Conns : InOrderAt(c, rank),
         NEW m \in Msgs, PushSend(m)
  PROVE  \E rank2 \in [Msgs -> Nat], n2 \in Nat :
           /\ Ranks(rank2, n2)' /\ InOrder(rank2)'
           /\ \A c \in Conns : InOrderAt(c, rank2)'
<1>1. /\ dispatchChan' = Append(dispatchChan, m) /\ caller' = [caller EXCEPT ![m] = "sent"]
      /\ UNCHANGED << fan, jobChan, work, handled, got, outChan >> /\ ~Pushed(m)
  BY DEF PushSend, jobs, delivery, Pushed
<1>2. PICK rank2 \in [Msgs -> Nat] : rank2 = [rank EXCEPT ![m] = n]
  OBVIOUS
<1>3. rank2[m] = n /\ \A l \in Msgs : l # m => rank2[l] = rank[l]
  BY <1>2
<1>4. \A S \in SUBSET Msgs : (\A l \in S : Pushed(l)) => m \notin S /\ Below(S, {m}, rank2)
  BY <1>1, <1>3 DEF Ranks, Below
<1>5. /\ \A s \in Seq(Msgs) :
           Rising(s, rank) /\ (\A l \in Elems(s) : Pushed(l)) => Rising(s, rank2)
      /\ \A S, T \in SUBSET Msgs :
           Below(S, T, rank) /\ (\A l \in S \cup T : Pushed(l)) =>
             Below(S, T, rank2) /\ Below(S, T \cup {m}, rank2)
  <2>1. ASSUME NEW s \in Seq(Msgs), Rising(s, rank), \A l \in Elems(s) : Pushed(l)
        PROVE  Rising(s, rank2)
    BY <1>1, <1>3, <2>1, RanksElsewhere
  <2>2. ASSUME NEW S \in SUBSET Msgs, NEW T \in SUBSET Msgs, Below(S, T, rank),
               \A l \in S \cup T : Pushed(l)
        PROVE  Below(S, T, rank2) /\ Below(S, T \cup {m}, rank2)
    <3>1. Below(S, T, rank2)
      BY <1>1, <1>3, <2>2, RanksElsewhere
    <3>2. Below(S, {m}, rank2)
      BY <1>4, <2>2
    <3> QED  BY <3>1, <3>2 DEF Below
  <2> QED  BY <2>1, <2>2
<1>6. /\ Elems(dispatchChan') = Elems(dispatchChan) \cup {m}
      /\ \A b \in Buckets : /\ Coming(b)' = Coming(b) \cup {m}
                            /\ Ahead(b)' = Ahead(b) \cup {m}
  <2>1. Elems(dispatchChan') = Elems(dispatchChan) \cup {m}
    BY <1>1, PlacesAreMsgs, ElemsOfAppend
  <2> QED  BY <1>1, <2>1 DEF Coming, Ahead
<1>7. Rising(dispatchChan', rank2)
  <2>1. Rising(dispatchChan, rank2)
    BY <1>5, PlacesAreMsgs, PlacesArePushed DEF InOrder
  <2>2. Below(Elems(dispatchChan), {m}, rank2)
    BY <1>4, PlacesAreMsgs, PlacesArePushed
  <2> QED  BY <1>1, <2>1, <2>2, PlacesAreMsgs, RisingAppend
<1>8. ASSUME NEW w \in DispatchWorkers, fan[w] # IdleFan
      PROVE  Below({fan[w].job}, Elems(dispatchChan'), rank2)
  <2>1. PICK x \in Msgs : x = fan[w].job
    BY <1>8, PlacesArePushed
  <2>2. Below({x}, Elems(dispatchChan), rank) /\ Pushed(x)
    BY <1>8, <2>1, PlacesArePushed DEF InOrder
  <2>3. Below({x}, Elems(dispatchChan) \cup {m}, rank2)
    BY <1>5, <2>2, PlacesAreMsgs, PlacesArePushed
  <2> QED  BY <1>6, <2>1, <2>3
<1>9. ASSUME NEW b \in Buckets
      PROVE  Rising(jobChan[b], rank2) /\ Below(Elems(jobChan[b]), Coming(b)', rank2)
  <2>1. /\ Rising(jobChan[b], rank) /\ jobChan[b] \in Seq(Msgs)
        /\ \A l \in Elems(jobChan[b]) : Pushed(l)
    BY PlacesAreMsgs, PlacesArePushed DEF InOrder
  <2>2. Below(Elems(jobChan[b]), Coming(b), rank)
    BY DEF InOrder
  <2>3. Below(Elems(jobChan[b]), Coming(b) \cup {m}, rank2)
    BY <1>5, <2>2, PlacesAreMsgs, PlacesArePushed
  <2> QED  BY <1>5, <1>6, <2>1, <2>3
<1>10. ASSUME NEW b \in Buckets, NEW i \in JobWorkers, work[b][i] # IdleWork
       PROVE  Below({work[b][i].job}, Ahead(b)', rank2)
  <2>1. PICK x \in Msgs : x = work[b][i].job
    BY <1>10, PlacesArePushed
  <2>2. Below({x}, Ahead(b), rank) /\ Pushed(x)
    BY <1>10, <2>1, PlacesArePushed DEF InOrder
  <2>3. Below({x}, Ahead(b) \cup {m}, rank2)
    BY <1>5, <2>2, PlacesAreMsgs, PlacesArePushed
  <2> QED  BY <1>6, <2>1, <2>3
<1>11. ASSUME NEW c \in Conns PROVE InOrderAt(c, rank2)'
  <2>1. PICK b \in Buckets : b = GetBucket(c)
    BY BucketOf
  <2>2. Inbox(c)' = Inbox(c) /\ Received(c)' = Received(c)
    BY <1>1, ReceivedStays
  <2>3. Rising(Inbox(c), rank2)
    BY <1>5, PlacesAreMsgs, PlacesArePushed DEF InOrderAt
  <2>4. Below(Received(c), Ahead(b) \cup {m}, rank2)
    BY <1>5, <2>1, PlacesAreMsgs, PlacesArePushed DEF InOrderAt
  <2>5. ASSUME NEW i \in JobWorkers, work[b][i] # IdleWork,
               work[b][i].locked => c \in work[b][i].todo
        PROVE  Below(Received(c), {work[b][i].job}, rank2)
    <3>1. PICK x \in Msgs : x = work[b][i].job
      BY <2>5, PlacesArePushed
    <3>2. Below(Received(c), {x}, rank) /\ Pushed(x)
      BY <2>1, <2>5, <3>1, PlacesArePushed DEF InOrderAt
    <3> QED  BY <1>5, <3>1, <3>2, PlacesAreMsgs, PlacesArePushed
  <2> QED  BY <1>1, <1>6, <2>1, <2>2, <2>3, <2>4, <2>5 DEF InOrderAt
<1>12. InOrder(rank2)'
  BY <1>1, <1>7, <1>8, <1>9, <1>10 DEF InOrder
<1>13. Ranks(rank2, n + 1)'
  <2>1. \A l \in Msgs : l # m => (Pushed(l)' <=> Pushed(l))
    BY <1>1 DEF Pushed, OnePlace, Typed, TypeOK
  <2> QED  BY <1>3, <2>1 DEF Ranks
<1> QED  BY <1>11, <1>12, <1>13

\* A step that only brings messages forward in the channels
LEMMA ForwardOrders ==
  ASSUME NEW rank, InOrder(rank), \A c \in Conns : InOrderAt(c, rank),
         UNCHANGED << work, got, outChan >>, \A b \in Buckets : Ahead(b)' \subseteq Ahead(b)
  PROVE  /\ \A b \in Buckets, i \in JobWorkers : work[b][i] # IdleWork =>
              Below({work[b][i].job}, Ahead(b)', rank)
         /\ \A c \in Conns : InOrderAt(c, rank)'
<1>1. ASSUME NEW b \in Buckets, NEW i \in JobWorkers, work[b][i] # IdleWork
      PROVE  Below({work[b][i].job}, Ahead(b)', rank)
  BY <1>1 DEF InOrder, Below
<1>2. ASSUME NEW c \in Conns PROVE InOrderAt(c, rank)'
  <2>1. Inbox(c)' = Inbox(c) /\ Received(c)' = Received(c)
    BY ReceivedStays
  <2>2. Below(Received(c), Ahead(GetBucket(c))', rank)
    BY BucketOf DEF InOrderAt, Below
  <2> QED  BY <2>1, <2>2 DEF InOrderAt
<1> QED  BY <1>1, <1>2

LEMMA TakeOrders ==
  ASSUME OnePlace, OneEach, NEW rank \in [Msgs -> Nat], InOrder(rank),
         \A c \in Conns : InOrderAt(c, rank), NEW w \in DispatchWorkers, DispatchTake(w)
  PROVE  InOrder(rank)' /\ \A c \in Conns : InOrderAt(c, rank)'
<1>1. /\ dispatchChan' = Tail(dispatchChan) /\ dispatchChan # << >>
      /\ UNCHANGED << jobChan, work, got, outChan >>
  BY DEF DispatchTake, jobs, delivery
<1>2. PICK m \in Msgs : m = Head(dispatchChan)
  BY <1>1, PlacesAreMsgs
<1>3. /\ Elems(dispatchChan) = {m} \cup Elems(dispatchChan')
      /\ Rising(dispatchChan', rank) /\ Below({m}, Elems(dispatchChan'), rank)
  <2>1. Rising(dispatchChan, rank)
    BY DEF InOrder
  <2> QED  BY <1>1, <1>2, <2>1, PlacesAreMsgs, ElemsOfTail, RisingTail
<1>4. \A v \in DispatchWorkers : v = w
  BY DEF OneEach
<1>5. fan'[w] = IdleFan \/ fan'[w].job = m
  <2>1. fan \in [DispatchWorkers -> FanJobs] /\ fan[w] = IdleFan
    BY DEF DispatchTake, OnePlace, Typed, TypeOK, FanJobs
  <2> QED  BY <1>2, <2>1, TakeFan DEF OnePlace
<1>6. \A b \in Buckets : Coming(b)' \subseteq Coming(b)
  BY <1>3, <1>4, <1>5, JobsAreNamed DEF Coming, IdleFan
<1>7. \A b \in Buckets : Ahead(b)' \subseteq Ahead(b)
  BY <1>1, <1>6 DEF Ahead
<1>8. ASSUME NEW v \in DispatchWorkers, fan'[v] # IdleFan
      PROVE  Below({fan'[v].job}, Elems(dispatchChan'), rank)
  BY <1>3, <1>4, <1>5, <1>8
<1>9. ASSUME NEW b \in Buckets
      PROVE  Rising(jobChan[b], rank) /\ Below(Elems(jobChan[b]), Coming(b)', rank)
  BY <1>6 DEF InOrder, Below
<1> QED  BY <1>1, <1>3, <1>7, <1>8, <1>9, ForwardOrders DEF InOrder

LEMMA SendOrders ==
  ASSUME OnePlace, OneEach, NEW rank \in [Msgs -> Nat], InOrder(rank),
         \A c \in Conns : InOrderAt(c, rank), NEW w \in DispatchWorkers, DispatchSend(w)
  PROVE  InOrder(rank)' /\ \A c \in Conns : InOrderAt(c, rank)'
<1>1. fan[w] # IdleFan /\ UNCHANGED << dispatchChan, work, got, outChan >>
  BY DEF DispatchSend, jobs, delivery
<1>2. PICK b \in Buckets : b = fan[w].next
  BY SendFan DEF OnePlace
<1>3. PICK m \in Msgs : m = fan[w].job
  BY SendFan DEF OnePlace
<1>4. /\ jobChan' = [jobChan EXCEPT ![b] = Append(jobChan[b], m)]
      /\ jobChan \in [Buckets -> Seq(Msgs)] /\ jobChan[b] \in Seq(Msgs)
  BY <1>2, <1>3 DEF DispatchSend, Enqueue, OnePlace, Typed, TypeOK
<1>5. \A v \in DispatchWorkers : v = w
  BY DEF OneEach
<1>6. fan'[w] = IdleFan \/ (fan'[w].job = m /\ fan'[w].next = b + 1)
  <2>1. fan \in [DispatchWorkers -> FanJobs]
    BY DEF OnePlace, Typed, TypeOK, FanJobs
  <2>2. fan'[w] = IdleFan \/ fan'[w] = [job |-> m, next |-> b + 1]
    BY <1>2, <1>3, <2>1, SendFan DEF OnePlace
  <2> QED  BY <2>2
<1>7. b \in Int /\ \A a \in Buckets : a \in Int
  BY DEF Buckets
<1>8. /\ jobChan'[b] = Append(jobChan[b], m)
      /\ Elems(jobChan'[b]) = Elems(jobChan[b]) \cup {m}
      /\ \A a \in Buckets : a # b => jobChan'[a] = jobChan[a]
  BY <1>4, ElemsOfAppend
<1>9. m \in Coming(b)
  BY <1>2, <1>3, <1>7 DEF Coming
<1>10. /\ \A a \in Buckets : Coming(a)' \subseteq Coming(a)
       /\ Coming(b)' = Elems(dispatchChan)
  <2>1. ASSUME NEW a \in Buckets, NEW l \in Msgs, NEW v \in DispatchWorkers,
               fan'[v].job = l, fan'[v].next <= a
        PROVE  fan[v].job = l /\ fan[v].next <= a /\ a # b
    <3>1. v = w
      BY <1>5
    <3>2. fan'[w] # IdleFan
      BY <2>1, <3>1, JobsAreNamed DEF IdleFan
    <3>3. l = m /\ b + 1 <= a
      BY <1>6, <2>1, <3>1, <3>2
    <3> QED  BY <1>2, <1>3, <1>7, <3>1, <3>3
  <2> QED  BY <1>1, <2>1 DEF Coming
<1>11. \A a \in Buckets : Ahead(a)' \subseteq Ahead(a)
  BY <1>8, <1>9, <1>10 DEF Ahead
<1>12. ASSUME NEW v \in DispatchWorkers, fan'[v] # IdleFan
       PROVE  Below({fan'[v].job}, Elems(dispatchChan), rank)
  <2>1. Below({m}, Elems(dispatchChan), rank)
    BY <1>1, <1>3 DEF InOrder
  <2> QED  BY <1>5, <1>6, <1>12, <2>1
<1>13. ASSUME NEW a \in Buckets
       PROVE  Rising(jobChan'[a], rank) /\ Below(Elems(jobChan'[a]), Coming(a)', rank)
  <2>1. CASE a = b
    <3>1. Rising(jobChan[b], rank) /\ Below(Elems(jobChan[b]), Coming(b), rank)
      BY DEF InOrder
    <3>2. Below(Elems(jobChan[b]), {m}, rank)
      BY <1>9, <3>1 DEF Below
    <3>3. Rising(jobChan'[b], rank)
      BY <1>4, <1>8, <3>1, <3>2, RisingAppend
    <3>4. Below({m}, Elems(dispatchChan), rank)
      BY <1>1, <1>3 DEF InOrder
    <3>5. Below(Elems(jobChan[b]) \cup {m}, Elems(dispatchChan), rank)
      BY <3>1, <3>4 DEF Below, Coming
    <3> QED  BY <1>8, <1>10, <2>1, <3>3, <3>5
  <2>2. CASE a # b
    BY <1>8, <1>10, <2>2 DEF InOrder, Below
  <2> QED  BY <2>1, <2>2
<1> QED  BY <1>1, <1>11, <1>12, <1>13, ForwardOrders DEF InOrder

LEMMA JobTakeOrders ==
  ASSUME OnePlace, OneEach, NEW rank \in [Msgs -> Nat], InOrder(rank),
         \A c \in Conns : InOrderAt(c, rank),
         NEW b \in Buckets, NEW i \in JobWorkers, JobTake(b, i)
  PROVE  InOrder(rank)' /\ \A c \in Conns : InOrderAt(c, rank)'
<1>1. PICK m \in Msgs : m = Head(jobChan[b])
  BY TakeWork DEF OnePlace
<1>2. UNCHANGED << dispatchChan, fan, outChan, got >>
  BY DEF JobTake, pushing, delivery
<1>3. /\ jobChan[b] \in Seq(Msgs) /\ jobChan[b] # << >>
      /\ jobChan' = [jobChan EXCEPT ![b] = Tail(jobChan[b])]
      /\ jobChan \in [Buckets -> Seq(Msgs)]
  BY TakeWork DEF OnePlace, Typed, TypeOK
<1>4. /\ Elems(jobChan[b]) = {m} \cup Elems(jobChan'[b])
      /\ Rising(jobChan'[b], rank) /\ Below({m}, Elems(jobChan'[b]), rank)
      /\ \A a \in Buckets : a # b => jobChan'[a] = jobChan[a]
  <2>1. jobChan'[b] = Tail(jobChan[b]) /\ Rising(jobChan[b], rank)
    BY <1>3 DEF InOrder
  <2> QED  BY <1>1, <1>3, <2>1, ElemsOfTail, RisingTail
<1>5. /\ \A a \in Buckets : Coming(a)' = Coming(a) /\ Ahead(a)' \subseteq Ahead(a)
      /\ Ahead(b)' = Elems(jobChan'[b]) \cup Coming(b)
  BY <1>2, <1>4 DEF Coming, Ahead
<1>6. \A a \in Buckets, j \in JobWorkers :
        \/ work'[a][j] = work[a][j]
        \/ a = b /\ work'[a][j] = Waiting(m)
  <2>1. work \in [Buckets -> [JobWorkers -> WorkJobs]]
    BY WorkIsTyped DEF OnePlace
  <2>2. work' = work \/ work' = [work EXCEPT ![b][i] = Waiting(m)]
    BY <1>1, TakeWork DEF OnePlace
  <2> QED  BY <2>1, <2>2
<1>7. Below({m}, Ahead(b)', rank)
  <2>1. Below({m}, Coming(b), rank)
    BY <1>4 DEF InOrder, Below
  <2> QED  BY <1>4, <1>5, <2>1 DEF Below
<1>8. ASSUME NEW a \in Buckets, NEW j \in JobWorkers, work'[a][j] # IdleWork
      PROVE  Below({work'[a][j].job}, Ahead(a)', rank)
  <2>1. CASE work'[a][j] = work[a][j]
    BY <1>5, <1>8, <2>1 DEF InOrder, Below
  <2>2. CASE a = b /\ work'[a][j] = Waiting(m)
    BY <1>7, <2>2 DEF Waiting
  <2> QED  BY <1>6, <2>1, <2>2
<1>9. ASSUME NEW a \in Buckets
      PROVE  Rising(jobChan'[a], rank) /\ Below(Elems(jobChan'[a]), Coming(a), rank)
  BY <1>4 DEF InOrder, Below
<1>10. ASSUME NEW c \in Conns PROVE InOrderAt(c, rank)'
  <2>1. PICK a \in Buckets : a = GetBucket(c)
    BY BucketOf
  <2>2. Inbox(c)' = Inbox(c) /\ Received(c)' = Received(c)
    BY <1>2, ReceivedStays
  <2>3. Below(Received(c), Ahead(a), rank)
    BY <2>1 DEF InOrderAt
  <2>4. Below(Received(c), Ahead(a)', rank)
    BY <1>5, <2>3 DEF Below
  <2>5. ASSUME NEW j \in JobWorkers, work'[a][j] # IdleWork,
               work'[a][j].locked => c \in work'[a][j].todo
        PROVE  Below(Received(c), {work'[a][j].job}, rank)
    <3>1. CASE work'[a][j] = work[a][j]
      BY <2>1, <2>5, <3>1 DEF InOrderAt
    <3>2. CASE a = b /\ work'[a][j] = Waiting(m)
      <4>1. m \in Ahead(b)
        BY <1>4 DEF Ahead
      <4> QED  BY <2>3, <3>2, <4>1 DEF Waiting, Below
    <3> QED  BY <1>6, <3>1, <3>2
  <2> QED  BY <2>1, <2>2, <2>4, <2>5 DEF InOrderAt
<1> QED  BY <1>2, <1>5, <1>8, <1>9, <1>10 DEF InOrder

\* A step of a job worker after it has taken its job
LEMMA WorkOrders ==
  ASSUME NEW rank, InOrder(rank), \A c \in Conns : InOrderAt(c, rank),
         UNCHANGED << dispatchChan, fan, jobChan >>,
         \A a \in Buckets, j \in JobWorkers :
           \/ work'[a][j] = IdleWork
           \/ work'[a][j].job = work[a][j].job /\ work[a][j] # IdleWork
  PROVE  InOrder(rank)' /\ \A b \in Buckets : Ahead(b)' = Ahead(b)
<1>1. \A b \in Buckets : Coming(b)' = Coming(b) /\ Ahead(b)' = Ahead(b)
  BY DEF Coming, Ahead
<1> QED  BY <1>1 DEF InOrder

LEMMA JobLockOrders ==
  ASSUME OnePlace, OneEach, NEW rank \in [Msgs -> Nat], InOrder(rank),
         \A c \in Conns : InOrderAt(c, rank),
         NEW b \in Buckets, NEW i \in JobWorkers, JobLock(b, i)
  PROVE  InOrder(rank)' /\ \A c \in Conns : InOrderAt(c, rank)'
<1>1. PICK m \in AllMsgs : m = work[b][i].job
  BY LockWork DEF OnePlace
<1>2. PICK x : /\ x = Ranging(m, Registered(b))
               /\ work \in [Buckets -> [JobWorkers -> WorkJobs]]
  BY WorkIsTyped DEF OnePlace
<1>3. work' = [work EXCEPT ![b][i] = x] /\ x.job = m
  BY <1>1, <1>2, LockWork DEF OnePlace, Ranging
<1>4. \A a \in Buckets, j \in JobWorkers :
        work'[a][j] = IF a = b /\ j = i THEN x ELSE work[a][j]
  BY <1>2, <1>3
<1>5. /\ work[b][i] # IdleWork /\ ~work[b][i].locked
      /\ UNCHANGED << dispatchChan, fan, jobChan, outChan, got >>
  BY DEF JobLock, pushing, delivery, backlog
<1>6. InOrder(rank)' /\ \A a \in Buckets : Ahead(a)' = Ahead(a)
  BY <1>1, <1>3, <1>4, <1>5, WorkOrders
<1>7. ASSUME NEW c \in Conns PROVE InOrderAt(c, rank)'
  <2>1. PICK a \in Buckets : a = GetBucket(c)
    BY BucketOf
  <2>2. Inbox(c)' = Inbox(c) /\ Received(c)' = Received(c)
    BY <1>5, ReceivedStays
  <2>3. ASSUME NEW j \in JobWorkers, work'[a][j] # IdleWork,
               work'[a][j].locked => c \in work'[a][j].todo
        PROVE  Below(Received(c), {work'[a][j].job}, rank)
    <3>1. CASE a = b /\ j = i
      <4>1. Below(Received(c), {m}, rank)
        BY <1>1, <1>5, <2>1, <3>1 DEF InOrderAt
      <4> QED  BY <1>3, <1>4, <3>1, <4>1
    <3>2. CASE ~(a = b /\ j = i)
      BY <1>4, <2>1, <2>3, <3>2 DEF InOrderAt
    <3> QED  BY <3>1, <3>2
  <2> QED  BY <1>6, <2>1, <2>2, <2>3 DEF InOrderAt
<1> QED  BY <1>6, <1>7

\* The message goes behind what the connection has already, and what comes for
\* its bucket is behind the message.
LEMMA JobSendOrders ==
  ASSUME OnePlace, OneEach, NEW rank \in [Msgs -> Nat], InOrder(rank),
         \A c \in Conns : InOrderAt(c, rank),
         NEW b \in Buckets, NEW i \in JobWorkers, NEW c \in Conns, JobSend(b, i, c)
  PROVE  InOrder(rank)' /\ \A d \in Conns : InOrderAt(d, rank)'
<1>1. PICK m \in AllMsgs : m = work[b][i].job
  BY SendWork DEF OnePlace
<1>2. PICK x : /\ x = Ranging(m, work[b][i].todo \ {c})
               /\ work \in [Buckets -> [JobWorkers -> WorkJobs]]
  BY WorkIsTyped DEF OnePlace
<1>3. /\ work' = [work EXCEPT ![b][i] = x]
      /\ x.job = m /\ x.locked /\ x.todo = work[b][i].todo \ {c}
      /\ work[b][i].locked /\ c \in work[b][i].todo /\ GetBucket(c) = b
  BY <1>1, <1>2, SendWork DEF OnePlace, Ranging
<1>4. \A a \in Buckets, j \in JobWorkers :
        work'[a][j] = IF a = b /\ j = i THEN x ELSE work[a][j]
  BY <1>2, <1>3
<1>5. /\ work[b][i] # IdleWork
      /\ UNCHANGED << dispatchChan, fan, jobChan, got >>
  BY <1>3 DEF JobSend, IdleWork, pushing, backlog
<1>6. InOrder(rank)' /\ \A a \in Buckets : Ahead(a)' = Ahead(a)
  BY <1>1, <1>3, <1>4, <1>5, WorkOrders
<1>7. \A d \in Conns : \/ Inbox(d)' = Inbox(d) /\ Received(d)' = Received(d)
                       \/ /\ d = c /\ Inbox(d)' = Append(Inbox(c), m)
                          /\ Received(d)' = Received(c) \cup {m}
  <2>1. CASE outChan' = outChan
    BY <1>5, <2>1, ReceivedStays
  <2>2. CASE outChan' = [outChan EXCEPT ![c] = Append(outChan[c], m)]
    BY <1>5, <2>2, ReceivedOne DEF OnePlace
  <2>3. outChan' = outChan \/ outChan' = [outChan EXCEPT ![c] = Append(outChan[c], m)]
    BY <1>1, SentOrRefused
  <2> QED  BY <2>1, <2>2, <2>3
<1>8. ASSUME NEW d \in Conns PROVE InOrderAt(d, rank)'
  <2>1. PICK a \in Buckets : a = GetBucket(d)
    BY BucketOf
  <2>2. /\ Rising(Inbox(d), rank) /\ Below(Received(d), Ahead(a), rank)
        /\ \A j \in JobWorkers :
             work[a][j] # IdleWork /\ (work[a][j].locked => d \in work[a][j].todo) =>
               Below(Received(d), {work[a][j].job}, rank)
    BY <2>1 DEF InOrderAt
  <2>3. CASE Inbox(d)' = Inbox(d) /\ Received(d)' = Received(d)
    <3>1. ASSUME NEW j \in JobWorkers, work'[a][j] # IdleWork,
                 work'[a][j].locked => d \in work'[a][j].todo
          PROVE  Below(Received(d), {work'[a][j].job}, rank)
      <4>1. CASE a = b /\ j = i
        <5>1. d \in work[b][i].todo
          BY <1>3, <1>4, <3>1, <4>1
        <5>2. Below(Received(d), {m}, rank)
          BY <1>1, <1>5, <2>2, <4>1, <5>1
        <5>3. work'[a][j] = x
          BY <1>4, <4>1
        <5>4. work'[a][j].job = m
          BY <1>3, <5>3
        <5> QED  BY <5>2, <5>4
      <4>2. CASE ~(a = b /\ j = i)
        BY <1>4, <2>2, <3>1, <4>2
      <4> QED  BY <4>1, <4>2
    <3>2. Rising(Inbox(d)', rank) /\ Below(Received(d)', Ahead(a)', rank)
      BY <1>6, <2>2, <2>3
    <3> QED  BY <2>1, <2>3, <3>1, <3>2 DEF InOrderAt
  <2>4. CASE /\ d = c /\ Inbox(d)' = Append(Inbox(c), m)
             /\ Received(d)' = Received(c) \cup {m}
    <3>1. a = b
      BY <1>3, <2>1, <2>4
    <3>2. Below(Received(c), {m}, rank)
      BY <1>1, <1>3, <1>5, <2>2, <2>4, <3>1
    <3>3. Rising(Append(Inbox(c), m), rank)
      BY <2>2, <2>4, <3>2, PlacesAreMsgs, RisingAppend, JobsAreNamed
    <3>4. Below(Received(c) \cup {m}, Ahead(b), rank)
      <4>1. Below({m}, Ahead(b), rank)
        BY <1>1, <1>5 DEF InOrder
      <4> QED  BY <2>2, <2>4, <3>1, <4>1 DEF Below
    <3>5. ASSUME NEW j \in JobWorkers, work'[b][j] # IdleWork,
                 work'[b][j].locked => c \in work'[b][j].todo
          PROVE  FALSE
      <4>1. j = i
        BY DEF OneEach
      <4> QED  BY <1>3, <1>4, <3>5, <4>1
    <3> QED  BY <1>6, <2>1, <2>4, <3>1, <3>3, <3>4, <3>5 DEF InOrderAt
  <2> QED  BY <1>7, <2>3, <2>4
<1> QED  BY <1>6, <1>8

LEMMA JobDoneOrders ==
  ASSUME OnePlace, OneEach, NEW rank \in [Msgs -> Nat], InOrder(rank),
         \A c \in Conns : InOrderAt(c, rank),
         NEW b \in Buckets, NEW i \in JobWorkers, JobDone(b, i)
  PROVE  InOrder(rank)' /\ \A c \in Conns : InOrderAt(c, rank)'
<1>1. /\ work' = [work EXCEPT ![b][i] = IdleWork]
      /\ work \in [Buckets -> [JobWorkers -> WorkJobs]]
  BY DoneWork, WorkIsTyped DEF OnePlace
<1>2. \A a \in Buckets, j \in JobWorkers : work'[a][j] \in {IdleWork, work[a][j]}
  BY <1>1
<1>3. UNCHANGED << dispatchChan, fan, jobChan, outChan, got >>
  BY DEF JobDone, pushing, delivery, backlog
<1>4. InOrder(rank)' /\ \A a \in Buckets : Ahead(a)' = Ahead(a)
  BY <1>2, <1>3, WorkOrders
<1>5. ASSUME NEW c \in Conns PROVE InOrderAt(c, rank)'
  <2>1. PICK a \in Buckets : a = GetBucket(c)
    BY BucketOf
  <2>2. Inbox(c)' = Inbox(c) /\ Received(c)' = Received(c)
    BY <1>3, ReceivedStays
  <2> QED  BY <1>2, <1>4, <2>1, <2>2 DEF InOrderAt
<1> QED  BY <1>4, <1>5

LEMMA QuietOrders ==
  ASSUME NEW rank, InOrder(rank), \A c \in Conns : InOrderAt(c, rank),
         UNCHANGED << dispatchChan, fan, jobChan, work >>,
         \A c \in Conns : Inbox(c)' = Inbox(c) /\ Received(c)' = Received(c)
  PROVE  InOrder(rank)' /\ \A c \in Conns : InOrderAt(c, rank)'
<1>1. \A b \in Buckets : Coming(b)' = Coming(b) /\ Ahead(b)' = Ahead(b)
  BY DEF Coming, Ahead
<1>2. ASSUME NEW c \in Conns PROVE InOrderAt(c, rank)'
  BY <1>1, BucketOf DEF InOrderAt
<1> QED  BY <1>1, <1>2 DEF InOrder

LEMMA NextOrdered == ASSUME Ordered, [Next]_vars PROVE Ordered'
<1> SUFFICES ASSUME OnePlace, OneEach
             PROVE  \E rank \in [Msgs -> Nat], n \in Nat :
                      /\ Ranks(rank, n)' /\ InOrder(rank)'
                      /\ \A c \in Conns : InOrderAt(c, rank)'
  BY NextPlaced DEF Ordered, OneEach
<1>1. PICK rank \in [Msgs -> Nat], n \in Nat :
        /\ Ranks(rank, n) /\ InOrder(rank)
        /\ \A c \in Conns : InOrderAt(c, rank)
  BY DEF Ordered
<1>2. ASSUME \A m \in Msgs : Pushed(m)' => Pushed(m)
      PROVE  Ranks(rank, n)'
  BY <1>1, <1>2 DEF Ranks
<1>3. ASSUME NEW m \in Msgs, PushSend(m)
      PROVE  \E rank2 \in [Msgs -> Nat], n2 \in Nat :
               /\ Ranks(rank2, n2)' /\ InOrder(rank2)'
               /\ \A c \in Conns : InOrderAt(c, rank2)'
  BY <1>1, <1>3, PushSendOrders
<1>4. ASSUME NEW m \in Msgs, PushCount(m) \/ PushRefused(m)
      PROVE  /\ Ranks(rank, n)' /\ InOrder(rank)'
             /\ \A c \in Conns : InOrderAt(c, rank)'
  <2>1. UNCHANGED << dispatchChan, fan, jobChan, work, outChan, got >>
    BY <1>4 DEF PushCount, PushRefused, backlog, jobs, delivery
  <2>2. \A l \in Msgs : Pushed(l)' => Pushed(l)
    BY <1>4 DEF PushCount, PushRefused, Pushed, OnePlace, Typed, TypeOK
  <2> QED  BY <1>1, <1>2, <2>1, <2>2, ReceivedStays, QuietOrders
<1>5. ASSUME NEW w \in DispatchWorkers, Dispatch(w)
      PROVE  /\ Ranks(rank, n)' /\ InOrder(rank)'
             /\ \A c \in Conns : InOrderAt(c, rank)'
  <2>1. caller' = caller
    BY <1>5, CountsOnly DEF Dispatch, DispatchTake, DispatchSend, pushing
  <2>2. CASE DispatchPendingDesc(w) \/ PushJobPendingIncr(w)
    <3>1. UNCHANGED << dispatchChan, fan, jobChan, work, got, outChan >>
      BY <2>2, CountsOnly
    <3> QED  BY <1>1, <1>2, <2>1, <3>1, ReceivedStays, QuietOrders DEF Pushed
  <2> QED
    BY <1>1, <1>2, <1>5, <2>1, <2>2, TakeOrders, SendOrders DEF Dispatch, Pushed
<1>6. ASSUME NEW b \in Buckets, NEW i \in JobWorkers, Job(b, i)
      PROVE  /\ Ranks(rank, n)' /\ InOrder(rank)'
             /\ \A c \in Conns : InOrderAt(c, rank)'
  <2>1. caller' = caller
    BY <1>6, CountsOnly DEF Job, JobTake, JobLock, JobSend, JobDone, pushing
  <2>2. CASE PushJobPendingDesc(b, i)
    <3>1. UNCHANGED << dispatchChan, fan, jobChan, work, got, outChan >>
      BY <2>2, CountsOnly
    <3> QED  BY <1>1, <1>2, <2>1, <3>1, ReceivedStays, QuietOrders DEF Pushed
  <2> QED
    BY <1>1, <1>2, <1>6, <2>1, <2>2, JobTakeOrders, JobLockOrders, JobSendOrders, JobDoneOrders
       DEF Job, Pushed
<1>7. ASSUME NEW c \in Conns, AddConn(c) \/ CloseConn(c) \/ DelConn(c) \/ Write(c)
      PROVE  /\ Ranks(rank, n)' /\ InOrder(rank)'
             /\ \A d \in Conns : InOrderAt(d, rank)'
  <2>1. UNCHANGED << caller, dispatchChan, fan, jobChan, work >>
    BY <1>7 DEF AddConn, CloseConn, DelConn, ConnGoes, Write, pushing, backlog, jobs
  <2>2. \A d \in Conns : Inbox(d)' = Inbox(d) /\ Received(d)' = Received(d)
    <3>1. CASE Write(c)
      BY <3>1, WriteReceives DEF OnePlace
    <3>2. CASE AddConn(c) \/ CloseConn(c) \/ DelConn(c)
      BY <3>2, ReceivedStays DEF AddConn, CloseConn, DelConn, ConnGoes
    <3> QED  BY <1>7, <3>1, <3>2
  <2> QED  BY <1>1, <1>2, <2>1, <2>2, QuietOrders DEF Pushed
<1>8. ASSUME UNCHANGED vars
      PROVE  /\ Ranks(rank, n)' /\ InOrder(rank)'
             /\ \A d \in Conns : InOrderAt(d, rank)'
  <2>1. UNCHANGED << caller, dispatchChan, fan, jobChan, work, got, outChan >>
    BY <1>8 DEF vars, pushing, backlog, jobs, delivery
  <2> QED  BY <1>1, <1>2, <2>1, ReceivedStays, QuietOrders DEF Pushed
<1> QED  BY <1>1, <1>3, <1>4, <1>5, <1>6, <1>7, <1>8 DEF Next, Push, Idle

\* With one dispatch worker and one job worker per bucket, two connections, of one
\* bucket or of two, get the messages both get in one order.
THEOREM OrderIsAgreed == Spec => []AgreedOrder
<1>1. Init => Ordered
  BY InitOrdered
<1>2. Ordered /\ [Next]_vars => Ordered'
  BY NextOrdered
<1>3. Ordered => AgreedOrder
  BY OrderedAgree
<1> QED  BY <1>1, <1>2, <1>3, PTL DEF Spec
=============================================================================
