----------------------------- MODULE WsDispatch -----------------------------
(***************************************************************************)
(* The way of a pushed message in pkg/ws: Instance.PushAll or PushRoom     *)
(* puts a job in dispatchChan, a dispatch worker copies it to the job      *)
(* channel of every bucket, a job worker of the bucket sends it to the     *)
(* bucket's connections, and each connection's write loop to the socket.   *)
(*                                                                         *)
(* A connection is reduced to what a push meets of it: registered or not,  *)
(* closed or not, and its outChan (see WsSession for the rest).            *)
(***************************************************************************)
EXTENDS Integers, FiniteSets, Sequences

CONSTANTS AllMsgs,              \* messages pushed with PushAll
          RoomMsgs,             \* messages pushed with PushRoom
          BadMsgs,              \* those EncodeWsMessage fails on
          Conns,                \* connections, known by their ids
          BucketCount,          \* Config.BucketCount
          NoJob,                \* a worker that waits has no message
          DispatchWorkers,      \* Config.DispatchWorkerCount goroutines
          JobWorkers,           \* Config.BucketJobWorkerCount, per bucket
          DispatchChannelSize,  \* Config.DispatchChannelSize
          BucketJobChannelSize, \* Config.BucketJobChannelSize
          OutChannelSize        \* Config.OutChannelSize

ASSUME MessagesAssumption ==
  AllMsgs \cap RoomMsgs = {} /\ NoJob \notin AllMsgs \cup RoomMsgs
ASSUME CountsAssumption ==
  /\ Conns \subseteq Nat /\ BucketCount \in Nat \ {0}
  /\ IsFiniteSet(DispatchWorkers) /\ IsFiniteSet(JobWorkers)
ASSUME SizesAssumption ==
  /\ DispatchChannelSize \in Nat \ {0}
  /\ BucketJobChannelSize \in Nat \ {0}
  /\ OutChannelSize \in Nat \ {0}

VARIABLES
  caller,           \* the goroutine that pushes a message
  dispatchChan,     \* ConnManager.dispatchChan
  fan,              \* a dispatch worker: its job, and the next bucket
  jobChan,          \* ConnManager.jobChan, one per bucket
  work,             \* a job worker: its job, and the connections to visit
  fanOwes,          \* a dispatch worker: the counter it changes next, if any
  workOwes,         \* job workers, as << bucket, worker >>, that have received
                    \* a job and not called PushJobPendingDesc
  conn,             \* a connection: "new", "open", "closed", "gone"
  outChan,          \* Connection.outChan
  got,              \* the messages written to a connection's socket
  dispatchPending,  \* Statistics.DispatchPending
  pushJobPending,   \* Statistics.PushJobPending
  handled,          \* history: pairs << message, bucket >> gone through
  full,             \* history: messages a full outChan has refused
  audience          \* history: who was registered and open at a push to all

pushing == << caller, audience >>
counters == << dispatchPending, pushJobPending >>
backlog == << dispatchChan, fan, fanOwes, jobChan, counters >>
jobs == << work, workOwes, handled >>
delivery == << conn, outChan, got, full >>
vars == << pushing, backlog, jobs, delivery >>

Msgs == AllMsgs \cup RoomMsgs
Buckets == 0 .. BucketCount - 1

GetBucket(c) == c % BucketCount

\* Bucket.id2Conn
Registered(b) ==
  {c \in Conns : GetBucket(c) = b /\ conn[c] \in {"open", "closed"}}

IdleFan == [job |-> NoJob, next |-> 0]
IdleWork == [job |-> NoJob, locked |-> FALSE, todo |-> {}]

Init ==
  /\ caller = [m \in Msgs |-> "new"]
  /\ dispatchChan = << >>
  /\ fan = [w \in DispatchWorkers |-> IdleFan]
  /\ jobChan = [b \in Buckets |-> << >>]
  /\ work = [b \in Buckets |-> [i \in JobWorkers |-> IdleWork]]
  /\ fanOwes = [w \in DispatchWorkers |-> "nothing"]
  /\ workOwes = {}
  /\ conn = [c \in Conns |-> "new"]
  /\ outChan = [c \in Conns |-> << >>]
  /\ got = [c \in Conns |-> << >>]
  /\ dispatchPending = 0
  /\ pushJobPending = 0
  /\ handled = {}
  /\ full = [c \in Conns |-> {}]
  /\ audience = [m \in Msgs |-> {}]

-----------------------------------------------------------------------------
(* ConnManager.PushAll and PushRoom *)

DispatchRoom == Len(dispatchChan) < DispatchChannelSize

\* the non-blocking send to dispatchChan
PushSend(m) ==
  /\ caller[m] = "new" /\ DispatchRoom
  /\ dispatchChan' = Append(dispatchChan, m)
  /\ caller' = [caller EXCEPT ![m] = "sent"]
  /\ audience' = [audience EXCEPT ![m] =
                    {c \in Conns : m \in AllMsgs /\ conn[c] = "open"}]
  /\ UNCHANGED << fan, fanOwes, jobChan, counters, jobs, delivery >>

\* the counter, only then: PushRoom counts in DispatchTotal instead
PushCount(m) ==
  /\ caller[m] = "sent"
  /\ caller' = [caller EXCEPT ![m] = "accepted"]
  /\ dispatchPending' = IF m \in AllMsgs THEN dispatchPending + 1
                                         ELSE dispatchPending
  /\ UNCHANGED << audience, dispatchChan, fan, fanOwes, jobChan, pushJobPending,
                  jobs, delivery >>

\* A bug to detect: a refused message is counted as pending.
PushRefusedCounts(m) ==
  /\ caller[m] = "new" /\ ~DispatchRoom
  /\ caller' = [caller EXCEPT ![m] = "refused"]
  /\ dispatchPending' = dispatchPending + 1
  /\ UNCHANGED << audience, dispatchChan, fan, fanOwes, jobChan, pushJobPending,
                  jobs, delivery >>

\* ErrDispatchChannelFull
PushRefused(m) ==
  /\ caller[m] = "new" /\ ~DispatchRoom
  /\ caller' = [caller EXCEPT ![m] = "refused"]
  /\ UNCHANGED << audience, backlog, jobs, delivery >>

-----------------------------------------------------------------------------
(* dispatchWorkerMain *)

\* Receives a job.  What does not encode is dropped, which the worker finds out
\* by itself once it has called DispatchPendingDesc.
DispatchTake(w) ==
  /\ fan[w] = IdleFan /\ fanOwes[w] = "nothing"
  /\ dispatchChan # << >>
  /\ fan' = [fan EXCEPT ![w] = IF Head(dispatchChan) \in BadMsgs THEN IdleFan
                               ELSE [job |-> Head(dispatchChan), next |-> 0]]
  /\ dispatchChan' = Tail(dispatchChan)
  /\ fanOwes' = [fanOwes EXCEPT ![w] = "DispatchPending"]
  /\ UNCHANGED << pushing, jobChan, counters, jobs, delivery >>

DispatchPendingDesc(w) ==
  /\ fanOwes[w] = "DispatchPending"
  /\ dispatchPending' = dispatchPending - 1
  /\ fanOwes' = [fanOwes EXCEPT ![w] = IF fan[w] = IdleFan THEN "nothing"
                                       ELSE "PushJobPending"]
  /\ UNCHANGED << pushing, dispatchChan, fan, jobChan, pushJobPending, jobs,
                  delivery >>

\* runs before the send to each bucket.
PushJobPendingIncr(w) ==
  /\ fanOwes[w] = "PushJobPending"
  /\ pushJobPending' = pushJobPending + 1
  /\ fanOwes' = [fanOwes EXCEPT ![w] = "nothing"]
  /\ UNCHANGED << pushing, dispatchChan, fan, jobChan, dispatchPending, jobs,
                  delivery >>

\* A bug to detect: a bucket whose channel is full is skipped.
EnqueueOrSkip(b, m) ==
  jobChan' = IF Len(jobChan[b]) < BucketJobChannelSize
             THEN [jobChan EXCEPT ![b] = Append(@, m)] ELSE jobChan

\* jobChan[bucketIdx] <- pushJob waits for room.
Enqueue(b, m) ==
  /\ Len(jobChan[b]) < BucketJobChannelSize
  /\ jobChan' = [jobChan EXCEPT ![b] = Append(@, m)]

\* A bug to detect: the job is counted for the first bucket only.
CountedNext(b) == "nothing"

\* Each further bucket is counted again.
CountNext(b) == IF b = BucketCount - 1 THEN "nothing" ELSE "PushJobPending"

\* Sends the job, counted by now, to the next bucket.
DispatchSend(w) ==
  /\ fan[w] # IdleFan /\ fanOwes[w] = "nothing"
  /\ LET b == fan[w].next
     IN  /\ Enqueue(b, fan[w].job)
         /\ fan' = [fan EXCEPT ![w] = IF b = BucketCount - 1 THEN IdleFan
                                      ELSE [@ EXCEPT !.next = b + 1]]
         /\ fanOwes' = [fanOwes EXCEPT ![w] = CountNext(b)]
  /\ UNCHANGED << pushing, dispatchChan, counters, jobs, delivery >>

-----------------------------------------------------------------------------
(* jobWorkerMain and Bucket.PushAll *)

\* A worker that holds job m and waits for the bucket's read lock.
Waiting(m) == [job |-> m, locked |-> FALSE, todo |-> {}]

\* One that has the read lock and has to visit the connections of 'todo' yet.
Ranging(m, todo) == [job |-> m, locked |-> TRUE, todo |-> todo]

\* A worker between two jobs.
Ready(b, i) == work[b][i] = IdleWork /\ << b, i >> \notin workOwes

\* A bug to detect: the newest job is taken first.
JobTakeNewest(b, i) ==
  /\ Ready(b, i)
  /\ jobChan[b] # << >>
  /\ work' = [work EXCEPT ![b][i] = Waiting(jobChan[b][Len(jobChan[b])])]
  /\ jobChan' = [jobChan EXCEPT ![b] = SubSeq(@, 1, Len(@) - 1)]
  /\ workOwes' = workOwes \cup {<< b, i >>}
  /\ UNCHANGED << pushing, dispatchChan, fan, fanOwes, counters, handled,
                  delivery >>

Dequeue(b) == jobChan' = [jobChan EXCEPT ![b] = Tail(@)]

\* Receives a job.  Only a push to all goes on; any other push is dropped, which
\* the worker decides by itself once it has called PushJobPendingDesc.
JobTake(b, i) ==
  /\ Ready(b, i)
  /\ jobChan[b] # << >>
  /\ LET m == Head(jobChan[b])
     IN  IF m \in AllMsgs
         THEN /\ work' = [work EXCEPT ![b][i] = Waiting(m)]
              /\ UNCHANGED handled
         ELSE /\ handled' = handled \cup {<< m, b >>}
              /\ UNCHANGED work
  /\ Dequeue(b)
  /\ workOwes' = workOwes \cup {<< b, i >>}
  /\ UNCHANGED << pushing, dispatchChan, fan, fanOwes, counters, delivery >>

PushJobPendingDesc(b, i) ==
  /\ << b, i >> \in workOwes
  /\ pushJobPending' = pushJobPending - 1
  /\ workOwes' = workOwes \ {<< b, i >>}
  /\ UNCHANGED << pushing, dispatchChan, fan, fanOwes, jobChan, dispatchPending,
                  work, handled, delivery >>

\* The read lock is taken; the range will visit who is registered now.
JobLock(b, i) ==
  /\ work[b][i] # IdleWork /\ ~work[b][i].locked
  /\ << b, i >> \notin workOwes
  /\ work' = [work EXCEPT ![b][i] = Ranging(work[b][i].job, Registered(b))]
  /\ UNCHANGED << pushing, backlog, workOwes, handled, delivery >>

\* A bug to detect: the range returns at the first error.
RestStops(todo, c, failed) == IF failed THEN {} ELSE todo \ {c}

\* The error of a SendMessage is ignored.
Rest(todo, c, failed) == todo \ {c}

\* SendMessage to one of them.
JobSend(b, i, c) ==
  /\ c \in work[b][i].todo
  /\ LET m == work[b][i].job
         room == Len(outChan[c]) < OutChannelSize
         left(failed) ==
           [work EXCEPT ![b][i] = Ranging(m, Rest(work[b][i].todo, c, failed))]
     IN  \/ /\ room
            /\ outChan' = [outChan EXCEPT ![c] = Append(@, m)]
            /\ work' = left(FALSE)
            /\ UNCHANGED full
         \/ /\ conn[c] = "closed"
            /\ work' = left(TRUE)
            /\ UNCHANGED << outChan, full >>
         \/ /\ ~room /\ conn[c] # "closed"
            /\ full' = [full EXCEPT ![c] = @ \cup {m}]
            /\ work' = left(TRUE)
            /\ UNCHANGED outChan
  /\ UNCHANGED << pushing, backlog, workOwes, handled, conn, got >>

\* The range is over: the read lock is released.
JobDone(b, i) ==
  /\ work[b][i].locked
  /\ work[b][i].todo = {}
  /\ handled' = handled \cup {<< work[b][i].job, b >>}
  /\ work' = [work EXCEPT ![b][i] = IdleWork]
  /\ UNCHANGED << pushing, backlog, workOwes, delivery >>

-----------------------------------------------------------------------------
(* The connections *)

Locked(b) == \E i \in JobWorkers : work[b][i].locked

ConnGoes(c, from, to) ==
  /\ conn[c] = from /\ conn' = [conn EXCEPT ![c] = to]
  /\ UNCHANGED << pushing, backlog, jobs, outChan, got, full >>

\* Bucket.AddConn, Connection.Close and Bucket.DelConn
AddConn(c) == ~Locked(GetBucket(c)) /\ ConnGoes(c, "new", "open")
CloseConn(c) == ConnGoes(c, "open", "closed")
DelConn(c) == ~Locked(GetBucket(c)) /\ ConnGoes(c, "closed", "gone")

\* writeLoop: the client of an open connection takes a message
Write(c) ==
  /\ outChan[c] # << >>
  /\ conn[c] = "open"
  /\ got' = [got EXCEPT ![c] = Append(@, Head(outChan[c]))]
  /\ outChan' = [outChan EXCEPT ![c] = Tail(@)]
  /\ UNCHANGED << pushing, backlog, jobs, conn, full >>

-----------------------------------------------------------------------------
Push(m) == PushSend(m) \/ PushCount(m) \/ PushRefused(m)
Dispatch(w) == \/ DispatchTake(w) \/ DispatchPendingDesc(w)
               \/ PushJobPendingIncr(w) \/ DispatchSend(w)
Job(b, i) == \/ JobTake(b, i) \/ PushJobPendingDesc(b, i)
             \/ JobLock(b, i) \/ JobDone(b, i)
             \/ \E c \in Conns : JobSend(b, i, c)

Quiet ==
  /\ \A m \in Msgs : caller[m] \in {"accepted", "refused"}
  /\ dispatchChan = << >>
  /\ \A w \in DispatchWorkers : fan[w] = IdleFan /\ fanOwes[w] = "nothing"
  /\ \A b \in Buckets : /\ jobChan[b] = << >>
                         /\ \A i \in JobWorkers : Ready(b, i)

\* Every message has gone through; the workers wait for the next one.
Idle == Quiet /\ UNCHANGED vars

Next ==
  \/ \E m \in Msgs : Push(m)
  \/ \E w \in DispatchWorkers : Dispatch(w)
  \/ \E b \in Buckets, i \in JobWorkers : Job(b, i)
  \/ \E c \in Conns : AddConn(c) \/ CloseConn(c) \/ DelConn(c) \/ Write(c)
  \/ Idle

Spec == Init /\ [][Next]_vars

\* Workers are scheduled; no client need read, no connection need close.
Fairness ==
  /\ \A w \in DispatchWorkers : WF_vars(Dispatch(w))
  /\ \A b \in Buckets, i \in JobWorkers : WF_vars(Job(b, i))

FairSpec == Spec /\ Fairness

-----------------------------------------------------------------------------
(* Properties *)

Inbox(c) == got[c] \o outChan[c]
Received(c) == {Inbox(c)[i] : i \in DOMAIN Inbox(c)}

\* A worker is in debt to one counter at most, and counts a job for a bucket
\* only with a job in its hands.
OwesOK ==
  /\ fanOwes \in [DispatchWorkers ->
                   {"nothing", "DispatchPending", "PushJobPending"}]
  /\ workOwes \subseteq Buckets \X JobWorkers
  /\ \A w \in DispatchWorkers :
       fanOwes[w] = "PushJobPending" => fan[w] # IdleFan

\* The type invariant: no channel holds more than its capacity.
TypeOK ==
  /\ caller \in [Msgs -> {"new", "sent", "accepted", "refused"}]
  /\ dispatchChan \in Seq(Msgs) /\ Len(dispatchChan) <= DispatchChannelSize
  /\ fan \in [DispatchWorkers -> [job : Msgs \cup {NoJob}, next : Buckets]]
  /\ jobChan \in [Buckets -> Seq(Msgs)]
  /\ \A b \in Buckets : Len(jobChan[b]) <= BucketJobChannelSize
  /\ work \in [Buckets -> [JobWorkers -> [job : AllMsgs \cup {NoJob},
                                          locked : BOOLEAN,
                                          todo : SUBSET Conns]]]
  /\ OwesOK
  /\ conn \in [Conns -> {"new", "open", "closed", "gone"}]
  /\ outChan \in [Conns -> Seq(AllMsgs)]
  /\ \A c \in Conns : Len(outChan[c]) <= OutChannelSize
  /\ got \in [Conns -> Seq(AllMsgs)]
  /\ dispatchPending \in Int /\ pushJobPending \in Int
  /\ handled \subseteq Msgs \X Buckets
  /\ full \in [Conns -> SUBSET AllMsgs]
  /\ audience \in [Msgs -> SUBSET Conns]

\* Who was registered and open when a push to all was accepted, and still is
\* when its bucket is through, has got it, or had a full outChan: no error of
\* another connection and no connection coming or going cuts the range short.
AudienceServed ==
  \A m \in AllMsgs \ BadMsgs, c \in Conns :
    /\ c \in audience[m] /\ conn[c] = "open"
    /\ << m, GetBucket(c) >> \in handled
    => m \in Received(c) \cup full[c]

\* With one dispatch worker and one job worker per bucket, any two connections
\* that both get two messages get them in the same order.
AgreedOrder ==
  Cardinality(DispatchWorkers) = 1 /\ Cardinality(JobWorkers) = 1 =>
    \A c, d \in Conns :
      \A i, j \in DOMAIN Inbox(c), k, l \in DOMAIN Inbox(d) :
        Inbox(c)[i] = Inbox(d)[k] /\ Inbox(c)[j] = Inbox(d)[l] =>
          (i < j <=> k < l)

\* the dispatch workers between their receive and DispatchPendingDesc, and those
\* with a job that they have counted for the bucket they are sending it to
Overcounting == {w \in DispatchWorkers : fanOwes[w] = "DispatchPending"}
Sending == {w \in DispatchWorkers : fan[w] # IdleFan /\ fanOwes[w] = "nothing"}

\* pushes to all between their send and their count, and pushes to a room, which
\* dispatchWorkerMain counts off though PushRoom never counts them on
Uncounted == {m \in AllMsgs : caller[m] = "sent"}
NeverCounted == {m \in RoomMsgs : caller[m] \in {"sent", "accepted"}}

\* DispatchPending is the backlog of dispatchChan, and one more for every worker
\* and one less for every caller that is about to change it, less one for every
\* push to a room ever accepted.
DispatchPendingIsBacklog ==
  dispatchPending + Cardinality(Uncounted) + Cardinality(NeverCounted)
    = Len(dispatchChan) + Cardinality(Overcounting)

\* the places of the buckets' channels that hold a job
Queued == {bi \in Buckets \X (1 .. BucketJobChannelSize) :
             bi[2] <= Len(jobChan[bi[1]])}

\* PushJobPending is the number of jobs in the buckets' channels, in the hands
\* of dispatch workers that wait for room there, and of job workers that have
\* received theirs and not counted it off yet.
JobPendingIsBacklog ==
  pushJobPending =
    Cardinality(Queued) + Cardinality(Sending) + Cardinality(workOwes)

-----------------------------------------------------------------------------
(* Dispatching implements the abstract broadcast. *)

absVerdict == [m \in Msgs |->
  CASE caller[m] = "new" -> "none"
    [] caller[m] = "refused" -> "refused"
    [] caller[m] \in {"sent", "accepted"} -> "accepted"]

absInbox == [c \in Conns |-> Inbox(c)]

Broadcast == INSTANCE WsBroadcast
               WITH Messages <- Msgs, Unsendable <- BadMsgs,
                    Receivers <- Conns, Parts <- Buckets, PartOf <- GetBucket,
                    verdict <- absVerdict, inbox <- absInbox

\* An accepted message that encodes goes through every bucket once, whatever
\* the congestion, and no connection gets a message twice.
ImplementsBroadcast == Broadcast!BSpec
=============================================================================
