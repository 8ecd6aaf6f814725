------------------------------ MODULE WsMerger ------------------------------
(***************************************************************************)
(* The broadcast merge worker of pkg/ws: Merger.PushAll puts a message in  *)
(* contextChan, one worker gathers messages into a batch and commits it    *)
(* when it is full or when its timer's goroutine has sent it on            *)
(* timeoutChan.  A batch is known by its number, which stands for the      *)
(* pointer the worker compares.  Room merging is left out: the code has    *)
(* no worker for it.                                                       *)
(*                                                                         *)
(* A commit hands the batch to ConnManager.PushAll (see WsDispatch).       *)
(* Whether that accepts or refuses it makes no difference to the worker.   *)
(***************************************************************************)
EXTENDS Integers, Sequences, FiniteSets

CONSTANTS Items,        \* messages given to Merger.PushAll, one caller each
          BadItems,     \* those that are not JSON: their batch won't marshal
          MaxBatchSize, \* Config.MaxMergerBatchSize
          ChannelSize   \* Config.MergerChannelSize

ASSUME ItemsAssumption == IsFiniteSet(Items) /\ BadItems \subseteq Items
ASSUME SizesAssumption ==
  MaxBatchSize \in Nat \ {0} /\ ChannelSize \in Nat \ {0}

VARIABLES
  caller,       \* the goroutine that pushes an item
  contextChan,  \* MergeWorker.contextChan
  timeoutChan,  \* MergeWorker.timeoutChan
  worker,       \* mergeWorkerMain: "select", "count", "merge", "full", "commit"
  context,      \* the message the worker has received and not merged, or none
  allBatch,     \* MergeWorker.allBatch, 0 for nil
  items,        \* allBatch.items
  created,      \* batches created, numbered 1 .. created
  armed,        \* batches whose commitTimer runs
  firing,       \* batches whose autoCommit goroutine has timeoutChan to send
  pending,      \* Statistics.MergerPending
  accepted,     \* history: the items sent to contextChan, in that order
  done          \* history: the items of the batches handed over, in order

chans == << contextChan, timeoutChan >>
batch == << allBatch, items, created >>
timers == << armed, firing >>
vars == << caller, chans, worker, context, batch, timers, pending, accepted,
           done >>

NoBatch == 0

Init ==
  /\ caller = [i \in Items |-> "new"]
  /\ contextChan = << >> /\ timeoutChan = << >>
  /\ worker = "select" /\ context = << >>
  /\ allBatch = NoBatch /\ items = << >> /\ created = 0
  /\ armed = {} /\ firing = {}
  /\ pending = 0
  /\ accepted = << >> /\ done = << >>

-----------------------------------------------------------------------------
(* pushAll *)

\* the non-blocking send to contextChan
PushSend(i) ==
  /\ caller[i] = "new"
  /\ Len(contextChan) < ChannelSize
  /\ contextChan' = Append(contextChan, i)
  /\ accepted' = Append(accepted, i)
  /\ caller' = [caller EXCEPT ![i] = "sent"]
  /\ UNCHANGED << timeoutChan, worker, context, batch, timers, pending, done >>

\* MergerPendingIncr, once the item is in the channel
PushCount(i) ==
  /\ caller[i] = "sent"
  /\ caller' = [caller EXCEPT ![i] = "accepted"]
  /\ pending' = pending + 1
  /\ UNCHANGED << chans, worker, context, batch, timers, accepted, done >>

\* A bug to detect: a refused item is counted as pending.
PushRefusedCounts(i) ==
  /\ caller[i] = "new"
  /\ Len(contextChan) = ChannelSize
  /\ caller' = [caller EXCEPT ![i] = "refused"]
  /\ pending' = pending + 1
  /\ UNCHANGED << chans, worker, context, batch, timers, accepted, done >>

\* ErrMergeChannelFull
PushRefused(i) ==
  /\ caller[i] = "new"
  /\ Len(contextChan) = ChannelSize
  /\ caller' = [caller EXCEPT ![i] = "refused"]
  /\ UNCHANGED << chans, worker, context, batch, timers, pending, accepted,
                  done >>

-----------------------------------------------------------------------------
(* mergeWorkerMain *)

\* A bug to detect: the batch's timer is not started.
ArmForgotten(b) == armed

\* time.AfterFunc for a batch just created
Arm(b) == armed \cup {b}

AfterAppend(size) == IF size < MaxBatchSize THEN "select" ELSE "full"

\* The worker receives a message, which MergerPending counts until the next
\* step.
TakeContext ==
  /\ worker = "select"
  /\ contextChan # << >>
  /\ contextChan' = Tail(contextChan)
  /\ context' = << Head(contextChan) >>
  /\ worker' = "count"
  /\ UNCHANGED << caller, timeoutChan, batch, timers, pending, accepted, done >>

MergerPendingDesc ==
  /\ worker = "count"
  /\ pending' = pending - 1
  /\ worker' = "merge"
  /\ UNCHANGED << caller, chans, context, batch, timers, accepted, done >>

\* The message joins the open batch, or opens a new one and arms its timer.
Merge ==
  /\ worker = "merge"
  /\ items' = items \o context
  /\ context' = << >>
  /\ worker' = AfterAppend(Len(items) + 1)
  /\ \/ /\ allBatch = NoBatch
        /\ created' = created + 1
        /\ allBatch' = created + 1
        /\ armed' = Arm(created + 1)
     \/ /\ allBatch # NoBatch
        /\ UNCHANGED << created, allBatch, armed >>
  /\ UNCHANGED << caller, chans, firing, pending, accepted, done >>

\* The batch is full: commitTimer.Stop() has no effect once it has fired.
StopTimer ==
  /\ worker = "full"
  /\ worker' = "commit"
  /\ armed' = armed \ {allBatch}
  /\ UNCHANGED << caller, chans, context, batch, firing, pending, accepted,
                  done >>

\* A batch that has been committed already is not allBatch any more.
AfterTimeout(b) == IF b = allBatch THEN "commit" ELSE "select"

TakeTimeout ==
  /\ worker = "select"
  /\ timeoutChan # << >>
  /\ timeoutChan' = Tail(timeoutChan)
  /\ worker' = AfterTimeout(Head(timeoutChan))
  /\ UNCHANGED << caller, contextChan, context, batch, timers, pending,
                  accepted, done >>

Marshals == \A n \in DOMAIN items : items[n] \notin BadItems

\* commitBatch gives up before it resets allBatch: the batch stays open.
CommitFails ==
  /\ worker = "commit" /\ ~Marshals
  /\ worker' = "select"
  /\ UNCHANGED << caller, chans, context, batch, timers, pending, accepted,
                  done >>

\* A bug to detect: a batch that dispatchChan refused stays open.
CommitKeepsRefused ==
  /\ worker = "commit" /\ Marshals
  /\ worker' = "select"
  /\ done' = done \o items
  /\ \/ allBatch' = NoBatch /\ items' = << >>
     \/ UNCHANGED << allBatch, items >>
  /\ UNCHANGED << caller, chans, context, created, timers, pending, accepted >>

\* The batch is handed to ConnManager.PushAll.
Commit ==
  /\ worker = "commit" /\ Marshals
  /\ worker' = "select"
  /\ allBatch' = NoBatch /\ items' = << >>
  /\ done' = done \o items
  /\ UNCHANGED << caller, chans, context, created, timers, pending, accepted >>

-----------------------------------------------------------------------------
(* The timer of a batch, and the goroutine of autoCommit it starts *)

TimerFires(b) ==
  /\ b \in armed
  /\ armed' = armed \ {b} /\ firing' = firing \cup {b}
  /\ UNCHANGED << caller, chans, worker, context, batch, pending, accepted,
                  done >>

\* It waits while timeoutChan is full.
AutoCommit(b) ==
  /\ b \in firing
  /\ Len(timeoutChan) < ChannelSize
  /\ timeoutChan' = Append(timeoutChan, b)
  /\ firing' = firing \ {b}
  /\ UNCHANGED << caller, contextChan, worker, context, batch, armed, pending,
                  accepted, done >>

-----------------------------------------------------------------------------
Push(i) == PushSend(i) \/ PushCount(i) \/ PushRefused(i)
Work == \/ TakeContext \/ MergerPendingDesc \/ Merge \/ StopTimer
        \/ TakeTimeout \/ CommitFails \/ Commit
Timers == (\E b \in armed : TimerFires(b)) \/ (\E b \in firing : AutoCommit(b))

Quiet ==
  /\ \A i \in Items : caller[i] \in {"accepted", "refused"}
  /\ worker = "select"
  /\ contextChan = << >> /\ timeoutChan = << >>
  /\ armed = {} /\ firing = {}

\* Nothing is pushed any more and no timer runs: the worker waits.
Idle == Quiet /\ UNCHANGED vars

Next ==
  \/ \E i \in Items : Push(i)
  \/ Work
  \/ Timers
  \/ Idle

Spec == Init /\ [][Next]_vars

\* Timers fire and goroutines run; nobody need push.
Fairness == WF_vars(Work) /\ WF_vars(Timers)

FairSpec == Spec /\ Fairness

-----------------------------------------------------------------------------
(* Properties *)

\* The type invariant: no channel holds more than its capacity, and a worker
\* that stops a timer or commits has a batch in hand.
TypeOK ==
  /\ caller \in [Items -> {"new", "sent", "accepted", "refused"}]
  /\ contextChan \in Seq(Items) /\ Len(contextChan) <= ChannelSize
  /\ timeoutChan \in Seq(Nat \ {0}) /\ Len(timeoutChan) <= ChannelSize
  /\ worker \in {"select", "count", "merge", "full", "commit"}
  /\ context \in Seq(Items)
  /\ Len(context) = IF worker \in {"count", "merge"} THEN 1 ELSE 0
  /\ created \in Nat
  /\ allBatch \in {NoBatch, created}
  /\ worker \in {"full", "commit"} => allBatch # NoBatch
  /\ items \in Seq(Items)
  /\ armed \subseteq 1 .. created /\ firing \subseteq 1 .. created
  /\ pending \in Int
  /\ accepted \in Seq(Items)
  /\ done \in Seq(Items)

\* No message is lost, repeated or overtaken on its way through the worker:
\* what was accepted is, in the order of acceptance, what has been handed over,
\* then the open batch, the message in the worker's hand, and what contextChan
\* holds.
InOrder == accepted = done \o items \o context \o contextChan

\* The worker has no batch to commit: it waits, or adds a message.
Gathering == worker \in {"select", "count", "merge"}

\* A batch never exceeds the configured maximum, and one that waits for more
\* messages has room, unless it holds a message that does not marshal.
BatchBounded ==
  Marshals => /\ Len(items) <= MaxBatchSize
              /\ Gathering => Len(items) < MaxBatchSize

\* The batch's timer runs, or its goroutine is about to send it, or it waits in
\* timeoutChan.
Timed(b) == \/ b \in armed \cup firing
            \/ \E n \in DOMAIN timeoutChan : timeoutChan[n] = b

\* An open batch that waits for more messages is timed, unless it holds a
\* message that does not marshal.  Stale timeouts of batches committed before
\* never take its timeout's place.
OpenBatchTimed ==
  Gathering /\ allBatch # NoBatch /\ Marshals => Timed(allBatch)

\* MaxMergerDelay is documented as the longest delay of any message: every open
\* batch would be timed, whatever it holds.
EveryBatchTimed ==
  Gathering /\ allBatch # NoBatch => Timed(allBatch)

\* the callers between their send and MergerPendingIncr, the worker between its
\* receive and MergerPendingDesc
Uncounted == {i \in Items : caller[i] = "sent"}
Overcounted == IF worker = "count" THEN 1 ELSE 0

\* MergerPending is the length of contextChan but for the messages in between:
\* one that was sent and is not counted yet is missing, the one that was
\* received is counted until the worker takes it off.  So the gauge is right
\* whenever nobody is in between, whatever was refused or did not marshal.
PendingIsBacklog ==
  pending = Len(contextChan) + Overcounted - Cardinality(Uncounted)

\* Every accepted message is handed over, though no further message may come
\* and timeoutChan may be full of stale batches, unless a message that does not
\* marshal is in the batch: time and again all that was accepted has been handed
\* over, which says of each message that it will be.
AcceptedIsHandedOver ==
  []<>\A i \in Items :
        caller[i] = "accepted" => ~Marshals \/ \E n \in DOMAIN done : done[n] = i
=============================================================================
