-------------------------- MODULE WsMerger_proofs --------------------------
(***************************************************************************)
(* Theorems about WsMerger, for any messages, batch size and channel size. *)
(***************************************************************************)
EXTENDS WsMerger, FiniteSetTheorems, TLAPS

-----------------------------------------------------------------------------
(* Type correctness *)

LEMMA InitType == Init => TypeOK
BY SizesAssumption DEF Init, TypeOK, NoBatch

LEMMA TypeStep == TypeOK /\ [Next]_vars => TypeOK'
<1> SUFFICES ASSUME TypeOK, [Next]_vars PROVE TypeOK'
  OBVIOUS
<1> USE SizesAssumption DEF TypeOK, NoBatch, chans, batch, timers
<1>1. ASSUME NEW i \in Items, PushSend(i) PROVE TypeOK'
  BY <1>1 DEF PushSend
<1>2. ASSUME NEW i \in Items, PushCount(i) PROVE TypeOK'
  BY <1>2 DEF PushCount
<1>3. ASSUME NEW i \in Items, PushRefused(i) PROVE TypeOK'
  BY <1>3 DEF PushRefused
<1>4. CASE TakeContext
  <2>1. /\ Head(contextChan) \in Items /\ contextChan' \in Seq(Items)
        /\ Len(contextChan') <= ChannelSize
    BY <1>4 DEF TakeContext
  <2>2. context' \in Seq(Items) /\ Len(context') = 1
    BY <1>4, <2>1 DEF TakeContext
  <2> QED
    BY <1>4, <2>1, <2>2 DEF TakeContext
<1>12. CASE MergerPendingDesc
  BY <1>12 DEF MergerPendingDesc
<1>13. CASE Merge
  <2>1. items' \in Seq(Items)
    BY <1>13 DEF Merge
  <2>2. /\ created' \in Nat /\ allBatch' = created' /\ allBatch' # NoBatch
        /\ armed' \subseteq 1 .. created' /\ firing' \subseteq 1 .. created'
    <3>1. CASE allBatch = NoBatch
      <4>1. /\ created' = created + 1 /\ allBatch' = created + 1
            /\ armed' = armed \cup {created + 1} /\ firing' = firing
        BY <1>13, <3>1 DEF Merge, Arm
      <4>2. 1 .. created \subseteq 1 .. created + 1 /\ created + 1 # 0
            /\ created + 1 \in 1 .. created + 1
        OBVIOUS
      <4> QED
        BY <4>1, <4>2
    <3>2. CASE allBatch # NoBatch
      BY <1>13, <3>2 DEF Merge
    <3> QED
      BY <3>1, <3>2
  <2>3. worker' \in {"select", "full"}
    BY <1>13 DEF Merge, AfterAppend
  <2>4. context' \in Seq(Items) /\ Len(context') = 0
    BY <1>13 DEF Merge
  <2> QED
    BY <1>13, <2>1, <2>2, <2>3, <2>4 DEF Merge
<1>5. CASE StopTimer
  BY <1>5 DEF StopTimer
<1>6. CASE TakeTimeout
  <2>1. /\ Head(timeoutChan) \in Nat \ {0}
        /\ timeoutChan' \in Seq(Nat \ {0})
        /\ Len(timeoutChan') <= ChannelSize
    BY <1>6 DEF TakeTimeout
  <2>2. /\ worker' \in {"select", "commit"}
        /\ worker' # "select" => allBatch # NoBatch
    BY <1>6, <2>1 DEF TakeTimeout, AfterTimeout
  <2> QED
    BY <1>6, <2>1, <2>2 DEF TakeTimeout
<1>7. CASE CommitFails
  BY <1>7 DEF CommitFails
<1>8. CASE Commit
  <2>1. done' \in Seq(Items)
    BY <1>8 DEF Commit
  <2> QED
    BY <1>8, <2>1 DEF Commit
<1>9. ASSUME NEW b \in armed, TimerFires(b) PROVE TypeOK'
  BY <1>9 DEF TimerFires
<1>10. ASSUME NEW b \in firing, AutoCommit(b) PROVE TypeOK'
  <2>1. b \in Nat \ {0}
    OBVIOUS
  <2> QED
    BY <1>10, <2>1 DEF AutoCommit
<1>11. CASE UNCHANGED vars
  BY <1>11 DEF vars
<1> QED
  BY <1>1, <1>2, <1>3, <1>4, <1>5, <1>6, <1>7, <1>8, <1>9, <1>10, <1>11,
     <1>12, <1>13
  DEF Next, Push, Work, Timers, Idle

\* Channels stay within their capacity and the worker never commits, or stops
\* the timer of, a batch that is nil.
THEOREM TypeCorrect == Spec => []TypeOK
BY InitType, TypeStep, PTL DEF Spec

-----------------------------------------------------------------------------
(* Order *)

\* The head of a sequence put between it and the sequence before, an addition to
\* the end of the last of two, and three sequences put together either way.
LEMMA HeadBetween ==
  \A s, t \in Seq(Items) : t # << >> => s \o t = (s \o << Head(t) >>) \o Tail(t)
OBVIOUS

LEMMA AppendConcat ==
  \A s, t \in Seq(Items), e \in Items : Append(s \o t, e) = s \o Append(t, e)
OBVIOUS

LEMMA ConcatConcat ==
  \A s, t, u \in Seq(Items) : (s \o t) \o u = s \o (t \o u)
OBVIOUS

LEMMA OrderStep == TypeOK /\ InOrder /\ [Next]_vars => InOrder'
<1> SUFFICES ASSUME TypeOK, InOrder, [Next]_vars PROVE InOrder'
  OBVIOUS
<1> USE DEF InOrder, chans, batch, timers
<1>0. /\ done \in Seq(Items) /\ items \in Seq(Items)
      /\ contextChan \in Seq(Items) /\ context \in Seq(Items)
      /\ done \o items \in Seq(Items) /\ (done \o items) \o context \in Seq(Items)
  BY DEF TypeOK
<1>1. ASSUME NEW i \in Items, PushSend(i) PROVE InOrder'
  <2>1. /\ contextChan' = Append(contextChan, i)
        /\ accepted' = Append(accepted, i)
        /\ items' = items /\ done' = done /\ context' = context
    BY <1>1 DEF PushSend
  <2>2. Append(((done \o items) \o context) \o contextChan, i)
          = ((done \o items) \o context) \o Append(contextChan, i)
    BY <1>0, AppendConcat
  <2> QED
    BY <2>1, <2>2
<1>2. ASSUME NEW i \in Items, PushCount(i) PROVE InOrder'
  BY <1>2 DEF PushCount
<1>3. ASSUME NEW i \in Items, PushRefused(i) PROVE InOrder'
  BY <1>3 DEF PushRefused
<1>4. CASE TakeContext
  <2>1. /\ contextChan # << >> /\ contextChan' = Tail(contextChan)
        /\ context' = << Head(contextChan) >>
        /\ accepted' = accepted /\ done' = done /\ items' = items
    BY <1>4 DEF TakeContext
  <2>2. context = << >>
    BY <1>4 DEF TakeContext, TypeOK
  <2>3. (done \o items) \o context = done \o items
    BY <1>0, <2>2
  <2>4. (done \o items) \o contextChan
          = ((done \o items) \o << Head(contextChan) >>) \o Tail(contextChan)
    BY <1>0, <2>1, HeadBetween
  <2> QED
    BY <2>1, <2>3, <2>4
<1>12. CASE MergerPendingDesc
  BY <1>12 DEF MergerPendingDesc
<1>13. CASE Merge
  <2>1. /\ items' = items \o context /\ context' = << >>
        /\ contextChan' = contextChan /\ accepted' = accepted /\ done' = done
    BY <1>13 DEF Merge
  <2>2. (done \o items) \o context = done \o items'
    BY <1>0, <2>1, ConcatConcat
  <2>3. (done \o items') \o context' = done \o items'
    BY <1>0, <2>1, <2>2
  <2> QED
    BY <2>1, <2>2, <2>3
<1>5. CASE StopTimer
  BY <1>5 DEF StopTimer
<1>6. CASE TakeTimeout
  BY <1>6 DEF TakeTimeout
<1>7. CASE CommitFails
  BY <1>7 DEF CommitFails
<1>8. CASE Commit
  <2>1. /\ done' = done \o items /\ items' = << >>
        /\ contextChan' = contextChan /\ accepted' = accepted
        /\ context' = context
    BY <1>8 DEF Commit
  <2>2. done' \o items' = done \o items
    BY <1>0, <2>1
  <2> QED
    BY <2>1, <2>2
<1>9. ASSUME NEW b \in armed, TimerFires(b) PROVE InOrder'
  BY <1>9 DEF TimerFires
<1>10. ASSUME NEW b \in firing, AutoCommit(b) PROVE InOrder'
  BY <1>10 DEF AutoCommit
<1>11. CASE UNCHANGED vars
  BY <1>11 DEF vars
<1> QED
  BY <1>1, <1>2, <1>3, <1>4, <1>5, <1>6, <1>7, <1>8, <1>9, <1>10, <1>11,
     <1>12, <1>13
  DEF Next, Push, Work, Timers, Idle

\* The worker loses, repeats and reorders nothing, whatever the timers do and
\* even when a batch does not marshal.
THEOREM NothingOvertaken == Spec => []InOrder
<1>1. Init => InOrder
  BY DEF Init, InOrder
<1> QED
  BY <1>1, OrderStep, TypeCorrect, PTL DEF Spec

-----------------------------------------------------------------------------
(* Batches that marshal *)

LEMMA LenConcat ==
  \A s, t \in Seq(Items) : Len(s \o t) = Len(s) + Len(t) /\ Len(s) \in Nat
OBVIOUS

LEMMA BatchStep ==
  TypeOK /\ BatchBounded /\ OpenBatchTimed /\ [Next]_vars
    => BatchBounded' /\ OpenBatchTimed'
<1> SUFFICES ASSUME TypeOK, BatchBounded, OpenBatchTimed, [Next]_vars
             PROVE  BatchBounded' /\ OpenBatchTimed'
  OBVIOUS
<1> USE SizesAssumption DEF BatchBounded, OpenBatchTimed, Gathering, Timed,
                            NoBatch, chans, batch, timers
<1>0. items' = items => Marshals' = Marshals
  BY DEF Marshals
<1>1. ASSUME NEW i \in Items, PushSend(i)
      PROVE  BatchBounded' /\ OpenBatchTimed'
  BY <1>0, <1>1 DEF PushSend
<1>2. ASSUME NEW i \in Items, PushCount(i)
      PROVE  BatchBounded' /\ OpenBatchTimed'
  BY <1>0, <1>2 DEF PushCount
<1>3. ASSUME NEW i \in Items, PushRefused(i)
      PROVE  BatchBounded' /\ OpenBatchTimed'
  BY <1>0, <1>3 DEF PushRefused
<1>4. CASE TakeContext
  BY <1>0, <1>4 DEF TakeContext
<1>12. CASE MergerPendingDesc
  BY <1>0, <1>12 DEF MergerPendingDesc
<1>13. CASE Merge
  <2>0. context \in Seq(Items) /\ Len(context) = 1
    BY <1>13 DEF Merge, TypeOK
  <2>1. /\ worker = "merge" /\ items \in Seq(Items)
        /\ items' = items \o context
        /\ worker' = AfterAppend(Len(items) + 1)
        /\ UNCHANGED << timeoutChan, firing >>
        /\ \/ allBatch' = created + 1 /\ armed' = Arm(created + 1)
           \/ UNCHANGED << allBatch, armed >> /\ allBatch # NoBatch
    BY <1>13 DEF Merge, TypeOK
  <2>2. Marshals' => Marshals
    <3> SUFFICES ASSUME Marshals', NEW n \in DOMAIN items
                 PROVE  items[n] \notin BadItems
      BY DEF Marshals
    <3>1. n \in DOMAIN items' /\ items'[n] = items[n]
      BY <2>0, <2>1
    <3> QED
      BY <3>1 DEF Marshals
  <2>3. BatchBounded'
    <3>1. Len(items') = Len(items) + 1 /\ Len(items) \in Nat
      BY <2>0, <2>1, LenConcat
    <3>2. Marshals => Len(items) < MaxBatchSize
      BY <2>1
    <3>3. worker' = IF Len(items) + 1 < MaxBatchSize THEN "select" ELSE "full"
      BY <2>1 DEF AfterAppend
    <3> QED
      BY <2>2, <3>1, <3>2, <3>3
  <2>4. OpenBatchTimed'
    BY <2>1, <2>2 DEF Arm
  <2> QED
    BY <2>3, <2>4
<1>5. CASE StopTimer
  BY <1>0, <1>5 DEF StopTimer
<1>6. CASE TakeTimeout
  <2>1. /\ worker = "select" /\ timeoutChan # << >>
        /\ timeoutChan' = Tail(timeoutChan)
        /\ worker' = AfterTimeout(Head(timeoutChan))
        /\ UNCHANGED << allBatch, items, armed, firing >>
    BY <1>6 DEF TakeTimeout
  <2>2. ASSUME worker' = "select", NEW n \in DOMAIN timeoutChan,
               timeoutChan[n] = allBatch
        PROVE  \E m \in DOMAIN timeoutChan' : timeoutChan'[m] = allBatch
    <3>1. Head(timeoutChan) # allBatch
      BY <2>1, <2>2 DEF AfterTimeout
    <3>2. timeoutChan \in Seq(Nat \ {0})
      BY DEF TypeOK
    <3>3. n # 1 /\ n \in 1 .. Len(timeoutChan)
      BY <2>2, <3>1, <3>2
    <3>4. n - 1 \in DOMAIN timeoutChan' /\ timeoutChan'[n - 1] = timeoutChan[n]
      BY <2>1, <3>2, <3>3
    <3> QED
      BY <2>2, <3>4
  <2>3. Gathering' => worker' = "select"
    BY <2>1 DEF AfterTimeout
  <2>4. OpenBatchTimed'
    BY <1>0, <2>1, <2>2, <2>3
  <2>5. BatchBounded'
    BY <1>0, <2>1
  <2> QED
    BY <2>4, <2>5
<1>7. CASE CommitFails
  BY <1>0, <1>7 DEF CommitFails
<1>8. CASE Commit
  BY <1>8 DEF Commit
<1>9. ASSUME NEW b \in armed, TimerFires(b)
      PROVE  BatchBounded' /\ OpenBatchTimed'
  BY <1>0, <1>9 DEF TimerFires
<1>10. ASSUME NEW b \in firing, AutoCommit(b)
       PROVE  BatchBounded' /\ OpenBatchTimed'
  <2>1. timeoutChan \in Seq(Nat \ {0}) /\ b \in Nat \ {0}
    BY DEF TypeOK
  <2>2. /\ timeoutChan' = Append(timeoutChan, b)
        /\ firing' = firing \ {b}
        /\ UNCHANGED << worker, allBatch, items, armed >>
    BY <1>10 DEF AutoCommit
  <2>3. timeoutChan'[Len(timeoutChan) + 1] = b
        /\ Len(timeoutChan) + 1 \in DOMAIN timeoutChan'
    BY <2>1, <2>2
  <2>4. \A n \in DOMAIN timeoutChan : n \in DOMAIN timeoutChan'
                                      /\ timeoutChan'[n] = timeoutChan[n]
    BY <2>1, <2>2
  <2> QED
    BY <1>0, <2>2, <2>3, <2>4
<1>11. CASE UNCHANGED vars
  BY <1>0, <1>11 DEF vars
<1> QED
  BY <1>1, <1>2, <1>3, <1>4, <1>5, <1>6, <1>7, <1>8, <1>9, <1>10, <1>11,
     <1>12, <1>13
  DEF Next, Push, Work, Timers, Idle

LEMMA BatchInvariant == Spec => [](BatchBounded /\ OpenBatchTimed)
<1>1. Init => BatchBounded /\ OpenBatchTimed
  BY SizesAssumption DEF Init, BatchBounded, OpenBatchTimed, Gathering, NoBatch
<1> QED
  BY <1>1, BatchStep, TypeCorrect, PTL DEF Spec

\* No batch exceeds MaxMergerBatchSize, unless it holds a message that does not
\* marshal and is never committed.
THEOREM BatchesBounded == Spec => []BatchBounded
BY BatchInvariant, PTL

\* An open batch always has its timeout ahead, unless it does not marshal: no
\* message depends on a later one to be sent.
THEOREM OpenBatchesTimed == Spec => []OpenBatchTimed
BY BatchInvariant, PTL

-----------------------------------------------------------------------------
(* The gauge MergerPending *)

LEMMA UncountedFinite == IsFiniteSet(Uncounted)
BY ItemsAssumption, FS_Subset DEF Uncounted

LEMMA PendingStep == TypeOK /\ PendingIsBacklog /\ [Next]_vars => PendingIsBacklog'
<1> SUFFICES ASSUME TypeOK, PendingIsBacklog, [Next]_vars PROVE PendingIsBacklog'
  OBVIOUS
<1> USE DEF chans, batch, timers
<1>0. /\ contextChan \in Seq(Items) /\ Len(contextChan) \in Nat
      /\ pending \in Int /\ Cardinality(Uncounted) \in Nat
      /\ Overcounted \in {0, 1}
  BY UncountedFinite, FS_CardinalityType DEF TypeOK, Overcounted
<1>1. ASSUME NEW i \in Items, PushSend(i) PROVE PendingIsBacklog'
  <2>1. Uncounted' = Uncounted \cup {i} /\ i \notin Uncounted
    BY <1>1 DEF PushSend, Uncounted, TypeOK
  <2>2. Cardinality(Uncounted') = Cardinality(Uncounted) + 1
    BY <2>1, UncountedFinite, FS_AddElement
  <2>3. /\ Len(contextChan') = Len(contextChan) + 1 /\ pending' = pending
        /\ Overcounted' = Overcounted
    BY <1>0, <1>1 DEF PushSend, Overcounted
  <2> QED
    BY <1>0, <2>2, <2>3 DEF PendingIsBacklog
<1>2. ASSUME NEW i \in Items, PushCount(i) PROVE PendingIsBacklog'
  <2>1. Uncounted' = Uncounted \ {i} /\ i \in Uncounted
    BY <1>2 DEF PushCount, Uncounted, TypeOK
  <2>2. Cardinality(Uncounted') = Cardinality(Uncounted) - 1
    BY <2>1, UncountedFinite, FS_RemoveElement
  <2>3. /\ contextChan' = contextChan /\ pending' = pending + 1
        /\ Overcounted' = Overcounted
    BY <1>2 DEF PushCount, Overcounted
  <2> QED
    BY <1>0, <2>2, <2>3 DEF PendingIsBacklog
<1>3. ASSUME NEW i \in Items, PushRefused(i) PROVE PendingIsBacklog'
  <2>1. Uncounted' = Uncounted /\ Overcounted' = Overcounted
    BY <1>3 DEF PushRefused, Uncounted, Overcounted, TypeOK
  <2> QED
    BY <1>3, <2>1 DEF PushRefused, PendingIsBacklog
<1>4. CASE TakeContext \/ MergerPendingDesc
  <2>1. Uncounted' = Uncounted
    BY <1>4 DEF TakeContext, MergerPendingDesc, Uncounted
  <2>2. CASE TakeContext
    <3>1. /\ Len(contextChan') = Len(contextChan) - 1 /\ pending' = pending
          /\ Overcounted = 0 /\ Overcounted' = 1
      BY <1>0, <2>2 DEF TakeContext, Overcounted
    <3> QED
      BY <1>0, <2>1, <3>1 DEF PendingIsBacklog
  <2>3. CASE MergerPendingDesc
    <3>1. /\ contextChan' = contextChan /\ pending' = pending - 1
          /\ Overcounted = 1 /\ Overcounted' = 0
      BY <2>3 DEF MergerPendingDesc, Overcounted
    <3> QED
      BY <1>0, <2>1, <3>1 DEF PendingIsBacklog
  <2> QED
    BY <1>4, <2>2, <2>3
<1>5. CASE UNCHANGED << caller, contextChan, pending, Overcounted >>
  BY <1>5 DEF PendingIsBacklog, Uncounted
<1>6. Work => \/ TakeContext \/ MergerPendingDesc
              \/ UNCHANGED << caller, contextChan, pending, Overcounted >>
  BY DEF Work, Merge, StopTimer, TakeTimeout, CommitFails, Commit, Overcounted,
         AfterAppend, AfterTimeout
<1>7. Timers \/ Idle \/ UNCHANGED vars
        => UNCHANGED << caller, contextChan, pending, Overcounted >>
  BY DEF Timers, Idle, TimerFires, AutoCommit, vars, Overcounted
<1> QED
  BY <1>1, <1>2, <1>3, <1>4, <1>5, <1>6, <1>7 DEF Next, Push

\* The gauge MergerPending is the length of contextChan but for the messages
\* sent or received and not counted yet, bad messages or not.
THEOREM PendingCorrect == Spec => []PendingIsBacklog
<1>1. Init => PendingIsBacklog
  <2> SUFFICES ASSUME Init PROVE PendingIsBacklog
    OBVIOUS
  <2>1. Uncounted = {} /\ Overcounted = 0
    BY DEF Init, Uncounted, Overcounted
  <2> QED
    BY <2>1, FS_EmptySet DEF Init, PendingIsBacklog
<1> QED
  BY <1>1, PendingStep, TypeCorrect, PTL DEF Spec
=============================================================================
