-------------------------- MODULE WsSession_proofs --------------------------
(***************************************************************************)
(* Theorems about WsSession, for any number of connections, buckets,       *)
(* pushers and callers of CloseSession, and any channel sizes.             *)
(***************************************************************************)
EXTENDS WsSession, FiniteSetTheorems, TLAPS

-----------------------------------------------------------------------------
(* The inductive invariant, part by part *)

\* An id not given out yet has no goroutine and no flag.
Unborn ==
  \A c \in Conns : c > serverId => /\ c \notin isClosed
                                   /\ \A r \in Roles : pc[c][r] = "none"

\* closeChan has been closed exactly when the flag is set.
CloseFlag ==
  \A c \in Conns : closeCalls[c] = IF c \in isClosed THEN 1 ELSE 0

\* Whoever is past the first half of Close finds the socket closed.
SocketGone ==
  /\ ClosedHasNoSocket
  /\ \A c \in Conns, r \in Roles : pc[c][r] = "mark" => c \notin socketOpen
  /\ \A k \in Closers :
       kill[k].at \in {"mark", "delete"} => kill[k].conn \notin socketOpen

\* The router leaves its loop through Close.
RouterClosed ==
  \A c \in Conns :
    pc[c]["router"] \in {"delete", "uncount", "done"} => c \in isClosed

\* A registered connection is in its own bucket, between AddConn and DelConn.
Registered ==
  \A c \in Conns, b \in Buckets :
    c \in id2Conn[b] =>
      /\ b = GetBucket(c)
      /\ pc[c]["router"] \notin {"none", "add", "uncount", "done"}

\* CloseSession works on a connection that was opened.
KillTarget ==
  \A k \in Closers :
    kill[k].at # "idle" =>
      /\ kill[k].conn \in Conns
      /\ kill[k].conn <= serverId
      /\ kill[k].at = "delete" => kill[k].conn \in isClosed

\* A bucket is not read-locked and write-locked at once.
LockExclusion == \A b \in Buckets : ~(ReadLocked(b) /\ WriteLocked(b))

CloseInv == Unborn /\ CloseFlag /\ SocketGone /\ RouterClosed
ListInv == Registered /\ KillTarget
LockInv == LockExclusion /\ PushSeesStableBucket

IInv == TypeOK /\ CloseInv /\ ListInv /\ LockInv

-----------------------------------------------------------------------------
(* Facts about the operators of the model *)

\* Every connection has a bucket (ConnManager.GetBucket never indexes out of
\* the slice).
LEMMA GetBucketType == \A c \in Conns : GetBucket(c) \in Buckets
BY BucketCountAssumption, MaxConnAssumption, SMT DEF Conns, GetBucket, Buckets

\* NoBucket is not a bucket and NoConn is not a connection.
LEMMA NoneIsNone == NoBucket \notin Buckets /\ NoConn \notin Conns
BY BucketCountAssumption, MaxConnAssumption DEF NoBucket, Buckets, NoConn, Conns

\* A loop that selects on closeChan goes from its select to its end, and
\* nothing else changes.
LEMMA StoppedStep ==
  ASSUME NEW c \in Conns, NEW r \in Roles, Stopped(c, r)
  PROVE  /\ c \in isClosed /\ r # "router"
         /\ pc[c][r] \notin {"none", "mark"}
         /\ pc' = [pc EXCEPT ![c][r] = "done"]
         /\ UNCHANGED << closing, chans, table, others >>
<1>1. CASE r = "reader"
  BY <1>1 DEF Stopped, Moves, Goes
<1>2. CASE r = "writer"
  BY <1>2 DEF Stopped, Moves, Goes
<1>3. CASE r = "heart"
  BY <1>3 DEF Stopped, Moves, Goes
<1> QED
  BY <1>1, <1>2, <1>3 DEF Stopped

-----------------------------------------------------------------------------
LEMMA InitIInv == Init => IInv
<1> SUFFICES ASSUME Init PROVE IInv
  OBVIOUS
<1> USE BoundAssumption, ChannelAssumption, MaxConnAssumption, NoneIsNone
<1>1. TypeOK
  BY DEF Init, TypeOK, IdlePush, IdleKill, Labels
<1>2. Unborn /\ CloseFlag /\ SocketGone /\ RouterClosed /\ Registered
  BY DEF Init, Unborn, CloseFlag, SocketGone, ClosedHasNoSocket, RouterClosed,
         Registered, IdleKill, Roles
<1>3. KillTarget /\ LockExclusion /\ PushSeesStableBucket
  BY DEF Init, KillTarget, LockExclusion, PushSeesStableBucket, ReadLocked,
         WriteLocked, IdlePush, IdleKill
<1> QED
  BY <1>1, <1>2, <1>3 DEF IInv, CloseInv, ListInv, LockInv

\* A pusher that has a connection to visit holds a bucket.
LEMMA ActivePush ==
  ASSUME TypeOK, NEW p \in Pushers, push[p] # IdlePush
  PROVE  push[p] \in [bucket : Buckets, todo : SUBSET Conns]
BY DEF TypeOK

\* A caller of CloseSession inside DelConnByCID works on a connection.
LEMMA ActiveKill ==
  ASSUME TypeOK, NEW k \in Closers, kill[k].at # "idle"
  PROVE  kill[k] \in [at : {"close", "mark", "delete"}, conn : Conns]
BY DEF TypeOK, IdleKill

-----------------------------------------------------------------------------
(* Type correctness *)

LEMMA TypeStep == TypeOK /\ [Next]_vars => TypeOK'
<1> SUFFICES ASSUME TypeOK, [Next]_vars PROVE TypeOK'
  OBVIOUS
<1> USE MaxConnAssumption, BoundAssumption, ChannelAssumption, NoneIsNone,
        GetBucketType DEF TypeOK, IdlePush, IdleKill, Goes, Moves, closing,
                            chans, pushing, table, others
<1>1. ASSUME Open PROVE TypeOK'
  <2>. DEFINE c == serverId + 1
              f == [pc EXCEPT ![c]["reader"] = "read"]
              g == [f EXCEPT ![c]["writer"] = "select"]
  <2>1. c \in Conns /\ serverId' = c
    BY <1>1 DEF Open, Conns
  <2>2. f \in [Conns -> [Roles -> Labels]]
    BY <2>1 DEF Labels, Roles
  <2>3. g \in [Conns -> [Roles -> Labels]]
    BY <2>1, <2>2 DEF Labels, Roles
  <2>4. pc' = [g EXCEPT ![c]["router"] = "add"]
    BY <1>1 DEF Open
  <2>5. pc' \in [Conns -> [Roles -> Labels]]
    BY <2>1, <2>3, <2>4 DEF Labels, Roles
  <2>6. /\ socketOpen' = socketOpen \cup {c}
        /\ UNCHANGED << isClosed, closeCalls, inChan, outChan, frames, id2Conn,
                        push, pushes, kill, online >>
    BY <1>1 DEF Open
  <2> HIDE DEF c, f, g
  <2> QED
    BY <2>1, <2>5, <2>6 DEF Conns
<1>2. ASSUME NEW c \in Conns, AddConn(c) PROVE TypeOK'
  BY <1>2 DEF AddConn, Labels, Roles
<1>3. ASSUME NEW c \in Conns, StartRouter(c) PROVE TypeOK'
  <2>. DEFINE f == [pc EXCEPT ![c]["router"] = "serve"]
  <2>1. f \in [Conns -> [Roles -> Labels]]
    BY DEF Labels, Roles
  <2>2. pc' = [f EXCEPT ![c]["heart"] = "wait"]
    BY <1>3 DEF StartRouter
  <2>3. pc' \in [Conns -> [Roles -> Labels]]
    BY <2>1, <2>2 DEF Labels, Roles
  <2>4. /\ online' = online + 1
        /\ UNCHANGED << serverId, socketOpen, isClosed, closeCalls, inChan,
                        outChan, frames, id2Conn, push, pushes, kill >>
    BY <1>3 DEF StartRouter
  <2> QED
    BY <2>3, <2>4
<1>4. ASSUME NEW c \in Conns, RouterRead(c) PROVE TypeOK'
  <2>1. Tail(inChan[c]) \in Seq(Kinds)
    BY <1>4 DEF RouterRead
  <2>2. inChan' \in [Conns -> Seq(Kinds)]
    BY <1>4, <2>1 DEF RouterRead
  <2>3. AfterRead(Head(inChan[c])) \in Labels
    BY <1>4 DEF RouterRead, AfterRead, Labels, Kinds
  <2>4. pc' \in [Conns -> [Roles -> Labels]]
    BY <1>4, <2>3 DEF RouterRead, Roles
  <2>5. UNCHANGED << serverId, socketOpen, isClosed, closeCalls, outChan, frames,
                     id2Conn, push, pushes, kill, online >>
    BY <1>4 DEF RouterRead
  <2> QED
    BY <2>2, <2>4, <2>5
<1>5. ASSUME NEW c \in Conns, RouterLost(c) PROVE TypeOK'
  BY <1>5 DEF RouterLost, Labels, Roles
<1>6. ASSUME NEW c \in Conns, RouterReply(c) PROVE TypeOK'
  BY <1>6 DEF RouterReply, SendMessage, Labels, Roles, SendOutcomes
<1>7. ASSUME NEW c \in Conns, RouterBadReply(c) PROVE TypeOK'
  BY <1>7 DEF RouterBadReply, Labels, Roles
<1>8. ASSUME NEW c \in Conns, DelConn(c) PROVE TypeOK'
  BY <1>8 DEF DelConn, Unregister, Labels, Roles
<1>9. ASSUME NEW c \in Conns, Uncount(c) PROVE TypeOK'
  BY <1>9 DEF Uncount, Labels, Roles
<1>10. ASSUME NEW c \in Conns, ReaderGot(c) PROVE TypeOK'
  BY <1>10 DEF ReaderGot, Labels, Roles
<1>11. ASSUME NEW c \in Conns, ReaderFail(c) PROVE TypeOK'
  BY <1>11 DEF ReaderFail, Labels, Roles
<1>12. ASSUME NEW c \in Conns, ReaderEnqueue(c) PROVE TypeOK'
  BY <1>12 DEF ReaderEnqueue, Labels, Roles
<1>13. ASSUME NEW c \in Conns, WriterTake(c) PROVE TypeOK'
  BY <1>13 DEF WriterTake, Labels, Roles
<1>14. ASSUME NEW c \in Conns, WriterSent(c) PROVE TypeOK'
  BY <1>14 DEF WriterSent, Labels, Roles
<1>15. ASSUME NEW c \in Conns, WriterFail(c) PROVE TypeOK'
  BY <1>15 DEF WriterFail, Labels, Roles
<1>16. ASSUME NEW c \in Conns, HeartExpired(c) PROVE TypeOK'
  BY <1>16 DEF HeartExpired, Labels, Roles
<1>17. ASSUME NEW c \in Conns, NEW r \in Roles, CloseSocket(c, r) PROVE TypeOK'
  BY <1>17 DEF CloseSocket, Labels, Roles
<1>18. ASSUME NEW c \in Conns, NEW r \in Roles, CloseMark(c, r) PROVE TypeOK'
  BY <1>18 DEF CloseMark, MarkClosed, AfterClose, Labels, Roles
<1>19. ASSUME NEW c \in Conns, NEW r \in Roles, Stopped(c, r) PROVE TypeOK'
  <2>0. /\ c \in isClosed /\ r # "router" /\ pc[c][r] \notin {"none", "mark"}
        /\ pc' = [pc EXCEPT ![c][r] = "done"]
        /\ UNCHANGED << closing, chans, table, others >>
    BY <1>19, StoppedStep
  <2> QED
    BY <2>0 DEF Labels, Roles, closing, chans, pushing, table, others
<1>20. ASSUME NEW p \in Pushers, NEW b \in Buckets, PushBegin(p, b)
      PROVE  TypeOK'
  BY <1>20 DEF PushBegin
<1>21. ASSUME NEW p \in Pushers, NEW c \in Conns, PushOne(p, c) PROVE TypeOK'
  <2>1. outChan' \in [Conns -> 0 .. OutChannelSize]
    BY <1>21 DEF PushOne, SendMessage, SendOutcomes
  <2>2. push' \in [Pushers -> {IdlePush} \cup [bucket : Buckets,
                                               todo : SUBSET Conns]]
    <3>1. push[p] \in [bucket : Buckets, todo : SUBSET Conns]
      BY <1>21, ActivePush DEF PushOne
    <3> QED
      BY <1>21, <3>1 DEF PushOne
  <2> QED
    BY <1>21, <2>1, <2>2 DEF PushOne
<1>22. ASSUME NEW p \in Pushers, PushEnd(p) PROVE TypeOK'
  BY <1>22 DEF PushEnd, IdlePush
<1>23. ASSUME NEW c \in Conns, PushByCid(c) PROVE TypeOK'
  BY <1>23 DEF PushByCid, SendMessage, SendOutcomes
<1>24. ASSUME NEW k \in Closers, NEW c \in Conns, CloseSession(k, c)
      PROVE  TypeOK'
  BY <1>24 DEF CloseSession
<1>25. ASSUME NEW k \in Closers, KillSocket(k) PROVE TypeOK'
  BY <1>25, ActiveKill DEF KillSocket
<1>26. ASSUME NEW k \in Closers, KillMark(k) PROVE TypeOK'
  <2>1. kill[k] \in [at : {"close", "mark", "delete"}, conn : Conns]
    BY <1>26, ActiveKill DEF KillMark
  <2>2. isClosed' \subseteq Conns /\ closeCalls' \in [Conns -> Nat]
    BY <1>26, <2>1 DEF KillMark, MarkClosed
  <2>3. kill' \in [Closers -> {IdleKill} \cup
                     [at : {"close", "mark", "delete"}, conn : Conns]]
    BY <1>26, <2>1 DEF KillMark
  <2> QED
    BY <1>26, <2>2, <2>3 DEF KillMark
<1>27. ASSUME NEW k \in Closers, KillDelete(k) PROVE TypeOK'
  BY <1>27 DEF KillDelete, Unregister, IdleKill
<1>28. CASE UNCHANGED vars
  BY <1>28 DEF vars
<1> QED
  BY <1>1, <1>2, <1>3, <1>4, <1>5, <1>6, <1>7, <1>8, <1>9, <1>10, <1>11,
     <1>12, <1>13, <1>14, <1>15, <1>16, <1>17, <1>18, <1>19, <1>20, <1>21,
     <1>22, <1>23, <1>24, <1>25, <1>26, <1>27, <1>28
  DEF Next, Reader, Writer, Router, RouterExit, Close, Kill, Terminated

-----------------------------------------------------------------------------
(* The invariant is inductive *)

LEMMA StepIInv == IInv /\ [Next]_vars => IInv'
<1> SUFFICES ASSUME IInv, [Next]_vars PROVE IInv'
  OBVIOUS
<1>0. TypeOK /\ TypeOK' /\ CloseInv /\ ListInv /\ LockInv
  BY TypeStep DEF IInv
<1> SUFFICES CloseInv' /\ ListInv' /\ LockInv'
  BY <1>0 DEF IInv
<1> USE DEF Goes, Moves, closing, chans, pushing, table, others
<1>1. ASSUME Open
     PROVE  CloseInv' /\ ListInv' /\ LockInv'
  <2>1. CloseInv'
    <3>. DEFINE n == serverId + 1
    <3>1. /\ n \in Conns /\ serverId' = n /\ n = serverId + 1
          /\ serverId \in Nat /\ n \notin isClosed
          /\ socketOpen' = socketOpen \cup {n}
          /\ UNCHANGED << isClosed, closeCalls, kill >>
      BY <1>0, <1>1 DEF Open, TypeOK, Conns, CloseInv, Unborn
    <3>2. \A d \in Conns \ {n} : pc'[d] = pc[d]
      BY <1>0, <1>1, <3>1 DEF Open, TypeOK
    <3>3. \A r \in Roles : pc'[n][r] \in {"read", "select", "add", "none"}
      <4>1. \A r \in Roles : pc[n][r] = "none"
        BY <1>0, <3>1 DEF CloseInv, Unborn, TypeOK, Conns
      <4> QED
        BY <1>0, <1>1, <3>1, <4>1 DEF Open, TypeOK, Roles
    <3>4. \A k \in Closers : kill[k].at \in {"mark", "delete"} =>
                              kill[k].conn # n
      BY <1>0 DEF ListInv, KillTarget, TypeOK, Conns
    <3> HIDE DEF n
    <3>5. Unborn' /\ CloseFlag'
      BY <1>0, <3>1, <3>2 DEF CloseInv, Unborn, CloseFlag, Conns
    <3>6. SocketGone'
      BY <1>0, <3>1, <3>2, <3>3, <3>4
      DEF CloseInv, SocketGone, ClosedHasNoSocket
    <3>7. RouterClosed'
      BY <1>0, <3>1, <3>2, <3>3 DEF CloseInv, RouterClosed, Roles
    <3> QED
      BY <3>5, <3>6, <3>7 DEF CloseInv
  <2>2. ListInv'
    BY <1>0, <1>1
    DEF Open, ListInv, Registered, KillTarget, TypeOK, Roles, CloseInv,
        Unborn, Conns
  <2>3. LockInv'
    BY <1>0, <1>1
    DEF Open, LockInv, LockExclusion, PushSeesStableBucket, ReadLocked,
        WriteLocked
  <2> QED
    BY <2>1, <2>2, <2>3
<1>2. ASSUME NEW c \in Conns, AddConn(c)
     PROVE  CloseInv' /\ ListInv' /\ LockInv'
  <2>1. CloseInv'
    BY <1>0, <1>2
    DEF AddConn, CloseInv, Unborn, CloseFlag, SocketGone,
        ClosedHasNoSocket, RouterClosed, Roles, TypeOK
  <2>2. ListInv'
    BY <1>0, <1>2, GetBucketType
    DEF AddConn, ListInv, Registered, KillTarget, TypeOK, Roles,
        CloseInv, Unborn, CanLock
  <2>3. LockInv'
    BY <1>0, <1>2, GetBucketType, NoneIsNone
    DEF AddConn, LockInv, LockExclusion, PushSeesStableBucket, ReadLocked,
        WriteLocked, TypeOK, CanLock, IdlePush
  <2> QED
    BY <2>1, <2>2, <2>3
<1>3. ASSUME NEW c \in Conns, StartRouter(c)
     PROVE  CloseInv' /\ ListInv' /\ LockInv'
  <2>1. CloseInv'
    BY <1>0, <1>3
    DEF StartRouter, CloseInv, Unborn, CloseFlag, SocketGone,
        ClosedHasNoSocket, RouterClosed, Roles, TypeOK
  <2>2. ListInv'
    BY <1>0, <1>3
    DEF StartRouter, ListInv, Registered, KillTarget, TypeOK, Roles
  <2>3. LockInv'
    BY <1>0, <1>3
    DEF StartRouter, LockInv, LockExclusion, PushSeesStableBucket,
        ReadLocked, WriteLocked
  <2> QED
    BY <2>1, <2>2, <2>3
<1>4. ASSUME NEW c \in Conns, RouterRead(c)
     PROVE  CloseInv' /\ ListInv' /\ LockInv'
  <2>0. AfterRead(Head(inChan[c])) \in {"serve", "close", "reply"}
    BY <1>0, <1>4 DEF TypeOK, RouterRead, AfterRead, Kinds
  <2>1. CloseInv'
    BY <1>0, <1>4, <2>0
    DEF RouterRead, CloseInv, Unborn, CloseFlag, SocketGone,
        ClosedHasNoSocket, RouterClosed, Roles, TypeOK
  <2>2. ListInv'
    BY <1>0, <1>4, <2>0
    DEF RouterRead, ListInv, Registered, KillTarget, TypeOK, Roles
  <2>3. LockInv'
    BY <1>0, <1>4, <2>0
    DEF RouterRead, LockInv, LockExclusion, PushSeesStableBucket, ReadLocked,
        WriteLocked
  <2> QED
    BY <2>1, <2>2, <2>3
<1>5. ASSUME NEW c \in Conns, RouterLost(c)
     PROVE  CloseInv' /\ ListInv' /\ LockInv'
  <2>1. CloseInv'
    BY <1>0, <1>5
    DEF RouterLost, CloseInv, Unborn, CloseFlag, SocketGone,
        ClosedHasNoSocket, RouterClosed, Roles, TypeOK
  <2>2. ListInv'
    BY <1>0, <1>5
    DEF RouterLost, ListInv, Registered, KillTarget, TypeOK, Roles
  <2>3. LockInv'
    BY <1>0, <1>5
    DEF RouterLost, LockInv, LockExclusion, PushSeesStableBucket, ReadLocked,
        WriteLocked
  <2> QED
    BY <2>1, <2>2, <2>3
<1>6. ASSUME NEW c \in Conns, RouterReply(c)
     PROVE  CloseInv' /\ ListInv' /\ LockInv'
  <2>1. CloseInv'
    BY <1>0, <1>6
    DEF RouterReply, SendMessage, CloseInv, Unborn, CloseFlag,
        SocketGone, ClosedHasNoSocket, RouterClosed, Roles, TypeOK
  <2>2. ListInv'
    BY <1>0, <1>6
    DEF RouterReply, SendMessage, ListInv, Registered, KillTarget,
        TypeOK, Roles
  <2>3. LockInv'
    BY <1>0, <1>6
    DEF RouterReply, LockInv, LockExclusion, PushSeesStableBucket,
        ReadLocked, WriteLocked
  <2> QED
    BY <2>1, <2>2, <2>3
<1>7. ASSUME NEW c \in Conns, RouterBadReply(c)
     PROVE  CloseInv' /\ ListInv' /\ LockInv'
  <2>1. CloseInv'
    BY <1>0, <1>7
    DEF RouterBadReply, CloseInv, Unborn, CloseFlag, SocketGone,
        ClosedHasNoSocket, RouterClosed, Roles, TypeOK
  <2>2. ListInv'
    BY <1>0, <1>7
    DEF RouterBadReply, ListInv, Registered, KillTarget, TypeOK, Roles
  <2>3. LockInv'
    BY <1>0, <1>7
    DEF RouterBadReply, LockInv, LockExclusion, PushSeesStableBucket,
        ReadLocked, WriteLocked
  <2> QED
    BY <2>1, <2>2, <2>3
<1>8. ASSUME NEW c \in Conns, DelConn(c)
     PROVE  CloseInv' /\ ListInv' /\ LockInv'
  <2>1. CloseInv'
    BY <1>0, <1>8
    DEF DelConn, Unregister, CloseInv, Unborn, CloseFlag, SocketGone,
        ClosedHasNoSocket, RouterClosed, Roles, TypeOK
  <2>2. ListInv'
    BY <1>0, <1>8
    DEF DelConn, Unregister, ListInv, Registered, KillTarget, TypeOK, Roles,
        CloseInv, RouterClosed, CanLock
  <2>3. LockInv'
    BY <1>0, <1>8, GetBucketType, NoneIsNone
    DEF DelConn, Unregister, LockInv, LockExclusion, PushSeesStableBucket, ReadLocked,
        WriteLocked, TypeOK, CanLock, IdlePush
  <2> QED
    BY <2>1, <2>2, <2>3
<1>9. ASSUME NEW c \in Conns, Uncount(c)
     PROVE  CloseInv' /\ ListInv' /\ LockInv'
  <2>1. CloseInv'
    BY <1>0, <1>9
    DEF Uncount, CloseInv, Unborn, CloseFlag, SocketGone,
        ClosedHasNoSocket, RouterClosed, Roles, TypeOK
  <2>2. ListInv'
    BY <1>0, <1>9
    DEF Uncount, ListInv, Registered, KillTarget, TypeOK, Roles,
        CloseInv, RouterClosed
  <2>3. LockInv'
    BY <1>0, <1>9
    DEF Uncount, LockInv, LockExclusion, PushSeesStableBucket, ReadLocked,
        WriteLocked
  <2> QED
    BY <2>1, <2>2, <2>3
<1>10. ASSUME NEW c \in Conns, ReaderGot(c)
     PROVE  CloseInv' /\ ListInv' /\ LockInv'
  <2>1. CloseInv'
    BY <1>0, <1>10
    DEF ReaderGot, CloseInv, Unborn, CloseFlag, SocketGone,
        ClosedHasNoSocket, RouterClosed, Roles, TypeOK
  <2>2. ListInv'
    BY <1>0, <1>10
    DEF ReaderGot, ListInv, Registered, KillTarget, TypeOK, Roles
  <2>3. LockInv'
    BY <1>0, <1>10
    DEF ReaderGot, LockInv, LockExclusion, PushSeesStableBucket, ReadLocked,
        WriteLocked
  <2> QED
    BY <2>1, <2>2, <2>3
<1>11. ASSUME NEW c \in Conns, ReaderFail(c)
     PROVE  CloseInv' /\ ListInv' /\ LockInv'
  <2>1. CloseInv'
    BY <1>0, <1>11
    DEF ReaderFail, CloseInv, Unborn, CloseFlag, SocketGone,
        ClosedHasNoSocket, RouterClosed, Roles, TypeOK
  <2>2. ListInv'
    BY <1>0, <1>11
    DEF ReaderFail, ListInv, Registered, KillTarget, TypeOK, Roles
  <2>3. LockInv'
    BY <1>0, <1>11
    DEF ReaderFail, LockInv, LockExclusion, PushSeesStableBucket, ReadLocked,
        WriteLocked
  <2> QED
    BY <2>1, <2>2, <2>3
<1>12. ASSUME NEW c \in Conns, ReaderEnqueue(c)
     PROVE  CloseInv' /\ ListInv' /\ LockInv'
  <2>1. CloseInv'
    BY <1>0, <1>12
    DEF ReaderEnqueue, CloseInv, Unborn, CloseFlag, SocketGone,
        ClosedHasNoSocket, RouterClosed, Roles, TypeOK
  <2>2. ListInv'
    BY <1>0, <1>12
    DEF ReaderEnqueue, ListInv, Registered, KillTarget, TypeOK, Roles
  <2>3. LockInv'
    BY <1>0, <1>12
    DEF ReaderEnqueue, LockInv, LockExclusion, PushSeesStableBucket,
        ReadLocked, WriteLocked
  <2> QED
    BY <2>1, <2>2, <2>3
<1>13. ASSUME NEW c \in Conns, WriterTake(c)
     PROVE  CloseInv' /\ ListInv' /\ LockInv'
  <2>1. CloseInv'
    BY <1>0, <1>13
    DEF WriterTake, CloseInv, Unborn, CloseFlag, SocketGone,
        ClosedHasNoSocket, RouterClosed, Roles, TypeOK
  <2>2. ListInv'
    BY <1>0, <1>13
    DEF WriterTake, ListInv, Registered, KillTarget, TypeOK, Roles
  <2>3. LockInv'
    BY <1>0, <1>13
    DEF WriterTake, LockInv, LockExclusion, PushSeesStableBucket, ReadLocked,
        WriteLocked
  <2> QED
    BY <2>1, <2>2, <2>3
<1>14. ASSUME NEW c \in Conns, WriterSent(c)
     PROVE  CloseInv' /\ ListInv' /\ LockInv'
  <2>1. CloseInv'
    BY <1>0, <1>14
    DEF WriterSent, CloseInv, Unborn, CloseFlag, SocketGone,
        ClosedHasNoSocket, RouterClosed, Roles, TypeOK
  <2>2. ListInv'
    BY <1>0, <1>14
    DEF WriterSent, ListInv, Registered, KillTarget, TypeOK, Roles
  <2>3. LockInv'
    BY <1>0, <1>14
    DEF WriterSent, LockInv, LockExclusion, PushSeesStableBucket, ReadLocked,
        WriteLocked
  <2> QED
    BY <2>1, <2>2, <2>3
<1>15. ASSUME NEW c \in Conns, WriterFail(c)
     PROVE  CloseInv' /\ ListInv' /\ LockInv'
  <2>1. CloseInv'
    BY <1>0, <1>15
    DEF WriterFail, CloseInv, Unborn, CloseFlag, SocketGone,
        ClosedHasNoSocket, RouterClosed, Roles, TypeOK
  <2>2. ListInv'
    BY <1>0, <1>15
    DEF WriterFail, ListInv, Registered, KillTarget, TypeOK, Roles
  <2>3. LockInv'
    BY <1>0, <1>15
    DEF WriterFail, LockInv, LockExclusion, PushSeesStableBucket, ReadLocked,
        WriteLocked
  <2> QED
    BY <2>1, <2>2, <2>3
<1>16. ASSUME NEW c \in Conns, HeartExpired(c)
     PROVE  CloseInv' /\ ListInv' /\ LockInv'
  <2>1. CloseInv'
    BY <1>0, <1>16
    DEF HeartExpired, CloseInv, Unborn, CloseFlag, SocketGone,
        ClosedHasNoSocket, RouterClosed, Roles, TypeOK
  <2>2. ListInv'
    BY <1>0, <1>16
    DEF HeartExpired, ListInv, Registered, KillTarget, TypeOK, Roles
  <2>3. LockInv'
    BY <1>0, <1>16
    DEF HeartExpired, LockInv, LockExclusion, PushSeesStableBucket,
        ReadLocked, WriteLocked
  <2> QED
    BY <2>1, <2>2, <2>3
<1>17. ASSUME NEW c \in Conns, NEW r \in Roles, CloseSocket(c, r)
     PROVE  CloseInv' /\ ListInv' /\ LockInv'
  <2>1. CloseInv'
    BY <1>0, <1>17
    DEF CloseSocket, CloseInv, Unborn, CloseFlag, SocketGone,
        ClosedHasNoSocket, RouterClosed, Roles, TypeOK
  <2>2. ListInv'
    BY <1>0, <1>17
    DEF CloseSocket, ListInv, Registered, KillTarget, TypeOK, Roles
  <2>3. LockInv'
    BY <1>0, <1>17
    DEF CloseSocket, LockInv, LockExclusion, PushSeesStableBucket,
        ReadLocked, WriteLocked
  <2> QED
    BY <2>1, <2>2, <2>3
<1>18. ASSUME NEW c \in Conns, NEW r \in Roles, CloseMark(c, r)
     PROVE  CloseInv' /\ ListInv' /\ LockInv'
  <2>1. CloseInv'
    BY <1>0, <1>18
    DEF CloseMark, MarkClosed, AfterClose, CloseInv, Unborn, CloseFlag,
        SocketGone, ClosedHasNoSocket, RouterClosed, Roles, TypeOK
  <2>2. ListInv'
    BY <1>0, <1>18
    DEF CloseMark, MarkClosed, AfterClose, ListInv, Registered,
        KillTarget, TypeOK, Roles
  <2>3. LockInv'
    BY <1>0, <1>18
    DEF CloseMark, LockInv, LockExclusion, PushSeesStableBucket, ReadLocked,
        WriteLocked
  <2> QED
    BY <2>1, <2>2, <2>3
<1>19. ASSUME NEW c \in Conns, NEW r \in Roles, Stopped(c, r)
     PROVE  CloseInv' /\ ListInv' /\ LockInv'
  <2>0. /\ c \in isClosed /\ r # "router" /\ pc[c][r] \notin {"none", "mark"}
        /\ pc' = [pc EXCEPT ![c][r] = "done"]
        /\ UNCHANGED << closing, chans, table, others >>
    BY <1>19, StoppedStep
  <2>1. CloseInv'
    BY <1>0, <2>0
    DEF CloseInv, Unborn, CloseFlag, SocketGone,
        ClosedHasNoSocket, RouterClosed, Roles, TypeOK
  <2>2. ListInv'
    BY <1>0, <2>0
    DEF ListInv, Registered, KillTarget, TypeOK, Roles
  <2>3. LockInv'
    BY <1>0, <2>0
    DEF LockInv, LockExclusion, PushSeesStableBucket, ReadLocked,
        WriteLocked
  <2> QED
    BY <2>1, <2>2, <2>3
<1>20. ASSUME NEW p \in Pushers, NEW b \in Buckets, PushBegin(p, b)
     PROVE  CloseInv' /\ ListInv' /\ LockInv'
  <2>1. CloseInv'
    BY <1>0, <1>20
    DEF PushBegin, CloseInv, Unborn, CloseFlag, SocketGone,
        ClosedHasNoSocket, RouterClosed
  <2>2. ListInv'
    BY <1>0, <1>20
    DEF PushBegin, ListInv, Registered, KillTarget
  <2>3. LockInv'
    BY <1>0, <1>20, NoneIsNone
    DEF PushBegin, LockInv, LockExclusion, PushSeesStableBucket, ReadLocked,
        WriteLocked, TypeOK, CanRLock
  <2> QED
    BY <2>1, <2>2, <2>3
<1>21. ASSUME NEW p \in Pushers, NEW c \in Conns, PushOne(p, c)
     PROVE  CloseInv' /\ ListInv' /\ LockInv'
  <2>0. push[p] \in [bucket : Buckets, todo : SUBSET Conns]
    BY <1>0, <1>21, ActivePush DEF PushOne, IdlePush
  <2>1. CloseInv'
    BY <1>0, <1>21, <2>0
    DEF PushOne, CloseInv, Unborn, CloseFlag, SocketGone, ClosedHasNoSocket,
        RouterClosed
  <2>2. ListInv'
    BY <1>0, <1>21, <2>0
    DEF PushOne, ListInv, Registered, KillTarget
  <2>3. LockInv'
    BY <1>0, <1>21, <2>0, NoneIsNone
    DEF PushOne, LockInv, LockExclusion, PushSeesStableBucket, ReadLocked,
        WriteLocked, TypeOK, IdlePush
  <2> QED
    BY <2>1, <2>2, <2>3
<1>22. ASSUME NEW p \in Pushers, PushEnd(p)
     PROVE  CloseInv' /\ ListInv' /\ LockInv'
  <2>1. CloseInv'
    BY <1>0, <1>22
    DEF PushEnd, CloseInv, Unborn, CloseFlag, SocketGone, ClosedHasNoSocket,
        RouterClosed
  <2>2. ListInv'
    BY <1>0, <1>22
    DEF PushEnd, ListInv, Registered, KillTarget
  <2>3. LockInv'
    BY <1>0, <1>22, NoneIsNone
    DEF PushEnd, IdlePush, LockInv, LockExclusion, PushSeesStableBucket,
        ReadLocked, WriteLocked, TypeOK
  <2> QED
    BY <2>1, <2>2, <2>3
<1>23. ASSUME NEW c \in Conns, PushByCid(c)
     PROVE  CloseInv' /\ ListInv' /\ LockInv'
  <2>1. CloseInv'
    BY <1>0, <1>23
    DEF PushByCid, CloseInv, Unborn, CloseFlag, SocketGone,
        ClosedHasNoSocket, RouterClosed
  <2>2. ListInv'
    BY <1>0, <1>23
    DEF PushByCid, ListInv, Registered, KillTarget
  <2>3. LockInv'
    BY <1>0, <1>23
    DEF PushByCid, LockInv, LockExclusion, PushSeesStableBucket, ReadLocked,
        WriteLocked
  <2> QED
    BY <2>1, <2>2, <2>3
<1>24. ASSUME NEW k \in Closers, NEW c \in Conns, CloseSession(k, c)
     PROVE  CloseInv' /\ ListInv' /\ LockInv'
  <2>1. CloseInv'
    BY <1>0, <1>24
    DEF CloseSession, CloseInv, Unborn, CloseFlag, SocketGone,
        ClosedHasNoSocket, RouterClosed, Roles, TypeOK, ListInv, Registered
  <2>2. ListInv'
    BY <1>0, <1>24, GetBucketType
    DEF CloseSession, ListInv, Registered, KillTarget, TypeOK, Roles,
        CloseInv, Unborn, Conns
  <2>3. LockInv'
    BY <1>0, <1>24, GetBucketType
    DEF CloseSession, LockInv, LockExclusion, PushSeesStableBucket,
        ReadLocked, WriteLocked, TypeOK, CanLock, IdleKill
  <2> QED
    BY <2>1, <2>2, <2>3
<1>25. ASSUME NEW k \in Closers, KillSocket(k)
     PROVE  CloseInv' /\ ListInv' /\ LockInv'
  <2>0. kill[k] \in [at : {"close", "mark", "delete"}, conn : Conns]
    BY <1>0, <1>25, ActiveKill DEF KillSocket
  <2>1. CloseInv'
    BY <1>0, <1>25, <2>0
    DEF KillSocket, CloseInv, Unborn, CloseFlag, SocketGone,
        ClosedHasNoSocket, RouterClosed, Roles, TypeOK, ListInv, KillTarget
  <2>2. ListInv'
    BY <1>0, <1>25, <2>0
    DEF KillSocket, ListInv, Registered, KillTarget, TypeOK, Roles
  <2>3. LockInv'
    BY <1>0, <1>25, <2>0
    DEF KillSocket, LockInv, LockExclusion, PushSeesStableBucket, ReadLocked,
        WriteLocked, TypeOK, IdleKill
  <2> QED
    BY <2>1, <2>2, <2>3
<1>26. ASSUME NEW k \in Closers, KillMark(k)
     PROVE  CloseInv' /\ ListInv' /\ LockInv'
  <2>0. kill[k] \in [at : {"close", "mark", "delete"}, conn : Conns]
    BY <1>0, <1>26, ActiveKill DEF KillMark
  <2>1. CloseInv'
    <3>1. UNCHANGED << serverId, pc, socketOpen >>
      BY <1>26 DEF KillMark
    <3>2. kill[k].conn \notin socketOpen /\ kill[k].conn <= serverId
      BY <1>0, <1>26
      DEF KillMark, CloseInv, SocketGone, ListInv, KillTarget
    <3>3a. Unborn'
      <4>1. isClosed' = isClosed \cup {kill[k].conn}
        BY <1>26 DEF KillMark, MarkClosed
      <4>2. Unborn /\ serverId \in Nat
        BY <1>0 DEF CloseInv, TypeOK
      <4> QED
        BY ONLY <3>1, <3>2, <4>1, <4>2 DEF Unborn, Conns
    <3>3b. CloseFlag'
      BY <1>0, <1>26, <2>0
      DEF KillMark, MarkClosed, CloseInv, CloseFlag, TypeOK
    <3>3c. RouterClosed'
      BY <1>0, <1>26, <3>1
      DEF KillMark, MarkClosed, CloseInv, RouterClosed, TypeOK
    <3>3. Unborn' /\ CloseFlag' /\ RouterClosed'
      BY <3>3a, <3>3b, <3>3c
    <3>4. SocketGone'
      BY <1>0, <1>26, <2>0, <3>1, <3>2
      DEF KillMark, MarkClosed, CloseInv, SocketGone, ClosedHasNoSocket, TypeOK
    <3> QED
      BY <3>3, <3>4 DEF CloseInv
  <2>2. ListInv'
    BY <1>0, <1>26, <2>0
    DEF KillMark, MarkClosed, ListInv, Registered, KillTarget, TypeOK, Roles
  <2>3. LockInv'
    BY <1>0, <1>26, <2>0
    DEF KillMark, LockInv, LockExclusion, PushSeesStableBucket, ReadLocked,
        WriteLocked, TypeOK, IdleKill
  <2> QED
    BY <2>1, <2>2, <2>3
<1>27. ASSUME NEW k \in Closers, KillDelete(k)
     PROVE  CloseInv' /\ ListInv' /\ LockInv'
  <2>0. kill[k] \in [at : {"close", "mark", "delete"}, conn : Conns]
    BY <1>0, <1>27, ActiveKill DEF KillDelete, Unregister
  <2>1. CloseInv'
    BY <1>0, <1>27, <2>0
    DEF KillDelete, Unregister, IdleKill, CloseInv, Unborn, CloseFlag, SocketGone,
        ClosedHasNoSocket, RouterClosed, Roles, TypeOK, ListInv, KillTarget
  <2>2. ListInv'
    BY <1>0, <1>27, <2>0
    DEF KillDelete, Unregister, IdleKill, ListInv, Registered, KillTarget, TypeOK, Roles
  <2>3. LockInv'
    <3>. DEFINE b == GetBucket(kill[k].conn)
    <3>1. b \in Buckets /\ ~ReadLocked(b)
      BY <1>0, <1>27, <2>0, GetBucketType
      DEF KillDelete, Unregister, LockInv, LockExclusion, WriteLocked
    <3>2. \A p \in Pushers : push[p].bucket # b
      BY <3>1 DEF ReadLocked
    <3>3. PushSeesStableBucket'
      BY <1>0, <1>27, <3>1, <3>2
      DEF KillDelete, Unregister, LockInv, PushSeesStableBucket, TypeOK
    <3>4. LockExclusion'
      BY <1>0, <1>27
      DEF KillDelete, Unregister, LockInv, LockExclusion, ReadLocked, WriteLocked, IdleKill,
          TypeOK
    <3> QED
      BY <3>3, <3>4 DEF LockInv
  <2> QED
    BY <2>1, <2>2, <2>3
<1>28. CASE UNCHANGED vars
  BY <1>0, <1>28 DEF vars, CloseInv, Unborn, CloseFlag, SocketGone,
                     ClosedHasNoSocket, RouterClosed, ListInv, Registered,
                     KillTarget, LockInv, LockExclusion,
                     PushSeesStableBucket, ReadLocked, WriteLocked
<1> QED
  BY <1>1, <1>2, <1>3, <1>4, <1>5, <1>6, <1>7, <1>8, <1>9, <1>10, <1>11,
     <1>12, <1>13, <1>14, <1>15, <1>16, <1>17, <1>18, <1>19, <1>20, <1>21,
     <1>22, <1>23, <1>24, <1>25, <1>26, <1>27, <1>28
  DEF Next, Reader, Writer, Router, RouterExit, Close, Kill, Terminated

-----------------------------------------------------------------------------
(* Theorems *)

\* The invariant holds in every reachable state.
LEMMA Invariance == Spec => []IInv
<1>1. Init => IInv
  BY InitIInv
<1>2. IInv /\ [Next]_vars => IInv'
  BY StepIInv
<1> QED
  BY <1>1, <1>2, PTL DEF Spec

\* Every variable keeps its type: in particular outChan never holds more than
\* OutChannelSize messages.
THEOREM TypeCorrect == Spec => []TypeOK
<1>1. IInv => TypeOK
  BY DEF IInv
<1> QED
  BY <1>1, Invariance, PTL

\* No interleaving of the closing goroutines closes closeChan twice.
THEOREM ClosedOnce == Spec => []CloseOnce
<1>1. IInv => CloseOnce
  BY DEF IInv, CloseInv, CloseFlag, CloseOnce
<1> QED
  BY <1>1, Invariance, PTL

\* A connection flagged as closed has no open socket.
THEOREM NoSocketLeft == Spec => []ClosedHasNoSocket
<1>1. IInv => ClosedHasNoSocket
  BY DEF IInv, CloseInv, SocketGone
<1> QED
  BY <1>1, Invariance, PTL

\* A connection whose router has left is closed and in no bucket.
THEOREM NeverListedAgain == Spec => []EndedIsUnlisted
<1>1. IInv => EndedIsUnlisted
  BY DEF IInv, CloseInv, ListInv, RouterClosed, Registered, EndedIsUnlisted
<1> QED
  BY <1>1, Invariance, PTL

\* No bucket changes under a range over its connections.
THEOREM StableDuringPush == Spec => []PushSeesStableBucket
<1>1. IInv => PushSeesStableBucket
  BY DEF IInv, LockInv
<1> QED
  BY <1>1, Invariance, PTL

-----------------------------------------------------------------------------
(* The gauge of online connections *)

\* the connections counted by OnlineConnections
Counted ==
  {c \in Conns : pc[c]["router"] \in {"serve", "reply", "close", "mark",
                                      "delete", "uncount"}}

\* An open connection is registered as long as its router is past AddConn.
OpenIsListed ==
  \A c \in Conns :
    /\ pc[c]["router"] \in {"count", "serve", "reply", "close", "mark", "delete"}
    /\ c \notin isClosed
    => c \in id2Conn[GetBucket(c)]

GaugeInv == online = Cardinality(Counted) /\ OpenIsListed

LEMMA CountedFinite == IsFiniteSet(Counted)
<1>1. IsFiniteSet(Conns)
  BY FS_Interval, MaxConnAssumption DEF Conns
<1> QED
  BY <1>1, FS_Subset DEF Counted

LEMMA GaugeStep == IInv /\ GaugeInv /\ [Next]_vars => GaugeInv'
<1> SUFFICES ASSUME IInv, GaugeInv, [Next]_vars PROVE GaugeInv'
  OBVIOUS
<1> USE DEF Goes, Moves, closing, chans, pushing, table, others
<1>0. TypeOK /\ CloseInv /\ ListInv /\ GaugeInv
  BY DEF IInv
<1>1. ASSUME Open PROVE GaugeInv'
  <2>1. Counted' = Counted
    BY <1>0, <1>1 DEF Open, Conns, CloseInv, Unborn, Counted, TypeOK, Roles
  <2>2. OpenIsListed'
    BY <1>0, <1>1 DEF Open, GaugeInv, OpenIsListed, TypeOK, Roles, Conns,
                      CloseInv, Unborn
  <2> QED
    BY <1>0, <1>1, <2>1, <2>2 DEF Open, GaugeInv
<1>2. ASSUME NEW c \in Conns, AddConn(c) PROVE GaugeInv'
  <2>1. Counted' = Counted
    BY <1>0, <1>2, GetBucketType DEF AddConn, Counted, TypeOK, Roles
  <2>2. OpenIsListed'
    BY <1>0, <1>2, GetBucketType DEF AddConn, GaugeInv, OpenIsListed,
                                     TypeOK, Roles
  <2> QED
    BY <1>0, <1>2, <2>1, <2>2 DEF AddConn, GaugeInv
<1>3. ASSUME NEW c \in Conns, StartRouter(c) PROVE GaugeInv'
  <2>1. Counted' = Counted \cup {c} /\ c \notin Counted
    BY <1>0, <1>3 DEF StartRouter, Counted, TypeOK, Roles
  <2>2. Cardinality(Counted') = Cardinality(Counted) + 1
    BY <2>1, CountedFinite, FS_AddElement
  <2>3. OpenIsListed'
    BY <1>0, <1>3 DEF StartRouter, GaugeInv, OpenIsListed, TypeOK, Roles
  <2> QED
    BY <1>0, <1>3, <2>2, <2>3 DEF StartRouter, GaugeInv
<1>4. ASSUME NEW c \in Conns, RouterRead(c) PROVE GaugeInv'
  <2>1. AfterRead(Head(inChan[c])) \in {"serve", "close", "reply"}
    BY <1>0, <1>4 DEF TypeOK, RouterRead, AfterRead, Kinds
  <2>2. Counted' = Counted
    BY <1>0, <1>4, <2>1 DEF RouterRead, Counted, TypeOK, Roles
  <2>3. OpenIsListed'
    BY <1>0, <1>4, <2>1 DEF RouterRead, GaugeInv, OpenIsListed, TypeOK, Roles
  <2> QED
    BY <1>0, <1>4, <2>2, <2>3 DEF RouterRead, GaugeInv
<1>5. ASSUME NEW c \in Conns, RouterLost(c) PROVE GaugeInv'
  <2>1. Counted' = Counted
    BY <1>0, <1>5 DEF RouterLost, Counted, TypeOK, Roles
  <2>2. OpenIsListed'
    BY <1>0, <1>5 DEF RouterLost, GaugeInv, OpenIsListed, TypeOK, Roles
  <2> QED
    BY <1>0, <1>5, <2>1, <2>2 DEF RouterLost, GaugeInv
<1>6. ASSUME NEW c \in Conns, RouterReply(c) PROVE GaugeInv'
  <2>1. Counted' = Counted
    BY <1>0, <1>6 DEF RouterReply, Counted, TypeOK, Roles
  <2>2. OpenIsListed'
    BY <1>0, <1>6 DEF RouterReply, GaugeInv, OpenIsListed, TypeOK,
                      Roles
  <2> QED
    BY <1>0, <1>6, <2>1, <2>2 DEF RouterReply, GaugeInv
<1>7. ASSUME NEW c \in Conns, RouterBadReply(c) PROVE GaugeInv'
  <2>1. Counted' = Counted
    BY <1>0, <1>7 DEF RouterBadReply, Counted, TypeOK, Roles
  <2>2. OpenIsListed'
    BY <1>0, <1>7 DEF RouterBadReply, GaugeInv, OpenIsListed, TypeOK,
                      Roles
  <2> QED
    BY <1>0, <1>7, <2>1, <2>2 DEF RouterBadReply, GaugeInv
<1>8. ASSUME NEW c \in Conns, DelConn(c) PROVE GaugeInv'
  <2>1. Counted' = Counted
    BY <1>0, <1>8 DEF DelConn, Unregister, Counted, TypeOK, Roles
  <2>2. OpenIsListed'
    BY <1>0, <1>8 DEF DelConn, Unregister, GaugeInv, OpenIsListed, TypeOK, Roles,
                      CloseInv, RouterClosed
  <2> QED
    BY <1>0, <1>8, <2>1, <2>2 DEF DelConn, Unregister, GaugeInv
<1>9. ASSUME NEW c \in Conns, Uncount(c) PROVE GaugeInv'
  <2>1. Counted' = Counted \ {c} /\ c \in Counted
    BY <1>0, <1>9 DEF Uncount, Counted, TypeOK, Roles
  <2>2. Cardinality(Counted') = Cardinality(Counted) - 1
    BY <2>1, CountedFinite, FS_RemoveElement
  <2>3. OpenIsListed'
    BY <1>0, <1>9 DEF Uncount, GaugeInv, OpenIsListed, TypeOK, Roles
  <2> QED
    BY <1>0, <1>9, <2>2, <2>3 DEF Uncount, GaugeInv
<1>10. ASSUME NEW c \in Conns, ReaderGot(c) PROVE GaugeInv'
  <2>1. Counted' = Counted
    BY <1>0, <1>10 DEF ReaderGot, Counted, TypeOK, Roles
  <2>2. OpenIsListed'
    BY <1>0, <1>10 DEF ReaderGot, GaugeInv, OpenIsListed, TypeOK, Roles
  <2> QED
    BY <1>0, <1>10, <2>1, <2>2 DEF ReaderGot, GaugeInv
<1>11. ASSUME NEW c \in Conns, ReaderFail(c) PROVE GaugeInv'
  <2>1. Counted' = Counted
    BY <1>0, <1>11 DEF ReaderFail, Counted, TypeOK, Roles
  <2>2. OpenIsListed'
    BY <1>0, <1>11 DEF ReaderFail, GaugeInv, OpenIsListed, TypeOK,
                       Roles
  <2> QED
    BY <1>0, <1>11, <2>1, <2>2 DEF ReaderFail, GaugeInv
<1>12. ASSUME NEW c \in Conns, ReaderEnqueue(c) PROVE GaugeInv'
  <2>1. Counted' = Counted
    BY <1>0, <1>12 DEF ReaderEnqueue, Counted, TypeOK, Roles
  <2>2. OpenIsListed'
    BY <1>0, <1>12 DEF ReaderEnqueue, GaugeInv, OpenIsListed, TypeOK,
                       Roles
  <2> QED
    BY <1>0, <1>12, <2>1, <2>2 DEF ReaderEnqueue, GaugeInv
<1>13. ASSUME NEW c \in Conns, WriterTake(c) PROVE GaugeInv'
  <2>1. Counted' = Counted
    BY <1>0, <1>13 DEF WriterTake, Counted, TypeOK, Roles
  <2>2. OpenIsListed'
    BY <1>0, <1>13 DEF WriterTake, GaugeInv, OpenIsListed, TypeOK,
                       Roles
  <2> QED
    BY <1>0, <1>13, <2>1, <2>2 DEF WriterTake, GaugeInv
<1>14. ASSUME NEW c \in Conns, WriterSent(c) PROVE GaugeInv'
  <2>1. Counted' = Counted
    BY <1>0, <1>14 DEF WriterSent, Counted, TypeOK, Roles
  <2>2. OpenIsListed'
    BY <1>0, <1>14 DEF WriterSent, GaugeInv, OpenIsListed, TypeOK,
                       Roles
  <2> QED
    BY <1>0, <1>14, <2>1, <2>2 DEF WriterSent, GaugeInv
<1>15. ASSUME NEW c \in Conns, WriterFail(c) PROVE GaugeInv'
  <2>1. Counted' = Counted
    BY <1>0, <1>15 DEF WriterFail, Counted, TypeOK, Roles
  <2>2. OpenIsListed'
    BY <1>0, <1>15 DEF WriterFail, GaugeInv, OpenIsListed, TypeOK,
                       Roles
  <2> QED
    BY <1>0, <1>15, <2>1, <2>2 DEF WriterFail, GaugeInv
<1>16. ASSUME NEW c \in Conns, HeartExpired(c) PROVE GaugeInv'
  <2>1. Counted' = Counted
    BY <1>0, <1>16 DEF HeartExpired, Counted, TypeOK, Roles
  <2>2. OpenIsListed'
    BY <1>0, <1>16 DEF HeartExpired, GaugeInv, OpenIsListed, TypeOK,
                       Roles
  <2> QED
    BY <1>0, <1>16, <2>1, <2>2 DEF HeartExpired, GaugeInv
<1>17. ASSUME NEW c \in Conns, NEW r \in Roles, CloseSocket(c, r)
      PROVE  GaugeInv'
  <2>1. Counted' = Counted
    BY <1>0, <1>17 DEF CloseSocket, Counted, TypeOK, Roles
  <2>2. OpenIsListed'
    BY <1>0, <1>17 DEF CloseSocket, GaugeInv, OpenIsListed, TypeOK,
                       Roles
  <2> QED
    BY <1>0, <1>17, <2>1, <2>2 DEF CloseSocket, GaugeInv
<1>18. ASSUME NEW c \in Conns, NEW r \in Roles, CloseMark(c, r)
      PROVE  GaugeInv'
  <2>1. Counted' = Counted
    BY <1>0, <1>18 DEF CloseMark, MarkClosed, AfterClose, Counted,
                       TypeOK, Roles
  <2>2. OpenIsListed'
    BY <1>0, <1>18 DEF CloseMark, MarkClosed, AfterClose, GaugeInv,
                       OpenIsListed, TypeOK, Roles
  <2> QED
    BY <1>0, <1>18, <2>1, <2>2 DEF CloseMark, GaugeInv
<1>19. ASSUME NEW c \in Conns, NEW r \in Roles, Stopped(c, r) PROVE GaugeInv'
  <2>0. /\ c \in isClosed /\ r # "router" /\ pc[c][r] \notin {"none", "mark"}
        /\ pc' = [pc EXCEPT ![c][r] = "done"]
        /\ UNCHANGED << closing, chans, table, others >>
    BY <1>19, StoppedStep
  <2>1. Counted' = Counted
    BY <1>0, <2>0
    DEF Counted, TypeOK, Roles
  <2>2. OpenIsListed'
    BY <1>0, <2>0
    DEF GaugeInv, OpenIsListed, TypeOK, Roles
  <2> QED
    BY <1>0, <2>0, <2>1, <2>2
    DEF GaugeInv
<1>20. ASSUME NEW p \in Pushers, NEW b \in Buckets, PushBegin(p, b)
      PROVE  GaugeInv'
  BY <1>0, <1>20 DEF PushBegin, GaugeInv, Counted, OpenIsListed
<1>21. ASSUME NEW p \in Pushers, NEW c \in Conns, PushOne(p, c)
      PROVE  GaugeInv'
  BY <1>0, <1>21 DEF PushOne, GaugeInv, Counted, OpenIsListed
<1>22. ASSUME NEW p \in Pushers, PushEnd(p) PROVE GaugeInv'
  BY <1>0, <1>22 DEF PushEnd, GaugeInv, Counted, OpenIsListed
<1>23. ASSUME NEW c \in Conns, PushByCid(c) PROVE GaugeInv'
  BY <1>0, <1>23 DEF PushByCid, GaugeInv, Counted, OpenIsListed
<1>24. ASSUME NEW k \in Closers, NEW c \in Conns, CloseSession(k, c)
      PROVE  GaugeInv'
  BY <1>0, <1>24 DEF CloseSession, GaugeInv, Counted, OpenIsListed
<1>25. ASSUME NEW k \in Closers, KillSocket(k) PROVE GaugeInv'
  BY <1>0, <1>25 DEF KillSocket, GaugeInv, Counted, OpenIsListed
<1>26. ASSUME NEW k \in Closers, KillMark(k) PROVE GaugeInv'
  <2>1. Counted' = Counted
    BY <1>0, <1>26 DEF KillMark, Counted, TypeOK, Roles
  <2>2. OpenIsListed'
    BY <1>0, <1>26 DEF KillMark, GaugeInv, OpenIsListed, TypeOK, Roles,
                       MarkClosed
  <2> QED
    BY <1>0, <1>26, <2>1, <2>2 DEF KillMark, GaugeInv
<1>27. ASSUME NEW k \in Closers, KillDelete(k) PROVE GaugeInv'
  <2>1. Counted' = Counted
    BY <1>0, <1>27 DEF KillDelete, Unregister, IdleKill, Counted, TypeOK, Roles
  <2>2. OpenIsListed'
    BY <1>0, <1>27 DEF KillDelete, Unregister, IdleKill, GaugeInv, OpenIsListed, TypeOK,
                       Roles, ListInv, KillTarget
  <2> QED
    BY <1>0, <1>27, <2>1, <2>2 DEF KillDelete, Unregister, GaugeInv
<1>28. CASE UNCHANGED vars
  BY <1>0, <1>28 DEF vars, GaugeInv, Counted, OpenIsListed
<1> QED
  BY <1>1, <1>2, <1>3, <1>4, <1>5, <1>6, <1>7, <1>8, <1>9, <1>10, <1>11,
     <1>12, <1>13, <1>14, <1>15, <1>16, <1>17, <1>18, <1>19, <1>20, <1>21,
     <1>22, <1>23, <1>24, <1>25, <1>26, <1>27, <1>28
  DEF Next, Reader, Writer, Router, RouterExit, Close, Kill, Terminated

\* In a settled state the connections counted are the ones registered.
LEMMA SettledGauge == IInv /\ GaugeInv => OnlineGauge
<1> SUFFICES ASSUME IInv, GaugeInv,
                    \A c \in Conns : pc[c]["router"] \in
                      {"none", "add", "serve", "reply", "done"},
                    \A c \in isClosed : pc[c]["router"] \in {"add", "done"}
             PROVE  online = Cardinality(UNION {id2Conn[b] : b \in Buckets})
  BY DEF OnlineGauge
<1>1. Counted \subseteq UNION {id2Conn[b] : b \in Buckets}
  <2> SUFFICES ASSUME NEW c \in Counted
               PROVE  \E b \in Buckets : c \in id2Conn[b]
    OBVIOUS
  <2>1. c \in Conns /\ c \notin isClosed /\ pc[c]["router"] \in {"serve", "reply"}
    BY DEF Counted
  <2> QED
    BY <2>1, GetBucketType DEF GaugeInv, OpenIsListed
<1>2. ASSUME NEW b \in Buckets, NEW c \in id2Conn[b] PROVE c \in Counted
  BY <1>2 DEF IInv, TypeOK, ListInv, Registered, Counted
<1>3. UNION {id2Conn[b] : b \in Buckets} = Counted
  BY <1>1, <1>2
<1> QED
  BY <1>3 DEF GaugeInv

\* Whenever no connection is being added, closed or removed, OnlineConnections
\* is the number of registered connections.
THEOREM GaugeCorrect == Spec => []OnlineGauge
<1>1. Init => GaugeInv
  <2> SUFFICES ASSUME Init PROVE GaugeInv
    OBVIOUS
  <2>1. Counted = {}
    BY DEF Init, Counted, Roles
  <2> QED
    BY <2>1, FS_EmptySet DEF Init, GaugeInv, OpenIsListed, Roles
<1>2. IInv /\ GaugeInv /\ [Next]_vars => GaugeInv'
  BY GaugeStep
<1>3. IInv /\ GaugeInv => OnlineGauge
  BY SettledGauge
<1> QED
  BY <1>1, <1>2, <1>3, Invariance, PTL DEF Spec

-----------------------------------------------------------------------------
(* The refinement: what the directory sees of one connection *)

AllEnded(c) == \A r \in Roles : pc[c][r] = "done"

StatusOf(c) ==
  IF c > serverId THEN "new"
  ELSE IF c \notin isClosed THEN "open"
  ELSE IF AllEnded(c) THEN "gone" ELSE "closed"

ListingOf(c) ==
  IF pc[c]["router"] \in {"none", "add"} THEN "no"
  ELSE IF c \in id2Conn[GetBucket(c)] THEN "yes" ELSE "was"

\* The refinement mapping, and the same after a step
LEMMA Mapped ==
  ASSUME IInv
  PROVE  /\ absStatus = [c \in Conns |-> StatusOf(c)]
         /\ absListing = [c \in Conns |-> ListingOf(c)]
<1>1. ASSUME NEW c \in Conns PROVE Status(c) = StatusOf(c)
  <2>1. c \in Nat /\ serverId \in Nat
    BY MaxConnAssumption DEF IInv, TypeOK, Conns
  <2>2. c > serverId => c \notin isClosed
    BY DEF IInv, CloseInv, Unborn
  <2> QED  BY <2>1, <2>2 DEF Status, StatusOf, AllEnded
<1>2. ASSUME NEW c \in Conns PROVE Listing(c) = ListingOf(c)
  <2>1. pc[c]["router"] \in {"none", "add"} => c \notin id2Conn[GetBucket(c)]
    BY GetBucketType DEF IInv, ListInv, Registered
  <2>2. CASE pc[c]["router"] \in {"none", "add"}
    BY <2>1, <2>2 DEF Listing, ListingOf
  <2>3. CASE pc[c]["router"] \notin {"none", "add"} /\ c \in id2Conn[GetBucket(c)]
    BY <2>3 DEF Listing, ListingOf
  <2>4. CASE pc[c]["router"] \notin {"none", "add"} /\ c \notin id2Conn[GetBucket(c)]
    BY <2>4 DEF Listing, ListingOf
  <2> QED  BY <2>2, <2>3, <2>4
<1> QED  BY <1>1, <1>2 DEF absStatus, absListing

LEMMA MappedNext ==
  ASSUME IInv'
  PROVE  /\ absStatus' = [c \in Conns |-> StatusOf(c)']
         /\ absListing' = [c \in Conns |-> ListingOf(c)']
<1>1. ASSUME NEW c \in Conns PROVE Status(c)' = StatusOf(c)'
  <2>1. c \in Nat /\ serverId' \in Nat
    BY MaxConnAssumption DEF IInv, TypeOK, Conns
  <2>2. c > serverId' => c \notin isClosed'
    BY DEF IInv, CloseInv, Unborn
  <2> QED  BY <2>1, <2>2 DEF Status, StatusOf, AllEnded
<1>2. ASSUME NEW c \in Conns PROVE Listing(c)' = ListingOf(c)'
  <2>1. pc'[c]["router"] \in {"none", "add"} => c \notin id2Conn'[GetBucket(c)]
    BY GetBucketType DEF IInv, ListInv, Registered
  <2>2. CASE pc'[c]["router"] \in {"none", "add"}
    BY <2>1, <2>2 DEF Listing, ListingOf
  <2>3. CASE pc'[c]["router"] \notin {"none", "add"} /\ c \in id2Conn'[GetBucket(c)]
    BY <2>3 DEF Listing, ListingOf
  <2>4. CASE pc'[c]["router"] \notin {"none", "add"} /\ c \notin id2Conn'[GetBucket(c)]
    BY <2>4 DEF Listing, ListingOf
  <2> QED  BY <2>2, <2>3, <2>4
<1> QED  BY <1>1, <1>2 DEF absStatus, absListing

\* A step of one connection is one of the directory, or none, if the others stay
\* as they are.
Begins(c) == StatusOf(c) = "new" /\ StatusOf(c)' = "open" /\ ListingOf(c)' = ListingOf(c)
Ends(c) == StatusOf(c) = "open" /\ StatusOf(c)' = "closed" /\ ListingOf(c)' = ListingOf(c)
Lists(c) == /\ StatusOf(c) \in {"open", "closed"} /\ StatusOf(c)' = StatusOf(c)
            /\ ListingOf(c) = "no" /\ ListingOf(c)' = "yes"
Unlists(c) == /\ StatusOf(c) = "closed" /\ StatusOf(c)' = "closed"
              /\ ListingOf(c) = "yes" /\ ListingOf(c)' = "was"
Retires(c) == /\ StatusOf(c) = "closed" /\ StatusOf(c)' = "gone"
              /\ ListingOf(c) = "was" /\ ListingOf(c)' = "was"
Stays(c) == StatusOf(c)' = StatusOf(c) /\ ListingOf(c)' = ListingOf(c)

LEMMA OneSteps ==
  ASSUME IInv, IInv', NEW c \in Conns,
         \A d \in Conns : d # c => Stays(d),
         Begins(c) \/ Ends(c) \/ Lists(c) \/ Unlists(c) \/ Retires(c) \/ Stays(c)
  PROVE  [Directory!DNext]_(Directory!dvars)
<1>1. /\ absStatus' = [absStatus EXCEPT ![c] = StatusOf(c)']
      /\ absListing' = [absListing EXCEPT ![c] = ListingOf(c)']
  BY Mapped, MappedNext DEF Stays
<1>2. absStatus[c] = StatusOf(c) /\ absListing[c] = ListingOf(c)
  BY Mapped
<1>3. /\ StatusOf(c)' = StatusOf(c) => absStatus' = absStatus
      /\ ListingOf(c)' = ListingOf(c) => absListing' = absListing
  BY <1>1, Mapped
<1>. USE DEF Directory!DNext, Directory!Change
<1>4. CASE Begins(c)
  BY <1>1, <1>2, <1>3, <1>4 DEF Begins, Directory!Begin
<1>5. CASE Ends(c)
  BY <1>1, <1>2, <1>3, <1>5 DEF Ends, Directory!End
<1>6. CASE Lists(c)
  BY <1>1, <1>2, <1>3, <1>6 DEF Lists, Directory!List
<1>7. CASE Unlists(c)
  BY <1>1, <1>2, <1>3, <1>7 DEF Unlists, Directory!Unlist
<1>8. CASE Retires(c)
  BY <1>1, <1>2, <1>3, <1>8 DEF Retires, Directory!Retire
<1>9. CASE Stays(c)
  BY <1>3, <1>9 DEF Stays, Directory!dvars
<1> QED  BY <1>4, <1>5, <1>6, <1>7, <1>8, <1>9

\* A connection nothing happens to
LEMMA Untouched ==
  ASSUME NEW c \in Conns, serverId' = serverId, pc'[c] = pc[c],
         c \in isClosed' <=> c \in isClosed,
         c \in id2Conn'[GetBucket(c)] <=> c \in id2Conn[GetBucket(c)]
  PROVE  Stays(c)
BY DEF Stays, StatusOf, ListingOf, AllEnded

\* A goroutine of the connection takes a step within its loop or to its end.
LEMMA GoroutineSteps ==
  ASSUME IInv, IInv', NEW c \in Conns, NEW r \in Roles, NEW from, NEW to,
         Goes(c, r, from, to), UNCHANGED << serverId, isClosed, id2Conn >>,
         from # "none" /\ from # "add" /\ from # "done" /\ to # "none" /\ to # "add"
  PROVE  [Directory!DNext]_(Directory!dvars)
<1>1. pc \in [Conns -> [Roles -> Labels]]
  BY DEF IInv, TypeOK
<1>2. \A d \in Conns : d # c => Stays(d)
  BY <1>1, Untouched DEF Goes
<1>3. /\ pc[c][r] = from /\ pc'[c][r] = to
      /\ \A q \in Roles : q # r => pc'[c][q] = pc[c][q]
  BY <1>1 DEF Goes
<1>4. ListingOf(c)' = ListingOf(c)
  BY <1>3 DEF ListingOf, Roles
<1>5. ~AllEnded(c)
  BY <1>3 DEF AllEnded
<1>6. c <= serverId
  <2>1. c \in Nat /\ serverId \in Nat
    BY MaxConnAssumption DEF IInv, TypeOK, Conns
  <2> QED  BY <1>3, <2>1 DEF IInv, CloseInv, Unborn
<1>7. CASE AllEnded(c)' /\ c \in isClosed
  <2>1. pc'[c]["router"] = "done"
    BY <1>7 DEF AllEnded, Roles
  <2>2. c \notin id2Conn'[GetBucket(c)]
    BY <2>1, GetBucketType DEF IInv, ListInv, Registered
  <2>3. ListingOf(c)' = "was"
    BY <2>1, <2>2 DEF ListingOf
  <2>4. StatusOf(c) = "closed" /\ StatusOf(c)' = "gone"
    <3>1. c \in Nat /\ serverId \in Nat
      BY MaxConnAssumption DEF IInv, TypeOK, Conns
    <3> QED  BY <1>5, <1>6, <1>7, <3>1 DEF StatusOf
  <2> QED  BY <1>2, <1>4, <2>3, <2>4, OneSteps DEF Retires
<1>8. CASE ~(AllEnded(c)' /\ c \in isClosed)
  <2>1. StatusOf(c)' = StatusOf(c)
    BY <1>5, <1>8 DEF StatusOf
  <2> QED  BY <1>2, <1>4, <2>1, OneSteps DEF Stays
<1> QED  BY <1>7, <1>8

\* A step that no connection sees
LEMMA NobodySteps ==
  ASSUME IInv, IInv', UNCHANGED << serverId, pc, isClosed, id2Conn >>
  PROVE  [Directory!DNext]_(Directory!dvars)
<1>1. \A c \in Conns : StatusOf(c)' = StatusOf(c) /\ ListingOf(c)' = ListingOf(c)
  BY DEF StatusOf, ListingOf, AllEnded
<1>2. absStatus' = absStatus /\ absListing' = absListing
  BY <1>1, Mapped, MappedNext
<1> QED  BY <1>2 DEF Directory!dvars

\* Close has set the flag: only a connection whose router runs can be without it.
LEMMA MarkSteps ==
  ASSUME IInv, IInv', NEW c \in Conns, c <= serverId,
         isClosed' = isClosed \cup {c}, UNCHANGED << serverId, id2Conn >>,
         \A d \in Conns : d # c => pc'[d] = pc[d],
         pc'[c]["router"] = pc[c]["router"], c \notin isClosed
  PROVE  [Directory!DNext]_(Directory!dvars)
<1>1. \A d \in Conns : d # c => Stays(d)
  BY Untouched
<1>2. pc[c]["router"] # "done"
  BY DEF IInv, CloseInv, RouterClosed
<1>3. ~AllEnded(c)'
  BY <1>2 DEF AllEnded, Roles
<1>4. StatusOf(c) = "open" /\ StatusOf(c)' = "closed"
  <2>1. c \in Nat /\ serverId \in Nat
    BY MaxConnAssumption DEF IInv, TypeOK, Conns
  <2> QED  BY <1>3, <2>1 DEF StatusOf
<1>5. ListingOf(c)' = ListingOf(c)
  BY DEF ListingOf
<1> QED  BY <1>1, <1>4, <1>5, OneSteps DEF Ends

LEMMA DirectorySteps ==
  ASSUME IInv, IInv', Next
  PROVE  [Directory!DNext]_(Directory!dvars)
<1>. USE DEF closing, chans, table, pushing, others
<1>pc. pc \in [Conns -> [Roles -> Labels]] /\ id2Conn \in [Buckets -> SUBSET Conns]
  BY DEF IInv, TypeOK
<1>nat. serverId \in Nat /\ \A c \in Conns : c \in Nat
  BY MaxConnAssumption DEF IInv, TypeOK, Conns
<1>born. \A c \in Conns, r \in Roles : pc[c][r] # "none" => c <= serverId
  BY <1>nat DEF IInv, CloseInv, Unborn
<1>roles. "reader" \in Roles /\ "writer" \in Roles /\ "router" \in Roles /\ "heart" \in Roles
  BY DEF Roles
<1>1. CASE Open
  <2>0. PICK c : c = serverId + 1
    OBVIOUS
  <2>1. /\ c \in Conns /\ serverId' = c /\ UNCHANGED << isClosed, id2Conn >>
        /\ pc' = [pc EXCEPT ![c]["reader"] = "read", ![c]["writer"] = "select",
                            ![c]["router"] = "add"]
    BY <1>1, <1>nat, <2>0, MaxConnAssumption DEF Open, Conns
  <2>2. ASSUME NEW d \in Conns, d # c PROVE Stays(d)
    <3>1. pc'[d] = pc[d] /\ (d > serverId' <=> d > serverId)
      BY <1>pc, <1>nat, <2>0, <2>1, <2>2
    <3> QED  BY <2>1, <3>1 DEF Stays, StatusOf, ListingOf, AllEnded
  <2>3. c \notin isClosed /\ pc[c]["router"] = "none"
    BY <1>nat, <1>roles, <2>0, <2>1 DEF IInv, CloseInv, Unborn
  <2>4. pc'[c]["router"] = "add"
    BY <1>pc, <1>roles, <2>1
  <2>5. StatusOf(c) = "new" /\ StatusOf(c)' = "open"
    <3>1. c > serverId /\ ~(c > serverId')
      BY <1>nat, <2>0, <2>1
    <3> QED  BY <2>1, <2>3, <3>1 DEF StatusOf
  <2>6. ListingOf(c)' = ListingOf(c)
    BY <2>3, <2>4 DEF ListingOf
  <2> QED  BY <2>1, <2>2, <2>5, <2>6, OneSteps DEF Begins
<1>2. ASSUME NEW c \in Conns, Reader(c) \/ Writer(c) \/ HeartExpired(c)
      PROVE  [Directory!DNext]_(Directory!dvars)
  <2>1. CASE Reader(c)
    BY <1>roles, <2>1, GoroutineSteps DEF Reader, ReaderGot, ReaderFail, ReaderEnqueue, Moves
  <2>2. CASE Writer(c)
    BY <1>roles, <2>2, GoroutineSteps DEF Writer, WriterTake, WriterSent, WriterFail, Moves
  <2>3. CASE HeartExpired(c)
    BY <1>roles, <2>3, GoroutineSteps DEF HeartExpired, Moves
  <2> QED  BY <1>2, <2>1, <2>2, <2>3
<1>3. ASSUME NEW c \in Conns, AddConn(c) PROVE [Directory!DNext]_(Directory!dvars)
  <2>1. /\ pc[c]["router"] = "add" /\ pc' = [pc EXCEPT ![c]["router"] = "count"]
        /\ id2Conn' = [id2Conn EXCEPT ![GetBucket(c)] = @ \cup {c}]
        /\ UNCHANGED << serverId, isClosed >>
    BY <1>3 DEF AddConn, Goes
  <2>2. /\ pc'[c]["router"] = "count" /\ c \in id2Conn'[GetBucket(c)]
        /\ \A d \in Conns : d # c => /\ pc'[d] = pc[d]
                                     /\ d \in id2Conn'[GetBucket(d)] <=> d \in id2Conn[GetBucket(d)]
    BY <1>pc, <1>roles, <2>1, GetBucketType
  <2>3. \A d \in Conns : d # c => Stays(d)
    BY <2>1, <2>2, Untouched
  <2>4. ListingOf(c) = "no" /\ ListingOf(c)' = "yes"
    BY <2>1, <2>2 DEF ListingOf
  <2>5. ~AllEnded(c) /\ ~AllEnded(c)' /\ c <= serverId
    BY <1>born, <1>roles, <2>1, <2>2 DEF AllEnded
  <2>6. StatusOf(c) \in {"open", "closed"} /\ StatusOf(c)' = StatusOf(c)
    BY <1>nat, <2>1, <2>5 DEF StatusOf
  <2> QED  BY <2>3, <2>4, <2>6, OneSteps DEF Lists
<1>4. ASSUME NEW c \in Conns, StartRouter(c) PROVE [Directory!DNext]_(Directory!dvars)
  <2>1. /\ pc[c]["router"] = "count" /\ UNCHANGED << serverId, isClosed, id2Conn >>
        /\ pc' = [pc EXCEPT ![c]["router"] = "serve", ![c]["heart"] = "wait"]
    BY <1>4 DEF StartRouter
  <2>2. /\ pc'[c]["router"] = "serve" /\ \A d \in Conns : d # c => pc'[d] = pc[d]
    BY <1>pc, <1>roles, <2>1
  <2>3. \A d \in Conns : d # c => Stays(d)
    BY <2>1, <2>2, Untouched
  <2>4. ~AllEnded(c) /\ ~AllEnded(c)'
    BY <1>roles, <2>1, <2>2 DEF AllEnded
  <2>5. StatusOf(c)' = StatusOf(c) /\ ListingOf(c)' = ListingOf(c)
    BY <2>1, <2>2, <2>4 DEF StatusOf, ListingOf
  <2> QED  BY <2>3, <2>5, OneSteps DEF Stays
<1>5. ASSUME NEW c \in Conns, RouterRead(c) \/ RouterLost(c) \/ RouterReply(c) \/ RouterBadReply(c)
      PROVE  [Directory!DNext]_(Directory!dvars)
  <2>1. CASE RouterRead(c)
    <3>1. AfterRead(Head(inChan[c])) \in {"serve", "close", "reply"}
      <4>1. Head(inChan[c]) \in Kinds
        <5>1. inChan[c] \in Seq(Kinds) /\ inChan[c] # << >>
          BY <2>1 DEF RouterRead, IInv, TypeOK
        <5> QED  BY <5>1
      <4> QED  BY <4>1 DEF Kinds, AfterRead
    <3>2. AfterRead(Head(inChan[c])) # "none" /\ AfterRead(Head(inChan[c])) # "add"
      BY <3>1
    <3> QED  BY <1>roles, <2>1, <3>2, GoroutineSteps DEF RouterRead
  <2>2. CASE RouterLost(c) \/ RouterBadReply(c)
    BY <1>roles, <2>2, GoroutineSteps DEF RouterLost, RouterBadReply, Moves
  <2>3. CASE RouterReply(c)
    <3>1. PICK to \in {"close", "serve"} : Goes(c, "router", "reply", to)
      BY <2>3 DEF RouterReply
    <3> QED  BY <1>roles, <2>3, <3>1, GoroutineSteps DEF RouterReply
  <2> QED  BY <1>5, <2>1, <2>2, <2>3
<1>6. ASSUME NEW c \in Conns, DelConn(c) PROVE [Directory!DNext]_(Directory!dvars)
  <2>1. /\ pc[c]["router"] = "delete" /\ pc' = [pc EXCEPT ![c]["router"] = "uncount"]
        /\ id2Conn' = [id2Conn EXCEPT ![GetBucket(c)] = @ \ {c}]
        /\ UNCHANGED << serverId, isClosed >>
    BY <1>6 DEF DelConn, Goes, Unregister
  <2>2. /\ pc'[c]["router"] = "uncount" /\ c \notin id2Conn'[GetBucket(c)]
        /\ \A d \in Conns : d # c => /\ pc'[d] = pc[d]
                                     /\ d \in id2Conn'[GetBucket(d)] <=> d \in id2Conn[GetBucket(d)]
    BY <1>pc, <1>roles, <2>1, GetBucketType
  <2>3. \A d \in Conns : d # c => Stays(d)
    BY <2>1, <2>2, Untouched
  <2>4. ~AllEnded(c) /\ ~AllEnded(c)' /\ c <= serverId /\ c \in isClosed
    BY <1>born, <1>roles, <2>1, <2>2 DEF AllEnded, IInv, CloseInv, RouterClosed
  <2>5. StatusOf(c) = "closed" /\ StatusOf(c)' = "closed"
    BY <1>nat, <2>1, <2>4 DEF StatusOf
  <2>6. ListingOf(c)' = "was" /\ ListingOf(c) \in {"yes", "was"}
    BY <2>1, <2>2 DEF ListingOf
  <2> QED  BY <2>3, <2>5, <2>6, OneSteps DEF Unlists, Stays
<1>7. ASSUME NEW c \in Conns, Uncount(c) PROVE [Directory!DNext]_(Directory!dvars)
  BY <1>roles, <1>7, GoroutineSteps DEF Uncount
<1>8. ASSUME NEW c \in Conns, NEW r \in Roles, Stopped(c, r)
      PROVE  [Directory!DNext]_(Directory!dvars)
  <2>1. CASE r = "reader"
    BY <1>8, <2>1, GoroutineSteps DEF Stopped, Moves
  <2>2. CASE r = "writer"
    BY <1>8, <2>2, GoroutineSteps DEF Stopped, Moves
  <2>3. CASE r = "heart"
    BY <1>8, <2>3, GoroutineSteps DEF Stopped, Moves
  <2> QED  BY <1>8, <2>1, <2>2, <2>3 DEF Stopped
<1>9. ASSUME NEW c \in Conns, NEW r \in Roles, Close(c, r)
      PROVE  [Directory!DNext]_(Directory!dvars)
  <2>1. CASE CloseSocket(c, r)
    BY <2>1, GoroutineSteps DEF CloseSocket
  <2>2. CASE CloseMark(c, r)
    <3>1. /\ Goes(c, r, "mark", AfterClose(r)) /\ isClosed' = isClosed \cup {c}
          /\ UNCHANGED << serverId, id2Conn >>
      BY <2>2 DEF CloseMark, MarkClosed
    <3>2. AfterClose(r) \in {"delete", "done"} /\ (r # "router" => AfterClose(r) = "done")
          /\ (r = "router" => AfterClose(r) = "delete")
      BY DEF AfterClose
    <3>3. CASE c \in isClosed
      <4>1. isClosed' = isClosed
        BY <3>1, <3>3
      <4>2. AfterClose(r) # "none" /\ AfterClose(r) # "add"
        BY <3>2
      <4> QED  BY <3>1, <4>1, <4>2, GoroutineSteps
    <3>4. CASE c \notin isClosed
      <4>1. /\ \A d \in Conns : d # c => pc'[d] = pc[d]
            /\ pc[c][r] = "mark" /\ pc'[c][r] = AfterClose(r)
            /\ \A q \in Roles : q # r => pc'[c][q] = pc[c][q]
        BY <1>pc, <3>1 DEF Goes
      <4>2. c <= serverId
        BY <1>born, <4>1
      <4>3. CASE r # "router"
        <5>1. pc'[c]["router"] = pc[c]["router"]
          BY <1>roles, <4>1, <4>3
        <5> QED  BY <3>1, <3>4, <4>1, <4>2, <5>1, MarkSteps
      <4>4. CASE r = "router"
        <5>1. \A d \in Conns : d # c => Stays(d)
          BY <3>1, <4>1, Untouched
        <5>2. pc[c]["router"] = "mark" /\ pc'[c]["router"] = "delete"
          BY <3>2, <4>1, <4>4
        <5>3. ~AllEnded(c)'
          BY <1>roles, <5>2 DEF AllEnded
        <5>4. StatusOf(c) = "open" /\ StatusOf(c)' = "closed"
          BY <1>nat, <3>1, <3>4, <4>2, <5>3 DEF StatusOf
        <5>5. ListingOf(c)' = ListingOf(c)
          BY <3>1, <5>2 DEF ListingOf
        <5> QED  BY <5>1, <5>4, <5>5, OneSteps DEF Ends
      <4> QED  BY <4>3, <4>4
    <3> QED  BY <3>3, <3>4
  <2> QED  BY <1>9, <2>1, <2>2 DEF Close
<1>10. ASSUME NEW k \in Closers, Kill(k) PROVE [Directory!DNext]_(Directory!dvars)
  <2>1. CASE KillSocket(k)
    BY <2>1, NobodySteps DEF KillSocket
  <2>2. CASE KillMark(k)
    <3>1. PICK c : c = kill[k].conn
      OBVIOUS
    <3>2. /\ c \in Conns /\ c <= serverId /\ isClosed' = isClosed \cup {c}
          /\ UNCHANGED << serverId, id2Conn, pc >>
      BY <2>2, <3>1 DEF KillMark, MarkClosed, IInv, ListInv, KillTarget
    <3>3. CASE c \in isClosed
      <4>1. isClosed' = isClosed
        BY <3>2, <3>3
      <4> QED  BY <3>2, <4>1, NobodySteps
    <3>4. CASE c \notin isClosed
      BY <3>2, <3>4, MarkSteps
    <3> QED  BY <3>3, <3>4
  <2>3. CASE KillDelete(k)
    <3>1. PICK c : c = kill[k].conn
      OBVIOUS
    <3>2. /\ c \in Conns /\ c <= serverId /\ c \in isClosed
          /\ id2Conn' = [id2Conn EXCEPT ![GetBucket(c)] = @ \ {c}]
          /\ UNCHANGED << serverId, isClosed, pc >>
      BY <2>3, <3>1 DEF KillDelete, Unregister, IInv, ListInv, KillTarget
    <3>3. /\ c \notin id2Conn'[GetBucket(c)]
          /\ \A d \in Conns :
               d # c => (d \in id2Conn'[GetBucket(d)] <=> d \in id2Conn[GetBucket(d)])
      BY <1>pc, <3>2, GetBucketType
    <3>4. \A d \in Conns : d # c => Stays(d)
      BY <3>2, <3>3, Untouched
    <3>5. CASE c \notin id2Conn[GetBucket(c)]
      <4>1. StatusOf(c)' = StatusOf(c) /\ ListingOf(c)' = ListingOf(c)
        BY <3>2, <3>3, <3>5 DEF StatusOf, ListingOf, AllEnded
      <4> QED  BY <3>2, <3>4, <4>1, OneSteps DEF Stays
    <3>6. CASE c \in id2Conn[GetBucket(c)]
      <4>1. pc[c]["router"] \notin {"none", "add", "uncount", "done"}
        BY <3>2, <3>6, GetBucketType DEF IInv, ListInv, Registered
      <4>2. ~AllEnded(c) /\ ~AllEnded(c)'
        BY <1>roles, <3>2, <4>1 DEF AllEnded
      <4>3. StatusOf(c) = "closed" /\ StatusOf(c)' = "closed"
        BY <1>nat, <3>2, <4>2 DEF StatusOf
      <4>4. ListingOf(c) = "yes" /\ ListingOf(c)' = "was"
        BY <3>2, <3>3, <3>6, <4>1 DEF ListingOf
      <4> QED  BY <3>2, <3>4, <4>3, <4>4, OneSteps DEF Unlists
    <3> QED  BY <3>5, <3>6
  <2> QED  BY <1>10, <2>1, <2>2, <2>3 DEF Kill
<1>11. CASE \/ \E p \in Pushers, b \in Buckets : PushBegin(p, b)
            \/ \E p \in Pushers, c \in Conns : PushOne(p, c)
            \/ \E p \in Pushers : PushEnd(p)
            \/ \E c \in Conns : PushByCid(c)
            \/ \E k \in Closers, c \in Conns : CloseSession(k, c)
            \/ Terminated
  <2>1. UNCHANGED << serverId, pc, isClosed, id2Conn >>
    BY <1>11 DEF PushBegin, PushOne, PushEnd, PushByCid, CloseSession, Terminated, vars
  <2> QED  BY <2>1, NobodySteps
<1> QED
  BY <1>1, <1>2, <1>3, <1>4, <1>5, <1>6, <1>7, <1>8, <1>9, <1>10, <1>11
  DEF Next, Router, RouterExit

\* Sessions take no step but the directory's: each is opened once, closed once,
\* listed at most once, unlisted only when closed, and then gone
\* (ImplementsDirectory without its fairness).
THEOREM DirectoryKept ==
  Spec => Directory!DInit /\ [][Directory!DNext]_(Directory!dvars)
<1>1. Init => Directory!DInit
  <2> SUFFICES ASSUME Init PROVE Directory!DInit
    OBVIOUS
  <2>1. IInv
    BY InitIInv
  <2>2. \A c \in Conns : StatusOf(c) = "new" /\ ListingOf(c) = "no"
    <3>1. \A c \in Conns : c > serverId
      BY MaxConnAssumption DEF Init, Conns
    <3> QED  BY <3>1 DEF Init, StatusOf, ListingOf, Roles
  <2> QED  BY <2>1, <2>2, Mapped DEF Directory!DInit
<1>2. IInv /\ IInv' /\ [Next]_vars => [Directory!DNext]_(Directory!dvars)
  <2>1. IInv /\ IInv' /\ UNCHANGED vars => [Directory!DNext]_(Directory!dvars)
    BY NobodySteps DEF vars, closing, table, others
  <2> QED  BY <2>1, DirectorySteps
<1> QED  BY <1>1, <1>2, Invariance, PTL DEF Spec
=============================================================================
