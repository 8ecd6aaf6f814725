----------------------------- MODULE WsSession -----------------------------
(***************************************************************************)
(* The life of websocket connections in pkg/ws: Instance.Connection opens  *)
(* a Connection, registers it in its bucket of the connection manager and  *)
(* serves it with four goroutines (reader, writer, router, heartbeat       *)
(* checker).  Any of them, and any caller of CloseSession, may close it;   *)
(* pushes reach it through the bucket.                                     *)
(*                                                                         *)
(* Kept: every goroutine's control, the close protocol, the bucket's read  *)
(* and write lock, the channels' capacities.  Left out: what a message     *)
(* says (its kind is chosen when it is put on inChan), the time (see       *)
(* WsHeartbeat), rooms (the router never joins one, see the README) and    *)
(* the send counters, which no code reads back.                            *)
(***************************************************************************)
EXTENDS Integers, FiniteSets, Sequences

CONSTANTS MaxConn,         \* bound: connections opened, with ids 1 .. MaxConn
          BucketCount,     \* Config.BucketCount
          InChannelSize,   \* Config.InChannelSize
          OutChannelSize,  \* Config.OutChannelSize
          MaxFrames,       \* bound: frames one client sends
          MaxPushes,       \* bound: pushes made through the buckets
          Pushers,         \* goroutines that run Bucket.PushAll
          Closers          \* goroutines that call Instance.CloseSession

ASSUME MaxConnAssumption == MaxConn \in Nat
ASSUME BucketCountAssumption == BucketCount \in Nat \ {0}
ASSUME ChannelAssumption ==
  InChannelSize \in Nat \ {0} /\ OutChannelSize \in Nat \ {0}
ASSUME BoundAssumption == MaxFrames \in Nat /\ MaxPushes \in Nat

VARIABLES
  serverId,    \* *Instance.ServerId, the last connection id given out
  pc,          \* where the goroutine of a connection and role is
  socketOpen,  \* connections whose server-side socket is open
  isClosed,    \* connections whose isClosed flag is set
  closeCalls,  \* times close(conn.closeChan) has run: twice is a panic
  inChan,      \* conn.inChan: the kinds of the frames read
  outChan,     \* the number of messages in conn.outChan
  frames,      \* frames the client has sent
  id2Conn,     \* Bucket.id2Conn, one set of ids per bucket
  push,        \* a pusher: the bucket it read-locks, the connections to go
  pushes,      \* pushes made so far
  kill,        \* a CloseSession caller inside Bucket.DelConnByCID
  online       \* Statistics.OnlineConnections

closing == << socketOpen, isClosed, closeCalls >>
chans == << inChan, outChan, frames >>
pushing == << push, pushes >>
table == << id2Conn, online >>
others == << serverId, pushing, kill >>
vars == << pc, closing, chans, table, others >>

Conns == 1 .. MaxConn
Buckets == 0 .. BucketCount - 1
NoBucket == BucketCount
NoConn == 0
Roles == {"reader", "writer", "router", "heart"}
Kinds == {"binary", "garbage", "request"}

\* ConnManager.GetBucket, GetBucketByCID
GetBucket(c) == c % BucketCount

-----------------------------------------------------------------------------
(* A RWMutex is held by whoever is inside its critical section. *)

IdlePush == [bucket |-> NoBucket, todo |-> {}]
IdleKill == [at |-> "idle", conn |-> NoConn]

\* A bug to detect: Bucket.PushAll does not take the read lock.
ReadLockForgotten(b) == FALSE

ReadLocked(b) == \E p \in Pushers : push[p].bucket = b
WriteLocked(b) ==
  \E k \in Closers : kill[k].at # "idle" /\ GetBucket(kill[k].conn) = b

CanRLock(b) == ~WriteLocked(b)
CanLock(b) == ~WriteLocked(b) /\ ~ReadLocked(b)

Goes(c, r, from, to) == pc[c][r] = from /\ pc' = [pc EXCEPT ![c][r] = to]

\* delete(bucket.id2Conn, connId)
Unregister(c) == id2Conn' = [id2Conn EXCEPT ![GetBucket(c)] = @ \ {c}]

\* a step that changes nothing but the goroutine's place
Moves(c, r, from, to) ==
  Goes(c, r, from, to) /\ UNCHANGED << closing, chans, table, others >>

Init ==
  /\ serverId = 0
  /\ pc = [c \in Conns |-> [r \in Roles |-> "none"]]
  /\ socketOpen = {}
  /\ isClosed = {}
  /\ closeCalls = [c \in Conns |-> 0]
  /\ inChan = [c \in Conns |-> << >>]
  /\ outChan = [c \in Conns |-> 0]
  /\ frames = [c \in Conns |-> 0]
  /\ id2Conn = [b \in Buckets |-> {}]
  /\ push = [p \in Pushers |-> IdlePush]
  /\ pushes = 0
  /\ kill = [k \in Closers |-> IdleKill]
  /\ online = 0

-----------------------------------------------------------------------------
(* Opening and registering: Instance.Connection. *)

\* NewConnection takes the next id and starts the read and write loops, before
\* the connection is registered.
Open ==
  /\ serverId < MaxConn
  /\ LET c == serverId + 1
     IN  /\ serverId' = c
         /\ pc' = [pc EXCEPT ![c]["reader"] = "read",
                             ![c]["writer"] = "select",
                             ![c]["router"] = "add"]
         /\ socketOpen' = socketOpen \cup {c}
  /\ UNCHANGED << isClosed, closeCalls, chans, pushing, kill, table >>

\* ConnManager.AddConn, first half: Bucket.AddConn under the write lock
AddConn(c) ==
  /\ Goes(c, "router", "add", "count")
  /\ CanLock(GetBucket(c))
  /\ id2Conn' = [id2Conn EXCEPT ![GetBucket(c)] = @ \cup {c}]
  /\ UNCHANGED << closing, chans, online, others >>

\* ConnManager.AddConn, second half, and the start of RouterHandle
StartRouter(c) ==
  /\ pc[c]["router"] = "count"
  /\ online' = online + 1
  /\ pc' = [pc EXCEPT ![c]["router"] = "serve", ![c]["heart"] = "wait"]
  /\ UNCHANGED << closing, chans, id2Conn, others >>

-----------------------------------------------------------------------------
(* Connection.Close, run by a goroutine of the connection.  It is also what  *)
(* the socket's close handler runs on the reader's goroutine; the reader     *)
(* then runs it again on the error ReadMessage returns.                      *)

\* the label a role goes to once Close has returned
AfterClose(r) == IF r = "router" THEN "delete" ELSE "done"

\* A bug to detect: Close only flags the connection.
CloseSocketForgotten(c, r) == Moves(c, r, "close", "mark")

CloseSocket(c, r) ==
  /\ Goes(c, r, "close", "mark")
  /\ socketOpen' = socketOpen \ {c}
  /\ UNCHANGED << isClosed, closeCalls, chans, table, others >>

\* A bug to detect: the channel is closed without looking at isClosed.
MarkClosedAlways(c) ==
  /\ isClosed' = isClosed \cup {c}
  /\ closeCalls' = [closeCalls EXCEPT ![c] = @ + 1]

\* the section of Close under conn.mutex
MarkClosed(c) ==
  /\ isClosed' = isClosed \cup {c}
  /\ closeCalls' = IF c \in isClosed THEN closeCalls
                                     ELSE [closeCalls EXCEPT ![c] = @ + 1]

CloseMark(c, r) ==
  /\ Goes(c, r, "mark", AfterClose(r))
  /\ MarkClosed(c)
  /\ UNCHANGED << socketOpen, chans, table, others >>

-----------------------------------------------------------------------------
(* readLoop *)

\* A frame arrives.  The socket's own read buffer may still hold one after the
\* socket has been closed.
ReaderGot(c) ==
  /\ Goes(c, "reader", "read", "enqueue")
  /\ frames[c] < MaxFrames
  /\ frames' = [frames EXCEPT ![c] = @ + 1]
  /\ UNCHANGED << closing, inChan, outChan, table, others >>

\* The peer closed, the network failed, or the server closed the socket.
ReaderFail(c) == Moves(c, "reader", "read", "close")

ReaderEnqueue(c) ==
  /\ Goes(c, "reader", "enqueue", "read")
  /\ Len(inChan[c]) < InChannelSize
  /\ \E kind \in Kinds : inChan' = [inChan EXCEPT ![c] = Append(@, kind)]
  /\ UNCHANGED << closing, outChan, frames, table, others >>

\* A loop that selects on closeChan leaves without closing the connection.
Stopped(c, r) ==
  /\ c \in isClosed
  /\ \/ r = "reader" /\ Moves(c, r, "enqueue", "done")
     \/ r = "writer" /\ Moves(c, r, "select", "done")
     \/ r = "heart" /\ Moves(c, r, "wait", "done")

-----------------------------------------------------------------------------
(* writeLoop and SendMessage *)

WriterTake(c) ==
  /\ Goes(c, "writer", "select", "write")
  /\ outChan[c] > 0
  /\ outChan' = [outChan EXCEPT ![c] = @ - 1]
  /\ UNCHANGED << closing, inChan, frames, table, others >>

WriterSent(c) == c \in socketOpen /\ Moves(c, "writer", "write", "select")

WriterFail(c) == Moves(c, "writer", "write", "close")

\* What the select of SendMessage may do: with room and closeChan closed, both
\* cases are ready and either is taken; the default only when neither is.
SendOutcomes(c) ==
  LET ready == (IF outChan[c] < OutChannelSize THEN {"sent"} ELSE {})
                 \cup (IF c \in isClosed THEN {"loss"} ELSE {})
  IN  IF ready = {} THEN {"full"} ELSE ready

SendMessage(c, outcome) ==
  /\ outcome \in SendOutcomes(c)
  /\ outChan' = IF outcome = "sent" THEN [outChan EXCEPT ![c] = @ + 1]
                                    ELSE outChan

-----------------------------------------------------------------------------
(* RouterHandle *)

\* Text frames are decoded and answered, the other ones skipped; one that does
\* not decode ends the connection.
AfterRead(kind) == CASE kind = "binary"  -> "serve"
                     [] kind = "garbage" -> "close"
                     [] kind = "request" -> "reply"

RouterRead(c) ==
  /\ inChan[c] # << >>
  /\ Goes(c, "router", "serve", AfterRead(Head(inChan[c])))
  /\ inChan' = [inChan EXCEPT ![c] = Tail(@)]
  /\ UNCHANGED << closing, outChan, frames, table, others >>

\* A bug to detect: a lost connection is skipped like a binary frame.
RouterLostSkipped(c) == c \in isClosed /\ Moves(c, "router", "serve", "serve")

RouterLost(c) == c \in isClosed /\ Moves(c, "router", "serve", "close")

\* The handler has returned: its answer, or its error, is sent.  A full outChan
\* is not fatal, a lost connection is.
RouterReply(c) ==
  /\ \E outcome \in {"sent", "full", "loss"} :
       /\ SendMessage(c, outcome)
       /\ Goes(c, "router", "reply", IF outcome = "loss" THEN "close"
                                                         ELSE "serve")
  /\ UNCHANGED << closing, inChan, frames, table, others >>

\* The answer does not marshal.
RouterBadReply(c) == Moves(c, "router", "reply", "close")

\* A bug to detect: the router's exit forgets to unregister.
DelConnForgotten(c) == Moves(c, "router", "delete", "uncount")

\* ConnManager.DelConn, first half (leaveAll has no room to leave)
DelConn(c) ==
  /\ Goes(c, "router", "delete", "uncount")
  /\ CanLock(GetBucket(c))
  /\ Unregister(c)
  /\ UNCHANGED << closing, chans, online, others >>

\* ConnManager.DelConn, second half: OnlineConnectionsDesc
Uncount(c) ==
  /\ Goes(c, "router", "uncount", "done")
  /\ online' = online - 1
  /\ UNCHANGED << closing, chans, id2Conn, others >>

-----------------------------------------------------------------------------
(* heartbeatChecker: its timer fires and IsAlive answers no, because the     *)
(* connection is closed or has been silent.                                  *)

HeartExpired(c) == Moves(c, "heart", "wait", "close")

-----------------------------------------------------------------------------
(* Pushes through a bucket *)

\* Bucket.PushAll takes the read lock and ranges over the connections.
PushBegin(p, b) ==
  /\ push[p] = IdlePush
  /\ pushes < MaxPushes
  /\ CanRLock(b)
  /\ push' = [push EXCEPT ![p] = [bucket |-> b, todo |-> id2Conn[b]]]
  /\ pushes' = pushes + 1
  /\ UNCHANGED << serverId, pc, closing, chans, kill, table >>

\* The error SendMessage may return is ignored.
PushOne(p, c) ==
  /\ c \in push[p].todo
  /\ \E outcome \in {"sent", "full", "loss"} : SendMessage(c, outcome)
  /\ push' = [push EXCEPT ![p].todo = @ \ {c}]
  /\ UNCHANGED << serverId, pc, closing, inChan, frames, pushes, kill, table >>

PushEnd(p) ==
  /\ push[p].bucket # NoBucket
  /\ push[p].todo = {}
  /\ push' = [push EXCEPT ![p] = IdlePush]
  /\ UNCHANGED << serverId, pc, closing, chans, pushes, kill, table >>

\* Instance.PushSession: Bucket.PushByCid under the read lock
PushByCid(c) ==
  /\ pushes < MaxPushes
  /\ CanRLock(GetBucket(c))
  /\ c \in id2Conn[GetBucket(c)]
  /\ \E outcome \in {"sent", "full", "loss"} : SendMessage(c, outcome)
  /\ pushes' = pushes + 1
  /\ UNCHANGED << serverId, pc, closing, inChan, frames, push, kill, table >>

-----------------------------------------------------------------------------
(* Instance.CloseSession: Bucket.DelConnByCID closes the connection and      *)
(* removes it under the bucket's write lock.  An id that is not registered   *)
(* changes nothing.                                                          *)

\* A bug to detect: the connection is removed but not closed.
CloseSessionUnclosed(k, c) ==
  /\ kill[k] = IdleKill
  /\ CanLock(GetBucket(c))
  /\ c \in id2Conn[GetBucket(c)]
  /\ kill' = [kill EXCEPT ![k] = [at |-> "delete", conn |-> c]]
  /\ UNCHANGED << serverId, pc, closing, chans, pushing, table >>

CloseSession(k, c) ==
  /\ kill[k] = IdleKill
  /\ CanLock(GetBucket(c))
  /\ c \in id2Conn[GetBucket(c)]
  /\ kill' = [kill EXCEPT ![k] = [at |-> "close", conn |-> c]]
  /\ UNCHANGED << serverId, pc, closing, chans, pushing, table >>

KillSocket(k) ==
  /\ kill[k].at = "close"
  /\ socketOpen' = socketOpen \ {kill[k].conn}
  /\ kill' = [kill EXCEPT ![k].at = "mark"]
  /\ UNCHANGED << serverId, pc, isClosed, closeCalls, chans, pushing, table >>

KillMark(k) ==
  /\ kill[k].at = "mark"
  /\ MarkClosed(kill[k].conn)
  /\ kill' = [kill EXCEPT ![k].at = "delete"]
  /\ UNCHANGED << serverId, pc, socketOpen, chans, pushing, table >>

\* A bug to detect: CloseSession also decrements the gauge the router will.
KillDeleteUncounts(k) ==
  /\ kill[k].at = "delete"
  /\ Unregister(kill[k].conn)
  /\ online' = online - 1
  /\ kill' = [kill EXCEPT ![k] = IdleKill]
  /\ UNCHANGED << serverId, pc, closing, chans, pushing >>

KillDelete(k) ==
  /\ kill[k].at = "delete"
  /\ Unregister(kill[k].conn)
  /\ kill' = [kill EXCEPT ![k] = IdleKill]
  /\ UNCHANGED << serverId, pc, closing, chans, pushing, online >>

-----------------------------------------------------------------------------
(* The system, and when it may stop *)

Reader(c) == ReaderGot(c) \/ ReaderFail(c) \/ ReaderEnqueue(c)
Writer(c) == WriterTake(c) \/ WriterSent(c) \/ WriterFail(c)
RouterExit(c) == DelConn(c) \/ Uncount(c)
Router(c) == \/ AddConn(c) \/ StartRouter(c) \/ RouterRead(c) \/ RouterLost(c)
             \/ RouterReply(c) \/ RouterBadReply(c) \/ RouterExit(c)
Close(c, r) == CloseSocket(c, r) \/ CloseMark(c, r)
Kill(k) == KillSocket(k) \/ KillMark(k) \/ KillDelete(k)

AllDone ==
  /\ serverId = MaxConn
  /\ \A c \in Conns, r \in Roles : pc[c][r] = "done"
  /\ \A p \in Pushers : push[p] = IdlePush
  /\ \A k \in Closers : kill[k] = IdleKill

\* Every connection of the bounded instance has ended.
Terminated == AllDone /\ UNCHANGED vars

Next ==
  \/ Open
  \/ \E c \in Conns : Reader(c) \/ Writer(c) \/ Router(c) \/ HeartExpired(c)
  \/ \E c \in Conns, r \in Roles : Close(c, r) \/ Stopped(c, r)
  \/ \E p \in Pushers, b \in Buckets : PushBegin(p, b)
  \/ \E p \in Pushers, c \in Conns : PushOne(p, c)
  \/ \E p \in Pushers : PushEnd(p)
  \/ \E c \in Conns : PushByCid(c)
  \/ \E k \in Closers, c \in Conns : CloseSession(k, c)
  \/ \E k \in Closers : Kill(k)
  \/ Terminated

Spec == Init /\ [][Next]_vars

\* Goroutines that can run are scheduled; user handlers return; a read or a
\* write on a closed socket fails.  Nothing obliges a peer to send, an open
\* socket to accept a write, or a heartbeat to expire.
Fairness ==
  /\ \A c \in Conns :
       /\ WF_vars(ReaderEnqueue(c) \/ Stopped(c, "reader"))
       /\ WF_vars(ReaderFail(c) /\ c \notin socketOpen)
       /\ WF_vars(WriterTake(c) \/ Stopped(c, "writer"))
       /\ WF_vars(WriterFail(c) /\ c \notin socketOpen)
       /\ WF_vars(Router(c))
       /\ WF_vars(Stopped(c, "heart"))
       /\ \A r \in Roles : WF_vars(Close(c, r))
  /\ \A p \in Pushers : WF_vars(PushEnd(p) \/ \E c \in Conns : PushOne(p, c))
  /\ \A k \in Closers : WF_vars(Kill(k))

FairSpec == Spec /\ Fairness

-----------------------------------------------------------------------------
(* Properties *)

Labels == {"none", "read", "enqueue", "select", "write", "wait", "add",
           "count", "serve", "reply", "delete", "uncount", "close", "mark",
           "done"}

\* The type invariant.
TypeOK ==
  /\ serverId \in 0 .. MaxConn
  /\ pc \in [Conns -> [Roles -> Labels]]
  /\ socketOpen \subseteq Conns
  /\ isClosed \subseteq Conns
  /\ closeCalls \in [Conns -> Nat]
  /\ inChan \in [Conns -> Seq(Kinds)]
  /\ outChan \in [Conns -> 0 .. OutChannelSize]
  /\ frames \in [Conns -> 0 .. MaxFrames]
  /\ id2Conn \in [Buckets -> SUBSET Conns]
  /\ push \in [Pushers -> {IdlePush} \cup [bucket : Buckets,
                                           todo : SUBSET Conns]]
  /\ pushes \in 0 .. MaxPushes
  /\ kill \in [Closers -> {IdleKill} \cup
                             [at : {"close", "mark", "delete"}, conn : Conns]]
  /\ online \in Int

\* closeChan is closed at most once, although the reader, the writer, the
\* router, the heartbeat checker and CloseSession may all close the connection:
\* a second close(conn.closeChan) would panic the process.
CloseOnce == \A c \in Conns : closeCalls[c] <= 1

\* A connection flagged as closed has no open socket: a goroutine that leaves
\* because closeChan is closed leaves no socket behind.
ClosedHasNoSocket == isClosed \cap socketOpen = {}

\* A connection whose router is past DelConn is in no bucket: no push can reach
\* it, and CloseSession cannot find it.
EndedIsUnlisted ==
  \A c \in Conns :
    pc[c]["router"] \in {"uncount", "done"} =>
      /\ c \in isClosed
      /\ \A b \in Buckets : c \notin id2Conn[b]

\* While Bucket.PushAll ranges over id2Conn nobody changes the map: what it has
\* still to visit is registered (Go aborts on a map changed during a range).
PushSeesStableBucket ==
  \A p \in Pushers :
    push[p].bucket # NoBucket => push[p].todo \subseteq id2Conn[push[p].bucket]

\* Whenever no connection is being added, closed or removed, the gauge
\* OnlineConnections is the number of registered connections, also after
\* CloseSession, which removes a connection that its router removes again.
OnlineGauge ==
  (/\ \A c \in Conns : pc[c]["router"] \in {"none", "add", "serve", "reply",
                                            "done"}
   /\ \A c \in isClosed : pc[c]["router"] \in {"add", "done"})
    => online = Cardinality(UNION {id2Conn[b] : b \in Buckets})

\* Closing is complete: all four goroutines of a closed connection end (none
\* stays blocked on a channel or on the socket), and the connection leaves its
\* bucket.
Teardown ==
  \A c \in Conns :
    c \in isClosed ~> /\ \A r \in Roles : pc[c][r] = "done"
                      /\ c \notin id2Conn[GetBucket(c)]

-----------------------------------------------------------------------------
(* The sessions implement the abstract directory. *)

Status(c) ==
  CASE c > serverId -> "new"
    [] c <= serverId /\ c \notin isClosed -> "open"
    [] c \in isClosed /\ \E r \in Roles : pc[c][r] # "done" -> "closed"
    [] c \in isClosed /\ \A r \in Roles : pc[c][r] = "done" -> "gone"

Listing(c) ==
  CASE pc[c]["router"] \in {"none", "add"} -> "no"
    [] c \in id2Conn[GetBucket(c)] -> "yes"
    [] OTHER -> "was"

absStatus == [c \in Conns |-> Status(c)]
absListing == [c \in Conns |-> Listing(c)]

Directory == INSTANCE SessionDirectory
               WITH Sessions <- Conns, status <- absStatus,
                    listing <- absListing

\* Every session is opened once, closed once, listed at most once and unlisted
\* only when closed; and a closed session goes away.
ImplementsDirectory == Directory!DSpec
=============================================================================
