------------------------------ MODULE WsRooms -------------------------------
(***************************************************************************)
(* The rooms of pkg/ws: each bucket has rooms of its own connections, made *)
(* when the first one joins and deleted when the last one leaves, under    *)
(* the lock of the bucket, so that a call of JoinRoom or LeaveRoom is one  *)
(* step.  Two parties call them: the router of a connection, which notes   *)
(* the rooms in conn.rooms in a step after, and the application, which     *)
(* notes nothing.  When a connection ends its router leaves the rooms it   *)
(* has noted.                                                              *)
(*                                                                         *)
(* The router's cases for "join" and "leave" are commented out: with       *)
(* routed = FALSE nothing calls handleJoin and handleLeave, with TRUE they *)
(* are what these cases would call.                                        *)
(***************************************************************************)
EXTENDS Naturals, FiniteSets

CONSTANTS Members,     \* connections, numbered by their ids
          RoomIds,     \* valid room ids
          RoomBuckets, \* the number of buckets
          MaxJoinRoom  \* how many rooms a connection may join

\* The parameters are as Services assumes them.
RoomsAssumption ==
  Members \subseteq Nat /\ RoomBuckets \in Nat \ {0} /\ IsFiniteSet(RoomIds)

VARIABLES
  routed,  \* does the router have its cases for rooms?
  open,    \* the rooms each bucket has
  inRoom,  \* Room.id2Conn of each of them, by bucket and room id
  joined,  \* Connection.rooms
  noting,  \* the change of Connection.rooms a handler has to make yet
  router,  \* "up", "leaving", "ended"
  roomCount, \* the gauge RoomCount
  guests   \* history: the rooms the application made a connection join

vars == << routed, open, inRoom, joined, noting, router, roomCount, guests >>

Buckets == 0..(RoomBuckets - 1)

GetBucket(c) == c % RoomBuckets

Nothing == << "none", "none" >>

Init ==
  /\ routed \in BOOLEAN
  /\ open = [b \in Buckets |-> {}]
  /\ inRoom = [b \in Buckets |-> [r \in RoomIds |-> {}]]
  /\ joined = [c \in Members |-> {}]
  /\ noting = [c \in Members |-> Nothing]
  /\ router = [c \in Members |-> "up"]
  /\ roomCount = 0
  /\ guests = [c \in Members |-> {}]

Enter(c, r) == [inRoom EXCEPT ![GetBucket(c)][r] = @ \cup {c}]
Exit(c, r) == [inRoom EXCEPT ![GetBucket(c)][r] = @ \ {c}]

-----------------------------------------------------------------------------
(* Bucket.JoinRoom and LeaveRoom *)

\* room.Join: a second time is an error.
JoinRoom(c, r) ==
  LET b == GetBucket(c)
  IN  /\ c \notin inRoom[b][r]
      /\ inRoom' = Enter(c, r)
      /\ open' = [open EXCEPT ![b] = @ \cup {r}]
      /\ roomCount' = IF r \in open[b] THEN roomCount ELSE roomCount + 1

\* A bug to detect: the room is never deleted.
EmptiedNever(b, r) == FALSE

Emptied(b, r) == inRoom'[b][r] = {}

LeaveRoom(c, r) ==
  LET b == GetBucket(c)
  IN  /\ c \in inRoom[b][r]
      /\ inRoom' = Exit(c, r)
      /\ open' = IF Emptied(b, r) THEN [open EXCEPT ![b] = @ \ {r}] ELSE open
      /\ roomCount' = IF Emptied(b, r) THEN roomCount - 1 ELSE roomCount

-----------------------------------------------------------------------------
(* The router: handleJoin, handleLeave and leaveAll *)

Free(c) == router[c] = "up" /\ noting[c] = Nothing

\* A room too many and one it has joined are ignored.
HandleJoin(c, r) ==
  /\ routed /\ Free(c)
  /\ Cardinality(joined[c]) < MaxJoinRoom
  /\ r \notin joined[c]
  /\ JoinRoom(c, r)
  /\ noting' = [noting EXCEPT ![c] = << "join", r >>]
  /\ UNCHANGED << routed, joined, router, guests >>

HandleLeave(c, r) ==
  /\ routed /\ Free(c)
  /\ r \in joined[c]
  /\ LeaveRoom(c, r)
  /\ noting' = [noting EXCEPT ![c] = << "leave", r >>]
  /\ UNCHANGED << routed, joined, router, guests >>

\* conn.rooms, once the room has the connection or has it no more
Note(c) ==
  /\ noting[c] # Nothing
  /\ noting' = [noting EXCEPT ![c] = Nothing]
  /\ joined' = [joined EXCEPT ![c] = IF noting[c][1] = "join"
                                     THEN @ \cup {noting[c][2]} ELSE @ \ {noting[c][2]}]
  /\ UNCHANGED << routed, open, inRoom, router, roomCount, guests >>

Close(c) ==
  /\ Free(c)
  /\ router' = [router EXCEPT ![c] = "leaving"]
  /\ UNCHANGED << routed, open, inRoom, joined, noting, roomCount, guests >>

\* A room the application has made it leave is an error, logged.
LeaveAll(c) ==
  /\ router[c] = "leaving"
  /\ \/ /\ joined[c] = {}
        /\ router' = [router EXCEPT ![c] = "ended"]
        /\ UNCHANGED << open, inRoom, joined, roomCount >>
     \/ \E r \in joined[c] :
          /\ \/ LeaveRoom(c, r)
             \/ c \notin inRoom[GetBucket(c)][r] /\ UNCHANGED << open, inRoom, roomCount >>
          /\ joined' = [joined EXCEPT ![c] = @ \ {r}]
          /\ router' = router
  /\ UNCHANGED << routed, noting, guests >>

Router(c) ==
  \/ \E r \in RoomIds : HandleJoin(c, r) \/ HandleLeave(c, r)
  \/ Note(c) \/ Close(c) \/ LeaveAll(c)

-----------------------------------------------------------------------------
(* The application: ConnManager.JoinRoom and LeaveRoom *)

AppJoin(c, r) ==
  /\ JoinRoom(c, r)
  /\ guests' = [guests EXCEPT ![c] = @ \cup {r}]
  /\ UNCHANGED << routed, joined, noting, router >>

AppLeave(c, r) == LeaveRoom(c, r) /\ UNCHANGED << routed, joined, noting, router, guests >>

-----------------------------------------------------------------------------
Next == \E c \in Members :
          \/ Router(c)
          \/ \E r \in RoomIds : AppJoin(c, r) \/ AppLeave(c, r)

Spec == Init /\ [][Next]_vars

-----------------------------------------------------------------------------
(* The properties *)

RoomsTypeOK ==
  /\ routed \in BOOLEAN
  /\ open \in [Buckets -> SUBSET RoomIds]
  /\ inRoom \in [Buckets -> [RoomIds -> SUBSET Members]]
  /\ joined \in [Members -> SUBSET RoomIds]
  /\ noting \in [Members -> {Nothing} \cup ({"join", "leave"} \X RoomIds)]
  /\ router \in [Members -> {"up", "leaving", "ended"}]
  /\ roomCount \in Nat
  /\ guests \in [Members -> SUBSET RoomIds]

\* RoomCount is the number of rooms there are, none of them is empty, and a
\* connection that has ended is in no room but those the application made it
\* join: these nobody makes it leave.
RoomsSettle ==
  /\ roomCount = Cardinality({p \in Buckets \X RoomIds : p[2] \in open[p[1]]})
  /\ \A b \in Buckets, r \in RoomIds : r \in open[b] <=> inRoom[b][r] # {}
  /\ \A c \in Members, r \in RoomIds :
       router[c] = "ended" /\ c \in inRoom[GetBucket(c)][r] => r \in guests[c]
=============================================================================
