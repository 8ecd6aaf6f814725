--------------------------- MODULE TusFiles_proofs ---------------------------
(***************************************************************************)
(* Theorems about what TusUpload stores, for any number of uploads and     *)
(* requests, when a locker is used: without one, the requests of an upload *)
(* mix their bytes.                                                        *)
(*                                                                         *)
(* The argument: whoever changes the files of an upload owns it, either by *)
(* its lock or because it is creating it and no client knows of it yet     *)
(* (OwnInv).  So what a request has read of its upload stays true until it *)
(* acts on it (FileOK), what is left behind is in order (UploadOK), and    *)
(* the parts a final upload is made of no longer change (PartsOK).         *)
(***************************************************************************)
EXTENDS TusUpload_proofs, WellFoundedInduction

(* Who owns an upload *)

Creator(r) == r.op \in {"post", "final"} /\ r.up # NoUpload
Owner(r) == r.up # NoUpload /\ (r.held \/ Creator(r))

OwnOK(r) ==
  /\ r.at = "idle" => r.op = "none"
  /\ r.at \in {"createBin", "partInfo", "partStat"} =>
       (r.op \in {"post", "final"} /\ r.up = NoUpload)
  /\ r.at \in {"partInfo", "partStat", "copy"} => r.op = "final"
  /\ r.at = "lock" => r.op \in {"post", "patch", "look", "del"}
  /\ r.at \in {"truncInfo", "writeInfo", "finish"} =>
       (r.op \in {"post", "final"} \/ (r.op = "patch" /\ r.held))
  /\ r.at \in {"info", "stat"} => (r.held /\ r.op \in {"patch", "look", "del"})
  /\ r.at \in {"begin", "write", "flag", "stopped"} =>
       (r.held /\ r.op \in {"post", "patch"})
  /\ r.at \in {"rmInfo", "rmBin"} => (r.held /\ r.op \in {"post", "patch", "del"})

\* No client and no other request knows an upload that is being created.
Alone(w) ==
  Creator(req[w]) => /\ req[w].up \notin known
                     /\ \A v \in Workers \ {w} : req[v].up # req[w].up

OwnInv == \A w \in Workers : OwnOK(req[w]) /\ Alone(w)

-----------------------------------------------------------------------------
(* What a request knows of its upload *)

InOrder(u) == \A i \in DOMAIN bin[u] : bin[u][i] = << u, i >>

\* An upload that NewUpload has not written yet
Prepared(r) ==
  /\ r.n = 0 /\ r.off = 0 /\ SizeAllowed(r.info.size)
  /\ r.op = "post" => ~IsFinal(r.info)
  /\ r.op = "final" => IsFinal(r.info) /\ ~r.info.deferred

Fresh(u) == u \in binFiles /\ bin[u] = << >> /\ completed[u] = 0

\* The request has read, or written, the info file.
Shows(r) == infoFile[r.up] = "whole" /\ info[r.up] = r.info

\* What it writes next goes to the end of the file.
Appends(r) ==
  /\ Shows(r) /\ ~IsFinal(r.info) /\ completed[r.up] = 0
  /\ Len(bin[r.up]) = r.off + r.n

\* It is about to declare the length.
Declaring(r) ==
  /\ r.up \in binFiles /\ InOrder(r.up) /\ completed[r.up] = 0
  /\ ~IsFinal(r.info) /\ ~r.info.deferred /\ r.n = 0
  /\ Len(bin[r.up]) = r.off /\ r.off <= r.info.size /\ SizeAllowed(r.info.size)

FileOK(r) ==
  /\ r.at = "createBin" => Prepared(r)
  /\ r.at \in {"truncInfo", "writeInfo"} =>
       IF r.op = "patch" THEN Declaring(r) ELSE Prepared(r) /\ Fresh(r.up)
  /\ r.at = "truncInfo" =>
       IF r.op = "patch"
       THEN /\ infoFile[r.up] = "whole" /\ info[r.up].deferred
            /\ ~IsFinal(info[r.up])
       ELSE infoFile[r.up] = "none"
  /\ r.at = "writeInfo" => infoFile[r.up] = "torn"
  /\ r.at \in {"partInfo", "partStat"} =>
       r.n = 0 /\ IsFinal(r.info) /\ ~r.info.deferred
  /\ r.at \in {"lock", "info", "stat"} => r.n = 0
  /\ r.at = "lock" /\ r.op = "post" => Appends(r) /\ r.off = 0
  /\ r.at = "stat" => Shows(r)
  /\ r.at \in {"begin", "write", "flag"} => Appends(r)
  /\ r.at = "write" =>
       r.info.deferred \/ r.len <= 0 \/ r.off + r.len <= r.info.size
  /\ r.at = "stopped" => r.stop \/ Appends(r)
  /\ r.at = "finish" =>
       IF r.op = "final"
       THEN /\ Shows(r) /\ IsFinal(r.info) /\ r.info.size = 0
            /\ completed[r.up] > 0 /\ r.off = 0 /\ r.n = 0
       ELSE Appends(r) /\ (r.held \/ r.off + r.n = 0)
  /\ r.at = "copy" =>
       /\ Shows(r) /\ IsFinal(r.info) /\ completed[r.up] = 0
       /\ r.off = 0 /\ r.n = 0
  /\ r.at = "rmInfo" => infoFile[r.up] = "whole" /\ (r.op = "del" \/ r.stop)
  /\ r.at = "rmBin" => /\ infoFile[r.up] = "none" /\ r.up \in binFiles
                       /\ r.op = "del" \/ r.stop
  /\ r.at = "reply" =>
       \/ r.off \in {Unknown, 0}
       \/ r.held /\ (r.up \in binFiles => r.off <= Len(bin[r.up]))

FilesInv == \A w \in Workers : FileOK(req[w])

-----------------------------------------------------------------------------
(* What a final upload is made of *)

Bytes == Uploads \X Nat

\* A part whose length is known keeps it,
Sized(p, n) ==
  /\ p \in known /\ infoFile[p] # "torn"
  /\ infoFile[p] = "whole" => ~info[p].deferred /\ info[p].size = n

\* and once it is as long as that its bytes are b until it is removed.
Done(p, b) == Sized(p, Len(b)) /\ (p \in binFiles => bin[p] = b)

\* c[j] is the concatenation of the first j parts, for j up to k.
Pieces(i, c, k) ==
  /\ c \in [0 .. Len(i.parts) -> Seq(Bytes)]
  /\ c[0] = << >>
  /\ \A j \in 1 .. k : \E b \in Seq(Bytes) :
       c[j] = c[j - 1] \o b /\ Done(i.parts[j], b)
  /\ \A j \in 0 .. k : Len(c[j]) <= i.size

Checked(r, k) ==
  \E c \in [0 .. Len(r.info.parts) -> Seq(Bytes)] :
    Pieces(r.info, c, k) /\ Len(c[k]) = r.info.size

Copied(r) ==
  \E c \in [0 .. Len(r.info.parts) -> Seq(Bytes)] :
    /\ Pieces(r.info, c, Len(r.info.parts))
    /\ Len(c[Len(r.info.parts)]) = r.info.size
    /\ bin[r.up] = c[r.part - 1]

PartsOK(r) ==
  /\ r.op = "final" => \A j \in DOMAIN r.info.parts : r.info.parts[j] \in known
  /\ r.at \in {"partInfo", "partStat"} => Checked(r, r.part - 1)
  /\ r.at \in {"createBin", "truncInfo", "writeInfo"} /\ r.op = "final" =>
       r.part = 1 /\ Checked(r, Len(r.info.parts))
  /\ r.at = "copy" => r.part \in DOMAIN r.info.parts /\ Copied(r)
  /\ r.at = "partStat" => Sized(r.info.parts[r.part], r.off)

PartsInv == \A w \in Workers : PartsOK(req[w])

-----------------------------------------------------------------------------
(* What is left behind *)

\* The upload holds its parts, as far as they still exist.
Whole(u) ==
  \E c \in [0 .. Len(info[u].parts) -> Seq(Bytes)] :
    /\ Pieces(info[u], c, Len(info[u].parts))
    /\ bin[u] = c[Len(info[u].parts)]

UploadOK(u) ==
  /\ u \notin used => /\ infoFile[u] = "none" /\ u \notin binFiles
                      /\ bin[u] = << >> /\ completed[u] = 0
  /\ infoFile[u] # "none" => u \in binFiles
  /\ infoFile[u] = "whole" =>
       /\ ~IsFinal(info[u]) => InOrder(u)
       /\ ~info[u].deferred => /\ Len(bin[u]) <= info[u].size
                               /\ SizeAllowed(info[u].size)
       /\ completed[u] > 0 => ~info[u].deferred /\ Len(bin[u]) = info[u].size
       /\ completed[u] > 1 => IsFinal(info[u]) /\ info[u].size = 0
  /\ IsFinal(info[u]) => /\ infoFile[u] = "whole" /\ ~info[u].deferred
                         /\ completed[u] > 0 => Whole(u)

UploadsInv == \A u \in Uploads : UploadOK(u)

\* The inductive invariant, of a process that has a locker
Inv == UsesLocker /\ IInv /\ OwnInv /\ FilesInv /\ PartsInv /\ UploadsInv

-----------------------------------------------------------------------------
(* Ownership *)

LEMMA OwnFrame ==
  ASSUME IInv, OwnInv, NEW w \in Workers,
         \A v \in Workers : v # w => req'[v] = req[v],
         OwnOK(req'[w]), Creator(req'[w]) => Creator(req[w]),
         req'[w].up \in {req[w].up, NoUpload} \cup known, known' = known,
         Creator(req'[w]) => req'[w].up = req[w].up
  PROVE  OwnInv'
<1>1. ASSUME NEW v \in Workers
      PROVE  /\ OwnOK(req'[v]) /\ req'[v].up \in {req[v].up, NoUpload} \cup known
             /\ Creator(req'[v]) => Creator(req[v]) /\ req'[v].up = req[v].up
  BY <1>1 DEF OwnInv
<1>2. ASSUME NEW v \in Workers PROVE (OwnOK(req[v]))'
  BY <1>1 DEF OwnOK
<1>3. ASSUME NEW v \in Workers PROVE (Alone(v))'
  BY <1>1 DEF OwnInv, Alone, Creator
<1> QED
  BY <1>2, <1>3 DEF OwnInv

\* No other request owns the upload that one owns.
LEMMA Exclusive ==
  ASSUME IInv, OwnInv, NEW w \in Workers, NEW v \in Workers, v # w,
         Owner(req[w]), Owner(req[v])
  PROVE  req[v].up # req[w].up
<1>1. CASE Creator(req[w]) \/ Creator(req[v])
  BY <1>1 DEF OwnInv, Alone
<1>2. CASE req[w].held /\ req[v].held
  <2>1. req[w].up \in Uploads
    BY DEF Owner, IInv, TypeOK, Request
  <2> QED
    BY <1>2, <2>1 DEF IInv, LocksOwned, Holds
<1> QED
  BY <1>1, <1>2 DEF Owner

-----------------------------------------------------------------------------
(* The files that a step leaves alone *)

SameFile(u) ==
  /\ infoFile'[u] = infoFile[u] /\ info'[u] = info[u]
  /\ u \in binFiles' <=> u \in binFiles
  /\ bin'[u] = bin[u] /\ completed'[u] = completed[u]

\* A part of a final upload stays what it was found to be.
Stable(p) ==
  /\ \A n \in Nat : Sized(p, n) => (Sized(p, n))'
  /\ \A b \in Seq(Bytes) : Done(p, b) => (Done(p, b))'

LEMMA SameStable ==
  ASSUME NEW p, SameFile(p), known \subseteq known'
  PROVE  Stable(p)
BY DEF SameFile, Stable, Sized, Done

LEMMA LenBytes == ASSUME NEW b \in Seq(Bytes) PROVE Len(b) \in Nat
OBVIOUS

LEMMA PiecesStable ==
  ASSUME \A p \in Uploads : Stable(p),
         NEW i \in Info, NEW k \in 0 .. Len(i.parts),
         NEW c \in [0 .. Len(i.parts) -> Seq(Bytes)], Pieces(i, c, k)
  PROVE  (Pieces(i, c, k))'
<1>1. \A j \in 1 .. k : i.parts[j] \in Uploads
  BY DEF Info
<1>2. \A j \in 1 .. k : \A b \in Seq(Bytes) :
         Done(i.parts[j], b) => (Done(i.parts[j], b))'
  BY <1>1 DEF Stable
<1> QED
  BY <1>2 DEF Pieces

LEMMA CheckedStable ==
  ASSUME \A p \in Uploads : Stable(p), NEW w \in Workers, TypeOK,
         req'[w].info = req[w].info,
         NEW k \in 0 .. Len(req[w].info.parts), Checked(req[w], k)
  PROVE  (Checked(req[w], k))'
<1>1. req[w].info \in Info
  BY DEF TypeOK, Request
<1>2. PICK c \in [0 .. Len(req[w].info.parts) -> Seq(Bytes)] :
        Pieces(req[w].info, c, k) /\ Len(c[k]) = req[w].info.size
  BY DEF Checked
<1>3. (Pieces(req[w].info, c, k))'
  BY <1>1, <1>2, PiecesStable
<1> QED
  BY <1>2, <1>3 DEF Checked

LEMMA CopiedStable ==
  ASSUME \A p \in Uploads : Stable(p), NEW w \in Workers, TypeOK,
         req'[w] = req[w], bin'[req[w].up] = bin[req[w].up], Copied(req[w])
  PROVE  (Copied(req[w]))'
<1>. DEFINE i == req[w].info
            k == Len(i.parts)
<1>1. i \in Info /\ k \in 0 .. Len(i.parts)
  BY DEF TypeOK, Request, Info
<1>2. PICK c \in [0 .. Len(i.parts) -> Seq(Bytes)] :
        /\ Pieces(i, c, k) /\ Len(c[k]) = i.size
        /\ bin[req[w].up] = c[req[w].part - 1]
  BY DEF Copied
<1>3. (Pieces(req[w].info, c, Len(req[w].info.parts)))'
  BY <1>1, <1>2, PiecesStable
<1> QED
  BY <1>2, <1>3 DEF Copied

LEMMA WholeStable ==
  ASSUME \A p \in Uploads : Stable(p), NEW u \in Uploads, TypeOK,
         info'[u] = info[u], bin'[u] = bin[u], Whole(u)
  PROVE  (Whole(u))'
<1>. DEFINE i == info[u]
            k == Len(i.parts)
<1>1. i \in Info /\ k \in 0 .. Len(i.parts)
  BY DEF TypeOK, Info
<1>2. PICK c \in [0 .. Len(i.parts) -> Seq(Bytes)] :
        Pieces(i, c, k) /\ bin[u] = c[k]
  BY DEF Whole
<1>3. (Pieces(info[u], c, Len(info[u].parts)))'
  BY <1>1, <1>2, PiecesStable
<1> QED
  BY <1>2, <1>3 DEF Whole

\* Where a request that owns no upload may be
LEMMA OwnerAt ==
  ASSUME TypeOK, PlaceInv, OwnInv, NEW v \in Workers, ~Owner(req[v])
  PROVE  /\ req[v].at \in {"idle", "createBin", "partInfo", "partStat", "lock",
                           "reply", "unlock"}
         /\ req[v].at = "lock" => req[v].op # "post"
         /\ ~req[v].held
<1>1. OwnOK(req[v]) /\ PlaceOK(req[v]) /\ req[v].at \in Labels
  BY DEF OwnInv, PlaceInv, TypeOK, Request
<1> QED
  BY <1>1 DEF OwnOK, PlaceOK, Owner, Creator, Early, Labels

LEMMA OtherFileOK ==
  ASSUME TypeOK, PlaceInv, OwnInv, NEW v \in Workers, req'[v] = req[v],
         FileOK(req[v]), Owner(req[v]) => SameFile(req[v].up)
  PROVE  (FileOK(req[v]))'
<1>1. CASE Owner(req[v])
  <2>1. SameFile(req[v].up)
    BY <1>1
  <2> QED
    BY <2>1 DEF FileOK, SameFile, Prepared, Fresh, Shows, Appends, Declaring,
       InOrder
<1>2. CASE ~Owner(req[v])
  <2>1. /\ req[v].at \in {"idle", "createBin", "partInfo", "partStat", "lock",
                          "reply", "unlock"}
        /\ req[v].at = "lock" => req[v].op # "post"
        /\ ~req[v].held
    BY <1>2, OwnerAt
  <2> QED
    BY <2>1 DEF FileOK, Prepared
<1> QED
  BY <1>1, <1>2

LEMMA OtherPartsOK ==
  ASSUME TypeOK, PlaceInv, OwnInv, NEW v \in Workers, req'[v] = req[v],
         PartsOK(req[v]), Owner(req[v]) => SameFile(req[v].up),
         known \subseteq known', \A p \in Uploads : Stable(p)
  PROVE  (PartsOK(req[v]))'
<1>. DEFINE r == req[v]
            k == Len(r.info.parts)
<1>1. /\ r \in Request /\ r.info \in Info /\ k \in Nat
      /\ DOMAIN r.info.parts = 1 .. k /\ PlaceOK(r) /\ OwnOK(r)
  BY DEF TypeOK, Request, Info, PlaceInv, OwnInv
<1>2. ASSUME r.at \in {"partInfo", "partStat"}
      PROVE  (Checked(r, r.part - 1))'
  <2>1. r.part - 1 \in 0 .. k /\ Checked(r, r.part - 1)
    BY <1>1, <1>2 DEF PlaceOK, PartsOK
  <2> QED
    BY <2>1, CheckedStable
<1>3. ASSUME r.at \in {"createBin", "truncInfo", "writeInfo"}, r.op = "final"
      PROVE  (r.part = 1 /\ Checked(r, Len(r.info.parts)))'
  <2>1. k \in 0 .. k /\ r.part = 1 /\ Checked(r, k)
    BY <1>1, <1>3 DEF PartsOK
  <2> QED
    BY <2>1, CheckedStable
<1>4. ASSUME r.at = "copy"
      PROVE  (r.part \in DOMAIN r.info.parts /\ Copied(r))'
  <2>1. Owner(r) /\ bin'[r.up] = bin[r.up]
    BY <1>4, OwnerAt DEF SameFile
  <2>2. r.part \in DOMAIN r.info.parts /\ Copied(r)
    BY <1>4 DEF PartsOK
  <2> QED
    BY <2>1, <2>2, CopiedStable
<1>5. ASSUME r.at = "partStat"
      PROVE  (Sized(r.info.parts[r.part], r.off))'
  <2>1. r.info.parts[r.part] \in Uploads /\ r.off \in Nat
    BY <1>1, <1>5 DEF PlaceOK, Info
  <2>2. Sized(r.info.parts[r.part], r.off)
    BY <1>5 DEF PartsOK
  <2>3. Stable(r.info.parts[r.part])
    BY <2>1
  <2> QED
    BY <2>1, <2>2, <2>3 DEF Stable, Sized
<1>6. r.op = "final" => \A j \in DOMAIN r.info.parts : r.info.parts[j] \in known'
  BY DEF PartsOK
<1> QED
  BY <1>2, <1>3, <1>4, <1>5, <1>6 DEF PartsOK

\* Another upload stays as it is.
LEMMA OtherUploadOK ==
  ASSUME TypeOK, NEW u \in Uploads, UploadOK(u), SameFile(u),
         u \notin used' => u \notin used, \A p \in Uploads : Stable(p)
  PROVE  (UploadOK(u))'
<1>1. Whole(u) => (Whole(u))'
  BY WholeStable DEF SameFile
<1> QED
  BY <1>1 DEF UploadOK, SameFile, InOrder

-----------------------------------------------------------------------------
(* What a step must do to keep the invariant *)

Core == OwnInv /\ FilesInv /\ PartsInv /\ UploadsInv

LEMMA Frame ==
  ASSUME Inv, OwnInv', NEW w \in Workers, NEW x \in Uploads \cup {NoUpload},
         \A v \in Workers : v # w => req'[v] = req[v],
         \A v \in Workers : v # w /\ Owner(req[v]) => req[v].up # x,
         known \subseteq known', used \subseteq used', used' \subseteq used \cup {x},
         \A u \in Uploads : u # x => SameFile(u),
         x \in Uploads => Stable(x) /\ (UploadOK(x))',
         (FileOK(req[w]))', (PartsOK(req[w]))'
  PROVE  Core'
<1>1. TypeOK /\ PlaceInv
  BY DEF Inv, IInv
<1>2. \A p \in Uploads : Stable(p)
  BY SameStable
<1>3. ASSUME NEW v \in Workers, v # w
      PROVE  (FileOK(req[v]))' /\ (PartsOK(req[v]))'
  <2>1. Owner(req[v]) => SameFile(req[v].up)
    BY <1>1, <1>3 DEF Owner, TypeOK, Request
  <2>2. OwnInv /\ FileOK(req[v]) /\ PartsOK(req[v]) /\ req'[v] = req[v]
    BY <1>3 DEF Inv, FilesInv, PartsInv
  <2> QED
    BY <1>1, <1>2, <2>1, <2>2, OtherFileOK, OtherPartsOK
<1>4. ASSUME NEW u \in Uploads
      PROVE  (UploadOK(u))'
  <2>1. CASE u # x
    BY <1>1, <1>2, <2>1, OtherUploadOK DEF Inv, UploadsInv
  <2>2. CASE u = x
    BY <2>2
  <2> QED
    BY <2>1, <2>2
<1> QED
  BY <1>3, <1>4 DEF Core, FilesInv, PartsInv, UploadsInv

\* The request has come to where it may be.
Moved(w) ==
  /\ \A v \in Workers : v # w => req'[v] = req[v]
  /\ req'[w].up \in {req[w].up, NoUpload} \cup known
  /\ OwnOK(req'[w])
  /\ Creator(req'[w]) => Creator(req[w]) /\ req'[w].up = req[w].up
  /\ (FileOK(req[w]))' /\ (PartsOK(req[w]))'

LEMMA QuietMove ==
  ASSUME Inv, NEW w \in Workers, Moved(w), UNCHANGED << files, ids, completed >>
  PROVE  Core'
<1>1. OwnInv'
  BY OwnFrame DEF Inv, Moved, ids
<1>2. \A u \in Uploads : SameFile(u)
  BY DEF SameFile, files
<1>3. \A v \in Workers : Owner(req[v]) => req[v].up # NoUpload
  BY DEF Owner
<1>4. used' = used /\ known' = known
  BY DEF ids
<1> QED
  BY <1>1, <1>2, <1>3, <1>4, Frame, UploadsAssumption DEF Moved

LEMMA OwnerMove ==
  ASSUME Inv, NEW w \in Workers, Moved(w), UNCHANGED ids, Owner(req[w]),
         NEW x \in Uploads, x = req[w].up,
         \A u \in Uploads : u # x => SameFile(u), Stable(x), (UploadOK(x))'
  PROVE  Core'
<1>1. OwnInv' /\ IInv /\ OwnInv
  BY OwnFrame DEF Inv, Moved, ids
<1>2. \A v \in Workers : v # w /\ Owner(req[v]) => req[v].up # x
  BY <1>1, Exclusive
<1>3. used' = used /\ known' = known
  BY DEF ids
<1> QED
  BY <1>1, <1>2, <1>3, Frame DEF Moved

\* An answer, with an offset that the file has reached
LEMMA AnswerMoves ==
  ASSUME TypeOK, NEW w \in Workers, NEW off, Answers(w, off),
         \/ off \in {Unknown, 0}
         \/ req[w].held /\ (req[w].up \in binFiles' => off <= Len(bin'[req[w].up]))
  PROVE  Moved(w)
<1>. DEFINE r == [Idle EXCEPT !.at = "reply", !.off = off, !.up = req[w].up,
                              !.held = req[w].held]
<1>1. /\ req'[w] = r
      /\ \A v \in Workers : v # w => req'[v] = req[v]
  BY DEF Answers, TypeOK
<1>2. /\ r.at = "reply" /\ r.op = "none" /\ r.up = req[w].up
      /\ r.held = req[w].held /\ r.off = off
  BY DEF Idle
<1>. HIDE DEF r
<1>3. OwnOK(req'[w]) /\ ~Creator(req'[w])
  BY <1>1, <1>2 DEF OwnOK, Creator
<1>4. (FileOK(req[w]))'
  BY <1>1, <1>2 DEF FileOK
<1>5. (PartsOK(req[w]))'
  BY <1>1, <1>2 DEF PartsOK
<1> QED
  BY <1>1, <1>2, <1>3, <1>4, <1>5 DEF Moved

LEMMA FailMoves ==
  ASSUME TypeOK, NEW w \in Workers, Fails(w)
  PROVE  Moved(w)
BY AnswerMoves DEF Fails

\* An answer that still has its operation
LEMMA InfoFailsMoves ==
  ASSUME TypeOK, NEW w \in Workers, InfoFails(w)
  PROVE  Moved(w)
<1>. DEFINE r == [Idle EXCEPT !.at = "reply", !.op = req[w].op, !.off = Unknown,
                              !.up = req[w].up, !.held = req[w].held]
<1>1. /\ req'[w] = r
      /\ \A v \in Workers : v # w => req'[v] = req[v]
  BY DEF InfoFails, TypeOK
<1>2. /\ r.at = "reply" /\ r.op = req[w].op /\ r.up = req[w].up
      /\ r.off = Unknown /\ r.info.parts = << >>
  BY DEF Idle, NewInfo
<1>. HIDE DEF r
<1>3. OwnOK(req'[w]) /\ (Creator(req'[w]) => Creator(req[w]))
  BY <1>1, <1>2 DEF OwnOK, Creator
<1>4. (FileOK(req[w]))'
  BY <1>1, <1>2 DEF FileOK
<1>5. (PartsOK(req[w]))'
  BY <1>1, <1>2 DEF PartsOK
<1> QED
  BY <1>1, <1>2, <1>3, <1>4, <1>5 DEF Moved

-----------------------------------------------------------------------------
(* Locks, info files and the size of the data file *)

\* What Inv says of one request
LEMMA Row ==
  ASSUME Inv, NEW w \in Workers
  PROVE  /\ UsesLocker /\ TypeOK /\ PlaceInv /\ OwnInv
         /\ req[w] \in Request /\ req[w].info \in Info
         /\ OwnOK(req[w]) /\ FileOK(req[w]) /\ PartsOK(req[w])
         /\ PlaceOK(req[w])
BY DEF Inv, IInv, OwnInv, FilesInv, PartsInv, PlaceInv, TypeOK, Request

\* and of its upload, when it has one in hand
LEMMA RowUpload ==
  ASSUME Inv, NEW w \in Workers, req[w].at \in Busy \ {"reply"}
  PROVE  /\ req[w].up \in Uploads /\ req[w].up # NoUpload
         /\ UploadOK(req[w].up) /\ req[w].up \in used
         /\ info[req[w].up] \in Info /\ bin[req[w].up] \in Seq(Bytes)
         /\ completed[req[w].up] \in Nat
<1>1. req[w].up \in Uploads /\ req[w].up # NoUpload
  BY InHand DEF Inv, IInv
<1> QED
  BY <1>1 DEF Inv, IInv, UploadsInv, PlaceInv, TypeOK, Bytes

LEMMA LockCore ==
  ASSUME Inv, NEW w \in Workers, Lock(w)
  PROVE  Core'
<1>1. /\ UsesLocker /\ TypeOK /\ req[w] \in Request /\ OwnOK(req[w])
      /\ FileOK(req[w]) /\ req[w].at = "lock"
  BY Row DEF Lock, At
<1>2. UNCHANGED << files, ids, completed >>
  BY DEF Lock, history
<1>. DEFINE next == IF req[w].op = "post" THEN "begin" ELSE "info"
<1>3. CASE Fails(w)
  BY <1>1, <1>2, <1>3, FailMoves, QuietMove
<1>4. CASE req' = [req EXCEPT ![w].at = next, ![w].held = TRUE]
  <2>1. /\ req'[w] = [req[w] EXCEPT !.at = next, !.held = TRUE]
        /\ \A v \in Workers : v # w => req'[v] = req[v]
    BY <1>1, <1>4 DEF TypeOK
  <2>2. /\ req'[w].at = next /\ req'[w].held = TRUE /\ req'[w].op = req[w].op
        /\ req'[w].up = req[w].up /\ req'[w].info = req[w].info
        /\ req'[w].off = req[w].off /\ req'[w].n = req[w].n
    BY <1>1, <2>1 DEF Request
  <2>3. OwnOK(req'[w]) /\ (Creator(req'[w]) => Creator(req[w]))
    BY <1>1, <2>2 DEF OwnOK, Creator
  <2>4. (FileOK(req[w]))'
    BY <1>1, <1>2, <2>2 DEF FileOK, Appends, Shows, files
  <2>5. (PartsOK(req[w]))'
    BY <1>1, <2>2 DEF PartsOK, OwnOK
  <2> QED
    BY <1>2, <2>1, <2>2, <2>3, <2>4, <2>5, QuietMove DEF Moved
<1> QED
  BY <1>1, <1>3, <1>4 DEF Lock

LEMMA ReadInfoCore ==
  ASSUME Inv, NEW w \in Workers, ReadInfo(w)
  PROVE  Core'
<1>. DEFINE u == req[w].up
<1>1. /\ TypeOK /\ req[w] \in Request /\ OwnOK(req[w])
      /\ FileOK(req[w]) /\ req[w].at = "info"
  BY Row DEF ReadInfo, At
<1>2. UNCHANGED << files, ids, completed >>
  BY DEF ReadInfo, history
<1>3. CASE Fails(w)
  BY <1>1, <1>2, <1>3, FailMoves, QuietMove
<1>4. CASE /\ infoFile[u] = "whole"
           /\ req' = [req EXCEPT ![w].at = "stat", ![w].info = info[u]]
  <2>1. /\ req'[w] = [req[w] EXCEPT !.at = "stat", !.info = info[u]]
        /\ \A v \in Workers : v # w => req'[v] = req[v]
    BY <1>1, <1>4 DEF TypeOK
  <2>2. /\ req'[w].at = "stat" /\ req'[w].held = req[w].held
        /\ req'[w].op = req[w].op /\ req'[w].info = info[u]
        /\ req'[w].up = u /\ req'[w].n = req[w].n
    BY <1>1, <2>1 DEF Request
  <2>3. OwnOK(req'[w]) /\ (Creator(req'[w]) => Creator(req[w]))
    BY <1>1, <2>2 DEF OwnOK, Creator
  <2>4. (FileOK(req[w]))'
    BY <1>1, <1>2, <1>4, <2>2 DEF FileOK, Shows, files
  <2>5. (PartsOK(req[w]))'
    BY <1>1, <2>2 DEF PartsOK, OwnOK
  <2> QED
    BY <1>2, <2>1, <2>2, <2>3, <2>4, <2>5, QuietMove DEF Moved
<1> QED
  BY <1>3, <1>4 DEF ReadInfo

LEMMA StatCore ==
  ASSUME Inv, NEW w \in Workers, Stat(w)
  PROVE  Core'
<1>. DEFINE u == req[w].up
            size == Len(bin[u])
<1>1. /\ TypeOK /\ req[w] \in Request /\ OwnOK(req[w])
      /\ FileOK(req[w]) /\ req[w].at = "stat" /\ req[w].info \in Info
  BY Row DEF Stat, At
<1>2. UNCHANGED << files, ids, completed >>
  BY DEF Stat, history
<1>3. UploadOK(u) /\ size \in Nat /\ completed[u] \in Nat
  BY <1>1, RowUpload, LimitBusy, LenBytes
<1>4. req[w].held /\ Shows(req[w]) /\ req[w].n = 0
  BY <1>1 DEF OwnOK, FileOK
<1>5. CASE Fails(w)
  BY <1>1, <1>2, <1>5, FailMoves, QuietMove
<1>6. CASE Answers(w, size)
  <2>1. size <= Len(bin'[u])
    BY <1>2, <1>3 DEF files
  <2> QED
    BY <1>1, <1>2, <1>4, <1>6, <2>1, AnswerMoves, QuietMove
<1>7. CASE req[w].op = "del" /\ Goes(w, "rmInfo")
  <2>1. /\ req'[w].at = "rmInfo" /\ req'[w].op = "del"
        /\ req'[w].up = u /\ req'[w].held
        /\ \A v \in Workers : v # w => req'[v] = req[v]
    BY <1>1, <1>4, <1>7, GoesTo
  <2>2. OwnOK(req'[w]) /\ (Creator(req'[w]) => Creator(req[w]))
    BY <2>1 DEF OwnOK, Creator
  <2>3. (FileOK(req[w]))'
    BY <1>2, <1>4, <2>1 DEF FileOK, Shows, files
  <2>4. (PartsOK(req[w]))'
    BY <2>1 DEF PartsOK
  <2> QED
    BY <1>2, <2>1, <2>2, <2>3, <2>4, QuietMove DEF Moved
<1>8. ASSUME req[w].op = "patch", u \in binFiles, NEW claim \in Lengths,
             NEW decl \in Lengths \cup {Unknown},
             PatchChecked(w, size, claim, decl)
      PROVE  Core'
  <2>1. claim \in Nat /\ decl \in Int
    BY BoundsAssumption DEF Lengths, Unknown
  <2>2. CASE Answers(w, claim) /\ claim = size
    BY <1>6, <2>2
  <2>3. CASE /\ ~IsFinal(req[w].info) /\ claim = size /\ decl # Unknown
             /\ Declares(w, claim, decl) /\ ~Fails(w)
    <3>. DEFINE i == [req[w].info EXCEPT !.size = decl, !.deferred = FALSE]
    <3>1. /\ req[w].info.deferred /\ decl >= claim /\ SizeAllowed(decl)
          /\ req' = [req EXCEPT ![w].at = "truncInfo", ![w].off = claim,
                                ![w].info.size = decl, ![w].info.deferred = FALSE]
      BY <2>3 DEF Declares
    <3>2. /\ req'[w] = [req[w] EXCEPT !.at = "truncInfo", !.off = claim, !.info = i]
          /\ \A v \in Workers : v # w => req'[v] = req[v]
      BY <1>1, <3>1 DEF TypeOK, Request, Info
    <3>3. /\ i.size = decl /\ i.deferred = FALSE /\ i.parts = req[w].info.parts
      BY <1>1 DEF Info
    <3>4. /\ req'[w].at = "truncInfo" /\ req'[w].held = req[w].held
          /\ req'[w].op = req[w].op /\ req'[w].info = i /\ req'[w].off = claim
          /\ req'[w].up = u /\ req'[w].n = req[w].n
      BY <1>1, <3>2 DEF Request
    <3>. HIDE DEF i
    <3>5. OwnOK(req'[w]) /\ (Creator(req'[w]) => Creator(req[w]))
      BY <1>4, <1>8, <3>4 DEF OwnOK, Creator
    <3>6. InOrder(u) /\ completed[u] = 0
      BY <1>3, <1>4, <2>3, <3>1 DEF UploadOK, Shows
    <3>7. (FileOK(req[w]))'
      <4>1. (InOrder(req[w].up))'
        BY <1>2, <3>4, <3>6 DEF InOrder, files
      <4>2. (Declaring(req[w]))'
        <5>1. /\ req'[w].n = 0 /\ req'[w].off <= i.size /\ SizeAllowed(i.size)
              /\ ~IsFinal(i) /\ ~i.deferred /\ i = req'[w].info
          BY <1>4, <1>8, <2>1, <2>3, <3>1, <3>3, <3>4 DEF IsFinal
        <5>2. /\ req'[w].up \in binFiles' /\ completed'[req'[w].up] = 0
              /\ Len(bin'[req'[w].up]) = req'[w].off
          BY <1>2, <1>4, <1>8, <2>3, <3>4, <3>6 DEF files
        <5> QED
          BY <4>1, <5>1, <5>2 DEF Declaring, IsFinal, SizeAllowed
      <4>3. (/\ infoFile[req[w].up] = "whole" /\ info[req[w].up].deferred
             /\ ~IsFinal(info[req[w].up]))'
        BY <1>2, <1>4, <2>3, <3>1, <3>4 DEF Shows, IsFinal, files
      <4>4. req'[w].at = "truncInfo" /\ req'[w].op = "patch"
        BY <1>8, <3>4
      <4> QED
        BY <4>2, <4>3, <4>4 DEF FileOK
    <3>8. (PartsOK(req[w]))'
      BY <1>8, <3>4 DEF PartsOK
    <3> QED
      BY <1>2, <3>2, <3>4, <3>5, <3>7, <3>8, QuietMove DEF Moved
  <2>4. CASE /\ ~IsFinal(req[w].info) /\ claim = size
             /\ ~IsComplete(req[w].info, size)
             /\ req' = [req EXCEPT ![w].at = "begin", ![w].off = claim]
    <3>1. /\ req'[w] = [req[w] EXCEPT !.at = "begin", !.off = claim]
          /\ \A v \in Workers : v # w => req'[v] = req[v]
      BY <1>1, <2>4 DEF TypeOK
    <3>2. /\ req'[w].at = "begin" /\ req'[w].held = req[w].held
          /\ req'[w].op = req[w].op /\ req'[w].info = req[w].info
          /\ req'[w].off = claim /\ req'[w].up = u /\ req'[w].n = req[w].n
      BY <1>1, <3>1 DEF Request
    <3>3. OwnOK(req'[w]) /\ (Creator(req'[w]) => Creator(req[w]))
      BY <1>4, <1>8, <3>2 DEF OwnOK, Creator
    <3>4. completed[u] = 0
      BY <1>3, <1>4, <2>4 DEF UploadOK, Shows, IsComplete
    <3>5. (FileOK(req[w]))'
      BY <1>2, <1>4, <2>1, <2>4, <3>2, <3>4 DEF FileOK, Shows, Appends, files
    <3>6. (PartsOK(req[w]))'
      BY <1>8, <3>2 DEF PartsOK
    <3> QED
      BY <1>2, <3>1, <3>2, <3>3, <3>5, <3>6, QuietMove DEF Moved
  <2> QED
    BY <1>5, <1>8, <2>2, <2>3, <2>4 DEF PatchChecked, Matches
<1> QED
  BY <1>5, <1>6, <1>7, <1>8 DEF Stat

-----------------------------------------------------------------------------
(* sizeOfUploads *)

LEMMA QuietStable ==
  ASSUME UNCHANGED << files, known >>
  PROVE  \A p \in Uploads : Stable(p)
BY DEF Stable, Sized, Done, files

LEMMA PartInfoCore ==
  ASSUME Inv, NEW w \in Workers, PartInfo(w)
  PROVE  Core'
<1>. DEFINE r == req[w]
            p == r.info.parts[r.part]
<1>1. /\ TypeOK /\ r \in Request /\ OwnOK(r) /\ PlaceOK(r) /\ PartsOK(r)
      /\ FileOK(r) /\ r.at = "partInfo" /\ r.info \in Info
  BY Row DEF PartInfo, At
<1>2. UNCHANGED << files, ids, completed >>
  BY DEF PartInfo, history
<1>3. r.part \in 1 .. Len(r.info.parts) /\ p \in Uploads
  BY <1>1 DEF PlaceOK, Info
<1>4. CASE Fails(w)
  BY <1>1, <1>2, <1>4, FailMoves, QuietMove
<1>5. CASE /\ infoFile[p] = "whole" /\ ~info[p].deferred
           /\ req' = [req EXCEPT ![w].at = "partStat", ![w].off = info[p].size]
  <2>1. /\ req'[w] = [r EXCEPT !.at = "partStat", !.off = info[p].size]
        /\ \A v \in Workers : v # w => req'[v] = req[v]
    BY <1>1, <1>5 DEF TypeOK
  <2>2. /\ req'[w].at = "partStat" /\ req'[w].op = r.op /\ req'[w].up = r.up
        /\ req'[w].info = r.info /\ req'[w].part = r.part
        /\ req'[w].n = r.n /\ req'[w].off = info[p].size
    BY <1>1, <2>1 DEF Request
  <2>3. OwnOK(req'[w]) /\ (Creator(req'[w]) => Creator(r))
    BY <1>1, <2>2 DEF OwnOK, Creator
  <2>4. (FileOK(req[w]))'
    BY <1>1, <2>2 DEF FileOK, IsFinal
  <2>5. r.op = "final" /\ p \in known /\ Checked(r, r.part - 1)
    BY <1>1, <1>3 DEF OwnOK, PartsOK
  <2>6. (Checked(req[w], req[w].part - 1))'
    <3>1. \A x \in Uploads : Stable(x)
      BY <1>2, QuietStable DEF ids
    <3>2. r.part - 1 \in 0 .. Len(r.info.parts)
      BY <1>3
    <3>3. (Checked(req[w], r.part - 1))'
          <=> (Checked(req[w], req[w].part - 1))'
      BY <2>2
    <3> QED
      BY <1>1, <2>2, <2>5, <3>1, <3>2, <3>3, CheckedStable
  <2>7. (Sized(req[w].info.parts[req[w].part], req[w].off))'
    <3>1. /\ req'[w].info.parts[req'[w].part] = p /\ req'[w].off = info[p].size
      BY <2>2
    <3>2. infoFile' = infoFile /\ info' = info /\ known' = known
      BY <1>2 DEF files, ids
    <3>3. infoFile[p] = "whole" /\ ~info[p].deferred
      BY <1>5
    <3> QED
      BY <2>5, <3>1, <3>2, <3>3 DEF Sized
  <2>8. (\A j \in DOMAIN req[w].info.parts : req[w].info.parts[j] \in known)'
    BY <1>1, <1>2, <2>2, <2>5 DEF PartsOK, ids
  <2>9. (PartsOK(req[w]))'
    BY <2>2, <2>6, <2>7, <2>8 DEF PartsOK
  <2> QED
    BY <1>2, <2>1, <2>2, <2>3, <2>4, <2>9, QuietMove DEF Moved
<1> QED
  BY <1>4, <1>5 DEF PartInfo

LEMMA ConcatLen ==
  ASSUME NEW S, NEW s \in Seq(S), NEW t \in Seq(S)
  PROVE  s \o t \in Seq(S) /\ Len(s \o t) = Len(s) + Len(t)
OBVIOUS

\* One part more is checked.
LEMMA PiecesAdd ==
  ASSUME NEW i \in Info, NEW i2 \in Info, i2.parts = i.parts,
         NEW k \in 1 .. Len(i.parts),
         NEW c \in [0 .. Len(i.parts) -> Seq(Bytes)], Pieces(i, c, k - 1),
         NEW b \in Seq(Bytes), Done(i.parts[k], b),
         Len(c[k - 1]) = i.size, i2.size = i.size + Len(b)
  PROVE  \E d \in [0 .. Len(i2.parts) -> Seq(Bytes)] :
           Pieces(i2, d, k) /\ Len(d[k]) = i2.size
<1>. DEFINE e == c[k - 1] \o b
            d == [c EXCEPT ![k] = e]
<1>1. Len(i.parts) \in Nat /\ i.size \in Nat /\ k \in Nat /\ k - 1 \in 0 .. Len(i.parts)
  BY DEF Info
<1>2. e \in Seq(Bytes) /\ Len(e) = Len(c[k - 1]) + Len(b) /\ Len(b) \in Nat
  BY <1>1, ConcatLen, LenBytes
<1>. HIDE DEF e
<1>3. /\ d \in [0 .. Len(i2.parts) -> Seq(Bytes)] /\ d[k] = e
      /\ \A j \in 0 .. (k - 1) : d[j] = c[j]
  BY <1>1, <1>2
<1>. HIDE DEF d
<1>4. d[0] = << >>
  BY <1>1, <1>3 DEF Pieces
<1>5. ASSUME NEW j \in 1 .. k
      PROVE  \E x \in Seq(Bytes) : d[j] = d[j - 1] \o x /\ Done(i2.parts[j], x)
  <2>1. d[j - 1] = c[j - 1]
    <3>1. j - 1 \in 0 .. (k - 1)
      BY <1>1
    <3> QED
      BY <1>3, <3>1
  <2>2. CASE j = k
    BY <1>3, <2>1, <2>2 DEF e
  <2>3. CASE j \in 1 .. (k - 1)
    <3>1. d[j] = c[j] /\ i2.parts = i.parts
      BY <1>1, <1>3, <2>3
    <3>2. \E x \in Seq(Bytes) : c[j] = c[j - 1] \o x /\ Done(i.parts[j], x)
      BY <2>3 DEF Pieces
    <3> QED
      BY <2>1, <3>1, <3>2
  <2>4. j = k \/ j \in 1 .. (k - 1)
    BY <1>1
  <2> QED
    BY <2>2, <2>3, <2>4
<1>6. ASSUME NEW j \in 0 .. k
      PROVE  Len(d[j]) <= i2.size
  <2>1. CASE j = k
    BY <1>1, <1>2, <1>3, <2>1
  <2>2. CASE j \in 0 .. (k - 1)
    <3>1. Len(c[j]) <= i.size /\ Len(c[j]) \in Nat
      BY <1>1, <2>2, LenBytes DEF Pieces
    <3> QED
      BY <1>1, <1>2, <1>3, <2>2, <3>1
  <2> QED
    BY <1>1, <2>1, <2>2
<1>7. Pieces(i2, d, k)
  BY <1>3, <1>4, <1>5, <1>6 DEF Pieces
<1>8. Len(d[k]) = i2.size
  BY <1>2, <1>3
<1> QED
  BY <1>3, <1>7, <1>8

LEMMA PartStatCore ==
  ASSUME Inv, NEW w \in Workers, PartStat(w)
  PROVE  Core'
<1>. DEFINE r == req[w]
            p == r.info.parts[r.part]
            size == r.info.size + r.off
            last == r.part = Len(r.info.parts)
            at == IF last THEN "createBin" ELSE "partInfo"
            part == IF last THEN 1 ELSE r.part + 1
            i == [r.info EXCEPT !.size = size]
<1>1. /\ TypeOK /\ r \in Request /\ OwnOK(r) /\ PlaceOK(r) /\ PartsOK(r)
      /\ FileOK(r) /\ r.at = "partStat" /\ r.info \in Info
  BY Row DEF PartStat, At
<1>2. UNCHANGED << files, ids, completed >>
  BY DEF PartStat, history
<1>3. /\ r.part \in 1 .. Len(r.info.parts) /\ p \in Uploads /\ r.off \in Nat
      /\ r.info.size \in Nat /\ Len(r.info.parts) \in Nat
  BY <1>1 DEF PlaceOK, Info
<1>4. CASE Fails(w)
  BY <1>1, <1>2, <1>4, FailMoves, QuietMove
<1>5. CASE /\ PartComplete(p, r.off) /\ (last => SizeAllowed(size))
           /\ req' = [req EXCEPT ![w].at = at, ![w].part = part,
                                 ![w].info.size = size, ![w].off = 0]
  <2>1. /\ req'[w] = [r EXCEPT !.at = at, !.part = part, !.info = i, !.off = 0]
        /\ \A v \in Workers : v # w => req'[v] = req[v]
    BY <1>1, <1>5 DEF TypeOK, Request, Info
  <2>2. i \in Info /\ i.parts = r.info.parts /\ i.size = size
        /\ i.deferred = r.info.deferred
    BY <1>1, <1>3 DEF Info
  <2>3. /\ req'[w].at = at /\ req'[w].op = r.op /\ req'[w].up = r.up
        /\ req'[w].info = i /\ req'[w].part = part
        /\ req'[w].n = r.n /\ req'[w].off = 0
    BY <1>1, <2>1 DEF Request
  <2>. HIDE DEF i
  <2>4. r.op = "final" /\ r.up = NoUpload
    BY <1>1 DEF OwnOK
  <2>5. OwnOK(req'[w]) /\ (Creator(req'[w]) => Creator(r))
    BY <2>3, <2>4 DEF OwnOK, Creator
  <2>6. (FileOK(req[w]))'
    <3>1. r.n = 0 /\ IsFinal(r.info) /\ ~r.info.deferred
      BY <1>1 DEF FileOK
    <3>2. IsFinal(i) /\ ~i.deferred /\ (last => SizeAllowed(i.size))
      BY <1>5, <2>2, <3>1 DEF IsFinal
    <3>3. CASE last
      <4>1. Prepared(req'[w])
        BY <2>3, <2>4, <3>1, <3>2, <3>3 DEF Prepared
      <4> QED
        BY <2>3, <3>3, <4>1 DEF FileOK, Prepared
    <3>4. CASE ~last
      BY <2>3, <3>1, <3>2, <3>4 DEF FileOK
    <3> QED
      BY <3>3, <3>4
  <2>7. PICK c \in [0 .. Len(r.info.parts) -> Seq(Bytes)] :
          Pieces(r.info, c, r.part - 1) /\ Len(c[r.part - 1]) = r.info.size
    BY <1>1 DEF PartsOK, Checked
  <2>8. Done(p, bin[p]) /\ bin[p] \in Seq(Bytes) /\ Len(bin[p]) = r.off
    BY <1>1, <1>3, <1>5 DEF PartsOK, PartComplete, Done, TypeOK, Bytes
  <2>9. PICK j \in Info, k \in 1 .. Len(r.info.parts) : j = i /\ k = r.part
    BY <1>3, <2>2
  <2>10. PICK d \in [0 .. Len(j.parts) -> Seq(Bytes)] :
           Pieces(j, d, k) /\ Len(d[k]) = j.size
    <3>1. /\ j.parts = r.info.parts /\ Pieces(r.info, c, k - 1)
          /\ Len(c[k - 1]) = r.info.size
      BY <2>2, <2>7, <2>9
    <3>2. Done(r.info.parts[k], bin[p]) /\ bin[p] \in Seq(Bytes)
      BY <2>8, <2>9
    <3>3. j.size = r.info.size + Len(bin[p])
      BY <2>2, <2>8, <2>9
    <3> HIDE DEF p
    <3> QED
      BY <1>1, <3>1, <3>2, <3>3, PiecesAdd
  <2>11. (Checked(req[w], k))'
    <3>1. \A x \in Uploads : Stable(x)
      BY <1>2, QuietStable DEF ids
    <3>2. (Pieces(j, d, k))'
      BY <2>2, <2>9, <2>10, <3>1, PiecesStable
    <3>3. req'[w].info = j
      BY <2>3, <2>9
    <3> QED
      BY <2>10, <3>2, <3>3 DEF Checked
  <2>12. (PartsOK(req[w]))'
    <3>1. (\A m \in DOMAIN req[w].info.parts : req[w].info.parts[m] \in known)'
      BY <1>1, <1>2, <2>2, <2>3, <2>4 DEF PartsOK, ids
    <3>2. CASE last
      <4>1. req'[w].at = "createBin" /\ req'[w].part = 1
        BY <2>3, <3>2
      <4>2. Len(req'[w].info.parts) = k
        BY <2>2, <2>3, <2>9, <3>2
      <4>3. (Checked(req[w], Len(req[w].info.parts)))'
        BY <2>11, <4>2
      <4> QED
        BY <3>1, <4>1, <4>3 DEF PartsOK
    <3>3. CASE ~last
      <4>1. req'[w].at = "partInfo" /\ req'[w].part - 1 = k
        BY <1>3, <2>3, <2>9, <3>3
      <4>2. (Checked(req[w], req[w].part - 1))'
        BY <2>11, <4>1
      <4> QED
        BY <3>1, <4>1, <4>2 DEF PartsOK
    <3> QED
      BY <3>2, <3>3
  <2> QED
    BY <1>2, <2>1, <2>3, <2>5, <2>6, <2>12, QuietMove DEF Moved
<1> QED
  BY <1>4, <1>5 DEF PartStat

-----------------------------------------------------------------------------
(* The requests that go on without touching a file *)

\* A request leaves its place in a chunk for another.
LEMMA UnlockCore ==
  ASSUME Inv, NEW w \in Workers, Unlock(w)
  PROVE  Core'
<1>1. UNCHANGED << files, ids, completed >>
  BY DEF Unlock, history
<1>2. /\ req'[w] = Idle
      /\ \A v \in Workers : v # w => req'[v] = req[v]
  BY Row DEF Unlock, TypeOK
<1>3. Moved(w)
  BY <1>2 DEF Moved, Idle, OwnOK, Creator, FileOK, PartsOK
<1> QED
  BY <1>1, <1>3, QuietMove

LEMMA BeginCore ==
  ASSUME Inv, NEW w \in Workers, Begin(w)
  PROVE  Core'
<1>. DEFINE r == req[w]
<1>1. /\ TypeOK /\ r \in Request /\ OwnOK(r) /\ FileOK(r) /\ r.at = "begin"
  BY Row DEF Begin, At
<1>2. UNCHANGED << files, ids, completed >>
  BY DEF Begin, history
<1>3. r.held /\ r.op \in {"post", "patch"} /\ Appends(r) /\ ~Creator(Idle)
  BY <1>1 DEF OwnOK, FileOK, Creator, Idle
<1>4. PICK len \in Lengths \cup {Unknown} :
        IF ~Fits(r, len) THEN Fails(w)
        ELSE IF Limit(r, len) <= 0 THEN Goes(w, "finish")
        ELSE IF r.up \notin binFiles
        THEN req' = [req EXCEPT ![w].at = "flag", ![w].err = TRUE]
        ELSE req' = [req EXCEPT ![w].at = "write", ![w].len = len]
  BY DEF Begin
<1>5. CASE Fails(w)
  BY <1>1, <1>2, <1>5, FailMoves, QuietMove
<1>6. CASE Goes(w, "finish")
  <2>1. /\ req'[w].at = "finish" /\ req'[w].op = r.op /\ req'[w].up = r.up
        /\ req'[w].info = r.info /\ req'[w].off = r.off /\ req'[w].n = r.n
        /\ req'[w].held = r.held
        /\ \A v \in Workers : v # w => req'[v] = req[v]
    BY <1>1, <1>6, GoesTo
  <2>2. OwnOK(req'[w]) /\ (Creator(req'[w]) => Creator(r))
    BY <1>3, <2>1 DEF OwnOK, Creator
  <2>3. (FileOK(req[w]))'
    BY <1>2, <1>3, <2>1 DEF FileOK, Appends, Shows, files
  <2>4. (PartsOK(req[w]))'
    BY <1>3, <2>1 DEF PartsOK
  <2> QED
    BY <1>2, <2>1, <2>2, <2>3, <2>4, QuietMove DEF Moved
<1>7. CASE req' = [req EXCEPT ![w].at = "flag", ![w].err = TRUE]
  <2>1. /\ req'[w] = [r EXCEPT !.at = "flag", !.err = TRUE]
        /\ \A v \in Workers : v # w => req'[v] = req[v]
    BY <1>1, <1>7 DEF TypeOK
  <2>2. /\ req'[w].at = "flag" /\ req'[w].op = r.op /\ req'[w].up = r.up
        /\ req'[w].info = r.info /\ req'[w].off = r.off /\ req'[w].n = r.n
        /\ req'[w].held = r.held
    BY <1>1, <2>1 DEF Request
  <2>3. OwnOK(req'[w]) /\ (Creator(req'[w]) => Creator(r))
    BY <1>3, <2>2 DEF OwnOK, Creator
  <2>4. (FileOK(req[w]))'
    BY <1>2, <1>3, <2>2 DEF FileOK, Appends, Shows, files
  <2>5. (PartsOK(req[w]))'
    BY <1>3, <2>2 DEF PartsOK
  <2> QED
    BY <1>2, <2>1, <2>2, <2>3, <2>4, <2>5, QuietMove DEF Moved
<1>8. CASE /\ Fits(r, len)
           /\ req' = [req EXCEPT ![w].at = "write", ![w].len = len]
  <2>1. /\ req'[w] = [r EXCEPT !.at = "write", !.len = len]
        /\ \A v \in Workers : v # w => req'[v] = req[v]
    BY <1>1, <1>8 DEF TypeOK
  <2>2. /\ req'[w].at = "write" /\ req'[w].op = r.op /\ req'[w].up = r.up
        /\ req'[w].info = r.info /\ req'[w].off = r.off /\ req'[w].n = r.n
        /\ req'[w].held = r.held /\ req'[w].len = len
    BY <1>1, <2>1 DEF Request
  <2>3. OwnOK(req'[w]) /\ (Creator(req'[w]) => Creator(r))
    BY <1>3, <2>2 DEF OwnOK, Creator
  <2>4. (FileOK(req[w]))'
    BY <1>2, <1>3, <1>8, <2>2 DEF FileOK, Appends, Shows, Fits, files
  <2>5. (PartsOK(req[w]))'
    BY <1>3, <2>2 DEF PartsOK
  <2> QED
    BY <1>2, <2>1, <2>2, <2>3, <2>4, <2>5, QuietMove DEF Moved
<1> QED
  BY <1>4, <1>5, <1>6, <1>7, <1>8

\* A request that has stopped appending, or goes on with what it had
LEMMA ChunkMoves ==
  ASSUME Inv, NEW w \in Workers, UNCHANGED << files, ids, completed >>,
         \A v \in Workers : v # w => req'[v] = req[v],
         /\ req'[w].op = req[w].op /\ req'[w].up = req[w].up
         /\ req'[w].info = req[w].info /\ req'[w].off = req[w].off
         /\ req'[w].n = req[w].n /\ req'[w].held = req[w].held,
         \/ req[w].at \in {"write", "flag"} /\ req'[w].at \in {"flag", "stopped"}
         \/ /\ req[w].at \in {"write", "flag", "stopped"}
            /\ req'[w].at = req[w].at /\ req'[w].len = req[w].len
            /\ req'[w].stop
  PROVE  Core'
<1>1. OwnOK(req[w]) /\ FileOK(req[w])
  BY Row
<1>2. req[w].held /\ req[w].op \in {"post", "patch"}
  BY <1>1 DEF OwnOK
<1>3. OwnOK(req'[w]) /\ (Creator(req'[w]) => Creator(req[w]))
  BY <1>2 DEF OwnOK, Creator
<1>4. (FileOK(req[w]))'
  BY <1>1 DEF FileOK, Appends, Shows, files
<1>5. (PartsOK(req[w]))'
  BY <1>2 DEF PartsOK
<1> QED
  BY <1>3, <1>4, <1>5, QuietMove DEF Moved

LEMMA BodyCore ==
  ASSUME Inv, NEW w \in Workers, BodyEnds(w) \/ BodyFails(w) \/ StopUpload(w)
  PROVE  Core'
<1>1. TypeOK /\ req[w] \in Request
  BY Row
<1>2. UNCHANGED << files, ids, completed >>
  BY DEF BodyEnds, BodyFails, StopUpload, history
<1>3. \A v \in Workers : v # w => req'[v] = req[v]
  BY <1>1 DEF BodyEnds, BodyFails, StopUpload, TypeOK
<1>4. CASE BodyEnds(w)
  <2>1. req'[w] = [req[w] EXCEPT !.at = "flag", !.len = 0] /\ req[w].at = "write"
    BY <1>1, <1>4 DEF BodyEnds, TypeOK, At
  <2>2. /\ req'[w].op = req[w].op /\ req'[w].up = req[w].up
        /\ req'[w].info = req[w].info /\ req'[w].off = req[w].off
        /\ req'[w].n = req[w].n /\ req'[w].held = req[w].held
        /\ req'[w].at = "flag"
    BY <1>1, <2>1 DEF Request
  <2> QED
    BY <1>2, <1>3, <2>1, <2>2, ChunkMoves
<1>5. CASE BodyFails(w)
  <2>1. req'[w] = [req[w] EXCEPT !.at = "flag", !.len = 0, !.err = TRUE]
        /\ req[w].at = "write"
    BY <1>1, <1>5 DEF BodyFails, TypeOK, At
  <2>2. /\ req'[w].op = req[w].op /\ req'[w].up = req[w].up
        /\ req'[w].info = req[w].info /\ req'[w].off = req[w].off
        /\ req'[w].n = req[w].n /\ req'[w].held = req[w].held
        /\ req'[w].at = "flag"
    BY <1>1, <2>1 DEF Request
  <2> QED
    BY <1>2, <1>3, <2>1, <2>2, ChunkMoves
<1>6. CASE StopUpload(w)
  <2>1. req'[w] = [req[w] EXCEPT !.stop = TRUE]
        /\ req[w].at \in {"write", "flag", "stopped"}
    BY <1>1, <1>6 DEF StopUpload, TypeOK
  <2>2. /\ req'[w].op = req[w].op /\ req'[w].up = req[w].up
        /\ req'[w].info = req[w].info /\ req'[w].off = req[w].off
        /\ req'[w].n = req[w].n /\ req'[w].held = req[w].held
        /\ req'[w].at = req[w].at /\ req'[w].len = req[w].len /\ req'[w].stop
    BY <1>1, <2>1 DEF Request
  <2> QED
    BY <1>2, <1>3, <2>1, <2>2, ChunkMoves
<1> QED
  BY <1>4, <1>5, <1>6

LEMMA TailCore ==
  ASSUME Inv, NEW w \in Workers, Flag(w) \/ Stopped(w)
  PROVE  Core'
<1>. DEFINE r == req[w]
<1>1. TypeOK /\ r \in Request /\ OwnOK(r) /\ FileOK(r)
  BY Row
<1>2. UNCHANGED << files, ids, completed >>
  BY DEF Flag, Stopped, history
<1>3. ASSUME NEW label \in {"stopped", "rmInfo", "finish"}, Goes(w, label),
             r.at \in {"flag", "stopped"},
             label = "stopped" => r.at = "flag",
             label = "rmInfo" => r.at = "flag" /\ r.stop,
             label = "finish" => r.at = "stopped" /\ ~r.stop
      PROVE  Core'
  <2>1. r.held /\ r.op \in {"post", "patch"}
    BY <1>1, <1>3 DEF OwnOK
  <2>2. /\ req'[w].at = label /\ req'[w].op = r.op /\ req'[w].up = r.up
        /\ req'[w].info = r.info /\ req'[w].off = r.off /\ req'[w].n = r.n
        /\ req'[w].held = r.held /\ req'[w].stop = r.stop
        /\ \A v \in Workers : v # w => req'[v] = req[v]
    BY <1>1, <1>3, GoesTo
  <2>3. OwnOK(req'[w]) /\ (Creator(req'[w]) => Creator(r))
    BY <1>3, <2>1, <2>2 DEF OwnOK, Creator
  <2>4. Appends(r)
    BY <1>1, <1>3 DEF FileOK
  <2>5. (FileOK(req[w]))'
    BY <1>2, <1>3, <2>1, <2>2, <2>4 DEF FileOK, Appends, Shows, files
  <2>6. (PartsOK(req[w]))'
    BY <1>3, <2>1, <2>2 DEF PartsOK
  <2> QED
    BY <1>2, <2>2, <2>3, <2>5, <2>6, QuietMove DEF Moved
<1>4. CASE Flag(w)
  BY <1>3, <1>4 DEF Flag, At
<1>5. CASE Stopped(w)
  BY <1>1, <1>2, <1>3, <1>5, FailMoves, QuietMove DEF Stopped, At
<1> QED
  BY <1>4, <1>5

-----------------------------------------------------------------------------
(* finishUploadIfComplete *)

LEMMA FinishCore ==
  ASSUME Inv, NEW w \in Workers, Finish(w) \/ FinishRefused(w)
  PROVE  Core'
<1>. DEFINE r == req[w]
<1>1. /\ TypeOK /\ r \in Request /\ OwnOK(r) /\ FileOK(r) /\ r.at = "finish"
      /\ r.info \in Info
  BY Row DEF Finish, FinishRefused, At
<1>2. UNCHANGED << files, ids >> /\ Answers(w, Offset(r))
  BY DEF Finish, FinishRefused
<1>3. PICK u \in Uploads : u = r.up
  BY <1>1, RowUpload, LimitBusy
<1>4. /\ UploadOK(u) /\ completed[u] \in Nat /\ u \in used /\ u # NoUpload
      /\ u \in used
  BY <1>1, <1>3, RowUpload, LimitBusy
<1>5. \/ Offset(r) \in {Unknown, 0}
      \/ r.held /\ (r.up \in binFiles' => Offset(r) <= Len(bin'[r.up]))
  BY <1>1, <1>2 DEF FileOK, Appends, Offset, Request, Unknown, files
<1>6. Moved(w)
  BY <1>1, <1>2, <1>5, AnswerMoves
<1>7. Shows(r)
  BY <1>1 DEF FileOK, Appends
<1>8. CASE completed' = completed
  BY <1>2, <1>6, <1>8, QuietMove
<1>9. CASE Finishes(r) /\ completed' = [completed EXCEPT ![r.up] = @ + 1]
  <2>1. /\ completed'[u] = completed[u] + 1
        /\ \A x \in Uploads : x # u => completed'[x] = completed[x]
    BY <1>1, <1>3, <1>9 DEF TypeOK
  <2>2. \A x \in Uploads : x # u => SameFile(x)
    BY <1>2, <2>1 DEF SameFile, files
  <2>3. \A x \in Uploads : Stable(x)
    BY <1>2, QuietStable DEF ids
  <2>4. Owner(r)
    BY <1>1, <1>3, <1>4, OwnerAt DEF OwnInv, Owner, OwnOK, Creator
  <2>5. /\ infoFile[u] = "whole" /\ ~info[u].deferred
        /\ Len(bin[u]) = info[u].size
        /\ completed[u] > 0 => IsFinal(info[u]) /\ info[u].size = 0
        /\ IsFinal(info[u]) => completed[u] > 0
    BY <1>1, <1>3, <1>4, <1>7, <1>9
       DEF Shows, FileOK, Appends, Finishes, IsComplete, Offset, UploadOK
  <2>6. IsFinal(info[u]) => Whole(u)
    BY <1>4, <2>5 DEF UploadOK
  <2>7. IsFinal(info[u]) => (Whole(u))'
    BY <1>1, <1>2, <2>3, <2>6, WholeStable DEF files
  <2>8. (UploadOK(u))'
    BY <1>2, <1>4, <2>1, <2>5, <2>7 DEF UploadOK, InOrder, files, ids
  <2> QED
    BY <1>2, <1>3, <1>6, <2>2, <2>3, <2>4, <2>8, OwnerMove
<1> QED
  BY <1>8, <1>9 DEF Finish, FinishRefused, history

-----------------------------------------------------------------------------
(* Terminate *)

LEMMA AfterTerminateMoves ==
  ASSUME Inv, NEW w \in Workers, req[w].at \in {"rmInfo", "rmBin"},
         AfterTerminate(w)
  PROVE  Moved(w)
<1>1. /\ TypeOK /\ req[w] \in Request /\ OwnOK(req[w]) /\ FileOK(req[w])
  BY Row
<1>2. CASE Answers(w, Unknown)
  BY <1>1, <1>2, AnswerMoves
<1>3. CASE req[w].op # "del" /\ Goes(w, "stopped")
  <2>1. /\ req'[w].at = "stopped" /\ req'[w].op = req[w].op
        /\ req'[w].up = req[w].up /\ req'[w].held = req[w].held
        /\ req'[w].stop = req[w].stop
        /\ \A v \in Workers : v # w => req'[v] = req[v]
    BY <1>1, <1>3, GoesTo
  <2>2. req[w].held /\ req[w].op \in {"post", "patch"} /\ req[w].stop
    BY <1>1, <1>3 DEF OwnOK, FileOK
  <2> QED
    BY <2>1, <2>2 DEF Moved, OwnOK, Creator, FileOK, PartsOK
<1> QED
  BY <1>2, <1>3 DEF AfterTerminate

LEMMA RemoveInfoCore ==
  ASSUME Inv, NEW w \in Workers, RemoveInfo(w)
  PROVE  Core'
<1>. DEFINE r == req[w]
<1>1. /\ TypeOK /\ r \in Request /\ OwnOK(r) /\ FileOK(r) /\ r.at = "rmInfo"
  BY Row DEF RemoveInfo, At
<1>2. PICK u \in Uploads : u = r.up
  BY <1>1, RowUpload, LimitBusy
<1>3. UploadOK(u) /\ u \in used /\ u # NoUpload
  BY <1>1, <1>2, RowUpload, LimitBusy
<1>4. /\ infoFile[u] = "whole" /\ u \in binFiles /\ r.held
      /\ r.op = "del" \/ r.stop
  BY <1>1, <1>2, <1>3 DEF FileOK, OwnOK, UploadOK
<1>5. CASE AfterTerminate(w) /\ UNCHANGED << infoFile, info >>
  <2>1. Moved(w)
    BY <1>1, <1>5, AfterTerminateMoves
  <2>2. UNCHANGED << files, ids, completed >>
    BY <1>5 DEF RemoveInfo, files, history
  <2> QED
    BY <2>1, <2>2, QuietMove
<1>6. CASE /\ infoFile' = [infoFile EXCEPT ![u] = "none"]
           /\ info' = [info EXCEPT ![u] = NewInfo]
           /\ Goes(w, "rmBin")
  <2>1. UNCHANGED << binFiles, bin, ids, completed >>
    BY DEF RemoveInfo, history
  <2>2. /\ infoFile'[u] = "none" /\ info'[u] = NewInfo
        /\ \A x \in Uploads : x # u => SameFile(x)
    BY <1>1, <1>6, <2>1 DEF TypeOK, SameFile
  <2>3. /\ req'[w].at = "rmBin" /\ req'[w].op = r.op /\ req'[w].up = u
        /\ req'[w].held = r.held /\ req'[w].stop = r.stop
        /\ \A v \in Workers : v # w => req'[v] = req[v]
    BY <1>1, <1>2, <1>6, <2>1, GoesTo
  <2>4. OwnOK(req'[w]) /\ (Creator(req'[w]) => Creator(r))
    BY <1>1, <1>2, <2>3 DEF OwnOK, Creator
  <2>5. (FileOK(req[w]))'
    BY <1>4, <1>6, <2>1, <2>2, <2>3 DEF FileOK
  <2>6. (PartsOK(req[w]))'
    BY <1>1, <2>3 DEF PartsOK, OwnOK
  <2>7. Stable(u)
    BY <1>6, <2>1, <2>2 DEF Stable, Sized, Done, ids
  <2>8. (UploadOK(u))'
    BY <1>3, <1>4, <1>6, <2>1, <2>2 DEF UploadOK, IsFinal, NewInfo, ids
  <2>9. Owner(r)
    BY <1>2, <1>3, <1>4 DEF Owner
  <2> QED
    BY <1>2, <1>6, <2>1, <2>2, <2>3, <2>4, <2>5, <2>6, <2>7, <2>8, <2>9, OwnerMove
       DEF Moved
<1> QED
  BY <1>2, <1>5, <1>6 DEF RemoveInfo

LEMMA RemoveBinCore ==
  ASSUME Inv, NEW w \in Workers, RemoveBin(w)
  PROVE  Core'
<1>. DEFINE r == req[w]
<1>1. /\ TypeOK /\ r \in Request /\ OwnOK(r) /\ FileOK(r) /\ r.at = "rmBin"
  BY Row DEF RemoveBin, At
<1>2. PICK u \in Uploads : u = r.up
  BY <1>1, RowUpload, LimitBusy
<1>3. UploadOK(u) /\ u \in used /\ u # NoUpload
  BY <1>1, <1>2, RowUpload, LimitBusy
<1>4. infoFile[u] = "none" /\ r.held
  BY <1>1, <1>2 DEF FileOK, OwnOK
<1>5. /\ \/ binFiles' = binFiles \ {u} /\ bin' = [bin EXCEPT ![u] = << >>]
         \/ UNCHANGED << binFiles, bin >>
      /\ UNCHANGED << infoFile, info, ids, completed >>
  BY <1>2 DEF RemoveBin, Removed
<1>6. \A x \in Uploads : x # u => SameFile(x)
  BY <1>1, <1>5 DEF TypeOK, SameFile
<1>7. Moved(w)
  BY <1>1, AfterTerminateMoves DEF RemoveBin
<1>8. Stable(u)
  BY <1>5 DEF Stable, Sized, Done, ids
<1>9. (UploadOK(u))'
  BY <1>3, <1>4, <1>5 DEF UploadOK, ids
<1>10. Owner(r) /\ UNCHANGED ids
  BY <1>2, <1>3, <1>4, <1>5 DEF Owner
<1> QED
  BY <1>2, <1>6, <1>7, <1>8, <1>9, <1>10, OwnerMove

-----------------------------------------------------------------------------
(* Requests arrive, are answered, and are lost in a crash *)

LEMMA BeginsCore ==
  ASSUME Inv, NEW w \in Workers, NEW r, Begins(w, r),
         r.up \in {NoUpload} \cup known, OwnOK(r), ~Creator(r),
         (FileOK(req[w]))', (PartsOK(req[w]))'
  PROVE  Core'
<1>1. UNCHANGED << files, ids, completed >>
  BY DEF Begins, history
<1>2. req'[w] = r /\ \A v \in Workers : v # w => req'[v] = req[v]
  BY Row DEF Begins, TypeOK
<1>3. Moved(w)
  BY <1>2 DEF Moved
<1> QED
  BY <1>1, <1>3, QuietMove

LEMMA PostCore ==
  ASSUME Inv, NEW w \in Workers, NEW size \in Lengths, NEW deferred \in BOOLEAN,
         NEW chunk \in BOOLEAN, Post(w, size, deferred, chunk)
  PROVE  Core'
<1>. DEFINE r == [Idle EXCEPT !.at = "createBin", !.op = "post",
                              !.info.size = size, !.info.deferred = deferred,
                              !.chunk = chunk]
<1>1. SizeAllowed(size) /\ Begins(w, r) /\ req'[w] = r
  BY Row DEF Post, Begins, TypeOK
<1>2. /\ r.at = "createBin" /\ r.op = "post" /\ r.up = NoUpload /\ r.n = 0
      /\ r.off = 0 /\ r.info.size = size /\ r.info.parts = << >>
  BY DEF Idle, NewInfo
<1>. HIDE DEF r
<1>3. OwnOK(r) /\ ~Creator(r)
  BY <1>2 DEF OwnOK, Creator
<1>4. Prepared(r)
  BY <1>1, <1>2 DEF Prepared, IsFinal
<1>5. (FileOK(req[w]))' /\ (PartsOK(req[w]))'
  BY <1>1, <1>2, <1>4 DEF FileOK, Prepared, PartsOK
<1> QED
  BY <1>1, <1>2, <1>3, <1>5, BeginsCore

LEMMA PostFinalCore ==
  ASSUME Inv, NEW w \in Workers, NEW n \in 1 .. MaxParts,
         NEW parts \in [1 .. n -> known], PostFinal(w, parts)
  PROVE  Core'
<1>. DEFINE r == [Idle EXCEPT !.at = "partInfo", !.op = "final",
                              !.info.parts = parts]
<1>1. Begins(w, r) /\ req'[w] = r
  BY Row DEF PostFinal, Begins, TypeOK
<1>2. /\ r.at = "partInfo" /\ r.op = "final" /\ r.up = NoUpload /\ r.n = 0
      /\ r.part = 1 /\ r.info.parts = parts /\ r.info.size = 0
      /\ r.info.deferred = FALSE
  BY DEF Idle, NewInfo
<1>. HIDE DEF r
<1>3. n \in Nat /\ Len(parts) = n /\ parts # << >> /\ DOMAIN parts = 1 .. n
  <2>1. known \subseteq Uploads
    BY Row DEF TypeOK
  <2>2. parts \in Seq(Uploads) /\ Len(parts) = n
    BY <2>1, PartsType
  <2> QED
    BY <2>2, BoundsAssumption
<1>4. OwnOK(r) /\ ~Creator(r)
  BY <1>2 DEF OwnOK, Creator
<1>5. (FileOK(req[w]))'
  BY <1>1, <1>2, <1>3 DEF FileOK, IsFinal
<1>6. known' = known
  BY <1>1 DEF Begins, ids
<1>7. (Checked(req[w], 0))'
  <2>1. PICK c : c = [j \in 0 .. n |-> << >>]
    OBVIOUS
  <2>2. c \in [0 .. n -> Seq(Bytes)] /\ c[0] = << >> /\ Len(c[0]) = 0
    BY <1>3, <2>1
  <2>3. /\ req'[w].info.parts = parts /\ req'[w].info.size = 0
    BY <1>1, <1>2
  <2>4. (Pieces(req[w].info, c, 0))'
    <3>1. c \in [0 .. Len(req'[w].info.parts) -> Seq(Bytes)]
      BY <1>3, <2>2, <2>3
    <3>2. \A j \in 0 .. 0 : Len(c[j]) <= req'[w].info.size
      <4>1. \A j \in 0 .. 0 : j = 0
        OBVIOUS
      <4>2. Len(c[0]) <= req'[w].info.size
        BY <2>2, <2>3
      <4> QED
        BY <4>1, <4>2
    <3>3. 1 .. 0 = {}
      OBVIOUS
    <3> QED
      BY <2>2, <3>1, <3>2, <3>3 DEF Pieces
  <2> QED
    BY <1>3, <2>2, <2>3, <2>4 DEF Checked
<1>8. (PartsOK(req[w]))'
  <2>1. (Checked(req[w], req[w].part - 1))'
    <3>1. req'[w].part - 1 = 0
      BY <1>1, <1>2
    <3> QED
      BY <1>7, <3>1
  <2>2. \A j \in DOMAIN req'[w].info.parts : req'[w].info.parts[j] \in known'
    BY <1>1, <1>2, <1>3, <1>6
  <2> QED
    BY <1>1, <1>2, <2>1, <2>2 DEF PartsOK
<1> QED
  BY <1>1, <1>2, <1>4, <1>5, <1>8, BeginsCore

LEMMA AskCore ==
  ASSUME Inv, NEW w \in Workers, NEW u \in known,
         NEW op \in {"patch", "look", "del"}, Ask(w, u, op)
  PROVE  Core'
<1>. DEFINE r == [Idle EXCEPT !.at = "lock", !.op = op, !.up = u]
<1>1. Begins(w, r) /\ req'[w] = r
  BY Row DEF Ask, Begins, TypeOK
<1>2. /\ r.at = "lock" /\ r.op = op /\ r.up = u /\ r.n = 0
  BY DEF Idle
<1>. HIDE DEF r
<1>3. OwnOK(r) /\ ~Creator(r)
  BY <1>2 DEF OwnOK, Creator
<1>4. (FileOK(req[w]))' /\ (PartsOK(req[w]))'
  BY <1>1, <1>2 DEF FileOK, PartsOK
<1> QED
  BY <1>1, <1>2, <1>3, <1>4, BeginsCore

LEMMA RequestsCore ==
  ASSUME Inv, NEW w \in Workers, Requests(w)
  PROVE  Core'
BY PostCore, PostFinalCore, AskCore DEF Requests

LEMMA ReplyCore ==
  ASSUME Inv, NEW w \in Workers, Reply(w)
  PROVE  Core'
<1>. DEFINE r == req[w]
<1>1. /\ IInv /\ TypeOK /\ r \in Request /\ OwnOK(r) /\ r.at = "reply"
      /\ Alone(w) /\ PartsOK(r)
  BY Row DEF Reply, At, Inv, OwnInv
<1>2. UNCHANGED << files, used, completed >> /\ known' = known \cup Names(r)
  BY DEF Reply
<1>3. /\ \A v \in Workers : v # w => req'[v] = req[v]
      /\ req'[w] \in {[r EXCEPT !.at = "unlock", !.off = 0], Idle}
  BY <1>1 DEF Reply, TypeOK
<1>4. Creator(r) => known' = known
  BY <1>2 DEF Creator, Names
<1>5. \/ /\ req'[w].op = "none" /\ req'[w].at = "idle" /\ req'[w].up = NoUpload
      \/ /\ req'[w].op = r.op /\ req'[w].at = "unlock" /\ req'[w].up = r.up
         /\ req'[w].info = r.info
  <2>1. CASE req'[w] = Idle
    BY <2>1 DEF Idle
  <2>2. CASE req'[w] = [r EXCEPT !.at = "unlock", !.off = 0]
    BY <1>1, <2>2 DEF Request
  <2> QED
    BY <1>3, <2>1, <2>2
<1>6. OwnOK(req'[w]) /\ (Creator(req'[w]) => Creator(r) /\ req'[w].up = r.up)
  BY <1>5 DEF OwnOK, Creator
<1>7. (FileOK(req[w]))' /\ (PartsOK(req[w]))'
  BY <1>1, <1>2, <1>5 DEF FileOK, PartsOK
<1>8. OwnInv'
  <2>1. ASSUME NEW v \in Workers, v # w
        PROVE  (OwnOK(req[v]) /\ Alone(v))'
    <3>1. OwnOK(req[v]) /\ Alone(v) /\ req'[v] = req[v]
      BY <1>3, <2>1 DEF Inv, OwnInv
    <3>2. Creator(req[v]) => /\ req[v].up \notin known' /\ r.up # req[v].up
                             /\ req[v].up # NoUpload
      BY <1>2, <2>1, <3>1 DEF Alone, Names, Creator
    <3>3. \A x \in Workers : x # w => req'[x].up = req[x].up
      BY <1>3
    <3>4. (Alone(v))'
      BY <1>5, <3>1, <3>2, <3>3 DEF Alone, Creator
    <3> QED
      BY <3>1, <3>4 DEF OwnOK
  <2> QED
    <3>1. (Alone(w))'
      BY <1>1, <1>3, <1>4, <1>6 DEF Alone
    <3> QED
      BY <1>6, <2>1, <3>1 DEF OwnInv, OwnOK
<1>9. \A u \in Uploads : SameFile(u)
  BY <1>2 DEF SameFile, files
<1> QED
  BY <1>2, <1>3, <1>7, <1>8, <1>9, Frame, UploadsAssumption DEF Owner

LEMMA CrashCore ==
  ASSUME Inv, Crash
  PROVE  Core'
<1>1. TypeOK /\ UploadsInv
  BY DEF Inv, IInv
<1>2. UNCHANGED << files, ids, completed >> /\ req' = [w \in Workers |-> Idle]
  BY DEF Crash
<1>3. \A w \in Workers : req'[w] = Idle
  BY <1>2
<1>4. /\ Idle.at = "idle" /\ Idle.op = "none"
  BY DEF Idle
<1>5. OwnInv' /\ FilesInv' /\ PartsInv'
  BY <1>3, <1>4
     DEF OwnInv, OwnOK, Alone, Creator, FilesInv, FileOK, PartsInv, PartsOK
<1>6. \A u \in Uploads : SameFile(u) /\ Stable(u)
  BY <1>2, QuietStable DEF SameFile, files, ids
<1>7. UploadsInv'
  BY <1>1, <1>2, <1>6, OtherUploadOK DEF UploadsInv, ids
<1> QED
  BY <1>5, <1>7 DEF Core

-----------------------------------------------------------------------------
(* NewUpload, DeclareLength and WriteChunk *)

LEMMA CreateBinCore ==
  ASSUME Inv, NEW w \in Workers, CreateBin(w)
  PROVE  Core'
<1>. DEFINE r == req[w]
<1>1. /\ IInv /\ TypeOK /\ PlaceInv /\ r \in Request /\ OwnOK(r) /\ FileOK(r)
      /\ PartsOK(r) /\ r.at = "createBin" /\ r.info \in Info
  BY Row DEF CreateBin, At, Inv
<1>2. PICK u \in IdsLeft :
        /\ used' = used \cup {u} /\ binFiles' = binFiles \cup {u}
        /\ req' = [req EXCEPT ![w].at = "truncInfo", ![w].up = u]
  BY DEF CreateBin
<1>3. UNCHANGED << infoFile, info, bin, known, completed >>
  BY DEF CreateBin, history
<1>4. u \in Uploads /\ u \notin used /\ u \notin known /\ u # NoUpload
  BY <1>1, UploadsAssumption DEF IdsLeft, TypeOK
<1>5. UploadOK(u) /\ infoFile[u] = "none" /\ bin[u] = << >> /\ completed[u] = 0
  BY <1>4 DEF Inv, UploadsInv, UploadOK
<1>6. \A v \in Workers : req[v].up # u
  BY <1>1, <1>4 DEF PlaceInv
<1>7. /\ req'[w] = [r EXCEPT !.at = "truncInfo", !.up = u]
      /\ \A v \in Workers : v # w => req'[v] = req[v]
  BY <1>1, <1>2 DEF TypeOK
<1>8. /\ req'[w].at = "truncInfo" /\ req'[w].up = u /\ req'[w].op = r.op
      /\ req'[w].info = r.info /\ req'[w].part = r.part
      /\ req'[w].off = r.off /\ req'[w].n = r.n
  BY <1>1, <1>7 DEF Request
<1>9. r.op \in {"post", "final"} /\ r.up = NoUpload /\ Prepared(r)
  BY <1>1 DEF OwnOK, FileOK
<1>10. OwnInv'
  <2>1. OwnOK(req'[w])
    BY <1>8, <1>9 DEF OwnOK
  <2>2. ASSUME NEW v \in Workers, v # w
        PROVE  (OwnOK(req[v]) /\ Alone(v))'
    <3>1. OwnOK(req[v]) /\ Alone(v) /\ req'[v] = req[v]
      BY <1>7, <2>2 DEF Inv, OwnInv
    <3>2. \A x \in Workers \ {v} : req'[x].up = req[x].up \/ req'[x].up = u
      BY <1>7, <1>8
    <3>3. (Alone(v))'
      BY <1>3, <1>6, <3>1, <3>2 DEF Alone, Creator
    <3> QED
      BY <3>1, <3>3 DEF OwnOK
  <2>3. (Alone(w))'
    BY <1>3, <1>4, <1>6, <1>7, <1>8 DEF Alone
  <2>4. \A v \in Workers : (OwnOK(req[v]) /\ Alone(v))'
    BY <2>1, <2>2, <2>3 DEF OwnOK
  <2> QED
    BY <2>4 DEF OwnInv
<1>11. \A x \in Uploads : x # u => SameFile(x)
  BY <1>1, <1>2, <1>3 DEF SameFile
<1>12. Stable(u)
  BY <1>4 DEF Stable, Sized, Done
<1>13. \A x \in Uploads : Stable(x)
  BY <1>3, <1>11, <1>12, SameStable
<1>14. (UploadOK(u))'
  BY <1>2, <1>3, <1>5 DEF UploadOK
<1>15. (FileOK(req[w]))'
  BY <1>2, <1>3, <1>5, <1>8, <1>9 DEF FileOK, Prepared, Fresh
<1>16. (PartsOK(req[w]))'
  <2>1. CASE r.op = "final"
    <3>1. r.part = 1 /\ Checked(r, Len(r.info.parts)) /\ r.info \in Info
      BY <1>1, <2>1 DEF PartsOK
    <3>2. PICK k \in Nat : k = Len(r.info.parts)
      BY <1>1 DEF Info
    <3>3. (Checked(req[w], k))'
      BY <1>1, <1>8, <1>13, <3>1, <3>2, CheckedStable
    <3>4. (Checked(req[w], Len(req[w].info.parts)))'
      BY <1>8, <3>2, <3>3
    <3> QED
      BY <1>1, <1>3, <1>8, <2>1, <3>1, <3>4 DEF PartsOK
  <2>2. CASE r.op = "post"
    BY <1>8, <2>2 DEF PartsOK
  <2> QED
    BY <1>9, <2>1, <2>2
<1>17. /\ u \in Uploads \cup {NoUpload} /\ known \subseteq known'
       /\ used \subseteq used' /\ used' \subseteq used \cup {u}
       /\ \A v \in Workers : v # w => req'[v] = req[v]
       /\ \A v \in Workers : v # w /\ Owner(req[v]) => req[v].up # u
  BY <1>2, <1>3, <1>4, <1>6, <1>7
<1> QED
  BY <1>10, <1>11, <1>12, <1>14, <1>15, <1>16, <1>17, Frame

LEMMA TruncInfoCore ==
  ASSUME Inv, NEW w \in Workers, TruncInfo(w)
  PROVE  Core'
<1>. DEFINE r == req[w]
<1>1. /\ TypeOK /\ r \in Request /\ OwnOK(r) /\ FileOK(r) /\ PartsOK(r)
      /\ Alone(w) /\ r.at = "truncInfo" /\ r.info \in Info
  BY Row DEF TruncInfo, At, OwnInv
<1>2. PICK u \in Uploads : u = r.up
  BY <1>1, RowUpload, LimitBusy
<1>3. UploadOK(u) /\ u \in used /\ u # NoUpload
  BY <1>1, <1>2, RowUpload, LimitBusy
<1>4. CASE InfoFails(w)
  <2>1. UNCHANGED << files, ids, completed >>
    BY <1>4 DEF TruncInfo, InfoFails, files
  <2> QED
    BY <1>1, <1>4, <2>1, InfoFailsMoves, QuietMove
<1>5. CASE infoFile' = [infoFile EXCEPT ![u] = "torn"] /\ Goes(w, "writeInfo")
  <2>1. UNCHANGED << info, binFiles, bin, ids, completed >>
    BY DEF TruncInfo
  <2>2. infoFile'[u] = "torn" /\ \A x \in Uploads : x # u => SameFile(x)
    BY <1>1, <1>5, <2>1 DEF TypeOK, SameFile
  <2>3. /\ req'[w].at = "writeInfo" /\ req'[w].op = r.op /\ req'[w].up = u
        /\ req'[w].info = r.info /\ req'[w].part = r.part
        /\ req'[w].off = r.off /\ req'[w].n = r.n /\ req'[w].held = r.held
        /\ \A v \in Workers : v # w => req'[v] = req[v]
    BY <1>1, <1>2, <1>5, <2>1, GoesTo
  <2>4. OwnOK(req'[w]) /\ (Creator(req'[w]) => Creator(r))
    BY <1>1, <1>2, <2>3 DEF OwnOK, Creator
  <2>5. Owner(r)
    BY <1>1, <1>2, <1>3 DEF Owner, OwnOK, Creator
  <2>6. u \in binFiles /\ ~IsFinal(info[u]) /\ ~(\E n \in Nat : Sized(u, n))
    <3>1. CASE r.op = "patch"
      BY <1>1, <1>2, <3>1 DEF FileOK, Declaring, Sized
    <3>2. CASE r.op \in {"post", "final"}
      <4>1. u \notin known
        BY <1>1, <1>2, <1>3, <3>2 DEF Alone, Creator
      <4> QED
        BY <1>1, <1>2, <1>3, <3>2, <4>1 DEF FileOK, Fresh, Sized, UploadOK
    <3> QED
      BY <1>1, <3>1, <3>2 DEF OwnOK
  <2>7. Stable(u)
    BY <2>6, LenBytes DEF Stable, Done
  <2>8. \A x \in Uploads : Stable(x)
    BY <1>5, <2>1, <2>2, <2>7, SameStable DEF ids
  <2>9. (UploadOK(u))'
    BY <1>3, <1>5, <2>1, <2>2, <2>6 DEF UploadOK, ids
  <2>10. (FileOK(req[w]))'
    <3>1. CASE r.op = "patch"
      <4>1. Declaring(r)
        BY <1>1, <3>1 DEF FileOK
      <4>2. (Declaring(req[w]))'
        BY <1>2, <1>5, <2>1, <2>3, <4>1 DEF Declaring, InOrder
      <4> QED
        BY <2>2, <2>3, <3>1, <4>2 DEF FileOK
    <3>2. CASE r.op # "patch"
      <4>1. Prepared(r) /\ Fresh(u)
        BY <1>1, <1>2, <3>2 DEF FileOK
      <4>2. (Prepared(req[w]) /\ Fresh(req[w].up))'
        BY <1>2, <1>5, <2>1, <2>3, <4>1 DEF Prepared, Fresh
      <4> QED
        BY <2>2, <2>3, <3>2, <4>2 DEF FileOK
    <3> QED
      BY <3>1, <3>2
  <2>11. (PartsOK(req[w]))'
    <3>1. CASE r.op = "final"
      <4>1. r.part = 1 /\ Checked(r, Len(r.info.parts))
        BY <1>1, <3>1 DEF PartsOK
      <4>2. PICK k \in Nat : k = Len(r.info.parts)
        BY <1>1 DEF Info
      <4>3. (Checked(req[w], k))'
        BY <1>1, <2>3, <2>8, <4>1, <4>2, CheckedStable
      <4>4. (Checked(req[w], Len(req[w].info.parts)))'
        BY <2>3, <4>2, <4>3
      <4> QED
        BY <1>1, <1>5, <2>1, <2>3, <3>1, <4>1, <4>4 DEF PartsOK, ids
    <3>2. CASE r.op # "final"
      BY <2>3, <3>2 DEF PartsOK
    <3> QED
      BY <3>1, <3>2
  <2> QED
    BY <1>2, <1>5, <2>1, <2>2, <2>3, <2>4, <2>5, <2>7, <2>9, <2>10, <2>11, OwnerMove
       DEF Moved
<1> QED
  BY <1>2, <1>4, <1>5 DEF TruncInfo

\* After the info file is written, the request is where AfterInfo says.
LEMMA AfterInfoMoves ==
  ASSUME Inv, NEW w \in Workers, req[w].at = "writeInfo", AfterInfo(w),
         NEW u \in Uploads, u = req[w].up,
         infoFile'[u] = "whole", info'[u] = req[w].info,
         bin' = bin, binFiles' = binFiles, known' = known,
         completed' = completed, \A x \in Uploads : Stable(x)
  PROVE  Moved(w)
<1>. DEFINE r == req[w]
<1>1. /\ TypeOK /\ r \in Request /\ OwnOK(r) /\ FileOK(r) /\ PartsOK(r)
      /\ r.info \in Info
  BY Row
<1>2. CASE Answers(w, Unknown)
  BY <1>1, <1>2, AnswerMoves
<1>3. ASSUME NEW label \in {"begin", "copy", "lock", "finish"}, Goes(w, label),
             label = "begin" => r.op = "patch",
             label = "copy" => r.op = "final",
             label = "lock" => r.op = "post",
             label = "finish" => r.op = "post" /\ IsComplete(r.info, 0)
      PROVE  Moved(w)
  <2>1. /\ req'[w].at = label /\ req'[w].op = r.op /\ req'[w].up = u
        /\ req'[w].info = r.info /\ req'[w].part = r.part
        /\ req'[w].off = r.off /\ req'[w].n = r.n /\ req'[w].held = r.held
        /\ \A v \in Workers : v # w => req'[v] = req[v]
    BY <1>1, <1>3, GoesTo
  <2>2. /\ r.op = "patch" => Declaring(r)
        /\ r.op # "patch" => Prepared(r) /\ Fresh(u)
    BY <1>1 DEF FileOK
  <2>3. OwnOK(req'[w]) /\ (Creator(req'[w]) => Creator(r))
    BY <1>1, <1>3, <2>1 DEF OwnOK, Creator
  <2>4. (Shows(req[w]))'
    BY <2>1 DEF Shows
  <2>5. r.op # "final" => (Appends(req[w]))'
    <3>1. CASE r.op = "patch"
      BY <1>1, <2>1, <2>2, <2>4, <3>1 DEF Appends, Declaring, Request
    <3>2. CASE r.op = "post"
      <4>1. Len(bin[u]) = 0
        BY <2>2, <3>2 DEF Fresh
      <4> QED
        BY <2>1, <2>2, <2>4, <3>2, <4>1 DEF Appends, Prepared, Fresh
    <3>3. r.op \in {"patch", "post", "final"}
      BY <1>1 DEF OwnOK
    <3> QED
      BY <3>1, <3>2, <3>3
  <2>6. (FileOK(req[w]))'
    <3>1. CASE r.op = "final"
      BY <1>3, <2>1, <2>2, <2>4, <3>1 DEF FileOK, Prepared, Fresh, IsFinal
    <3>2. CASE r.op # "final"
      BY <1>3, <2>1, <2>2, <2>5, <3>2 DEF FileOK, Declaring, Prepared
    <3> QED
      BY <3>1, <3>2
  <2>7. (PartsOK(req[w]))'
    <3>1. CASE r.op = "final"
      <4>1. label = "copy"
        BY <1>3, <3>1
      <4>2. /\ r.part = 1 /\ Checked(r, Len(r.info.parts)) /\ bin[u] = << >>
            /\ IsFinal(r.info)
        BY <1>1, <2>2, <3>1 DEF PartsOK, Fresh, Prepared
      <4>3. PICK k \in Nat : k = Len(r.info.parts)
        BY <1>1 DEF Info
      <4>4. (Checked(req[w], k))'
        BY <1>1, <2>1, <4>2, <4>3, CheckedStable
      <4>5. PICK c \in [0 .. k -> Seq(Bytes)] :
              (Pieces(req[w].info, c, k))' /\ Len(c[k]) = r.info.size
        BY <2>1, <4>3, <4>4 DEF Checked
      <4>6. c[0] = << >>
        BY <4>5 DEF Pieces
      <4>7. (Copied(req[w]))'
        BY <2>1, <4>2, <4>3, <4>5, <4>6 DEF Copied
      <4>8. 1 \in DOMAIN r.info.parts
        BY <1>1, <4>2 DEF Info, IsFinal
      <4>9. \A j \in DOMAIN r.info.parts : r.info.parts[j] \in known'
        BY <1>1, <3>1 DEF PartsOK
      <4> QED
        BY <2>1, <4>1, <4>2, <4>7, <4>8, <4>9 DEF PartsOK
    <3>2. CASE r.op # "final"
      BY <1>3, <2>1, <3>2 DEF PartsOK
    <3> QED
      BY <3>1, <3>2
  <2> QED
    BY <1>3, <2>1, <2>3, <2>6, <2>7 DEF Moved
<1> QED
  BY <1>2, <1>3 DEF AfterInfo

LEMMA WriteInfoCore ==
  ASSUME Inv, NEW w \in Workers, WriteInfo(w)
  PROVE  Core'
<1>. DEFINE r == req[w]
<1>1. /\ TypeOK /\ r \in Request /\ OwnOK(r) /\ FileOK(r) /\ PartsOK(r)
      /\ r.at = "writeInfo" /\ r.info \in Info
  BY Row DEF WriteInfo, At
<1>2. PICK u \in Uploads : u = r.up
  BY <1>1, RowUpload, LimitBusy
<1>3. UploadOK(u) /\ u \in used /\ u # NoUpload /\ infoFile[u] = "torn"
  BY <1>1, <1>2, RowUpload, LimitBusy DEF FileOK
<1>4. CASE InfoFails(w) /\ UNCHANGED info
  <2>1. UNCHANGED << files, ids, completed >>
    BY <1>4 DEF WriteInfo, InfoFails, files
  <2> QED
    BY <1>1, <1>4, <2>1, InfoFailsMoves, QuietMove
<1>5. CASE /\ infoFile' = [infoFile EXCEPT ![u] = "whole"]
           /\ info' = [info EXCEPT ![u] = r.info]
           /\ AfterInfo(w)
  <2>1. UNCHANGED << binFiles, bin, ids, completed >>
    BY DEF WriteInfo
  <2>2. /\ infoFile'[u] = "whole" /\ info'[u] = r.info
        /\ \A x \in Uploads : x # u => SameFile(x)
    BY <1>1, <1>5, <2>1 DEF TypeOK, SameFile
  <2>3. Stable(u)
    BY <1>3 DEF Stable, Sized, Done
  <2>4. known' = known /\ \A x \in Uploads : Stable(x)
    BY <1>5, <2>1, <2>2, <2>3, SameStable DEF ids
  <2>5. Moved(w)
    BY <1>1, <1>2, <1>5, <2>1, <2>2, <2>4, AfterInfoMoves
  <2>6. Owner(r)
    BY <1>1, <1>2, <1>3 DEF Owner, OwnOK, Creator
  <2>7. (UploadOK(u))'
    <3>1. CASE r.op = "patch"
      <4>1. /\ u \in binFiles /\ InOrder(u) /\ completed[u] = 0
            /\ ~IsFinal(r.info) /\ Len(bin[u]) <= r.info.size
            /\ SizeAllowed(r.info.size)
        BY <1>1, <1>2, <3>1 DEF FileOK, Declaring
      <4> QED
        BY <1>3, <1>5, <2>1, <2>2, <4>1 DEF UploadOK, InOrder, ids
    <3>2. CASE r.op # "patch"
      <4>1. /\ u \in binFiles /\ bin[u] = << >> /\ completed[u] = 0
            /\ SizeAllowed(r.info.size) /\ r.info.size \in Nat
            /\ IsFinal(r.info) => ~r.info.deferred
        BY <1>1, <1>2, <3>2 DEF FileOK, Prepared, Fresh, OwnOK, Info
      <4>2. Len(<< >>) = 0 /\ DOMAIN << >> = {}
        OBVIOUS
      <4>3. (InOrder(u))'
        BY <1>5, <2>1, <4>1, <4>2 DEF InOrder
      <4> QED
        BY <1>3, <1>5, <2>1, <2>2, <4>1, <4>2, <4>3 DEF UploadOK, ids
    <3> QED
      BY <3>1, <3>2
  <2> QED
    BY <1>2, <1>5, <2>1, <2>2, <2>3, <2>5, <2>6, <2>7, OwnerMove
<1> QED
  BY <1>2, <1>3, <1>4, <1>5 DEF WriteInfo

\* The body of a known length ends inside the upload.
LEMMA WritesInside ==
  ASSUME NEW r, FileOK(r), r.at = "write"
  PROVE  r.info.deferred \/ r.len <= 0 \/ r.off + r.len <= r.info.size
BY DEF FileOK

LEMMA WriteByteCore ==
  ASSUME Inv, NEW w \in Workers, WriteByte(w)
  PROVE  Core'
<1>. DEFINE r == req[w]
<1>1. /\ TypeOK /\ r \in Request /\ OwnOK(r) /\ FileOK(r) /\ r.at = "write"
      /\ r.info \in Info
  BY Row DEF WriteByte, At
<1>2. PICK u \in Uploads : u = r.up
  BY <1>1, RowUpload, LimitBusy
<1>3. UploadOK(u) /\ u \in used /\ u # NoUpload /\ bin[u] \in Seq(Bytes)
  BY <1>1, <1>2, RowUpload, LimitBusy
<1>4. /\ infoFile[u] = "whole" /\ info[u] = r.info /\ ~IsFinal(r.info)
      /\ completed[u] = 0 /\ Len(bin[u]) = r.off + r.n /\ u \in binFiles
      /\ r.held /\ r.op \in {"post", "patch"}
  BY <1>1, <1>2, <1>3 DEF FileOK, Appends, Shows, UploadOK, OwnOK
<1>5. PICK position : position = r.off + r.n + 1
  OBVIOUS
<1>6. /\ More(r) /\ bin' = [bin EXCEPT ![u] = Append(bin[u], << u, position >>)]
      /\ req' = [req EXCEPT ![w].n = @ + 1]
      /\ UNCHANGED << infoFile, info, binFiles, ids, completed >>
  BY <1>2, <1>4, <1>5 DEF WriteByte, history
<1>7. r.n \in Nat /\ Len(bin[u]) \in Nat /\ position = Len(bin[u]) + 1
      /\ position \in Nat
  BY <1>1, <1>3, <1>4, <1>5, LenBytes DEF Request
<1>8. ~r.info.deferred => position <= r.info.size
  <2>1. /\ r.n < Limit(r, r.len)
        /\ r.len \in Nat \cup {Unknown} /\ r.off \in Nat \cup {Unknown}
    <3>1. r.n < Limit(r, r.len)
      BY <1>6 DEF More
    <3>2. r.len \in Nat \cup {Unknown} /\ r.off \in Nat \cup {Unknown}
      BY <1>1 DEF Request
    <3> QED
      BY <3>1, <3>2
  <2>2. ~r.info.deferred => r.info.size \in Nat
    BY <1>1 DEF Info
  <2>3. ~r.info.deferred /\ r.len > 0 => r.off + r.len <= r.info.size
    BY <1>1, <2>1, WritesInside DEF Unknown
  <2> QED
    BY <1>5, <1>7, <2>1, <2>2, <2>3 DEF Limit, Unknown
<1>9. \A x \in Uploads : x # u => SameFile(x)
  BY <1>1, <1>6 DEF TypeOK, SameFile
<1>10. bin'[u] = Append(bin[u], << u, position >>)
  BY <1>1, <1>6 DEF TypeOK
<1>11. /\ Len(bin'[u]) = position
       /\ \A i \in DOMAIN bin'[u] : i \in DOMAIN bin[u] \/ i = position
       /\ \A i \in DOMAIN bin[u] : bin'[u][i] = bin[u][i]
       /\ bin'[u][position] = << u, position >>
  <2>1. << u, position >> \in Bytes
    BY <1>7 DEF Bytes
  <2> QED
    BY <1>3, <1>7, <1>10, <2>1
<1>12. /\ req'[w].at = "write" /\ req'[w].op = r.op /\ req'[w].up = u
       /\ req'[w].info = r.info /\ req'[w].off = r.off /\ req'[w].n = r.n + 1
       /\ req'[w].held = r.held /\ req'[w].len = r.len
       /\ \A v \in Workers : v # w => req'[v] = req[v]
  <2>1. req'[w] = [r EXCEPT !.n = r.n + 1]
    BY <1>1, <1>6 DEF TypeOK
  <2> QED
    BY <1>1, <1>2, <1>6, <2>1 DEF Request, TypeOK
<1>13. OwnOK(req'[w]) /\ (Creator(req'[w]) => Creator(r))
  BY <1>2, <1>4, <1>12 DEF OwnOK, Creator
<1>14. (FileOK(req[w]))'
  <2>1. (Appends(req[w]))'
    BY <1>1, <1>4, <1>5, <1>6, <1>11, <1>12
       DEF Appends, Shows, Request, Unknown
  <2>2. r.info.deferred \/ r.len <= 0 \/ r.off + r.len <= r.info.size
    BY <1>1 DEF FileOK
  <2> QED
    BY <1>12, <2>1, <2>2 DEF FileOK
<1>15. (PartsOK(req[w]))'
  BY <1>4, <1>12 DEF PartsOK
<1>16. Stable(u)
  <2>1. ASSUME NEW n \in Nat, Sized(u, n)
        PROVE  (Sized(u, n))' /\ n # Len(bin[u])
    BY <1>4, <1>6, <1>7, <1>8, <2>1 DEF Sized, ids
  <2>2. ASSUME NEW b \in Seq(Bytes), Done(u, b)
        PROVE  (Done(u, b))'
    BY <1>4, <2>1, <2>2, LenBytes DEF Done
  <2> QED
    BY <2>1, <2>2 DEF Stable
<1>17. (UploadOK(u))'
  <2>1. InOrder(u)
    BY <1>3, <1>4 DEF UploadOK
  <2>2. (InOrder(u))'
    BY <1>11, <2>1 DEF InOrder
  <2>3. ~info[u].deferred => Len(bin'[u]) <= info[u].size /\ SizeAllowed(info[u].size)
    BY <1>3, <1>4, <1>8, <1>11 DEF UploadOK
  <2> QED
    BY <1>3, <1>4, <1>6, <2>2, <2>3 DEF UploadOK, ids
<1>18. Owner(r)
  BY <1>2, <1>3, <1>4 DEF Owner
<1> QED
  BY <1>2, <1>6, <1>9, <1>12, <1>13, <1>14, <1>15, <1>16, <1>17, <1>18, OwnerMove
     DEF Moved

-----------------------------------------------------------------------------
(* ConcatUploads *)

\* A part of which only some bytes are copied
LEMMA PrefixLen ==
  ASSUME NEW s \in Seq(Bytes), NEW b \in Seq(Bytes), NEW n \in 0 .. Len(b)
  PROVE  /\ Len(s \o SubSeq(b, 1, n)) \in Nat
         /\ Len(s \o SubSeq(b, 1, n)) <= Len(s \o b)
<1>1. SubSeq(b, 1, n) \in Seq(Bytes) /\ Len(SubSeq(b, 1, n)) = n
  BY PrefixType
<1>2. /\ Len(s \o SubSeq(b, 1, n)) = Len(s) + n
      /\ Len(s \o b) = Len(s) + Len(b)
  BY <1>1
<1>3. Len(s) \in Nat /\ Len(b) \in Nat
  BY LenBytes
<1> QED
  BY <1>2, <1>3

LEMMA CopyCore ==
  ASSUME Inv, NEW w \in Workers, Copy(w)
  PROVE  Core'
<1>. DEFINE r == req[w]
            p == r.info.parts[r.part]
            last == r.part = Len(r.info.parts)
<1>1. /\ TypeOK /\ r \in Request /\ OwnOK(r) /\ FileOK(r) /\ PartsOK(r)
      /\ Alone(w) /\ r.at = "copy" /\ r.info \in Info
  BY Row DEF Copy, At, OwnInv
<1>2. PICK u \in Uploads : u = r.up
  BY <1>1, RowUpload, LimitBusy
<1>3. UploadOK(u) /\ u \in used /\ u # NoUpload
  BY <1>1, <1>2, RowUpload, LimitBusy
<1>4. /\ infoFile[u] = "whole" /\ info[u] = r.info /\ IsFinal(r.info)
      /\ completed[u] = 0 /\ r.op = "final" /\ r.off = 0 /\ r.n = 0
      /\ ~r.info.deferred /\ u \in binFiles
  BY <1>1, <1>2, <1>3 DEF FileOK, Shows, OwnOK, UploadOK
<1>5. u \notin known /\ Owner(r) /\ Creator(r)
  BY <1>1, <1>2, <1>3, <1>4 DEF Alone, Owner, Creator
<1>6. UNCHANGED << infoFile, info, binFiles, ids >>
  BY DEF Copy
<1>7. Stable(u)
  BY <1>5 DEF Stable, Sized, Done
<1>8. CASE Fails(w) /\ UNCHANGED << bin, completed >>
  BY <1>1, <1>6, <1>8, FailMoves, QuietMove DEF files
<1>9. PICK N \in Nat : N = Len(r.info.parts)
  BY <1>1 DEF Info
<1>10. PICK c \in [0 .. N -> Seq(Bytes)] :
         Pieces(r.info, c, N) /\ Len(c[N]) = r.info.size
         /\ bin[u] = c[r.part - 1]
  BY <1>1, <1>2, <1>9 DEF PartsOK, Copied
<1>11. PICK k \in 1 .. N : k = r.part
  <2>1. r.part \in DOMAIN r.info.parts
    BY <1>1 DEF PartsOK
  <2> QED
    BY <1>1, <1>9, <2>1 DEF Info
<1>12. PICK i \in Info : i = r.info
  BY <1>1
<1>13. p \in binFiles => /\ p \in Uploads /\ bin[p] \in Seq(Bytes)
                         /\ c[k] = c[k - 1] \o bin[p]
  <2> SUFFICES ASSUME p \in binFiles
               PROVE  /\ p \in Uploads /\ bin[p] \in Seq(Bytes)
                      /\ c[k] = c[k - 1] \o bin[p]
    OBVIOUS
  <2>1. Pieces(i, c, N) /\ p = i.parts[k]
    BY <1>10, <1>11, <1>12
  <2>2. PICK b \in Seq(Bytes) : c[k] = c[k - 1] \o b /\ Done(i.parts[k], b)
    BY <2>1 DEF Pieces
  <2>3. bin[p] = b
    BY <2>1, <2>2 DEF Done
  <2> QED
    BY <1>1, <2>2, <2>3 DEF TypeOK
<1>14. Len(c[k]) <= i.size
  <2>1. k \in 0 .. N /\ \A j \in 0 .. N : Len(c[j]) <= i.size
    BY <1>10, <1>12 DEF Pieces
  <2> QED
    BY <2>1
<1>15. ASSUME p \in binFiles, Fails(w), UNCHANGED completed,
              NEW n \in 0 .. Len(bin[p]),
              bin' = [bin EXCEPT ![r.up] = @ \o SubSeq(bin[p], 1, n)]
       PROVE  Core'
  <2>1. /\ bin'[u] = c[k - 1] \o SubSeq(bin[p], 1, n)
        /\ \A x \in Uploads : x # u => bin'[x] = bin[x]
    BY <1>1, <1>2, <1>10, <1>11, <1>15 DEF TypeOK
  <2>2. Len(bin'[u]) <= i.size
    <3>1. c[k - 1] \in Seq(Bytes) /\ c[k] \in Seq(Bytes)
      BY <1>10, <1>11
    <3>2. Len(c[k - 1] \o SubSeq(bin[p], 1, n)) <= Len(c[k - 1] \o bin[p])
      BY <1>13, <1>15, <3>1, PrefixLen
    <3>3. Len(c[k - 1] \o SubSeq(bin[p], 1, n)) <= Len(c[k])
      BY <1>13, <1>15, <3>2
    <3>4. Len(c[k]) \in Nat /\ i.size \in Nat
      BY <1>12, <3>1, LenBytes DEF Info
    <3>5. Len(c[k - 1] \o SubSeq(bin[p], 1, n)) \in Nat
      BY <1>13, <1>15, <3>1, PrefixLen
    <3>. DEFINE n1 == Len(c[k - 1] \o SubSeq(bin[p], 1, n))
                n2 == Len(c[k])
    <3>6. n1 <= n2 /\ n2 <= i.size /\ n1 \in Nat /\ n2 \in Nat /\ i.size \in Nat
      BY <1>14, <3>3, <3>4, <3>5
    <3>7. Len(bin'[u]) = n1
      BY <2>1
    <3>. HIDE DEF n1, n2
    <3>8. n1 <= i.size
      BY ONLY <3>6
    <3> QED
      BY ONLY <3>7, <3>8
  <2>3. \A x \in Uploads : x # u => SameFile(x)
    BY <1>6, <1>15, <2>1 DEF SameFile
  <2>4. /\ infoFile'[u] = "whole" /\ info'[u] = i /\ IsFinal(i) /\ ~i.deferred
        /\ u \in used' /\ u \in binFiles' /\ SizeAllowed(i.size)
        /\ completed'[u] = 0
    BY <1>3, <1>4, <1>6, <1>12, <1>15 DEF UploadOK, ids
  <2>5. (UploadOK(u))'
    BY <2>2, <2>4 DEF UploadOK
  <2>6. Moved(w)
    BY <1>1, <1>15, FailMoves
  <2> QED
    BY <1>2, <1>5, <1>6, <1>7, <2>3, <2>5, <2>6, OwnerMove
<1>16. CASE /\ p \in binFiles
            /\ bin' = [bin EXCEPT ![r.up] = @ \o bin[p]]
            /\ completed' = IF last THEN [completed EXCEPT ![r.up] = @ + 1]
                                    ELSE completed
            /\ IF ~last THEN req' = [req EXCEPT ![w].part = @ + 1]
               ELSE IF r.info.size = 0 THEN Goes(w, "finish")
               ELSE Answers(w, Unknown)
  <2>1. bin'[u] = c[k]
    BY <1>1, <1>2, <1>10, <1>11, <1>13, <1>16 DEF TypeOK
  <2>2. /\ \A x \in Uploads : x # u => SameFile(x)
        /\ completed'[u] = IF last THEN 1 ELSE 0
    <3>1. \A x \in Uploads : x # u => /\ bin'[x] = bin[x]
                                      /\ completed'[x] = completed[x]
      BY <1>1, <1>2, <1>16 DEF TypeOK
    <3>2. completed'[u] = IF last THEN 1 ELSE 0
      <4>1. completed \in [Uploads -> Nat]
        BY <1>1 DEF TypeOK
      <4>2. completed' = IF last THEN [completed EXCEPT ![u] = @ + 1] ELSE completed
        BY <1>2, <1>16
      <4> QED
        BY <1>4, <4>1, <4>2
    <3> QED
      BY <1>6, <3>1, <3>2 DEF SameFile
  <2>3. \A x \in Uploads : Stable(x)
    BY <1>6, <1>7, <2>2, SameStable DEF ids
  <2>4. (Pieces(i, c, N))'
    BY <1>9, <1>10, <2>3, <1>12, PiecesStable
  <2>5. (UploadOK(u))'
    <3>1. last => Len(bin'[u]) = i.size
      BY <1>9, <1>10, <1>11, <2>1, <1>12
    <3>2. last => (Whole(u))'
      <4>1. info'[u] = i
        BY <1>4, <1>6, <1>12
      <4> QED
        BY <1>9, <1>11, <2>1, <1>12, <2>4, <4>1 DEF Whole
    <3>3. /\ infoFile'[u] = "whole" /\ info'[u] = i /\ IsFinal(i) /\ ~i.deferred
          /\ u \in used' /\ u \in binFiles' /\ SizeAllowed(i.size)
      BY <1>3, <1>4, <1>6, <1>12 DEF UploadOK, ids
    <3> QED
      BY <2>1, <2>2, <1>14, <3>1, <3>2, <3>3 DEF UploadOK
  <2>6. Moved(w)
    <3>1. CASE Answers(w, Unknown)
      BY <1>1, <3>1, AnswerMoves
    <3>2. CASE last /\ r.info.size = 0 /\ Goes(w, "finish")
      <4>1. /\ req'[w].at = "finish" /\ req'[w].op = "final" /\ req'[w].up = u
            /\ req'[w].info = i /\ req'[w].off = 0 /\ req'[w].n = 0
            /\ \A v \in Workers : v # w => req'[v] = req[v]
        BY <1>1, <1>2, <1>4, <1>12, <3>2, GoesTo
      <4>2. OwnOK(req'[w]) /\ Creator(req[w])
        BY <1>5, <4>1 DEF OwnOK
      <4>3. (FileOK(req[w]))'
        BY <1>4, <1>6, <2>2, <1>12, <3>2, <4>1 DEF FileOK, Shows
      <4>4. (PartsOK(req[w]))'
        <5>1. \A j \in DOMAIN i.parts : i.parts[j] \in known'
          BY <1>1, <1>4, <1>6, <1>12 DEF PartsOK, ids
        <5> QED
          BY <4>1, <5>1 DEF PartsOK
      <4> QED
        BY <1>2, <4>1, <4>2, <4>3, <4>4 DEF Moved
    <3>3. CASE ~last /\ req' = [req EXCEPT ![w].part = @ + 1]
      <4>1. /\ req'[w] = [r EXCEPT !.part = r.part + 1]
            /\ \A v \in Workers : v # w => req'[v] = req[v]
        BY <1>1, <3>3 DEF TypeOK
      <4>2. /\ req'[w].at = "copy" /\ req'[w].op = "final" /\ req'[w].up = u
            /\ req'[w].info = i /\ req'[w].off = 0 /\ req'[w].n = 0
            /\ req'[w].part = k + 1 /\ req'[w].held = r.held
        BY <1>1, <1>2, <1>4, <1>11, <1>12, <4>1 DEF Request
      <4>3. OwnOK(req'[w]) /\ Creator(req[w])
        BY <1>1, <1>5, <4>2 DEF OwnOK
      <4>4. (FileOK(req[w]))'
        BY <1>4, <1>6, <2>2, <1>12, <3>3, <4>2 DEF FileOK, Shows
      <4>5. (PartsOK(req[w]))'
        <5>1. \A j \in DOMAIN i.parts : i.parts[j] \in known'
          BY <1>1, <1>4, <1>6, <1>12 DEF PartsOK, ids
        <5>2. k + 1 \in DOMAIN i.parts /\ (k + 1) - 1 = k
          BY <1>9, <1>11, <1>12, <3>3 DEF Info
        <5>3. (Copied(req[w]))'
          BY <1>9, <1>10, <2>1, <1>12, <2>4, <4>2, <5>2 DEF Copied
        <5> QED
          BY <4>2, <5>1, <5>2, <5>3 DEF PartsOK
      <4> QED
        BY <1>2, <4>1, <4>2, <4>3, <4>4, <4>5 DEF Moved
    <3> QED
      BY <1>16, <3>1, <3>2, <3>3
  <2> QED
    BY <1>2, <1>5, <1>6, <1>7, <2>2, <2>5, <2>6, OwnerMove
<1>17. CASE /\ p \in binFiles
            /\ \E n \in 0 .. Len(bin[p]) :
                 bin' = [bin EXCEPT ![r.up] = @ \o SubSeq(bin[p], 1, n)]
            /\ Fails(w) /\ UNCHANGED completed
  BY <1>15, <1>17
<1> QED
  BY <1>8, <1>16, <1>17 DEF Copy

-----------------------------------------------------------------------------
(* The invariant is inductive. *)

LEMMA InitInv ==
  ASSUME UsesLocker, Init
  PROVE  Inv
<1>1. IInv
  BY InitIInv
<1>2. /\ Idle.at = "idle" /\ Idle.op = "none"
  BY DEF Idle
<1>3. OwnInv /\ FilesInv /\ PartsInv
  BY <1>2 DEF Init, OwnInv, OwnOK, Alone, Creator, FilesInv, FileOK, PartsInv,
              PartsOK
<1>4. UploadsInv
  BY DEF Init, UploadsInv, UploadOK, IsFinal, NewInfo
<1> QED
  BY <1>1, <1>3, <1>4 DEF Inv

LEMMA StutterCore ==
  ASSUME Inv, UNCHANGED vars
  PROVE  Core'
<1>1. TypeOK /\ OwnInv /\ FilesInv /\ PartsInv /\ UploadsInv /\ PlaceInv
  BY DEF Inv, IInv
<1>2. /\ req' = req /\ known' = known /\ used' = used
      /\ \A u \in Uploads : SameFile(u) /\ Stable(u)
  BY QuietStable DEF vars, SameFile, files, ids, history
<1>3. OwnInv'
  BY <1>1, <1>2 DEF OwnInv, OwnOK, Alone, Creator
<1>4. FilesInv'
  BY <1>1, <1>2, OtherFileOK DEF FilesInv, Owner, TypeOK, Request
<1>5. PartsInv'
  BY <1>1, <1>2, OtherPartsOK DEF PartsInv, Owner, TypeOK, Request
<1>6. UploadsInv'
  BY <1>1, <1>2, OtherUploadOK DEF UploadsInv
<1> QED
  BY <1>3, <1>4, <1>5, <1>6 DEF Core

LEMMA StepCore ==
  ASSUME Inv, [Next]_vars
  PROVE  Core'
<1>1. CASE UNCHANGED vars
  BY <1>1, StutterCore
<1>2. CASE Crash
  BY <1>2, CrashCore
<1>3. ASSUME NEW w \in Workers, Requests(w)
      PROVE  Core'
  BY <1>3, RequestsCore
<1>4. ASSUME NEW w \in Workers, Step(w) \/ StopUpload(w)
      PROVE  Core'
  BY <1>4, LockCore, ReplyCore, UnlockCore, ReadInfoCore, StatCore,
     PartInfoCore, PartStatCore, CreateBinCore, TruncInfoCore, WriteInfoCore,
     CopyCore, BeginCore, WriteByteCore, BodyCore, TailCore, FinishCore,
     RemoveInfoCore, RemoveBinCore DEF Step
<1> QED
  BY <1>1, <1>2, <1>3, <1>4 DEF Next, Waits

LEMMA StepInv == Inv /\ [Next]_vars => Inv'
<1>1. Inv /\ [Next]_vars => Core'
  BY StepCore
<1>2. Inv /\ [Next]_vars => IInv'
  BY StepIInv DEF Inv
<1>3. UsesLocker => UsesLocker'
  OBVIOUS
<1> QED
  BY <1>1, <1>2, <1>3 DEF Inv, Core

LEMMA FilesInvariance ==
  ASSUME UsesLocker
  PROVE  Spec => []Inv
<1>1. Init => Inv
  BY InitInv
<1> QED
  BY <1>1, StepInv, PTL DEF Spec

-----------------------------------------------------------------------------
(* The theorems of one state *)

\* The bytes that writeChunk stores are in their places, whatever requests,
\* retries, failures and crashes there are.
THEOREM BytesInOrder ==
  ASSUME UsesLocker
  PROVE  Spec => []StoredInOrder
<1>1. Inv => StoredInOrder
  BY DEF Inv, UploadsInv, UploadOK, StoredInOrder, InOrder
<1> QED
  BY <1>1, FilesInvariance, PTL

\* An upload with a length never outgrows it, nor Config.MaxSize.
THEOREM NeverTooLong ==
  ASSUME UsesLocker
  PROVE  Spec => []WithinSize
<1>1. Inv => WithinSize
  BY DEF Inv, UploadsInv, UploadOK, WithinSize
<1> QED
  BY <1>1, FilesInvariance, PTL

\* CompleteUploads is sent an upload when all its bytes are stored, once.
THEOREM ReportedOnce ==
  ASSUME UsesLocker
  PROVE  Spec => []CompletedOnce
<1>1. Inv => CompletedOnce
  BY DEF Inv, UploadsInv, UploadOK, CompletedOnce
<1> QED
  BY <1>1, FilesInvariance, PTL

-----------------------------------------------------------------------------
(* Final uploads *)

LEMMA LeastNatural ==
  ASSUME NEW T, T \subseteq Nat, T # {}
  PROVE  \E x \in T : \A y \in T : x <= y
<1>1. IsWellFoundedOn(OpToRel(<, Nat), Nat)
  BY NatLessThanWellFounded
<1>2. PICK x \in T : \A y \in T : ~(<< y, x >> \in OpToRel(<, Nat))
  BY <1>1, WFMin
<1>3. \A y \in T : ~(y < x)
  BY <1>2 DEF OpToRel
<1> QED
  BY <1>3

\* A sequence of sequences is flattened one by one.
LEMMA FlattenUnfolds ==
  ASSUME NEW S, NEW N \in Nat \ {0}, NEW s \in [1 .. N -> Seq(S)],
         NEW c \in [0 .. N -> Seq(S)], c[0] = << >>,
         \A j \in 1 .. N : c[j] = c[j - 1] \o s[j]
  PROVE  FlattenSeq(s) = c[N]
<1>. DEFINE F(f) == f = [i \in 1 .. N |-> IF i = 1 THEN s[i]
                                                   ELSE f[i - 1] \o s[i]]
            g == [i \in 1 .. N |-> c[i]]
<1>1. c[1] = s[1]
  <2>1. 1 \in 1 .. N /\ 1 - 1 = 0
    OBVIOUS
  <2>2. c[1] = c[0] \o s[1] /\ s[1] \in Seq(S)
    BY <2>1
  <2> QED
    BY <2>2
<1>2. F(g)
  <2>1. ASSUME NEW i \in 1 .. N
        PROVE  c[i] = IF i = 1 THEN s[i] ELSE g[i - 1] \o s[i]
    <3>1. CASE i = 1
      BY <1>1, <3>1
    <3>2. CASE i # 1
      <4>1. i - 1 \in 1 .. N
        BY <3>2
      <4> QED
        BY <3>2, <4>1
    <3> QED
      BY <3>1, <3>2
  <2> QED
    BY <2>1
<1>3. ASSUME NEW f, F(f)
      PROVE  f[N] = c[N]
  <2>. DEFINE T == {i \in 1 .. N : f[i] # c[i]}
  <2>1. ASSUME T # {} PROVE FALSE
    <3>1. PICK x \in T : \A y \in T : x <= y
      <4>1. T \subseteq Nat
        OBVIOUS
      <4>. HIDE DEF T
      <4> QED
        BY <2>1, <4>1, LeastNatural
    <3>2. x \in 1 .. N /\ f[x] # c[x]
      BY <3>1
    <3>3. f[x] = IF x = 1 THEN s[x] ELSE f[x - 1] \o s[x]
      BY <1>3, <3>2
    <3>4. x # 1
      BY <1>1, <3>2, <3>3
    <3>5. x - 1 \in 1 .. N /\ x - 1 \notin T
      BY <3>1, <3>2, <3>4
    <3>6. f[x - 1] = c[x - 1]
      BY <3>5
    <3> QED
      BY <3>2, <3>3, <3>4, <3>6
  <2> QED
    BY <2>1
<1>4. Len(s) = N
  OBVIOUS
<1>5. F(CHOOSE f : F(f))
  <2>. HIDE DEF F
  <2> QED
    BY <1>2
<1>6. (CHOOSE f : F(f))[N] = c[N]
  <2>. HIDE DEF F
  <2> QED
    BY <1>3, <1>5
<1> QED
  BY <1>4, <1>6 DEF FlattenSeq

LEMMA InvFinalIsWhole == Inv => FinalIsWhole
<1> SUFFICES ASSUME Inv, NEW u \in Uploads, IsFinal(info[u]), completed[u] > 0,
                    \A i \in DOMAIN info[u].parts : info[u].parts[i] \in binFiles
             PROVE  bin[u] = FlattenSeq([i \in DOMAIN info[u].parts |->
                                           bin[info[u].parts[i]]])
  BY DEF FinalIsWhole
<1>. DEFINE parts == info[u].parts
<1>1. TypeOK /\ UploadOK(u)
  BY DEF Inv, IInv, UploadsInv
<1>2. info[u] \in Info /\ parts \in Seq(Uploads)
  BY <1>1 DEF TypeOK, Info
<1>3. PICK N \in Nat \ {0} : N = Len(parts) /\ DOMAIN parts = 1 .. N
  BY <1>2 DEF IsFinal
<1>4. PICK c \in [0 .. N -> Seq(Bytes)] :
        Pieces(info[u], c, N) /\ bin[u] = c[N]
  BY <1>1, <1>3 DEF UploadOK, Whole
<1>. DEFINE s == [i \in 1 .. N |-> bin[parts[i]]]
<1>5. s \in [1 .. N -> Seq(Bytes)]
  BY <1>1, <1>2, <1>3 DEF TypeOK, Bytes
<1>6. c[0] = << >> /\ \A j \in 1 .. N : c[j] = c[j - 1] \o s[j]
  <2>1. ASSUME NEW j \in 1 .. N
        PROVE  c[j] = c[j - 1] \o s[j]
    <3>1. PICK b \in Seq(Bytes) : c[j] = c[j - 1] \o b /\ Done(parts[j], b)
      BY <1>4 DEF Pieces
    <3>2. b = bin[parts[j]]
      BY <1>3, <3>1 DEF Done
    <3> QED
      BY <3>1, <3>2
  <2> QED
    BY <1>4, <2>1 DEF Pieces
<1>7. FlattenSeq(s) = c[N]
  <2>. HIDE DEF s
  <2> QED
    BY <1>5, <1>6, FlattenUnfolds
<1> QED
  BY <1>3, <1>4, <1>7

\* What ConcatUploads makes is the concatenation of the parts that PostFile has
\* checked, although it takes no lock on them.
THEOREM FinalHoldsItsParts ==
  ASSUME UsesLocker
  PROVE  Spec => []FinalIsWhole
BY InvFinalIsWhole, FilesInvariance, PTL

-----------------------------------------------------------------------------
(* Both files or neither *)

\* An upload without a whole info file is being created, declared or removed, or
\* was when the process stopped or the file system failed.
Together ==
  \A u \in Uploads :
    u \in binFiles /\ infoFile[u] # "whole" =>
      u \in broken \/ \E w \in Workers : req[w].up = u /\ HalfDone(w)

\* A step that touches no file, and may end a request half way
LEMMA TogetherFrame ==
  ASSUME Together, NEW w \in Workers, broken' = broken \cup Interrupted(w),
         \A v \in Workers : v # w => req'[v] = req[v],
         infoFile' = infoFile, binFiles' = binFiles
  PROVE  Together'
<1> SUFFICES ASSUME NEW u \in Uploads, u \in binFiles, infoFile[u] # "whole"
             PROVE  u \in broken' \/ \E v \in Workers :
                                       req'[v].up = u /\ (HalfDone(v))'
  BY DEF Together
<1>1. CASE u \in broken
  BY <1>1
<1>2. ASSUME NEW v \in Workers, req[v].up = u, HalfDone(v)
      PROVE  u \in broken' \/ (req'[v].up = u /\ (HalfDone(v))')
  <2>1. CASE v = w
    BY <1>2, <2>1 DEF Interrupted
  <2>2. CASE v # w
    BY <1>2, <2>2 DEF HalfDone
  <2> QED
    BY <2>1, <2>2
<1> QED
  BY <1>1, <1>2 DEF Together

\* A step that is about one upload only, and ends no request half way
LEMMA TogetherStep ==
  ASSUME Together, NEW w \in Workers, broken' = broken,
         \A v \in Workers : v # w => req'[v] = req[v],
         NEW u \in Uploads, HalfDone(w) => req[w].up = u,
         \A x \in Uploads : x # u => /\ infoFile'[x] = infoFile[x]
                                     /\ x \in binFiles' <=> x \in binFiles,
         \/ infoFile'[u] = "whole" \/ u \notin binFiles'
         \/ req'[w].up = u /\ (HalfDone(w))'
  PROVE  Together'
<1>1. ASSUME NEW v \in Workers, HalfDone(v), v # w
      PROVE  (HalfDone(v))' /\ req'[v].up = req[v].up
  BY <1>1 DEF HalfDone
<1> QED
  BY <1>1 DEF Together

\* A crash, after which every upload it has caught half made is broken
LEMMA TogetherCrash ==
  ASSUME Together, Crash
  PROVE  Together'
<1>1. /\ infoFile' = infoFile /\ binFiles' = binFiles
      /\ broken' = broken \cup UNION {Interrupted(w) : w \in Workers}
  BY DEF Crash, files
<1>2. ASSUME NEW w \in Workers, HalfDone(w)
      PROVE  req[w].up \in broken'
  BY <1>1, <1>2 DEF Interrupted
<1> QED
  BY <1>1, <1>2 DEF Together

LEMMA TogetherTrunc ==
  ASSUME Inv, Together, NEW w \in Workers, TruncInfo(w)
  PROVE  Together'
<1>1. TypeOK /\ req[w].at = "truncInfo" /\ binFiles' = binFiles
  BY DEF TruncInfo, At, Inv, IInv
<1>2. PICK u \in Uploads : u = req[w].up
  BY <1>1, RowUpload, LimitBusy
<1>3. CASE InfoFails(w)
  <2>1. \A v \in Workers : v # w => req'[v] = req[v]
    BY <1>1, <1>3 DEF InfoFails, TypeOK
  <2> QED
    BY <1>1, <1>3, <2>1, TogetherFrame DEF InfoFails
<1>4. CASE /\ infoFile' = [infoFile EXCEPT ![req[w].up] = "torn"]
           /\ Goes(w, "writeInfo") /\ broken' = broken
  <2>1. /\ req'[w].at = "writeInfo" /\ req'[w].up = u
        /\ \A v \in Workers : v # w => req'[v] = req[v]
    BY <1>1, <1>2, <1>4, GoesTo
  <2>2. (HalfDone(w))'
    BY <2>1 DEF HalfDone
  <2>3. \A x \in Uploads : x # u => infoFile'[x] = infoFile[x]
    BY <1>1, <1>2, <1>4 DEF TypeOK
  <2> QED
    BY <1>1, <1>2, <1>4, <2>1, <2>2, <2>3, TogetherStep
<1> QED
  BY <1>3, <1>4 DEF TruncInfo

LEMMA TogetherWrite ==
  ASSUME Inv, Together, NEW w \in Workers, WriteInfo(w)
  PROVE  Together'
<1>1. TypeOK /\ req[w].at = "writeInfo" /\ binFiles' = binFiles /\ FileOK(req[w])
  BY Row DEF WriteInfo, At
<1>2. PICK u \in Uploads : u = req[w].up
  BY <1>1, RowUpload, LimitBusy
<1>3. infoFile[u] # "none"
  BY <1>1, <1>2 DEF FileOK
<1>4. CASE InfoFails(w)
  <2>1. \A v \in Workers : v # w => req'[v] = req[v]
    BY <1>1, <1>4 DEF InfoFails, TypeOK
  <2> QED
    BY <1>1, <1>4, <2>1, TogetherFrame DEF InfoFails
<1>5. CASE /\ infoFile' = [infoFile EXCEPT ![u] = "whole"]
           /\ AfterInfo(w) /\ broken' = broken
  <2>1. \A v \in Workers : v # w => req'[v] = req[v]
    BY <1>1, <1>5 DEF AfterInfo, Goes, Answers, TypeOK
  <2>2. /\ infoFile'[u] = "whole"
        /\ \A x \in Uploads : x # u => infoFile'[x] = infoFile[x]
    BY <1>1, <1>5 DEF TypeOK
  <2> QED
    BY <1>1, <1>2, <1>5, <2>1, <2>2, TogetherStep
<1> QED
  BY <1>2, <1>3, <1>4, <1>5 DEF WriteInfo

LEMMA TogetherRemoveInfo ==
  ASSUME Inv, Together, NEW w \in Workers, RemoveInfo(w)
  PROVE  Together'
<1>1. /\ TypeOK /\ req[w].at = "rmInfo" /\ binFiles' = binFiles
      /\ broken' = broken
  BY Row DEF RemoveInfo, At, history
<1>2. PICK u \in Uploads : u = req[w].up
  BY <1>1, RowUpload, LimitBusy
<1>3. CASE AfterTerminate(w) /\ UNCHANGED << infoFile, info >>
  <2>1. \A v \in Workers : v # w => req'[v] = req[v]
    BY <1>1, <1>3 DEF AfterTerminate, Goes, Answers, TypeOK
  <2>2. Interrupted(w) = {}
    BY <1>1 DEF Interrupted, HalfDone
  <2> QED
    BY <1>1, <1>3, <2>1, <2>2, TogetherFrame
<1>4. CASE infoFile' = [infoFile EXCEPT ![u] = "none"] /\ Goes(w, "rmBin")
  <2>1. /\ req'[w].at = "rmBin" /\ req'[w].up = u
        /\ \A v \in Workers : v # w => req'[v] = req[v]
    BY <1>1, <1>2, <1>4, GoesTo
  <2>2. (HalfDone(w))'
    BY <2>1 DEF HalfDone
  <2>3. \A x \in Uploads : x # u => infoFile'[x] = infoFile[x]
    BY <1>1, <1>4 DEF TypeOK
  <2> QED
    BY <1>1, <1>2, <2>1, <2>2, <2>3, TogetherStep
<1> QED
  BY <1>2, <1>3, <1>4 DEF RemoveInfo

LEMMA TogetherRemoveBin ==
  ASSUME Inv, Together, NEW w \in Workers, RemoveBin(w)
  PROVE  Together'
<1>1. TypeOK /\ req[w].at = "rmBin" /\ infoFile' = infoFile
  BY Row DEF RemoveBin, At
<1>2. PICK u \in Uploads : u = req[w].up
  BY <1>1, RowUpload, LimitBusy
<1>3. \A v \in Workers : v # w => req'[v] = req[v]
  BY <1>1 DEF RemoveBin, AfterTerminate, Goes, Answers, TypeOK
<1>4. CASE Removed(req[w].up) /\ broken' = broken
  <2>1. binFiles' = binFiles \ {u}
    BY <1>2, <1>4 DEF Removed
  <2> QED
    BY <1>1, <1>2, <1>3, <1>4, <2>1, TogetherStep
<1>5. CASE broken' = broken \cup Interrupted(w) /\ binFiles' = binFiles
  BY <1>1, <1>3, <1>5, TogetherFrame
<1> QED
  BY <1>4, <1>5 DEF RemoveBin

LEMMA TogetherKeeps ==
  ASSUME Inv, Together, [Next]_vars
  PROVE  Together'
<1>1. TypeOK
  BY DEF Inv, IInv
<1>2. CASE UNCHANGED vars
  BY <1>2 DEF vars, files, history, Together, HalfDone
<1>3. CASE Crash
  BY <1>3, TogetherCrash
<1>4. ASSUME NEW w \in Workers, Requests(w)
      PROVE  Together'
  BY <1>1, <1>4, TogetherFrame
     DEF Requests, Post, PostFinal, Ask, Begins, At, HalfDone, Interrupted,
         TypeOK, files, history
<1>5. ASSUME NEW w \in Workers,
             \/ Lock(w) \/ Reply(w) \/ Unlock(w) \/ ReadInfo(w) \/ Stat(w)
             \/ PartInfo(w) \/ PartStat(w) \/ Copy(w) \/ Begin(w)
             \/ WriteByte(w) \/ BodyEnds(w) \/ BodyFails(w) \/ StopUpload(w)
             \/ Flag(w) \/ Stopped(w) \/ Finish(w) \/ FinishRefused(w)
      PROVE  Together'
  <2>1. /\ broken' = broken /\ infoFile' = infoFile /\ binFiles' = binFiles
        /\ Interrupted(w) = {}
    BY <1>5 DEF Interrupted, Lock, Reply, Unlock, ReadInfo, Stat, PartInfo, PartStat, Copy,
       Begin, WriteByte, BodyEnds, BodyFails, StopUpload, Flag, Stopped, Finish,
       FinishRefused, At, HalfDone, files, history
  <2>2. \A v \in Workers : v # w => req'[v] = req[v]
    BY <1>1, <1>5 DEF Lock, Reply, Unlock, ReadInfo, Stat, PatchChecked,
       Declares, PartInfo, PartStat, Copy, Begin, WriteByte, BodyEnds,
       BodyFails, StopUpload, Flag, Stopped, Finish, FinishRefused, Goes,
       Fails, Answers, TypeOK
  <2> QED
    BY <2>1, <2>2, TogetherFrame
<1>6. ASSUME NEW w \in Workers, CreateBin(w)
      PROVE  Together'
  <2>1. PICK u \in IdsLeft :
          /\ binFiles' = binFiles \cup {u} /\ infoFile' = infoFile
          /\ req' = [req EXCEPT ![w].at = "truncInfo", ![w].up = u]
          /\ broken' = broken
    BY <1>6 DEF CreateBin, history
  <2>2. req[w].at = "createBin" /\ req[w].op \in {"post", "final"}
    BY <1>6, Row DEF CreateBin, At, OwnOK
  <2>3. /\ req'[w].at = "truncInfo" /\ req'[w].up = u /\ req'[w].op = req[w].op
        /\ \A v \in Workers : v # w => req'[v] = req[v]
    BY <1>1, <2>1 DEF TypeOK, Request
  <2>4. (HalfDone(w))' /\ ~HalfDone(w)
    BY <2>2, <2>3 DEF HalfDone
  <2> QED
    BY <2>1, <2>3, <2>4, TogetherStep DEF IdsLeft
<1>7. ASSUME NEW w \in Workers,
             TruncInfo(w) \/ WriteInfo(w) \/ RemoveInfo(w) \/ RemoveBin(w)
      PROVE  Together'
  BY <1>7, TogetherTrunc, TogetherWrite, TogetherRemoveInfo, TogetherRemoveBin
<1> QED
  BY <1>2, <1>3, <1>4, <1>5, <1>6, <1>7 DEF Next, Step, Waits

\* But for a crash, or an error of the file system, between the two, os.Remove
\* and writeInfo leave an upload both its files or neither, once no request is
\* at work on it.
THEOREM NoHalfUpload ==
  ASSUME UsesLocker
  PROVE  Spec => []FilesTogether
<1>1. Init => Together
  BY DEF Init, Together
<1>2. Inv /\ Together => FilesTogether
  BY DEF Inv, UploadsInv, UploadOK, Together, FilesTogether
<1>3. Inv /\ Together /\ [Next]_vars => Together'
  BY TogetherKeeps
<1> QED
  BY <1>1, <1>2, <1>3, FilesInvariance, PTL DEF Spec

-----------------------------------------------------------------------------
(* The abstract log *)

LEMMA LongerSeq ==
  ASSUME NEW S, NEW s \in Seq(S), NEW t \in Seq(S), Len(t) >= Len(s),
         \A i \in 1 .. Len(s) : t[i] = s[i]
  PROVE  Log!Extends(t, s)
<1>1. Len(s) \in Nat /\ Len(t) \in Nat /\ DOMAIN s = 1 .. Len(s)
  OBVIOUS
<1>2. SubSeq(t, 1, Len(s)) \in Seq(S) /\ Len(SubSeq(t, 1, Len(s))) = Len(s)
  BY <1>1
<1>3. \A i \in 1 .. Len(s) : SubSeq(t, 1, Len(s))[i] = s[i]
  BY <1>1
<1>4. SubSeq(t, 1, Len(s)) = s
  BY <1>1, <1>2, <1>3, SeqEqual
<1> QED
  BY <1>4 DEF Log!Extends

LEMMA ConcatExtends ==
  ASSUME NEW S, NEW s \in Seq(S), NEW t \in Seq(S)
  PROVE  Log!Extends(s \o t, s)
<1>. DEFINE long == s \o t
<1>1. /\ long \in Seq(S) /\ Len(long) >= Len(s)
      /\ \A i \in 1 .. Len(s) : long[i] = s[i]
  OBVIOUS
<1>. HIDE DEF long
<1>2. Log!Extends(long, s)
  BY <1>1, LongerSeq
<1> QED
  BY <1>2 DEF long

LEMMA AppendExtends ==
  ASSUME NEW S, NEW s \in Seq(S), NEW e \in S
  PROVE  Log!Extends(Append(s, e), s)
<1>. DEFINE long == Append(s, e)
<1>1. /\ long \in Seq(S) /\ Len(long) >= Len(s)
      /\ \A i \in 1 .. Len(s) : long[i] = s[i]
  OBVIOUS
<1>. HIDE DEF long
<1>2. Log!Extends(long, s)
  BY <1>1, LongerSeq
<1> QED
  BY <1>2 DEF long

LEMMA SameExtends ==
  ASSUME NEW S, NEW s \in Seq(S)
  PROVE  Log!Extends(s, s)
BY LongerSeq

\* A step that stores, or reports, is one of the log.
LEMMA StoreStep ==
  ASSUME TypeOK, NEW u \in Uploads, u \in binFiles, NEW bytes,
         Log!Extends(bytes, bin[u]), bin' = [bin EXCEPT ![u] = bytes],
         completed' \in {completed, [completed EXCEPT ![u] = @ + 1]},
         completed[u] = 0 \/ bytes = << >>,
         UNCHANGED << used, binFiles, told >>
  PROVE  Log!Next
<1>1. bin'[u] = bytes
  BY DEF TypeOK
<1>2. Log!Store(u, bin'[u])
  BY <1>1 DEF Log!Store
<1> QED
  BY <1>2 DEF Log!Next

LEMMA ReplyLog ==
  ASSUME Inv, NEW w \in Workers, Reply(w)
  PROVE  [Log!Next]_(Log!vars)
<1>. DEFINE r == req[w]
<1>1. TypeOK /\ r \in Request /\ FileOK(r) /\ r.at = "reply"
  BY Row DEF Reply, At
<1>2. /\ told' = [u \in Uploads |-> IF u = r.up /\ r.off > told[u]
                                   THEN r.off ELSE told[u]]
      /\ UNCHANGED << used, binFiles, bin, completed >>
  BY DEF Reply, files
<1>3. told \in [Uploads -> Nat]
  BY <1>1 DEF TypeOK
<1>4. CASE \E u \in Uploads : u = r.up /\ r.off > told[u]
  <2>1. PICK u \in Uploads : u = r.up /\ r.off > told[u]
    BY <1>4
  <2>2. told'[u] = r.off /\ told' = [told EXCEPT ![u] = r.off]
    BY <1>2, <1>3, <2>1
  <2>3. u \in binFiles => r.off <= Len(bin[u])
    BY <1>1, <1>3, <2>1 DEF FileOK, Unknown
  <2>4. Log!Tell(u, told'[u])
    BY <1>2, <1>3, <2>1, <2>2, <2>3 DEF Log!Tell
  <2> QED
    BY <2>4 DEF Log!Next
<1>5. CASE ~\E u \in Uploads : u = r.up /\ r.off > told[u]
  <2>1. told' = told
    BY <1>2, <1>3, <1>5
  <2> QED
    BY <1>2, <2>1 DEF Log!vars
<1> QED
  BY <1>4, <1>5

LEMMA CreateLog ==
  ASSUME Inv, NEW w \in Workers, CreateBin(w)
  PROVE  [Log!Next]_(Log!vars)
<1>1. PICK u \in IdsLeft : used' = used \cup {u} /\ binFiles' = binFiles \cup {u}
  BY DEF CreateBin
<1>2. u \in Uploads /\ Log!Create(u)
  BY <1>1 DEF CreateBin, IdsLeft, history, Log!Create
<1> QED
  BY <1>2 DEF Log!Next

LEMMA CopyLog ==
  ASSUME Inv, NEW w \in Workers, Copy(w)
  PROVE  [Log!Next]_(Log!vars)
<1>. DEFINE r == req[w]
            p == r.info.parts[r.part]
<1>1. /\ TypeOK /\ r \in Request /\ FileOK(r) /\ PartsOK(r) /\ r.at = "copy"
      /\ r.info \in Info
  BY Row DEF Copy, At
<1>2. PICK u \in Uploads : u = r.up
  BY <1>1, RowUpload, LimitBusy
<1>3. UploadOK(u) /\ bin[u] \in Seq(Bytes)
  BY <1>1, <1>2, RowUpload, LimitBusy
<1>4. u \in binFiles /\ completed[u] = 0
  BY <1>1, <1>2, <1>3 DEF FileOK, Shows, UploadOK
<1>5. CASE UNCHANGED << bin, completed >>
  BY <1>5 DEF Copy, ids, Log!vars
<1>6. CASE /\ p \in binFiles /\ bin' = [bin EXCEPT ![u] = bin[u] \o bin[p]]
           /\ completed' \in {completed, [completed EXCEPT ![u] = @ + 1]}
  <2>1. bin[p] \in Seq(Bytes)
    BY <1>1, <1>6 DEF TypeOK, Bytes
  <2>2. Log!Extends(bin[u] \o bin[p], bin[u])
    BY <1>3, <2>1, ConcatExtends
  <2>3. UNCHANGED << used, binFiles, told >>
    BY DEF Copy, ids
  <2> HIDE DEF p
  <2> QED
    BY <1>1, <1>4, <1>6, <2>2, <2>3, StoreStep
<1>7. ASSUME p \in binFiles, completed' = completed,
             NEW n \in 0 .. Len(bin[p]),
             bin' = [bin EXCEPT ![u] = bin[u] \o SubSeq(bin[p], 1, n)]
      PROVE  [Log!Next]_(Log!vars)
  <2>1. bin[p] \in Seq(Bytes)
    BY <1>1, <1>7 DEF TypeOK, Bytes
  <2>2. SubSeq(bin[p], 1, n) \in Seq(Bytes)
    BY <1>7, <2>1, PrefixType
  <2>3. Log!Extends(bin[u] \o SubSeq(bin[p], 1, n), bin[u])
    BY <1>3, <2>2, ConcatExtends
  <2>4. UNCHANGED << used, binFiles, told >>
    BY DEF Copy, ids
  <2> HIDE DEF p
  <2> QED
    BY <1>1, <1>4, <1>7, <2>3, <2>4, StoreStep
<1>8. CASE /\ p \in binFiles /\ completed' = completed
           /\ \E n \in 0 .. Len(bin[p]) :
                bin' = [bin EXCEPT ![u] = bin[u] \o SubSeq(bin[p], 1, n)]
  BY <1>7, <1>8
<1> QED
  BY <1>2, <1>5, <1>6, <1>8 DEF Copy

LEMMA WriteByteLog ==
  ASSUME Inv, NEW w \in Workers, WriteByte(w)
  PROVE  [Log!Next]_(Log!vars)
<1>. DEFINE r == req[w]
            e == << r.up, r.off + r.n + 1 >>
<1>1. /\ TypeOK /\ r \in Request /\ FileOK(r) /\ r.at = "write"
  BY Row DEF WriteByte, At
<1>2. PICK u \in Uploads : u = r.up
  BY <1>1, RowUpload, LimitBusy
<1>3. UploadOK(u) /\ bin[u] \in Seq(Bytes)
  BY <1>1, <1>2, RowUpload, LimitBusy
<1>4. u \in binFiles /\ completed[u] = 0 /\ Len(bin[u]) = r.off + r.n
  BY <1>1, <1>2, <1>3 DEF FileOK, Appends, Shows, UploadOK
<1>5. e \in Bytes
  BY <1>2, <1>3, <1>4, LenBytes DEF Bytes
<1>6. bin' = [bin EXCEPT ![u] = Append(bin[u], e)]
  BY <1>2, <1>4 DEF WriteByte
<1>7. Log!Extends(Append(bin[u], e), bin[u])
  BY <1>3, <1>5, AppendExtends
<1>8. UNCHANGED << used, binFiles, told, completed >>
  BY DEF WriteByte, ids, history
<1>. HIDE DEF e
<1> QED
  BY <1>1, <1>4, <1>6, <1>7, <1>8, StoreStep

LEMMA FinishLog ==
  ASSUME Inv, NEW w \in Workers, Finish(w)
  PROVE  [Log!Next]_(Log!vars)
<1>. DEFINE r == req[w]
<1>1. /\ TypeOK /\ r \in Request /\ FileOK(r) /\ r.at = "finish"
  BY Row DEF Finish, At
<1>2. PICK u \in Uploads : u = r.up
  BY <1>1, RowUpload, LimitBusy
<1>3. UploadOK(u) /\ bin[u] \in Seq(Bytes) /\ completed[u] \in Nat
  BY <1>1, <1>2, RowUpload, LimitBusy
<1>4. u \in binFiles /\ (completed[u] = 0 \/ bin[u] = << >>)
  BY <1>1, <1>2, <1>3 DEF FileOK, Appends, Shows, UploadOK
<1>5. /\ bin' = [bin EXCEPT ![u] = bin[u]]
      /\ completed' \in {completed, [completed EXCEPT ![u] = @ + 1]}
      /\ UNCHANGED << used, binFiles, told >>
  BY <1>1, <1>2 DEF Finish, files, ids, TypeOK
<1>6. Log!Extends(bin[u], bin[u])
  BY <1>3, SameExtends
<1> QED
  BY <1>1, <1>4, <1>5, <1>6, StoreStep

LEMMA RemoveLog ==
  ASSUME Inv, NEW w \in Workers, RemoveBin(w)
  PROVE  [Log!Next]_(Log!vars)
<1>1. FileOK(req[w]) /\ req[w].at = "rmBin"
  BY Row DEF RemoveBin, At
<1>2. PICK u \in Uploads : u = req[w].up
  BY <1>1, RowUpload, LimitBusy
<1>3. u \in binFiles
  BY <1>1, <1>2 DEF FileOK
<1>4. CASE Removed(u)
  <2>1. Log!Remove(u)
    BY <1>3, <1>4 DEF RemoveBin, Removed, ids, Log!Remove
  <2> QED
    BY <2>1 DEF Log!Next
<1>5. CASE UNCHANGED << binFiles, bin >>
  BY <1>5 DEF RemoveBin, ids, Log!vars
<1> QED
  BY <1>2, <1>4, <1>5 DEF RemoveBin

LEMMA StepLog ==
  ASSUME Inv, [Next]_vars
  PROVE  [Log!Next]_(Log!vars)
<1>1. CASE UNCHANGED vars
  BY <1>1 DEF vars, files, ids, history, Log!vars
<1>2. CASE Crash
  BY <1>2 DEF Crash, files, ids, Log!vars
<1>3. ASSUME NEW w \in Workers, Requests(w)
      PROVE  UNCHANGED Log!vars
  BY <1>3 DEF Requests, Post, PostFinal, Ask, Begins, files, ids, history,
     Log!vars
<1>4. ASSUME NEW w \in Workers,
             \/ Lock(w) \/ Unlock(w) \/ ReadInfo(w) \/ Stat(w) \/ PartInfo(w)
             \/ PartStat(w) \/ TruncInfo(w) \/ WriteInfo(w) \/ Begin(w)
             \/ BodyEnds(w) \/ BodyFails(w) \/ StopUpload(w) \/ Flag(w)
             \/ Stopped(w) \/ FinishRefused(w) \/ RemoveInfo(w)
      PROVE  UNCHANGED Log!vars
  BY <1>4 DEF Lock, Unlock, ReadInfo, Stat, PartInfo, PartStat, TruncInfo,
     WriteInfo, Begin, BodyEnds, BodyFails, StopUpload, Flag, Stopped,
     FinishRefused, RemoveInfo, files, ids, history, Log!vars
<1> QED
  BY <1>1, <1>2, <1>3, <1>4, ReplyLog, CreateLog, CopyLog, WriteByteLog,
     FinishLog, RemoveLog DEF Next, Step, Waits

\* pkg/tus, with a locker, keeps what resumable uploads promise: an upload is a
\* log that only grows until it is reported complete, and no client was told an
\* offset that it has not reached.
THEOREM UploadsAreLogs ==
  ASSUME UsesLocker
  PROVE  Spec => ImplementsUploadLog
<1>1. Init => Log!Init
  BY DEF Init, Log!Init
<1>2. Inv /\ [Next]_vars => [Log!Next]_(Log!vars)
  BY StepLog
<1> QED
  BY <1>1, <1>2, FilesInvariance, PTL DEF Spec, ImplementsUploadLog, Log!Spec
=============================================================================
