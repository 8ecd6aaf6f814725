-------------------------- MODULE TusUpload_proofs --------------------------
(***************************************************************************)
(* Theorems about TusUpload, for any number of uploads and requests, with  *)
(* or without a locker.                                                    *)
(***************************************************************************)
EXTENDS TusUpload, SequenceTheorems, TLAPS

\* Where a request has no lock yet, and no upload or only the parts it asked for
Early == {"idle", "createBin", "partInfo", "partStat"}

PlaceOK(r) ==
  /\ r.at \in Early => ~r.held
  /\ r.at = "unlock" => r.held
  /\ r.up = NoUpload => r.at \in Early \cup {"reply"} /\ ~r.held
  /\ r.at \in {"partInfo", "partStat"} => r.part \in DOMAIN r.info.parts
  /\ r.at = "partStat" => r.off \in Nat

PlaceInv ==
  \A w \in Workers : PlaceOK(req[w]) /\ req[w].up \in used \cup {NoUpload}

IInv == TypeOK /\ PlaceInv /\ LocksOwned

-----------------------------------------------------------------------------
LEMMA IdleType == Idle \in Request /\ PlaceOK(Idle) /\ ~Idle.held
                  /\ Idle.up = NoUpload /\ Idle.at = "idle"
<1>1. NewInfo \in Info
  BY DEF NewInfo, Info
<1> QED
  BY <1>1 DEF Idle, Request, Labels, PlaceOK, Early, Unknown

LEMMA AnswerType ==
  ASSUME TypeOK, PlaceInv, NEW w \in Workers, NEW off \in Nat \cup {Unknown},
         Answers(w, off)
  PROVE  /\ req' \in [Workers -> Request]
         /\ PlaceOK(req'[w]) \/ ~PlaceOK(req[w])
         /\ req'[w].at = "reply"
         /\ req'[w].up = req[w].up /\ req'[w].held = req[w].held
         /\ \A v \in Workers : v # w => req'[v] = req[v]
<1>. DEFINE r == [Idle EXCEPT !.at = "reply", !.off = off, !.up = req[w].up,
                              !.held = req[w].held]
<1>1. req' = [req EXCEPT ![w] = r]
  BY DEF Answers
<1>2. req[w] \in Request
  BY DEF TypeOK
<1>3. r \in Request
  BY <1>2, IdleType DEF Request, Labels
<1>4. r.at = "reply" /\ r.up = req[w].up /\ r.held = req[w].held
  BY IdleType DEF Request
<1>5. PlaceOK(req[w]) => PlaceOK(r)
  BY <1>4 DEF PlaceOK, Early
<1> QED
  BY <1>1, <1>2, <1>3, <1>4, <1>5 DEF TypeOK

\* What a step of a request does to the requests, when it neither takes nor
\* gives back a lock
Keeps(w) ==
  /\ req' \in [Workers -> Request]
  /\ \A v \in Workers : v # w => req'[v] = req[v]
  /\ PlaceOK(req'[w])
  /\ req'[w].up = req[w].up /\ req'[w].held = req[w].held
  /\ req[w].held => req'[w].at # "idle"

LEMMA AnswerKeeps ==
  ASSUME TypeOK, PlaceInv, NEW w \in Workers, NEW off \in Nat \cup {Unknown},
         Answers(w, off)
  PROVE  Keeps(w)
BY AnswerType DEF Keeps, PlaceInv

LEMMA FailKeeps ==
  ASSUME TypeOK, PlaceInv, NEW w \in Workers, Fails(w)
  PROVE  Keeps(w)
BY AnswerKeeps DEF Fails

\* The places a request passes with an upload in hand
Busy == Labels \ (Early \cup {"unlock"})

LEMMA BusyOK ==
  ASSUME NEW r \in Request, r.at \in Busy, r.up # NoUpload
  PROVE  PlaceOK(r) /\ r.at # "idle"
BY DEF PlaceOK, Busy, Early

LEMMA MoveKeeps ==
  ASSUME TypeOK, PlaceInv, NEW w \in Workers,
         NEW r \in Request, PlaceOK(r), r.at # "idle",
         r.up = req[w].up, r.held = req[w].held,
         req' = [req EXCEPT ![w] = r]
  PROVE  Keeps(w)
BY DEF Keeps, TypeOK

LEMMA GoesKeeps ==
  ASSUME TypeOK, PlaceInv, NEW w \in Workers, req[w].up # NoUpload,
         NEW label \in Busy, Goes(w, label)
  PROVE  Keeps(w)
<1>. DEFINE r == [req[w] EXCEPT !.at = label]
<1>1. req[w] \in Request /\ label \in Labels
  BY DEF TypeOK, Busy
<1>2. r \in Request /\ r.at = label /\ r.up = req[w].up /\ r.held = req[w].held
  BY <1>1 DEF Request
<1>3. req' = [req EXCEPT ![w] = r]
  BY <1>1 DEF Goes, TypeOK
<1> QED
  BY <1>2, <1>3, MoveKeeps, BusyOK

\* The rest of the state
FilesTyped ==
  /\ infoFile' \in [Uploads -> {"none", "torn", "whole"}]
  /\ info' \in [Uploads -> Info]
  /\ binFiles' \subseteq Uploads
  /\ bin' \in [Uploads -> Seq(Uploads \X Nat)]
  /\ completed' \in [Uploads -> Nat]

\* A step that keeps the locks, the ids and what was told keeps the invariant.
LEMMA MarksIInv ==
  ASSUME IInv, NEW w \in Workers, Keeps(w), FilesTyped,
         broken' \subseteq Uploads, UNCHANGED << locks, ids, told >>
  PROVE  IInv'
<1>1. TypeOK'
  BY DEF IInv, TypeOK, Keeps, FilesTyped, ids
<1>2. PlaceInv'
  BY DEF IInv, PlaceInv, Keeps, ids
<1>3. LocksOwned'
  <2>1. ASSUME NEW v \in Workers
        PROVE  /\ req'[v].held = req[v].held /\ req'[v].up = req[v].up
               /\ req[v].held /\ req[v].at # "idle" => req'[v].at # "idle"
    BY DEF Keeps
  <2> QED
    BY <2>1 DEF IInv, LocksOwned, Holds, At
<1> QED
  BY <1>1, <1>2, <1>3 DEF IInv

LEMMA KeepsIInv ==
  ASSUME IInv, NEW w \in Workers, Keeps(w), FilesTyped,
         UNCHANGED << locks, ids, told, broken >>
  PROVE  IInv'
<1>1. broken' \subseteq Uploads
  BY DEF IInv, TypeOK
<1> QED
  BY <1>1, MarksIInv

\* A request with an upload in hand, and what it has read of it
LEMMA InHand ==
  ASSUME TypeOK, PlaceInv, NEW w \in Workers, req[w].at \in Busy \ {"reply"}
  PROVE  req[w].up \in Uploads /\ req[w].up # NoUpload /\ req[w] \in Request
BY UploadsAssumption DEF TypeOK, PlaceInv, PlaceOK, Busy, Early, Request

LEMMA LimitBusy ==
  {"lock", "reply", "info", "stat", "truncInfo", "writeInfo", "copy", "begin",
   "write", "flag", "stopped", "finish", "rmInfo", "rmBin"} \subseteq Busy
BY DEF Busy, Labels, Early

-----------------------------------------------------------------------------
(* FileStore.GetUpload and sizeOfUploads *)

LEMMA ReadInfoKeeps ==
  ASSUME TypeOK, PlaceInv, NEW w \in Workers, ReadInfo(w)
  PROVE  Keeps(w)
<1>. DEFINE r == [req[w] EXCEPT !.at = "stat", !.info = info[req[w].up]]
<1>1. req[w].up \in Uploads /\ req[w].up # NoUpload /\ req[w] \in Request
  BY InHand, LimitBusy DEF ReadInfo, At
<1>2. CASE Fails(w)
  BY <1>2, FailKeeps
<1>3. CASE req' = [req EXCEPT ![w].at = "stat", ![w].info = info[req[w].up]]
  <2>1. req' = [req EXCEPT ![w] = r]
    BY <1>3 DEF TypeOK
  <2>2. r \in Request /\ r.at = "stat" /\ r.up = req[w].up /\ r.held = req[w].held
    BY <1>1 DEF Request, Labels, TypeOK
  <2> QED
    BY <1>1, <2>1, <2>2, MoveKeeps, BusyOK, LimitBusy
<1> QED
  BY <1>2, <1>3 DEF ReadInfo

LEMMA DeclaresKeeps ==
  ASSUME TypeOK, PlaceInv, NEW w \in Workers, req[w].at = "stat",
         NEW off \in Nat, NEW decl \in Nat, Declares(w, off, decl)
  PROVE  Keeps(w)
<1>. DEFINE i == [req[w].info EXCEPT !.size = decl, !.deferred = FALSE]
            r == [req[w] EXCEPT !.at = "truncInfo", !.off = off, !.info = i]
<1>1. req[w].up # NoUpload /\ req[w] \in Request
  BY InHand, LimitBusy
<1>2. CASE Fails(w)
  BY <1>2, FailKeeps
<1>3. CASE req' = [req EXCEPT ![w].at = "truncInfo", ![w].off = off,
                              ![w].info.size = decl, ![w].info.deferred = FALSE]
  <2>1. req' = [req EXCEPT ![w] = r]
    <3>1. req \in [Workers -> Request] /\ req[w].info \in Info
      BY <1>1 DEF TypeOK, Request
    <3>2. req'[w] = r
      BY <1>1, <1>3, <3>1 DEF Request, Info
    <3>3. \A v \in Workers : v # w => req'[v] = req[v]
      BY <1>3, <3>1
    <3>4. req' = [v \in Workers |-> req'[v]]
      BY <1>3, <3>1
    <3>. HIDE DEF r
    <3> QED
      BY <3>1, <3>2, <3>3, <3>4
  <2>2. i \in Info
    BY <1>1 DEF Request, Info
  <2>3. r \in Request /\ r.at = "truncInfo" /\ r.up = req[w].up
        /\ r.held = req[w].held
    BY <1>1, <2>2 DEF Request, Labels
  <2> QED
    BY <1>1, <2>1, <2>3, MoveKeeps, BusyOK, LimitBusy
<1> QED
  BY <1>2, <1>3 DEF Declares

LEMMA PatchKeeps ==
  ASSUME TypeOK, PlaceInv, NEW w \in Workers, req[w].at = "stat",
         NEW size \in Nat, NEW claim \in Lengths,
         NEW decl \in Lengths \cup {Unknown}, PatchChecked(w, size, claim, decl)
  PROVE  Keeps(w)
<1>. DEFINE r == [req[w] EXCEPT !.at = "begin", !.off = claim]
<1>1. req[w].up # NoUpload /\ req[w] \in Request
  BY InHand, LimitBusy
<1>2. claim \in Nat
  BY BoundsAssumption DEF Lengths
<1>3. CASE Fails(w)
  BY <1>3, FailKeeps
<1>4. CASE Answers(w, claim)
  BY <1>2, <1>4, AnswerKeeps
<1>5. CASE decl # Unknown /\ Declares(w, claim, decl)
  <2>1. decl \in Nat
    BY <1>5, BoundsAssumption DEF Lengths
  <2> QED
    BY <1>2, <1>5, <2>1, DeclaresKeeps
<1>6. CASE req' = [req EXCEPT ![w].at = "begin", ![w].off = claim]
  <2>1. req' = [req EXCEPT ![w] = r]
    BY <1>6 DEF TypeOK
  <2>2. r \in Request /\ r.at = "begin" /\ r.up = req[w].up /\ r.held = req[w].held
    BY <1>1, <1>2 DEF Request, Labels
  <2> QED
    BY <1>1, <2>1, <2>2, MoveKeeps, BusyOK, LimitBusy
<1> QED
  BY <1>3, <1>4, <1>5, <1>6 DEF PatchChecked

LEMMA StatKeeps ==
  ASSUME TypeOK, PlaceInv, NEW w \in Workers, Stat(w)
  PROVE  Keeps(w)
<1>. DEFINE u == req[w].up
<1>1. u \in Uploads /\ u # NoUpload /\ req[w].at = "stat"
  BY InHand, LimitBusy DEF Stat, At
<1>2. Len(bin[u]) \in Nat
  BY <1>1 DEF TypeOK
<1>3. CASE Fails(w)
  BY <1>3, FailKeeps
<1>4. CASE \E claim \in Lengths, decl \in Lengths \cup {Unknown} :
             PatchChecked(w, Len(bin[u]), claim, decl)
  BY <1>1, <1>2, <1>4, PatchKeeps
<1>5. CASE Answers(w, Len(bin[u]))
  BY <1>2, <1>5, AnswerKeeps
<1>6. CASE Goes(w, "rmInfo")
  BY <1>1, <1>6, GoesKeeps, LimitBusy
<1> QED
  BY <1>3, <1>4, <1>5, <1>6 DEF Stat

LEMMA PartInfoKeeps ==
  ASSUME TypeOK, PlaceInv, NEW w \in Workers, PartInfo(w)
  PROVE  Keeps(w)
<1>. DEFINE p == req[w].info.parts[req[w].part]
            r == [req[w] EXCEPT !.at = "partStat", !.off = info[p].size]
<1>1. req[w] \in Request /\ PlaceOK(req[w]) /\ req[w].at = "partInfo"
  BY DEF TypeOK, PlaceInv, PartInfo, At
<1>2. req[w].part \in DOMAIN req[w].info.parts /\ ~req[w].held
  BY <1>1 DEF PlaceOK, Early
<1>3. p \in Uploads
  BY <1>1, <1>2 DEF Request, Info
<1>4. info[p].size \in Nat
  BY <1>3 DEF TypeOK, Info
<1>5. CASE Fails(w)
  BY <1>5, FailKeeps
<1>6. CASE req' = [req EXCEPT ![w].at = "partStat", ![w].off = info[p].size]
  <2>1. req' = [req EXCEPT ![w] = r]
    BY <1>6 DEF TypeOK
  <2>2. /\ r \in Request /\ r.at = "partStat" /\ r.off = info[p].size
        /\ r.up = req[w].up /\ r.held = req[w].held
        /\ r.part = req[w].part /\ r.info = req[w].info
    BY <1>1, <1>4 DEF Request, Labels
  <2>3. PlaceOK(r)
    BY <1>2, <1>4, <2>2 DEF PlaceOK, Early
  <2> QED
    BY <2>1, <2>2, <2>3, MoveKeeps
<1> QED
  BY <1>5, <1>6 DEF PartInfo

LEMMA PartStatKeeps ==
  ASSUME TypeOK, PlaceInv, NEW w \in Workers, PartStat(w)
  PROVE  Keeps(w)
<1>. DEFINE q == req[w]
            last == q.part = Len(q.info.parts)
            size == q.info.size + q.off
            at == IF last THEN "createBin" ELSE "partInfo"
            part == IF last THEN 1 ELSE q.part + 1
            i == [q.info EXCEPT !.size = size]
            r == [q EXCEPT !.at = at, !.part = part, !.info = i, !.off = 0]
<1>1. q \in Request /\ PlaceOK(q) /\ q.at = "partStat"
  BY DEF TypeOK, PlaceInv, PartStat, At
<1>2. q.part \in 1 .. Len(q.info.parts) /\ ~q.held /\ q.off \in Nat
  BY <1>1 DEF PlaceOK, Early, Request, Info
<1>3. q.info.size \in Nat /\ Len(q.info.parts) \in Nat /\ q.info \in Info
  BY <1>1 DEF Request, Info
<1>4. CASE Fails(w)
  BY <1>4, FailKeeps
<1>5. CASE req' = [req EXCEPT ![w].at = at, ![w].part = part,
                              ![w].info.size = size, ![w].off = 0]
  <2>1. req' = [req EXCEPT ![w] = r]
    BY <1>1, <1>5 DEF TypeOK, Request, Info
  <2>2. i \in Info /\ i.parts = q.info.parts
    BY <1>2, <1>3 DEF Info
  <2>3. part \in Nat /\ at \in Labels
    BY <1>2, <1>3 DEF Labels
  <2>4. /\ r \in Request /\ r.at = at /\ r.part = part
        /\ r.up = q.up /\ r.held = q.held /\ r.info = i
    BY <1>1, <2>2, <2>3 DEF Request
  <2>5. at = "partInfo" => part \in 1 .. Len(q.info.parts)
    BY <1>2, <1>3
  <2>6. PlaceOK(r)
    <3>1. r.at \in {"createBin", "partInfo"} /\ ~r.held
      BY <1>2, <2>4
    <3>2. r.at = "partInfo" => r.part \in DOMAIN r.info.parts
      BY <1>3, <2>2, <2>4, <2>5 DEF Info
    <3> QED
      BY <3>1, <3>2 DEF PlaceOK, Early
  <2>7. r.at # "idle"
    BY <2>4
  <2> HIDE DEF r
  <2> QED
    BY <2>1, <2>4, <2>6, <2>7, MoveKeeps
<1> QED
  BY <1>4, <1>5 DEF PartStat

-----------------------------------------------------------------------------
(* The steps of an upload that go on in one way or fail *)

LEMMA AfterInfoKeeps ==
  ASSUME TypeOK, PlaceInv, NEW w \in Workers, req[w].at = "writeInfo",
         AfterInfo(w)
  PROVE  Keeps(w)
<1>1. req[w].up # NoUpload
  BY InHand, LimitBusy
<1>2. CASE \E label \in Busy : Goes(w, label)
  BY <1>1, <1>2, GoesKeeps
<1>3. CASE Answers(w, Unknown)
  BY <1>3, AnswerKeeps
<1> QED
  BY <1>2, <1>3, LimitBusy DEF AfterInfo

LEMMA BeginKeeps ==
  ASSUME TypeOK, PlaceInv, NEW w \in Workers, Begin(w)
  PROVE  Keeps(w)
<1>1. req[w].up # NoUpload /\ req[w] \in Request
  BY InHand, LimitBusy DEF Begin, At
<1>2. CASE Fails(w)
  BY <1>2, FailKeeps
<1>3. CASE Goes(w, "finish")
  BY <1>1, <1>3, GoesKeeps, LimitBusy
<1>4. CASE req' = [req EXCEPT ![w].at = "flag", ![w].err = TRUE]
  <2>. DEFINE r == [req[w] EXCEPT !.at = "flag", !.err = TRUE]
  <2>1. req' = [req EXCEPT ![w] = r]
    BY <1>4 DEF TypeOK
  <2>2. r \in Request /\ r.at = "flag" /\ r.up = req[w].up /\ r.held = req[w].held
    BY <1>1 DEF Request, Labels
  <2> QED
    BY <1>1, <2>1, <2>2, MoveKeeps, BusyOK, LimitBusy
<1>5. ASSUME NEW len \in Lengths \cup {Unknown},
             req' = [req EXCEPT ![w].at = "write", ![w].len = len]
      PROVE  Keeps(w)
  <2>. DEFINE r == [req[w] EXCEPT !.at = "write", !.len = len]
  <2>1. req' = [req EXCEPT ![w] = r]
    BY <1>5 DEF TypeOK
  <2>2. len \in Nat \cup {Unknown}
    BY BoundsAssumption DEF Lengths
  <2>3. r \in Request /\ r.at = "write" /\ r.up = req[w].up /\ r.held = req[w].held
    BY <1>1, <2>2 DEF Request, Labels
  <2> QED
    BY <1>1, <2>1, <2>3, MoveKeeps, BusyOK, LimitBusy
<1> QED
  BY <1>2, <1>3, <1>4, <1>5 DEF Begin

LEMMA BodyKeeps ==
  ASSUME TypeOK, PlaceInv, NEW w \in Workers,
         WriteByte(w) \/ BodyEnds(w) \/ BodyFails(w)
  PROVE  Keeps(w)
<1>1. req[w].up # NoUpload /\ req[w] \in Request /\ req[w].at = "write"
  BY InHand, LimitBusy DEF WriteByte, BodyEnds, BodyFails, At
<1>2. CASE WriteByte(w)
  <2>. DEFINE r == [req[w] EXCEPT !.n = @ + 1]
  <2>1. req' = [req EXCEPT ![w] = r]
    BY <1>2 DEF WriteByte, TypeOK
  <2>2. r \in Request /\ r.at = "write" /\ r.up = req[w].up /\ r.held = req[w].held
    BY <1>1 DEF Request
  <2> QED
    BY <1>1, <2>1, <2>2, MoveKeeps, BusyOK, LimitBusy
<1>3. CASE BodyEnds(w)
  <2>. DEFINE r == [req[w] EXCEPT !.at = "flag", !.len = 0]
  <2>1. req' = [req EXCEPT ![w] = r]
    BY <1>3 DEF BodyEnds, TypeOK
  <2>2. r \in Request /\ r.at = "flag" /\ r.up = req[w].up /\ r.held = req[w].held
    BY <1>1 DEF Request, Labels
  <2> QED
    BY <1>1, <2>1, <2>2, MoveKeeps, BusyOK, LimitBusy
<1>4. CASE BodyFails(w)
  <2>. DEFINE r == [req[w] EXCEPT !.at = "flag", !.len = 0, !.err = TRUE]
  <2>1. req' = [req EXCEPT ![w] = r]
    BY <1>4 DEF BodyFails, TypeOK
  <2>2. r \in Request /\ r.at = "flag" /\ r.up = req[w].up /\ r.held = req[w].held
    BY <1>1 DEF Request, Labels
  <2> QED
    BY <1>1, <2>1, <2>2, MoveKeeps, BusyOK, LimitBusy
<1> QED
  BY <1>2, <1>3, <1>4

LEMMA StopKeeps ==
  ASSUME TypeOK, PlaceInv, NEW w \in Workers, StopUpload(w)
  PROVE  Keeps(w)
<1>. DEFINE r == [req[w] EXCEPT !.stop = TRUE]
<1>1. /\ req[w].up # NoUpload /\ req[w] \in Request
      /\ req[w].at \in Busy
  BY InHand, LimitBusy DEF StopUpload
<1>2. req' = [req EXCEPT ![w] = r]
  BY DEF StopUpload, TypeOK
<1>3. r \in Request /\ r.at = req[w].at /\ r.up = req[w].up /\ r.held = req[w].held
  BY <1>1 DEF Request
<1> QED
  BY <1>1, <1>2, <1>3, MoveKeeps, BusyOK

LEMMA TailKeeps ==
  ASSUME TypeOK, PlaceInv, NEW w \in Workers,
         Flag(w) \/ Stopped(w) \/ Finish(w) \/ FinishRefused(w)
  PROVE  Keeps(w)
<1>1. req[w].up # NoUpload /\ req[w] \in Request
  BY InHand, LimitBusy DEF Flag, Stopped, Finish, FinishRefused, At
<1>2. CASE Flag(w)
  BY <1>1, <1>2, GoesKeeps, LimitBusy DEF Flag
<1>3. CASE Stopped(w)
  BY <1>1, <1>3, GoesKeeps, FailKeeps, LimitBusy DEF Stopped
<1>4. CASE Finish(w) \/ FinishRefused(w)
  <2>1. Offset(req[w]) \in Nat \cup {Unknown}
    BY <1>1 DEF Offset, Request, Unknown
  <2> QED
    BY <1>4, <2>1, AnswerKeeps DEF Finish, FinishRefused
<1> QED
  BY <1>2, <1>3, <1>4

LEMMA AfterTerminateKeeps ==
  ASSUME TypeOK, PlaceInv, NEW w \in Workers,
         req[w].at \in {"rmInfo", "rmBin"}, AfterTerminate(w)
  PROVE  Keeps(w)
<1>1. req[w].up # NoUpload
  BY InHand, LimitBusy
<1> QED
  BY <1>1, GoesKeeps, AnswerKeeps, LimitBusy DEF AfterTerminate

-----------------------------------------------------------------------------
(* The files stay typed *)

LEMMA ConcatType ==
  ASSUME NEW S, NEW s \in Seq(S), NEW t \in Seq(S)
  PROVE  s \o t \in Seq(S)
OBVIOUS

LEMMA AppendType ==
  ASSUME NEW S, NEW s \in Seq(S), NEW e \in S
  PROVE  Append(s, e) \in Seq(S)
OBVIOUS

LEMMA PrefixType ==
  ASSUME NEW S, NEW s \in Seq(S), NEW n \in 0 .. Len(s)
  PROVE  SubSeq(s, 1, n) \in Seq(S)
BY SubSeqProperties

LEMMA NewInfoType == NewInfo \in Info
BY DEF NewInfo, Info

LEMMA SameFiles ==
  ASSUME TypeOK, UNCHANGED << files, completed >>
  PROVE  FilesTyped
BY DEF TypeOK, FilesTyped, files

\* What a request leaves half done is an upload.
LEMMA InterruptedType ==
  ASSUME TypeOK, PlaceInv, NEW w \in Workers
  PROVE  Interrupted(w) \subseteq Uploads
<1>1. HalfDone(w) => req[w].up \in Uploads
  BY InHand, LimitBusy DEF HalfDone
<1> QED
  BY <1>1 DEF Interrupted

LEMMA InfoFailsKeeps ==
  ASSUME TypeOK, PlaceInv, NEW w \in Workers,
         req[w].at \in {"truncInfo", "writeInfo"}, InfoFails(w)
  PROVE  Keeps(w) /\ broken' \subseteq Uploads /\ req'[w].at = "reply"
<1>. DEFINE q == req[w]
            r == [Idle EXCEPT !.at = "reply", !.op = q.op, !.off = Unknown,
                              !.up = q.up, !.held = q.held]
<1>1. q \in Request /\ q.up # NoUpload
  BY InHand, LimitBusy
<1>2. req' = [req EXCEPT ![w] = r]
  BY DEF InfoFails
<1>3. r \in Request /\ r.at = "reply" /\ r.up = q.up /\ r.held = q.held
  BY <1>1, IdleType DEF Request, Labels, Unknown
<1>4. PlaceOK(r) /\ r.at # "idle"
  BY <1>1, <1>3, BusyOK, LimitBusy
<1>. HIDE DEF r
<1>5. Keeps(w)
  BY <1>2, <1>3, <1>4, MoveKeeps
<1>6. broken' \subseteq Uploads
  BY InterruptedType DEF InfoFails, TypeOK
<1>7. req'[w].at = "reply"
  BY <1>2, <1>3 DEF TypeOK
<1> QED
  BY <1>5, <1>6, <1>7

LEMMA TruncInfoStep ==
  ASSUME IInv, NEW w \in Workers, TruncInfo(w)
  PROVE  IInv'
<1>1. /\ TypeOK /\ PlaceInv /\ req[w].up # NoUpload
      /\ req[w].at = "truncInfo"
  BY InHand, LimitBusy DEF IInv, TruncInfo, At
<1>2. Keeps(w) /\ broken' \subseteq Uploads
  <2>1. CASE InfoFails(w)
    BY <1>1, <2>1, InfoFailsKeeps
  <2>2. CASE Goes(w, "writeInfo") /\ UNCHANGED broken
    BY <1>1, <2>2, GoesKeeps, LimitBusy DEF TypeOK
  <2> QED
    BY <2>1, <2>2 DEF TruncInfo
<1>3. FilesTyped
  BY <1>1 DEF TypeOK, FilesTyped, TruncInfo, InfoFails
<1> QED
  BY <1>2, <1>3, MarksIInv DEF TruncInfo, ids

LEMMA WriteInfoStep ==
  ASSUME IInv, NEW w \in Workers, WriteInfo(w)
  PROVE  IInv'
<1>1. TypeOK /\ PlaceInv /\ req[w] \in Request /\ req[w].at = "writeInfo"
  BY InHand, LimitBusy DEF IInv, WriteInfo, At
<1>2. Keeps(w) /\ broken' \subseteq Uploads
  <2>1. CASE InfoFails(w)
    BY <1>1, <2>1, InfoFailsKeeps
  <2>2. CASE AfterInfo(w) /\ UNCHANGED broken
    BY <1>1, <2>2, AfterInfoKeeps DEF TypeOK
  <2> QED
    BY <2>1, <2>2 DEF WriteInfo
<1>3. req[w].info \in Info
  BY <1>1 DEF Request
<1>4. FilesTyped
  <2>1. \/ UNCHANGED << infoFile, info >>
        \/ /\ infoFile' = [infoFile EXCEPT ![req[w].up] = "whole"]
           /\ info' = [info EXCEPT ![req[w].up] = req[w].info]
    BY DEF WriteInfo, InfoFails
  <2>2. UNCHANGED << binFiles, bin, completed >>
    BY DEF WriteInfo
  <2> QED
    BY <1>1, <1>3, <2>1, <2>2 DEF TypeOK, FilesTyped
<1> QED
  BY <1>2, <1>4, MarksIInv DEF WriteInfo, ids

LEMMA CopyStep ==
  ASSUME IInv, NEW w \in Workers, Copy(w)
  PROVE  IInv'
<1>. DEFINE p == req[w].info.parts[req[w].part]
            last == req[w].part = Len(req[w].info.parts)
            r == [req[w] EXCEPT !.part = @ + 1]
<1>1. /\ TypeOK /\ PlaceInv /\ req[w].up # NoUpload
      /\ req[w] \in Request /\ req[w].at = "copy"
  BY InHand, LimitBusy DEF IInv, Copy, At
<1>2. CASE p \notin binFiles
  <2>1. Fails(w) /\ UNCHANGED << bin, completed >>
    BY <1>2 DEF Copy
  <2>2. Keeps(w)
    BY <1>1, <2>1, FailKeeps
  <2>3. FilesTyped
    BY <1>1, <2>1, SameFiles DEF Copy, files
  <2> QED
    BY <2>2, <2>3, KeepsIInv DEF Copy, ids
<1>3. ASSUME p \in binFiles, Fails(w), UNCHANGED completed,
             NEW n \in 0 .. Len(bin[p]),
             bin' = [bin EXCEPT ![req[w].up] = @ \o SubSeq(bin[p], 1, n)]
      PROVE  IInv'
  <2>1. Keeps(w)
    BY <1>1, <1>3, FailKeeps
  <2>2. bin[p] \in Seq(Uploads \X Nat)
    BY <1>1, <1>3 DEF TypeOK
  <2>3. SubSeq(bin[p], 1, n) \in Seq(Uploads \X Nat)
    BY <2>2, PrefixType
  <2>4. bin' \in [Uploads -> Seq(Uploads \X Nat)]
    <3>1. \A u \in Uploads :
            bin[u] \o SubSeq(bin[p], 1, n) \in Seq(Uploads \X Nat)
      BY <1>1, <2>3, ConcatType DEF TypeOK
    <3> QED
      BY <1>1, <1>3, <3>1 DEF TypeOK
  <2>5. FilesTyped
    <3>1. UNCHANGED << infoFile, info, binFiles, completed >>
      BY <1>3 DEF Copy
    <3> QED
      BY <1>1, <2>4, <3>1 DEF TypeOK, FilesTyped
  <2> QED
    BY <2>1, <2>5, KeepsIInv DEF Copy, ids
<1>4. CASE /\ p \in binFiles
           /\ bin' = [bin EXCEPT ![req[w].up] = @ \o bin[p]]
           /\ completed' = IF last THEN [completed EXCEPT ![req[w].up] = @ + 1]
                                   ELSE completed
           /\ \/ req' = [req EXCEPT ![w].part = @ + 1]
              \/ Goes(w, "finish")
              \/ Answers(w, Unknown)
  <2>2. ASSUME req' = [req EXCEPT ![w].part = @ + 1]
        PROVE  Keeps(w)
    <3>1. req' = [req EXCEPT ![w] = r]
      BY <2>2 DEF TypeOK
    <3>2. /\ r \in Request /\ r.at = "copy"
          /\ r.up = req[w].up /\ r.held = req[w].held
      BY <1>1 DEF Request
    <3> QED
      BY <1>1, <3>1, <3>2, MoveKeeps, BusyOK, LimitBusy
  <2>3. Keeps(w)
    BY <1>1, <1>4, <2>2, GoesKeeps, AnswerKeeps, LimitBusy
  <2>4. p \in Uploads
    BY <1>1, <1>4 DEF TypeOK
  <2>5. bin' \in [Uploads -> Seq(Uploads \X Nat)]
    <3>1. \A u \in Uploads : bin[u] \o bin[p] \in Seq(Uploads \X Nat)
      BY <1>1, <2>4, ConcatType DEF TypeOK
    <3> QED
      BY <1>1, <1>4, <3>1 DEF TypeOK
  <2>6. FilesTyped
    <3>1. UNCHANGED << infoFile, info, binFiles >>
      BY DEF Copy
    <3>2. completed' \in [Uploads -> Nat]
      <4>1. completed \in [Uploads -> Nat]
        BY <1>1 DEF TypeOK
      <4>2. completed' = completed
            \/ completed' = [completed EXCEPT ![req[w].up] = @ + 1]
        BY <1>4
      <4> QED
        BY ONLY <4>1, <4>2
    <3>3. /\ infoFile \in [Uploads -> {"none", "torn", "whole"}]
          /\ info \in [Uploads -> Info] /\ binFiles \subseteq Uploads
      BY <1>1 DEF TypeOK
    <3> QED
      BY ONLY <2>5, <3>1, <3>2, <3>3 DEF FilesTyped
  <2> QED
    BY <2>3, <2>6, KeepsIInv DEF Copy, ids
<1> QED
  BY <1>2, <1>3, <1>4 DEF Copy

LEMMA WriteByteStep ==
  ASSUME IInv, NEW w \in Workers, WriteByte(w)
  PROVE  IInv'
<1>. DEFINE r == req[w]
            e == << r.up, r.off + r.n + 1 >>
<1>1. TypeOK /\ PlaceInv /\ r.up \in Uploads /\ r \in Request
  BY InHand, LimitBusy DEF IInv, WriteByte, At
<1>2. Keeps(w)
  BY <1>1, BodyKeeps
<1>3. e \in Uploads \X Nat
  BY <1>1 DEF Request, Unknown
<1>4. bin' = IF r.up \in binFiles THEN [bin EXCEPT ![r.up] = Append(@, e)] ELSE bin
  BY DEF WriteByte
<1>5. bin' \in [Uploads -> Seq(Uploads \X Nat)]
  <2>. HIDE DEF e, r
  <2>1. \A u \in Uploads : Append(bin[u], e) \in Seq(Uploads \X Nat)
    BY <1>1, <1>3, AppendType DEF TypeOK
  <2> QED
    BY <1>1, <1>4, <2>1 DEF TypeOK
<1>6. FilesTyped
  BY <1>1, <1>5 DEF TypeOK, FilesTyped, WriteByte, history
<1> QED
  BY <1>2, <1>6, KeepsIInv DEF WriteByte, ids, history

LEMMA FinishStep ==
  ASSUME IInv, NEW w \in Workers, Finish(w)
  PROVE  IInv'
<1>1. TypeOK /\ PlaceInv /\ Keeps(w)
  BY TailKeeps DEF IInv
<1>2. completed' \in [Uploads -> Nat]
  <2>1. \/ completed' = [completed EXCEPT ![req[w].up] = @ + 1]
        \/ completed' = completed
    BY DEF Finish
  <2>2. completed \in [Uploads -> Nat]
    BY <1>1 DEF TypeOK
  <2> QED
    BY <2>1, <2>2
<1>3. FilesTyped
  BY <1>1, <1>2 DEF TypeOK, FilesTyped, Finish, files
<1> QED
  BY <1>1, <1>3, KeepsIInv DEF Finish

LEMMA RemoveInfoStep ==
  ASSUME IInv, NEW w \in Workers, RemoveInfo(w)
  PROVE  IInv'
<1>1. TypeOK /\ PlaceInv /\ req[w].up # NoUpload /\ req[w].at = "rmInfo"
  BY InHand, LimitBusy DEF IInv, RemoveInfo, At
<1>2. Keeps(w)
  BY <1>1, GoesKeeps, AfterTerminateKeeps, LimitBusy DEF RemoveInfo
<1>3. FilesTyped
  <2>1. /\ UNCHANGED << binFiles, bin, completed >>
        /\ \/ UNCHANGED << infoFile, info >>
           \/ /\ infoFile' = [infoFile EXCEPT ![req[w].up] = "none"]
              /\ info' = [info EXCEPT ![req[w].up] = NewInfo]
    BY DEF RemoveInfo, history
  <2>2. /\ infoFile \in [Uploads -> {"none", "torn", "whole"}]
        /\ info \in [Uploads -> Info]
    BY <1>1 DEF TypeOK
  <2>3. /\ infoFile' \in [Uploads -> {"none", "torn", "whole"}]
        /\ info' \in [Uploads -> Info]
    BY <2>1, <2>2, NewInfoType
  <2>4. /\ binFiles' \subseteq Uploads /\ bin' \in [Uploads -> Seq(Uploads \X Nat)]
        /\ completed' \in [Uploads -> Nat]
    BY <1>1, <2>1 DEF TypeOK
  <2> QED
    BY <2>3, <2>4 DEF FilesTyped
<1> QED
  BY <1>2, <1>3, KeepsIInv DEF RemoveInfo, ids, history

LEMMA RemoveBinStep ==
  ASSUME IInv, NEW w \in Workers, RemoveBin(w)
  PROVE  IInv'
<1>1. TypeOK /\ PlaceInv /\ req[w].up # NoUpload /\ req[w].at = "rmBin"
  BY InHand, LimitBusy DEF IInv, RemoveBin, At
<1>2. Keeps(w)
  BY <1>1, AfterTerminateKeeps DEF RemoveBin
<1>3. << >> \in Seq(Uploads \X Nat)
  OBVIOUS
<1>4. bin' \in [Uploads -> Seq(Uploads \X Nat)] /\ binFiles' \subseteq Uploads
  BY <1>1, <1>3 DEF TypeOK, RemoveBin, Removed
<1>5. FilesTyped
  BY <1>1, <1>4 DEF TypeOK, FilesTyped, RemoveBin
<1>6. broken' \subseteq Uploads
  BY <1>1, InterruptedType DEF RemoveBin, TypeOK
<1> QED
  BY <1>2, <1>5, <1>6, MarksIInv DEF RemoveBin, ids

\* The steps that leave the files alone
LEMMA QuietStep ==
  ASSUME IInv, NEW w \in Workers,
         \/ ReadInfo(w) \/ Stat(w) \/ PartInfo(w) \/ PartStat(w)
         \/ Begin(w) \/ BodyEnds(w) \/ BodyFails(w) \/ StopUpload(w)
         \/ Flag(w) \/ Stopped(w) \/ FinishRefused(w)
  PROVE  IInv'
<1>1. TypeOK /\ PlaceInv
  BY DEF IInv
<1>2. Keeps(w)
  BY <1>1, ReadInfoKeeps, StatKeeps, PartInfoKeeps, PartStatKeeps, BeginKeeps,
     BodyKeeps, StopKeeps, TailKeeps
<1>3. UNCHANGED << files, locks, ids, history >>
  BY DEF ReadInfo, Stat, PartInfo, PartStat, Begin, BodyEnds, BodyFails,
         StopUpload, Flag, Stopped, FinishRefused
<1>4. FilesTyped
  BY <1>1, <1>3, SameFiles DEF history
<1> QED
  BY <1>2, <1>3, <1>4, KeepsIInv DEF history

-----------------------------------------------------------------------------
(* Requests arrive, take a lock, are answered, give it back *)

\* A request that comes holds nothing.
LEMMA BeginsStep ==
  ASSUME IInv, NEW w \in Workers, NEW r \in Request, Begins(w, r),
         PlaceOK(r), ~r.held, r.up \in used \cup {NoUpload}
  PROVE  IInv'
<1>1. /\ TypeOK /\ PlaceInv /\ LocksOwned /\ req' = [req EXCEPT ![w] = r]
      /\ req[w].at = "idle" /\ UNCHANGED << files, locks, ids, history >>
  BY DEF IInv, Begins, At
<1>2. ~req[w].held
  BY <1>1 DEF PlaceInv, PlaceOK, Early
<1>3. TypeOK'
  BY <1>1 DEF TypeOK, files, ids, history
<1>4. PlaceInv'
  BY <1>1 DEF PlaceInv, TypeOK, ids
<1>5. LocksOwned'
  <2>1. \A v \in Workers : v # w => req'[v] = req[v]
    BY <1>1 DEF TypeOK
  <2>2. ~req'[w].held
    BY <1>1 DEF TypeOK
  <2> QED
    BY <1>1, <1>2, <2>1, <2>2 DEF LocksOwned, Holds, At
<1> QED
  BY <1>3, <1>4, <1>5 DEF IInv

LEMMA PartsType ==
  ASSUME NEW n \in Nat, NEW parts \in [1 .. n -> known], known \subseteq Uploads
  PROVE  parts \in Seq(Uploads) /\ Len(parts) = n
<1>1. parts \in [1 .. n -> Uploads]
  OBVIOUS
<1>2. parts \in UNION {[1 .. m -> Uploads] : m \in Nat}
  BY <1>1
<1>3. parts \in Seq(Uploads)
  BY <1>2, SeqDef
<1>4. DOMAIN parts = 1 .. n
  OBVIOUS
<1> QED
  BY <1>3, <1>4, LenProperties

LEMMA RequestsStep ==
  ASSUME IInv, NEW w \in Workers, Requests(w)
  PROVE  IInv'
<1>1. known \subseteq Uploads /\ known \subseteq used
  BY DEF IInv, TypeOK
<1>2. ASSUME NEW size \in Lengths, NEW deferred \in BOOLEAN,
             NEW chunk \in BOOLEAN, Post(w, size, deferred, chunk)
      PROVE  IInv'
  <2>. DEFINE i == [NewInfo EXCEPT !.size = size, !.deferred = deferred]
              r == [Idle EXCEPT !.at = "createBin", !.op = "post", !.info = i,
                                !.chunk = chunk]
  <2>1. size \in Nat
    BY BoundsAssumption DEF Lengths
  <2>2. i \in Info
    BY <2>1, NewInfoType DEF Info
  <2>3. /\ r \in Request /\ r.at = "createBin" /\ r.held = FALSE
        /\ r.up = NoUpload
    <3>. HIDE DEF i
    <3>1. r.at = "createBin" /\ r.held = FALSE /\ r.up = NoUpload
      BY DEF Idle
    <3>2. r \in Request
      BY <2>2, IdleType DEF Request, Labels
    <3> QED
      BY <3>1, <3>2
  <2>4. PlaceOK(r)
    BY <2>3 DEF PlaceOK, Early
  <2>5. Begins(w, r)
    <3>1. r = [Idle EXCEPT !.at = "createBin", !.op = "post",
                           !.info.size = size, !.info.deferred = deferred,
                           !.chunk = chunk]
      <4>1. Idle.info = NewInfo
        BY DEF Idle
      <4>2. r = [Idle EXCEPT !.at = "createBin", !.op = "post",
                             !.info = [Idle.info EXCEPT !.size = size,
                                                        !.deferred = deferred],
                             !.chunk = chunk]
        BY <4>1, Zenon
      <4>. HIDE DEF r
      <4> QED
        BY ONLY <4>2, Zenon
    <3>. HIDE DEF r
    <3> QED
      BY <1>2, <3>1 DEF Post
  <2>. HIDE DEF r
  <2> QED
    BY <2>3, <2>4, <2>5, BeginsStep
<1>3. ASSUME NEW n \in 1 .. MaxParts, NEW parts \in [1 .. n -> known],
             PostFinal(w, parts)
      PROVE  IInv'
  <2>. DEFINE i == [NewInfo EXCEPT !.parts = parts]
              r == [Idle EXCEPT !.at = "partInfo", !.op = "final", !.info = i]
  <2>1. parts \in Seq(Uploads) /\ Len(parts) = n /\ 1 \in DOMAIN parts
    BY <1>1, PartsType, BoundsAssumption
  <2>2. i \in Info /\ i.parts = parts
    BY <2>1, NewInfoType DEF Info
  <2>3. /\ r \in Request /\ r.at = "partInfo" /\ r.held = FALSE
        /\ r.up = NoUpload /\ r.info = i /\ r.part = 1
    BY <2>2, IdleType DEF Request, Labels, Idle
  <2>4. PlaceOK(r)
    BY <2>1, <2>2, <2>3 DEF PlaceOK, Early
  <2>5. Begins(w, r)
    BY <1>3 DEF PostFinal, Idle
  <2>. HIDE DEF r
  <2> QED
    BY <2>3, <2>4, <2>5, BeginsStep
<1>4. ASSUME NEW u \in known, NEW op \in {"patch", "look", "del"}, Ask(w, u, op)
      PROVE  IInv'
  <2>. DEFINE r == [Idle EXCEPT !.at = "lock", !.op = op, !.up = u]
  <2>1. r \in Request /\ r.at = "lock" /\ r.held = FALSE /\ r.up = u
    BY <1>1, IdleType DEF Request, Labels
  <2>2. PlaceOK(r)
    BY <1>1, <2>1, UploadsAssumption DEF PlaceOK, Early
  <2>3. Begins(w, r)
    BY <1>4 DEF Ask
  <2>. HIDE DEF r
  <2> QED
    BY <1>1, <2>1, <2>2, <2>3, BeginsStep
<1> QED
  BY <1>2, <1>3, <1>4 DEF Requests

LEMMA LockStep ==
  ASSUME IInv, NEW w \in Workers, Lock(w)
  PROVE  IInv'
<1>. DEFINE next == IF req[w].op = "post" THEN "begin" ELSE "info"
            r == [req[w] EXCEPT !.at = next, !.held = TRUE]
<1>0. PICK u \in Uploads : u = req[w].up
  BY InHand, LimitBusy DEF IInv, Lock, At
<1>1. /\ TypeOK /\ PlaceInv /\ LocksOwned
      /\ u = req[w].up /\ u # NoUpload /\ req[w] \in Request
  BY <1>0, InHand, LimitBusy DEF IInv, Lock, At
<1>2. UNCHANGED << files, ids, history >>
  BY DEF Lock
<1>3. FilesTyped
  BY <1>1, <1>2, SameFiles DEF history
<1>4. CASE locks' = locks /\ (Goes(w, next) \/ Fails(w))
  <2>1. Keeps(w)
    BY <1>1, <1>4, GoesKeeps, FailKeeps, LimitBusy
  <2> QED
    BY <1>2, <1>3, <1>4, <2>1, KeepsIInv DEF history
<1>5. CASE /\ ~Taken(u) /\ locks' = locks \cup {u}
           /\ req' = [req EXCEPT ![w].at = next, ![w].held = TRUE]
  <2>1. req' = [req EXCEPT ![w] = r]
    BY <1>5 DEF TypeOK
  <2>2. /\ r \in Request /\ r.at = next /\ r.held = TRUE /\ r.up = u
    BY <1>1 DEF Request, Labels
  <2>3. PlaceOK(r)
    BY <1>1, <2>2 DEF PlaceOK, Early
  <2>4. /\ req'[w] = r
        /\ \A v \in Workers : v # w => req'[v] = req[v]
    BY <1>1, <2>1 DEF TypeOK
  <2>5. TypeOK'
    BY <1>1, <1>2, <1>5, <2>1, <2>2 DEF TypeOK, files, ids, history
  <2>. HIDE DEF r
  <2>6. PlaceInv'
    BY <1>1, <1>2, <2>2, <2>3, <2>4 DEF PlaceInv, ids
  <2>7. u \notin locks
    BY <1>5 DEF Taken
  <2>8. LocksOwned'
    <3>1. \A v \in Workers : req[v].held => req[v].up # u
      BY <1>1, <2>7 DEF LocksOwned
    <3>2. \A v \in Workers : Holds(v, u)' => v = w
      BY <2>4, <3>1 DEF Holds
    <3>3. \A t \in Uploads : t # u => \A v \in Workers :
             (Holds(v, t)' <=> Holds(v, t)) /\ (Holds(v, t) => v # w)
      BY <1>1, <2>2, <2>4, <2>7 DEF Holds, LocksOwned
    <3>4. Holds(w, u)' /\ ~At(w, "idle")'
      BY <2>2, <2>4 DEF Holds, At
    <3>5. \A t \in locks' : \E v \in Workers : Holds(v, t)' /\ ~At(v, "idle")'
      <4>1. ASSUME NEW t \in locks, t # u
            PROVE  \E v \in Workers : Holds(v, t)' /\ ~At(v, "idle")'
        <5>1. PICK v \in Workers : Holds(v, t) /\ ~At(v, "idle")
          BY <1>1 DEF LocksOwned
        <5>2. t \in Uploads
          BY <1>1 DEF TypeOK
        <5>3. v # w /\ Holds(v, t)'
          BY <3>3, <4>1, <5>1, <5>2
        <5> QED
          BY <2>4, <5>1, <5>3 DEF At
      <4> QED
        BY <1>5, <3>4, <4>1
    <3>6. \A v \in Workers : req'[v].held => req'[v].up \in locks'
      <4>1. u \in locks' /\ locks \subseteq locks'
        BY <1>5
      <4>2. req'[w].up \in locks'
        BY <2>2, <2>4, <4>1
      <4>3. \A v \in Workers : req[v].held => req[v].up \in locks
        BY <1>1 DEF LocksOwned
      <4> QED
        BY <2>4, <4>1, <4>2, <4>3
    <3>7. \A x, y \in Workers, t \in Uploads :
             Holds(x, t)' /\ Holds(y, t)' => x = y
      BY <1>1, <3>2, <3>3 DEF LocksOwned
    <3> QED
      BY <3>5, <3>6, <3>7 DEF LocksOwned
  <2> QED
    BY <2>5, <2>6, <2>8 DEF IInv
<1> QED
  BY <1>1, <1>4, <1>5 DEF Lock

LEMMA ReplyStep ==
  ASSUME IInv, NEW w \in Workers, Reply(w)
  PROVE  IInv'
<1>. DEFINE q == req[w]
            r == IF q.held THEN [q EXCEPT !.at = "unlock", !.off = 0] ELSE Idle
<1>1. /\ TypeOK /\ PlaceInv /\ LocksOwned /\ q \in Request /\ q.at = "reply"
      /\ q.up \in used \cup {NoUpload} /\ PlaceOK(q)
  BY DEF IInv, Reply, At, TypeOK, PlaceInv
<1>2. UNCHANGED << files, locks, used, completed, broken >>
  BY DEF Reply
<1>3. req' = [req EXCEPT ![w] = r]
  BY DEF Reply, Unlocks
<1>4. /\ r \in Request /\ PlaceOK(r) /\ r.held = q.held
      /\ q.held => r.up = q.up /\ r.at = "unlock"
      /\ r.up \in used \cup {NoUpload}
  <2>1. CASE q.held
    <3>1. /\ r \in Request /\ r.at = "unlock" /\ r.up = q.up
          /\ r.held = q.held
      BY <1>1, <2>1 DEF Request, Labels
    <3>2. q.up # NoUpload
      BY <1>1, <2>1 DEF PlaceOK
    <3>3. PlaceOK(r)
      BY <2>1, <3>1, <3>2 DEF PlaceOK, Early
    <3> QED
      BY <1>1, <3>1, <3>3
  <2>2. CASE ~q.held
    BY <1>1, <2>2, IdleType DEF Request
  <2> QED
    BY <2>1, <2>2
<1>5. known' \subseteq used' /\ told' \in [Uploads -> Nat]
  <2>1. known' = known \cup Names(q)
    BY DEF Reply
  <2>2. Names(q) \subseteq used
    BY <1>1 DEF Names
  <2>3. told' = [u \in Uploads |-> IF u = q.up /\ q.off > told[u]
                                  THEN q.off ELSE told[u]]
    BY DEF Reply
  <2>4. told \in [Uploads -> Nat] /\ q.off \in Nat \cup {-1} /\ known \subseteq used
    BY <1>1 DEF TypeOK, Request, Unknown
  <2>5. told' \in [Uploads -> Nat]
    BY <2>3, <2>4
  <2> QED
    BY <1>2, <2>1, <2>2, <2>4, <2>5
<1>. HIDE DEF r
<1>6. TypeOK'
  BY <1>1, <1>2, <1>3, <1>4, <1>5 DEF TypeOK, files
<1>7. /\ req'[w] = r
      /\ \A v \in Workers : v # w => req'[v] = req[v]
  BY <1>1, <1>3 DEF TypeOK
<1>8. PlaceInv'
  BY <1>1, <1>2, <1>4, <1>7 DEF PlaceInv
<1>9. LocksOwned'
  <2>1. \A v \in Workers, t \in Uploads :
           /\ Holds(v, t)' <=> Holds(v, t)
           /\ Holds(v, t) /\ ~At(v, "idle") => ~At(v, "idle")'
    BY <1>4, <1>7 DEF Holds, At
  <2>2. locks' = locks /\ locks \subseteq Uploads
    BY <1>1, <1>2 DEF TypeOK
  <2>3. \A v \in Workers : /\ req'[v].held = req[v].held
                           /\ req[v].held => req'[v].up = req[v].up
    BY <1>4, <1>7
  <2>4. \A t \in locks : \E v \in Workers : Holds(v, t)' /\ ~At(v, "idle")'
    BY <1>1, <2>1, <2>2 DEF LocksOwned
  <2>5. \A v \in Workers : req'[v].held => req'[v].up \in locks
    BY <1>1, <2>3 DEF LocksOwned
  <2>6. \A x, y \in Workers, t \in Uploads :
           Holds(x, t)' /\ Holds(y, t)' => x = y
    BY <1>1, <2>1 DEF LocksOwned
  <2> QED
    BY <2>2, <2>4, <2>5, <2>6 DEF LocksOwned
<1> QED
  BY <1>6, <1>8, <1>9 DEF IInv

LEMMA UnlockStep ==
  ASSUME IInv, NEW w \in Workers, Unlock(w)
  PROVE  IInv'
<1>0. PICK u \in Uploads : u = req[w].up
  BY UploadsAssumption DEF IInv, Unlock, At, TypeOK, PlaceInv, PlaceOK, Early,
     Request
<1>1. /\ TypeOK /\ PlaceInv /\ LocksOwned /\ req[w].held
      /\ locks' = locks \ {u} /\ req' = [req EXCEPT ![w] = Idle]
      /\ UNCHANGED << files, ids, history >>
  BY <1>0 DEF IInv, Unlock, At, PlaceInv, PlaceOK
<1>2. /\ req'[w] = Idle
      /\ \A v \in Workers : v # w => req'[v] = req[v]
  BY <1>1 DEF TypeOK
<1>3. TypeOK'
  BY <1>1, IdleType DEF TypeOK, files, ids, history
<1>4. PlaceInv'
  BY <1>1, <1>2, IdleType DEF PlaceInv, ids
<1>5. LocksOwned'
  <2>1. \A v \in Workers : v # w /\ req[v].held => req[v].up # u
    BY <1>0, <1>1 DEF LocksOwned, Holds
  <2>2. ~req'[w].held
    BY <1>2, IdleType
  <2>3. \A v \in Workers : req'[v].held => req'[v].up \in locks'
    BY <1>1, <1>2, <2>1, <2>2 DEF LocksOwned
  <2>4. \A t \in locks' : \E v \in Workers : Holds(v, t)' /\ ~At(v, "idle")'
    <3>1. ASSUME NEW t \in locks, t # u
          PROVE  \E v \in Workers : Holds(v, t)' /\ ~At(v, "idle")'
      <4>1. PICK v \in Workers : Holds(v, t) /\ ~At(v, "idle")
        BY <1>1 DEF LocksOwned
      <4>2. v # w
        BY <1>0, <3>1, <4>1 DEF Holds
      <4> QED
        BY <1>2, <4>1, <4>2 DEF Holds, At
    <3> QED
      BY <1>1, <3>1
  <2>5. \A x, y \in Workers, t \in Uploads :
           Holds(x, t)' /\ Holds(y, t)' => x = y
    BY <1>1, <1>2, <2>2 DEF LocksOwned, Holds
  <2> QED
    BY <2>3, <2>4, <2>5 DEF LocksOwned
<1> QED
  BY <1>3, <1>4, <1>5 DEF IInv

\* NewUpload takes its id before the request has any lock.
LEMMA CreateBinStep ==
  ASSUME IInv, NEW w \in Workers, CreateBin(w)
  PROVE  IInv'
<1>1. /\ TypeOK /\ PlaceInv /\ LocksOwned /\ req[w] \in Request
      /\ req[w].at = "createBin" /\ ~req[w].held
  BY DEF IInv, CreateBin, At, TypeOK, PlaceInv, PlaceOK, Early
<1>2. PICK u \in Uploads :
        /\ used' = used \cup {u} /\ binFiles' = binFiles \cup {u}
        /\ req' = [req EXCEPT ![w].at = "truncInfo", ![w].up = u]
  BY DEF CreateBin, IdsLeft
<1>3. UNCHANGED << infoFile, info, bin, locks, known, history >>
  BY DEF CreateBin
<1>. DEFINE r == [req[w] EXCEPT !.at = "truncInfo", !.up = u]
<1>4. req' = [req EXCEPT ![w] = r]
  BY <1>1, <1>2 DEF TypeOK
<1>5. r \in Request /\ r.at = "truncInfo" /\ r.up = u /\ ~r.held
  BY <1>1 DEF Request, Labels
<1>6. PlaceOK(r)
  BY <1>5, UploadsAssumption DEF PlaceOK, Early
<1>. HIDE DEF r
<1>7. /\ req'[w] = r
      /\ \A v \in Workers : v # w => req'[v] = req[v]
  BY <1>1, <1>4 DEF TypeOK
<1>8. TypeOK'
  BY <1>1, <1>2, <1>3, <1>4, <1>5 DEF TypeOK, history
<1>9. PlaceInv'
  <2>1. u \in used' /\ used \subseteq used'
    BY <1>2
  <2>2. ASSUME NEW v \in Workers, v # w
        PROVE  PlaceOK(req'[v]) /\ req'[v].up \in used' \cup {NoUpload}
    BY <1>1, <1>7, <2>1, <2>2 DEF PlaceInv
  <2>3. PlaceOK(req'[w]) /\ req'[w].up \in used'
    BY <1>5, <1>6, <1>7, <2>1
  <2> QED
    BY <2>2, <2>3 DEF PlaceInv
<1>10. LocksOwned'
  BY <1>1, <1>3, <1>5, <1>7 DEF LocksOwned, Holds, At
<1> QED
  BY <1>8, <1>9, <1>10 DEF IInv

\* A crash finds every lock with its request, and forgets both.
LEMMA CrashStep ==
  ASSUME IInv, Crash
  PROVE  IInv'
<1>1. /\ TypeOK /\ PlaceInv /\ req' = [w \in Workers |-> Idle] /\ locks' = {}
      /\ UNCHANGED << files, ids, told, completed >>
  BY DEF IInv, Crash
<1>2. broken' \subseteq Uploads
  <2>1. \A v \in Workers : Interrupted(v) \subseteq Uploads
    BY <1>1, InterruptedType
  <2> QED
    BY <1>1, <2>1 DEF Crash, TypeOK
<1>3. TypeOK'
  BY <1>1, <1>2, IdleType DEF TypeOK, files, ids
<1>4. PlaceInv'
  BY <1>1, IdleType DEF PlaceInv
<1>5. LocksOwned'
  BY <1>1, IdleType DEF LocksOwned, Holds
<1> QED
  BY <1>3, <1>4, <1>5 DEF IInv

-----------------------------------------------------------------------------
LEMMA InitIInv == Init => IInv
<1> SUFFICES ASSUME Init PROVE IInv
  OBVIOUS
<1>1. TypeOK
  BY IdleType, NewInfoType, EmptySeq DEF Init, TypeOK
<1>2. PlaceInv
  BY IdleType DEF Init, PlaceInv
<1>3. LocksOwned
  BY IdleType DEF Init, LocksOwned, Holds
<1> QED
  BY <1>1, <1>2, <1>3 DEF IInv

LEMMA StepIInv == IInv /\ [Next]_vars => IInv'
<1> SUFFICES ASSUME IInv, [Next]_vars PROVE IInv'
  OBVIOUS
<1>1. CASE UNCHANGED vars
  BY <1>1 DEF IInv, TypeOK, PlaceInv, LocksOwned, Holds, At, vars, files, ids,
              history
<1>2. CASE Crash
  BY <1>2, CrashStep
<1>3. ASSUME NEW w \in Workers, Requests(w)
      PROVE  IInv'
  BY <1>3, RequestsStep
<1>4. ASSUME NEW w \in Workers, Step(w) \/ StopUpload(w)
      PROVE  IInv'
  BY <1>4, LockStep, ReplyStep, UnlockStep, QuietStep, CreateBinStep,
     TruncInfoStep, WriteInfoStep, CopyStep, WriteByteStep, FinishStep,
     RemoveInfoStep, RemoveBinStep DEF Step
<1> QED
  BY <1>1, <1>2, <1>3, <1>4 DEF Next, Waits

LEMMA Invariance == Spec => []IInv
BY InitIInv, StepIInv, PTL DEF Spec

\* Every variable keeps its type, through every request, failure and crash of
\* api.go, tus.go and the file store.
THEOREM TypeCorrect == Spec => []TypeOK
<1>1. IInv => TypeOK
  BY DEF IInv
<1> QED
  BY <1>1, Invariance, PTL

\* Every lock that lockUpload has taken is held by exactly one request that is
\* still served: no return of a handler, and no crash, leaves one behind.
THEOREM NoLockLeft == Spec => []LocksOwned
<1>1. IInv => LocksOwned
  BY DEF IInv
<1> QED
  BY <1>1, Invariance, PTL

-----------------------------------------------------------------------------
(***************************************************************************)
(* What the files hold with or without a locker.  sdk/config/uploads.go    *)
(* composes the uploader without one; the bytes of an upload may then be   *)
(* out of order, but a file only grows until it is removed for good, it    *)
(* holds nothing of another upload unless it concatenates, and what a      *)
(* client was told is stored is there.                                     *)
(*                                                                         *)
(* The argument: a request counts on no more bytes than the file has       *)
(* (Backed), and files only grow.  A final upload is nobody else's before  *)
(* it is whole (Hidden), and whoever has read its info writes none         *)
(* (FinalOnly).                                                            *)
(***************************************************************************)

\* The store appends to a data file, or removes it, and what is removed does
\* not come back.
Grows ==
  \A u \in Uploads :
    /\ u \in binFiles' => u \in binFiles \/ u \notin used
    /\ u \in binFiles /\ u \in binFiles' =>
         /\ Len(bin[u]) <= Len(bin'[u])
         /\ \A i \in 1 .. Len(bin[u]) : bin'[u][i] = bin[u][i]

ToldIsStored == \A u \in binFiles : told[u] <= Len(bin[u])

OwnBytes(u) == \A i \in DOMAIN bin[u] : bin[u][i][1] = u

BytesAreOwn ==
  \A u \in Uploads : infoFile[u] = "whole" /\ ~IsFinal(info[u]) => OwnBytes(u)

\* The info of a concatenation is final wherever it is.
FinalOnly(u) ==
  /\ infoFile[u] = "whole" => IsFinal(info[u])
  /\ \A w \in Workers :
       req[w].up = u /\ req[w].at \in {"stat", "truncInfo", "writeInfo"}
         => IsFinal(req[w].info)

\* What a request carries before it has written a byte
Begun(r) ==
  /\ r.at \in {"partInfo", "partStat", "copy"} => r.op = "final"
  /\ r.at \in {"partInfo", "partStat", "createBin"} => r.up = NoUpload
  /\ r.op = "final" /\ r.at \in {"partInfo", "partStat", "createBin"} => IsFinal(r.info)
  /\ r.at \in {"partInfo", "partStat", "createBin", "truncInfo", "writeInfo",
               "lock", "info", "stat"} => r.n = 0
  /\ r.at \in {"createBin", "lock", "info", "stat"} => r.off = 0
  /\ r.at \in {"truncInfo", "writeInfo"} /\ r.op # "patch" => r.off = 0

\* The bytes it counts on are in the file.
Backed(r) ==
  r.up \in binFiles =>
    /\ r.at \in {"truncInfo", "writeInfo", "copy", "begin", "write", "flag", "stopped",
                 "finish", "rmInfo", "rmBin"} => r.off + r.n <= Len(bin[r.up])
    /\ r.at = "reply" => r.off <= Len(bin[r.up])

Making(r) == r.op = "final" /\ r.at \in {"truncInfo", "writeInfo", "copy"}

Hidden(w) ==
  Making(req[w]) =>
    /\ req[w].up \notin known /\ IsFinal(req[w].info)
    /\ \A v \in Workers : v # w => req[v].up # req[w].up
    /\ req[w].at = "writeInfo" => infoFile[req[w].up] = "torn"
    /\ req[w].at = "copy" =>
         infoFile[req[w].up] = "whole" /\ info[req[w].up] = req[w].info

Unused(u) == u \notin used => bin[u] = << >> /\ told[u] = 0

SharedInv ==
  /\ \A w \in Workers : Begun(req[w]) /\ Backed(req[w]) /\ Hidden(w)
  /\ \A u \in Uploads : (OwnBytes(u) \/ FinalOnly(u)) /\ Unused(u)
  /\ ToldIsStored

\* A request that goes on is the same but for its place.
LEMMA GoesTo ==
  ASSUME TypeOK, NEW w \in Workers, NEW label, Goes(w, label)
  PROVE  /\ \A v \in Workers : v # w => req'[v] = req[v]
         /\ req'[w] = [req[w] EXCEPT !.at = label]
         /\ req'[w].at = label /\ req'[w].op = req[w].op
         /\ req'[w].up = req[w].up /\ req'[w].info = req[w].info
         /\ req'[w].part = req[w].part /\ req'[w].off = req[w].off
         /\ req'[w].len = req[w].len /\ req'[w].n = req[w].n
         /\ req'[w].held = req[w].held /\ req'[w].stop = req[w].stop
BY DEF Goes, TypeOK, Request

\* A step of w that changes the files of the upload it has in hand, if any
LEMMA SharedFrame ==
  ASSUME IInv, SharedInv, TypeOK', NEW w \in Workers,
         \A v \in Workers : v # w => req'[v] = req[v],
         Begun(req'[w]), (Backed(req[w]))', (Hidden(w))',
         \/ req'[w].up \in {req[w].up, NoUpload}
         \/ req'[w].up \in known /\ req'[w].at = "lock"
         \/ req'[w].up \notin used /\ req'[w].at = "truncInfo",
         Grows, used \subseteq used', known' \subseteq known \cup {req[w].up},
         \A u \in Uploads : u # req[w].up =>
           infoFile'[u] = infoFile[u] /\ info'[u] = info[u] /\ bin'[u] = bin[u],
         \A u \in Uploads : u = req[w].up => (OwnBytes(u) \/ FinalOnly(u))' /\ (Unused(u))',
         \A u \in Uploads : \/ told'[u] = told[u]
                            \/ u \in used' /\ (u \in binFiles' => told'[u] <= Len(bin'[u]))
  PROVE  SharedInv'
<1>1. /\ req \in [Workers -> Request] /\ bin \in [Uploads -> Seq(Uploads \X Nat)]
      /\ bin' \in [Uploads -> Seq(Uploads \X Nat)] /\ binFiles \subseteq Uploads
      /\ known \subseteq used
      /\ \A v \in Workers : req[v].up \in used \cup {NoUpload}
      /\ used \subseteq Uploads
  BY DEF IInv, TypeOK, PlaceInv
<1>2. \A u \in Uploads : Len(bin[u]) \in Nat /\ Len(bin'[u]) \in Nat
  BY <1>1
<1>3. NoUpload \notin Uploads
  BY UploadsAssumption
<1>4. ASSUME NEW v \in Workers, v # w PROVE Begun(req'[v]) /\ (Backed(req[v]))' /\ (Hidden(v))'
  <2>. req'[v] = req[v]
    BY <1>4
  <2>1. PICK r : r = req[v] /\ r = req'[v]
    OBVIOUS
  <2>2. r \in Request /\ r.up \in used \cup {NoUpload} /\ Begun(r) /\ Backed(r) /\ Hidden(v)
    BY <1>1, <2>1 DEF SharedInv
  <2>3. (Backed(req[v]))'
    <3> SUFFICES ASSUME r.up \in binFiles'
                 PROVE  /\ r.at \in {"truncInfo", "writeInfo", "copy", "begin", "write",
                                     "flag", "stopped", "finish", "rmInfo", "rmBin"}
                             => r.off + r.n <= Len(bin'[r.up])
                        /\ r.at = "reply" => r.off <= Len(bin'[r.up])
      BY <2>1 DEF Backed
    <3>1. r.up \in Uploads
      BY DEF TypeOK
    <3>2. r.up \in binFiles /\ Len(bin[r.up]) <= Len(bin'[r.up])
      BY <1>3, <2>2, <3>1 DEF Grows
    <3>3. /\ Len(bin[r.up]) \in Nat /\ Len(bin'[r.up]) \in Nat
          /\ r.off \in Int /\ r.n \in Nat
      BY <1>2, <2>2, <3>1 DEF Request, Unknown
    <3> QED
      BY <2>2, <3>2, <3>3 DEF Backed
  <2>4. (Hidden(v))'
    <3> SUFFICES ASSUME Making(r)
                 PROVE  /\ r.up \notin known' /\ IsFinal(r.info)
                        /\ \A x \in Workers : x # v => req'[x].up # r.up
                        /\ r.at = "writeInfo" => infoFile'[r.up] = "torn"
                        /\ r.at = "copy" => infoFile'[r.up] = "whole" /\ info'[r.up] = r.info
      BY <2>1 DEF Hidden
    <3>1. /\ r.up \notin known /\ IsFinal(r.info) /\ r.up # req[w].up
          /\ \A x \in Workers : x # v => req[x].up # r.up
          /\ r.at = "writeInfo" => infoFile[r.up] = "torn"
          /\ r.at = "copy" => infoFile[r.up] = "whole" /\ info[r.up] = r.info
      BY <1>4, <2>1, <2>2 DEF Hidden
    <3>2. r.up \in used /\ r.up # NoUpload
      <4>1. PlaceOK(r)
        BY <2>1 DEF IInv, PlaceInv
      <4>2. r.up # NoUpload
        BY <4>1 DEF PlaceOK, Making, Early
      <4> QED
        BY <2>2, <4>2
    <3>3. req'[w].up # r.up
      BY <3>1, <3>2
    <3>4. \A x \in Workers : x # v => req'[x].up # r.up
      BY <3>1, <3>3
    <3> QED
      BY <1>1, <3>1, <3>2, <3>4
  <2> QED
    BY <2>1, <2>2, <2>3, <2>4
<1>5. ASSUME NEW u \in Uploads PROVE (OwnBytes(u) \/ FinalOnly(u))' /\ (Unused(u))'
  <2>1. CASE u = req[w].up
    BY <2>1
  <2>2. CASE u # req[w].up
    <3>1. infoFile'[u] = infoFile[u] /\ info'[u] = info[u] /\ bin'[u] = bin[u]
      BY <2>2
    <3>2. OwnBytes(u) => (OwnBytes(u))'
      BY <3>1 DEF OwnBytes
    <3>3. ASSUME FinalOnly(u), ~OwnBytes(u) PROVE (FinalOnly(u))'
      <4>1. u \in used
        BY <3>3 DEF SharedInv, Unused, OwnBytes
      <4>2. req'[w].up = u /\ req'[w].at \in {"stat", "truncInfo", "writeInfo"} => FALSE
        BY <1>3, <2>2, <4>1
      <4> QED
        BY <3>1, <3>3, <4>2 DEF FinalOnly
    <3>4. (Unused(u))'
      BY <3>1 DEF SharedInv, Unused
    <3> QED
      BY <3>2, <3>3, <3>4 DEF SharedInv
  <2> QED
    BY <2>1, <2>2
<1>6. ToldIsStored'
  <2> SUFFICES ASSUME NEW u \in binFiles' PROVE told'[u] <= Len(bin'[u])
    BY DEF ToldIsStored
  <2>1. u \in Uploads /\ told[u] \in Nat
    BY DEF TypeOK, IInv
  <2>2. CASE told'[u] = told[u] /\ u \in binFiles
    BY <1>2, <2>1, <2>2 DEF Grows, SharedInv, ToldIsStored
  <2>3. CASE told'[u] = told[u] /\ u \notin binFiles
    <3>1. told[u] = 0
      BY <2>1, <2>3 DEF Grows, SharedInv, Unused
    <3> QED
      BY <1>2, <2>1, <2>3, <3>1
  <2> QED
    BY <2>1, <2>2, <2>3
<1> QED
  BY <1>4, <1>5, <1>6 DEF SharedInv

\* A step of w that leaves the files, the ids and what was told alone
Calm(w) ==
  /\ \A v \in Workers : v # w => req'[v] = req[v]
  /\ Begun(req'[w]) /\ (Backed(req[w]))' /\ ~Making(req'[w])
  /\ \/ req'[w].up \in {req[w].up, NoUpload}
     \/ req'[w].up \in known /\ req'[w].at = "lock"
  /\ req'[w].at \in {"stat", "truncInfo", "writeInfo"} =>
       /\ req'[w].up = req[w].up
       /\ \/ infoFile[req[w].up] = "whole" /\ req'[w].info = info[req[w].up]
          \/ req[w].at = "stat" /\ ~IsFinal(req[w].info)

LEMMA CalmShares ==
  ASSUME IInv, SharedInv, TypeOK', NEW w \in Workers, Calm(w), UNCHANGED << files, used, told >>,
         known \subseteq known', known' \subseteq known \cup {req[w].up}
  PROVE  SharedInv'
<1>1. /\ \A u \in Uploads : infoFile'[u] = infoFile[u] /\ info'[u] = info[u] /\ bin'[u] = bin[u]
                             /\ told'[u] = told[u]
      /\ used' = used /\ binFiles' = binFiles
  BY DEF files
<1>2. Grows
  <2>1. bin' = bin /\ \A u \in Uploads : Len(bin[u]) \in Nat
    BY DEF files, IInv, TypeOK
  <2> QED
    BY <1>1, <2>1 DEF Grows
<1>3. (Hidden(w))'
  BY DEF Calm, Hidden
<1>4. ASSUME NEW u \in Uploads, u = req[w].up
      PROVE  (OwnBytes(u) \/ FinalOnly(u))' /\ (Unused(u))'
  <2>1. OwnBytes(u) => (OwnBytes(u))'
    BY <1>1 DEF OwnBytes
  <2>2. ASSUME FinalOnly(u) PROVE (FinalOnly(u))'
    <3>1. ASSUME req'[w].up = u, req'[w].at \in {"stat", "truncInfo", "writeInfo"}
          PROVE  IsFinal(req'[w].info)
      BY <1>4, <2>2, <3>1 DEF Calm, FinalOnly
    <3>2. \A v \in Workers : v # w => req'[v] = req[v]
      BY DEF Calm
    <3>3. infoFile'[u] = infoFile[u] /\ info'[u] = info[u]
      BY <1>1
    <3> QED
      BY <2>2, <3>1, <3>2, <3>3 DEF FinalOnly
  <2>3. (Unused(u))'
    BY <1>1 DEF SharedInv, Unused
  <2> QED
    BY <2>1, <2>2, <2>3 DEF SharedInv
<1> QED
  BY <1>1, <1>2, <1>3, <1>4, SharedFrame DEF Calm

LEMMA AnswersCalm ==
  ASSUME TypeOK, NEW w \in Workers, NEW off, Answers(w, off),
         req[w].up \in binFiles' => off <= Len(bin'[req[w].up])
  PROVE  Calm(w)
<1>. DEFINE r == [Idle EXCEPT !.at = "reply", !.off = off, !.up = req[w].up,
                              !.held = req[w].held]
<1>1. req'[w] = r /\ \A v \in Workers : v # w => req'[v] = req[v]
  BY DEF Answers, TypeOK
<1>2. r.at = "reply" /\ r.up = req[w].up /\ r.off = off
  BY DEF Idle
<1>. HIDE DEF r
<1>3. req'[w].at = "reply" /\ req'[w].up = req[w].up /\ req'[w].off = off
  BY <1>1, <1>2
<1> QED
  BY <1>1, <1>3 DEF Calm, Begun, Backed, Making

LEMMA FailsCalm ==
  ASSUME TypeOK, NEW w \in Workers, Fails(w), bin' \in [Uploads -> Seq(Uploads \X Nat)],
         binFiles' \subseteq Uploads
  PROVE  Calm(w)
<1>1. req[w].up \in binFiles' => Unknown <= Len(bin'[req[w].up])
  BY DEF Unknown
<1> QED
  BY <1>1, AnswersCalm DEF Fails

LEMMA InfoFailsCalm ==
  ASSUME TypeOK, TypeOK', NEW w \in Workers, InfoFails(w)
  PROVE  Calm(w)
<1>. DEFINE r == [Idle EXCEPT !.at = "reply", !.op = req[w].op, !.off = Unknown,
                              !.up = req[w].up, !.held = req[w].held]
<1>1. /\ req'[w] = r /\ \A v \in Workers : v # w => req'[v] = req[v]
  BY DEF InfoFails, TypeOK
<1>2. r.at = "reply" /\ r.up = req[w].up /\ r.off = Unknown
  BY DEF Idle
<1>. HIDE DEF r
<1>3. req'[w].at = "reply" /\ req'[w].up = req[w].up /\ req'[w].off = Unknown
  BY <1>1, <1>2
<1>4. req[w].up \in binFiles' => Unknown <= Len(bin'[req[w].up])
  BY DEF Unknown, TypeOK
<1> QED
  BY <1>1, <1>3, <1>4 DEF Calm, Begun, Backed, Making

\* Whatever the request has counted on stays with it.
LEMMA GoesCalm ==
  ASSUME TypeOK, NEW w \in Workers,
         NEW label \in {"begin", "finish", "flag", "stopped", "rmInfo", "rmBin"},
         Goes(w, label),
         req[w].up \in binFiles' => req[w].off + req[w].n <= Len(bin'[req[w].up])
  PROVE  Calm(w)
<1>1. /\ \A v \in Workers : v # w => req'[v] = req[v]
      /\ req'[w].at = label
      /\ req'[w].up = req[w].up /\ req'[w].off = req[w].off /\ req'[w].n = req[w].n
  BY GoesTo
<1> QED
  BY <1>1 DEF Calm, Begun, Backed, Making

-----------------------------------------------------------------------------
(* The steps that leave the files alone *)

LEMMA RequestsCalm ==
  ASSUME IInv, NEW w \in Workers, Requests(w)
  PROVE  Calm(w)
<1>1. req \in [Workers -> Request] /\ NoUpload \notin binFiles
  BY UploadsAssumption DEF IInv, TypeOK
<1>2. ASSUME NEW r, Begins(w, r) PROVE req'[w] = r /\ \A v \in Workers : v # w => req'[v] = req[v]
  BY <1>1, <1>2 DEF Begins
<1>3. ASSUME NEW size, NEW deferred, NEW chunk, Post(w, size, deferred, chunk) PROVE Calm(w)
  <2>. DEFINE r == [Idle EXCEPT !.at = "createBin", !.op = "post", !.info.size = size,
                                !.info.deferred = deferred, !.chunk = chunk]
  <2>1. Begins(w, r)
    BY <1>3 DEF Post
  <2>2. r.at = "createBin" /\ r.op = "post" /\ r.up = NoUpload /\ r.n = 0 /\ r.off = 0
    BY DEF Idle
  <2>. HIDE DEF r
  <2> QED
    BY <1>1, <1>2, <2>1, <2>2 DEF Calm, Begun, Backed, Making, Begins, files
<1>4. ASSUME NEW n \in 1 .. MaxParts, NEW parts \in [1 .. n -> known], PostFinal(w, parts)
      PROVE  Calm(w)
  <2>. DEFINE r == [Idle EXCEPT !.at = "partInfo", !.op = "final", !.info.parts = parts]
  <2>1. Begins(w, r)
    BY <1>4 DEF PostFinal
  <2>2. /\ r.at = "partInfo" /\ r.op = "final" /\ r.up = NoUpload /\ r.n = 0
        /\ r.info.parts = parts
    BY DEF Idle, NewInfo
  <2>. HIDE DEF r
  <2>3. IsFinal(r.info)
    <3>1. 1 \in DOMAIN parts
      BY BoundsAssumption
    <3>2. 1 \notin DOMAIN << >>
      OBVIOUS
    <3> QED
      BY <2>2, <3>1, <3>2 DEF IsFinal
  <2> QED
    BY <1>1, <1>2, <2>1, <2>2, <2>3 DEF Calm, Begun, Backed, Making, Begins, files
<1>5. ASSUME NEW u \in known, NEW op \in {"patch", "look", "del"}, Ask(w, u, op)
      PROVE  Calm(w)
  <2>. DEFINE r == [Idle EXCEPT !.at = "lock", !.op = op, !.up = u]
  <2>1. Begins(w, r)
    BY <1>5 DEF Ask
  <2>2. r.at = "lock" /\ r.up = u /\ r.n = 0 /\ r.off = 0
    BY DEF Idle
  <2>. HIDE DEF r
  <2> QED
    BY <1>1, <1>2, <2>1, <2>2 DEF Calm, Begun, Backed, Making
<1> QED
  BY <1>3, <1>4, <1>5 DEF Requests

LEMMA LockCalm ==
  ASSUME IInv, SharedInv, NEW w \in Workers, Lock(w)
  PROVE  Calm(w)
<1>1. /\ TypeOK /\ req[w].at = "lock" /\ req[w].n = 0 /\ req[w].off = 0
      /\ UNCHANGED files /\ req[w] \in Request
  BY DEF IInv, TypeOK, SharedInv, Begun, Lock, At
<1>2. \A u \in binFiles : Len(bin[u]) \in Nat
  BY DEF IInv, TypeOK
<1>3. CASE Fails(w)
  BY <1>1, <1>3, FailsCalm DEF TypeOK, files
<1>4. ASSUME NEW next \in {"begin", "info"},
             \/ Goes(w, next)
             \/ req' = [req EXCEPT ![w].at = next, ![w].held = TRUE]
      PROVE  Calm(w)
  <2>1. /\ \A v \in Workers : v # w => req'[v] = req[v]
        /\ req'[w].at = next /\ req'[w].up = req[w].up /\ req'[w].off = req[w].off
        /\ req'[w].n = req[w].n
    BY <1>1, <1>4 DEF Goes, TypeOK, Request
  <2> QED
    BY <1>1, <1>2, <2>1 DEF Calm, Begun, Backed, Making, files
<1> QED
  BY <1>3, <1>4 DEF Lock

LEMMA EndsCalm ==
  ASSUME TypeOK, NEW w \in Workers, req'[w].at \in {"idle", "unlock"},
         req'[w].up \in {req[w].up, NoUpload},
         \A v \in Workers : v # w => req'[v] = req[v]
  PROVE  Calm(w)
BY DEF Calm, Begun, Backed, Making

LEMMA UnlockCalm ==
  ASSUME IInv, NEW w \in Workers, Unlock(w) \/ Reply(w)
  PROVE  Calm(w)
<1>1. TypeOK
  BY DEF IInv
<1>2. CASE req' = [req EXCEPT ![w] = Idle]
  BY <1>1, <1>2, IdleType, EndsCalm DEF TypeOK
<1>3. CASE req' = [req EXCEPT ![w] = [req[w] EXCEPT !.at = "unlock", !.off = 0]]
  <2>1. /\ req'[w] = [req[w] EXCEPT !.at = "unlock", !.off = 0]
        /\ \A v \in Workers : v # w => req'[v] = req[v]
    BY <1>1, <1>3 DEF TypeOK
  <2>2. req'[w].at = "unlock" /\ req'[w].up = req[w].up
    BY <1>1, <2>1 DEF TypeOK, Request
  <2> QED
    BY <1>1, <2>1, <2>2, EndsCalm
<1> QED
  BY <1>2, <1>3 DEF Unlock, Reply

LEMMA ReadInfoCalm ==
  ASSUME IInv, SharedInv, NEW w \in Workers, ReadInfo(w)
  PROVE  Calm(w)
<1>1. /\ TypeOK /\ req[w].at = "info" /\ req[w].n = 0 /\ req[w].off = 0
      /\ UNCHANGED files /\ req[w] \in Request
  BY DEF IInv, TypeOK, SharedInv, Begun, ReadInfo, At
<1>2. CASE Fails(w)
  BY <1>1, <1>2, FailsCalm DEF TypeOK, files
<1>3. CASE /\ infoFile[req[w].up] = "whole"
           /\ req' = [req EXCEPT ![w].at = "stat", ![w].info = info[req[w].up]]
  <2>1. /\ \A v \in Workers : v # w => req'[v] = req[v]
        /\ req'[w].at = "stat" /\ req'[w].up = req[w].up /\ req'[w].off = 0
        /\ req'[w].n = 0 /\ req'[w].info = info[req[w].up]
    BY <1>1, <1>3 DEF TypeOK, Request
  <2> QED
    BY <1>3, <2>1 DEF Calm, Begun, Backed, Making
<1> QED
  BY <1>2, <1>3 DEF ReadInfo

LEMMA StatCalm ==
  ASSUME IInv, SharedInv, NEW w \in Workers, Stat(w)
  PROVE  Calm(w)
<1>. DEFINE u == req[w].up
<1>1. /\ TypeOK /\ req[w].at = "stat" /\ req[w].n = 0 /\ req[w].off = 0
      /\ UNCHANGED files /\ req[w] \in Request
  BY DEF IInv, TypeOK, SharedInv, Begun, Stat, At
<1>2. /\ u \in binFiles => Len(bin[u]) \in Nat
      /\ bin' = bin /\ binFiles' = binFiles
  BY <1>1 DEF TypeOK, files
<1>3. CASE Fails(w)
  BY <1>1, <1>3, FailsCalm DEF TypeOK, files
<1>4. CASE u \in binFiles /\ Answers(w, Len(bin[u]))
  <2>1. req[w].up \in binFiles' => Len(bin[u]) <= Len(bin'[req[w].up])
    BY <1>2
  <2> QED
    BY <1>1, <1>4, <2>1, AnswersCalm
<1>5. CASE Goes(w, "rmInfo")
  <2>1. req[w].up \in binFiles' => req[w].off + req[w].n <= Len(bin'[req[w].up])
    BY <1>1, <1>2
  <2> QED
    BY <1>1, <1>5, <2>1, GoesCalm
<1>6. ASSUME u \in binFiles, req[w].op = "patch",
             NEW claim \in Lengths, NEW decl \in Lengths \cup {Unknown},
             PatchChecked(w, Len(bin[u]), claim, decl)
      PROVE  Calm(w)
  <2>1. CASE Fails(w)
    BY <1>3, <2>1
  <2>2. CASE claim = Len(bin[u]) /\ Answers(w, claim)
    BY <1>4, <1>6, <2>2
  <2>3. CASE /\ ~IsFinal(req[w].info) /\ claim = Len(bin[u])
             /\ req' = [req EXCEPT ![w].at = "truncInfo", ![w].off = claim,
                          ![w].info.size = decl, ![w].info.deferred = FALSE]
    <3>1. /\ \A v \in Workers : v # w => req'[v] = req[v]
          /\ req'[w].at = "truncInfo" /\ req'[w].up = u /\ req'[w].off = claim
          /\ req'[w].n = 0 /\ req'[w].op = "patch"
      <4>1. req \in [Workers -> Request] /\ req[w].n = 0 /\ req[w].op = "patch"
        BY <1>1, <1>6 DEF TypeOK
      <4>2. req' = [req EXCEPT ![w].at = "truncInfo", ![w].off = claim,
                               ![w].info.size = decl, ![w].info.deferred = FALSE]
        BY <2>3, Zenon
      <4>3. \A v \in Workers : v # w => req'[v] = req[v]
        BY ONLY <4>1, <4>2
      <4>4. req'[w].at = "truncInfo" /\ req'[w].up = u
        BY ONLY <4>1, <4>2 DEF Request
      <4>5. req'[w].off = claim
        BY ONLY <4>1, <4>2 DEF Request
      <4>6. req'[w].n = 0 /\ req'[w].op = "patch"
        BY ONLY <4>1, <4>2 DEF Request
      <4> QED
        BY <4>3, <4>4, <4>5, <4>6
    <3>2. (Backed(req[w]))'
      BY <1>2, <1>6, <2>3, <3>1 DEF Backed
    <3> QED
      BY <1>1, <2>3, <3>1, <3>2 DEF Calm, Begun, Making
  <2>4. CASE claim = Len(bin[u]) /\ req' = [req EXCEPT ![w].at = "begin", ![w].off = claim]
    <3>1. /\ \A v \in Workers : v # w => req'[v] = req[v]
          /\ req'[w].at = "begin" /\ req'[w].up = u /\ req'[w].off = claim /\ req'[w].n = 0
      BY <1>1, <2>4 DEF TypeOK, Request
    <3>2. (Backed(req[w]))'
      BY <1>2, <1>6, <2>4, <3>1 DEF Backed
    <3> QED
      BY <3>1, <3>2 DEF Calm, Begun, Making
  <2> QED
    BY <1>6, <2>1, <2>2, <2>3, <2>4 DEF PatchChecked, Declares, Matches
<1> QED
  BY <1>3, <1>4, <1>5, <1>6 DEF Stat

LEMMA PartsCalm ==
  ASSUME IInv, SharedInv, NEW w \in Workers, PartInfo(w) \/ PartStat(w)
  PROVE  Calm(w)
<1>. DEFINE r == req[w]
<1>1. /\ TypeOK /\ r \in Request /\ r.at \in {"partInfo", "partStat"} /\ r.up = NoUpload
      /\ r.n = 0 /\ r.op = "final" /\ IsFinal(r.info) /\ UNCHANGED files
  <2>1. TypeOK /\ PlaceOK(r) /\ Begun(r) /\ r \in Request
    BY DEF IInv, TypeOK, PlaceInv, SharedInv
  <2>2. r.at \in {"partInfo", "partStat"} /\ UNCHANGED files
    BY DEF PartInfo, PartStat, At
  <2>3. r.up = NoUpload
    BY <2>1, <2>2 DEF Begun
  <2> QED
    BY <2>1, <2>2, <2>3 DEF Begun
<1>2. NoUpload \notin binFiles'
  BY <1>1, UploadsAssumption DEF TypeOK, files
<1>3. CASE Fails(w)
  BY <1>1, <1>3, FailsCalm DEF TypeOK, files
<1>4. ASSUME NEW at \in {"partInfo", "partStat", "createBin"},
             \A v \in Workers : v # w => req'[v] = req[v],
             req'[w].at = at, req'[w].up = NoUpload, req'[w].n = 0, req'[w].op = "final",
             at = "createBin" => req'[w].off = 0, req'[w].info.parts = r.info.parts
      PROVE  Calm(w)
  <2>1. IsFinal(req'[w].info)
    BY <1>1, <1>4 DEF IsFinal
  <2> QED
    BY <1>1, <1>2, <1>4, <2>1 DEF Calm, Begun, Backed, Making
<1>5. ASSUME NEW off, req' = [req EXCEPT ![w].at = "partStat", ![w].off = off] PROVE Calm(w)
  <2>1. /\ \A v \in Workers : v # w => req'[v] = req[v]
        /\ req'[w].at = "partStat" /\ req'[w].up = r.up /\ req'[w].n = r.n
        /\ req'[w].op = r.op /\ req'[w].info = r.info
    BY <1>1, <1>5 DEF TypeOK, Request
  <2> QED
    BY <1>1, <1>4, <2>1
<1>6. ASSUME NEW at \in {"partInfo", "createBin"}, NEW part, NEW size,
             req' = [req EXCEPT ![w].at = at, ![w].part = part, ![w].info.size = size,
                                ![w].off = 0]
      PROVE  Calm(w)
  <2>1. /\ \A v \in Workers : v # w => req'[v] = req[v]
        /\ req'[w].at = at /\ req'[w].up = r.up /\ req'[w].n = r.n
        /\ req'[w].op = r.op /\ req'[w].off = 0 /\ req'[w].info.parts = r.info.parts
    BY <1>1, <1>6 DEF TypeOK, Request, Info
  <2> QED
    BY <1>1, <1>4, <2>1
<1>7. CASE PartInfo(w)
  BY <1>3, <1>5, <1>7 DEF PartInfo
<1>8. CASE PartStat(w)
  <2>1. CASE ~Fails(w)
    <3>. DEFINE last == r.part = Len(r.info.parts)
    <3>1. req' = [req EXCEPT ![w].at = IF last THEN "createBin" ELSE "partInfo",
                             ![w].part = IF last THEN 1 ELSE @ + 1,
                             ![w].info.size = r.info.size + r.off, ![w].off = 0]
      BY <1>8, <2>1 DEF PartStat
    <3>2. PICK at, part : /\ at = (IF last THEN "createBin" ELSE "partInfo")
                          /\ part = (IF last THEN 1 ELSE req[w].part + 1)
      OBVIOUS
    <3>3. at \in {"partInfo", "createBin"}
      BY <3>2
    <3>4. req' = [req EXCEPT ![w].at = at, ![w].part = part,
                             ![w].info.size = r.info.size + r.off, ![w].off = 0]
      BY <1>1, <3>1, <3>2 DEF TypeOK
    <3> QED
      BY <1>6, <3>3, <3>4
  <2> QED
    BY <1>3, <2>1
<1> QED
  BY <1>7, <1>8

\* While the chunk is written or just after
LEMMA RunningCalm ==
  ASSUME TypeOK, NEW w \in Workers, UNCHANGED files, Backed(req[w]),
         req[w].at \in {"begin", "write", "flag", "stopped"},
         \A v \in Workers : v # w => req'[v] = req[v],
         req'[w].at \in {"begin", "write", "flag", "stopped", "finish", "rmInfo"},
         req'[w].up = req[w].up, req'[w].off = req[w].off, req'[w].n = req[w].n
  PROVE  Calm(w)
<1>1. bin' = bin /\ binFiles' = binFiles
  BY DEF files
<1>2. (Backed(req[w]))'
  BY <1>1 DEF Backed
<1> QED
  BY <1>2 DEF Calm, Begun, Making

LEMMA WritingCalm ==
  ASSUME IInv, SharedInv, NEW w \in Workers,
         \/ Begin(w) \/ BodyEnds(w) \/ BodyFails(w) \/ StopUpload(w)
         \/ Flag(w) \/ Stopped(w)
  PROVE  Calm(w)
<1>1. TypeOK /\ req[w] \in Request /\ Backed(req[w])
  BY DEF IInv, TypeOK, SharedInv
<1>2. UNCHANGED files /\ req[w].at \in {"begin", "write", "flag", "stopped"}
  BY DEF Begin, BodyEnds, BodyFails, StopUpload, Flag, Stopped, At
<1>3. CASE Fails(w)
  BY <1>1, <1>2, <1>3, FailsCalm DEF TypeOK, files
<1>4. ASSUME NEW label \in {"finish", "rmInfo", "stopped"}, Goes(w, label) PROVE Calm(w)
  <2>1. /\ \A v \in Workers : v # w => req'[v] = req[v]
        /\ req'[w].at = label /\ req'[w].up = req[w].up
        /\ req'[w].off = req[w].off /\ req'[w].n = req[w].n
    BY <1>1, <1>4, GoesTo
  <2> QED
    BY <1>1, <1>2, <2>1, RunningCalm
<1>5. ASSUME NEW len, NEW err, NEW at \in {"write", "flag"},
             \/ req' = [req EXCEPT ![w].at = at, ![w].err = err]
             \/ req' = [req EXCEPT ![w].at = at, ![w].len = len]
             \/ req' = [req EXCEPT ![w].at = at, ![w].len = len, ![w].err = err]
      PROVE  Calm(w)
  <2>1. /\ \A v \in Workers : v # w => req'[v] = req[v]
        /\ req'[w].at = at /\ req'[w].up = req[w].up
        /\ req'[w].off = req[w].off /\ req'[w].n = req[w].n
    BY <1>1, <1>5 DEF TypeOK, Request
  <2> QED
    BY <1>1, <1>2, <2>1, RunningCalm
<1>6. CASE StopUpload(w)
  <2>1. /\ \A v \in Workers : v # w => req'[v] = req[v]
        /\ req'[w].at = req[w].at /\ req'[w].up = req[w].up
        /\ req'[w].off = req[w].off /\ req'[w].n = req[w].n
    BY <1>1, <1>6 DEF TypeOK, Request, StopUpload
  <2> QED
    BY <1>1, <1>2, <2>1, RunningCalm
<1>7. CASE Begin(w)
  BY <1>3, <1>4, <1>5, <1>7, Zenon DEF Begin
<1>8. CASE BodyEnds(w) \/ BodyFails(w)
  BY <1>5, <1>8, Zenon DEF BodyEnds, BodyFails
<1>9. CASE Flag(w) \/ Stopped(w)
  BY <1>3, <1>4, <1>9 DEF Flag, Stopped
<1> QED
  BY <1>6, <1>7, <1>8, <1>9

LEMMA FinishCalm ==
  ASSUME IInv, SharedInv, NEW w \in Workers, Finish(w) \/ FinishRefused(w)
  PROVE  Calm(w)
<1>1. TypeOK /\ Backed(req[w]) /\ UNCHANGED files /\ req[w].at = "finish"
      /\ Answers(w, Offset(req[w]))
  BY DEF IInv, SharedInv, Finish, FinishRefused, At
<1>2. req[w].up \in binFiles' => Offset(req[w]) <= Len(bin'[req[w].up])
  BY <1>1 DEF Backed, Offset, files
<1> QED
  BY <1>1, <1>2, AnswersCalm

\* A quiet step, but for Reply
LEMMA QuietShares ==
  ASSUME IInv, SharedInv, TypeOK', NEW w \in Workers,
         \/ Requests(w) \/ Lock(w) \/ Unlock(w) \/ ReadInfo(w) \/ Stat(w)
         \/ PartInfo(w) \/ PartStat(w) \/ Begin(w) \/ BodyEnds(w) \/ BodyFails(w)
         \/ StopUpload(w) \/ Flag(w) \/ Stopped(w) \/ Finish(w) \/ FinishRefused(w)
  PROVE  SharedInv' /\ UNCHANGED files
<1>1. Requests(w) => UNCHANGED << files, ids, history >>
  BY DEF Requests, Post, PostFinal, Ask, Begins
<1>2. UNCHANGED << files, ids, told >>
  BY <1>1 DEF Lock, Unlock, ReadInfo, Stat, PartInfo, PartStat, Begin, BodyEnds, BodyFails,
              StopUpload, Flag, Stopped, Finish, FinishRefused, history
<1>3. Calm(w)
  BY RequestsCalm, LockCalm, UnlockCalm, ReadInfoCalm, StatCalm, PartsCalm, WritingCalm,
     FinishCalm
<1> QED
  BY <1>2, <1>3, CalmShares DEF ids

-----------------------------------------------------------------------------
(* Reply, and the steps that change a file *)

\* A step that leaves the data files alone
LEMMA SameData ==
  ASSUME TypeOK, bin' = bin, binFiles' = binFiles
  PROVE  Grows
<1>1. \A u \in Uploads : Len(bin[u]) \in Nat
  BY DEF TypeOK
<1> QED
  BY <1>1 DEF Grows

LEMMA ReplyShares ==
  ASSUME IInv, SharedInv, TypeOK', NEW w \in Workers, Reply(w)
  PROVE  SharedInv' /\ Grows
<1>. DEFINE up == req[w].up
<1>1. Calm(w) /\ TypeOK /\ Backed(req[w]) /\ req[w] \in Request /\ req[w].at = "reply"
  <2>1. Calm(w)
    BY UnlockCalm
  <2> QED
    BY <2>1 DEF IInv, TypeOK, SharedInv, Reply, At
<1>2. /\ bin' = bin /\ binFiles' = binFiles /\ infoFile' = infoFile /\ info' = info
      /\ used' = used
      /\ known' = known \cup Names(req[w])
      /\ told' = [u \in Uploads |-> IF u = up /\ req[w].off > told[u]
                                    THEN req[w].off ELSE told[u]]
  BY DEF Reply, files
<1>3. Grows
  BY <1>1, <1>2, SameData
<1>4. known' \subseteq known \cup {up}
  <2>1. Names(req[w]) \subseteq {up}
    BY DEF Names
  <2> QED
    BY <1>2, <2>1
<1>5. ASSUME NEW u \in Uploads
      PROVE  \/ told'[u] = told[u]
             \/ u \in used' /\ (u \in binFiles' => told'[u] <= Len(bin'[u]))
  <2>1. CASE u = up /\ req[w].off > told[u]
    <3>1. told'[u] = req[w].off
      BY <1>2, <2>1
    <3>2. u \in used
      BY <2>1, UploadsAssumption DEF IInv, PlaceInv
    <3> QED
      BY <1>1, <1>2, <2>1, <3>1, <3>2 DEF Backed
  <2>2. CASE ~(u = up /\ req[w].off > told[u])
    BY <1>2, <2>2
  <2> QED
    BY <2>1, <2>2
<1>6. ASSUME NEW u \in Uploads, u = up
      PROVE  (OwnBytes(u) \/ FinalOnly(u))' /\ (Unused(u))'
  <2>1. req'[w].at \notin {"stat", "truncInfo", "writeInfo"}
    <3>1. req'[w] = Idle \/ req'[w].at = "unlock"
      BY <1>1 DEF Reply, TypeOK, Request
    <3> QED
      BY <3>1, IdleType
  <2>2. OwnBytes(u) => (OwnBytes(u))'
    BY <1>2 DEF OwnBytes
  <2>3. FinalOnly(u) => (FinalOnly(u))'
    BY <1>1, <1>2, <2>1 DEF FinalOnly, Calm
  <2>4. (Unused(u))'
    <3>1. u \in used
      BY <1>6, UploadsAssumption DEF IInv, PlaceInv
    <3> QED
      BY <1>2, <3>1 DEF Unused
  <2> QED
    BY <2>2, <2>3, <2>4 DEF SharedInv
<1>7. (Hidden(w))'
  BY <1>1 DEF Calm, Hidden
<1> QED
  BY <1>1, <1>2, <1>3, <1>4, <1>5, <1>6, <1>7, SharedFrame DEF Calm

LEMMA CreateBinShares ==
  ASSUME IInv, SharedInv, TypeOK', NEW w \in Workers, CreateBin(w)
  PROVE  SharedInv' /\ Grows
<1>. DEFINE r == req[w]
<1>1. /\ TypeOK /\ r \in Request /\ r.at = "createBin" /\ Begun(r)
      /\ r.up = NoUpload /\ r.n = 0 /\ r.off = 0
  BY DEF IInv, TypeOK, SharedInv, Begun, CreateBin, At
<1>2. PICK u \in IdsLeft : /\ used' = used \cup {u}
                           /\ binFiles' = binFiles \cup {u}
                           /\ req' = [req EXCEPT ![w].at = "truncInfo", ![w].up = u]
  BY DEF CreateBin
<1>3. /\ infoFile' = infoFile /\ info' = info /\ bin' = bin /\ known' = known /\ told' = told
  BY DEF CreateBin, history
<1>4. /\ \A v \in Workers : v # w => req'[v] = req[v]
      /\ req'[w].at = "truncInfo" /\ req'[w].up = u
      /\ req'[w].op = r.op /\ req'[w].info = r.info /\ req'[w].n = 0 /\ req'[w].off = 0
  BY <1>1, <1>2 DEF TypeOK, Request
<1>5. u \in Uploads /\ u \notin used /\ u # NoUpload
  BY UploadsAssumption DEF IdsLeft
<1>6. Grows
  <2>1. \A x \in Uploads : Len(bin[x]) \in Nat
    BY <1>1 DEF TypeOK
  <2> QED
    BY <1>2, <1>3, <1>5, <2>1 DEF Grows
<1>7. Begun(req'[w])
  BY <1>4 DEF Begun
<1>8. (Backed(req[w]))'
  <2>1. Len(bin'[u]) = 0
    BY <1>3, <1>5 DEF SharedInv, Unused
  <2> QED
    BY <1>4, <2>1 DEF Backed
<1>9. (Hidden(w))'
  <2>1. u \notin known'
    BY <1>1, <1>3, <1>5 DEF TypeOK
  <2>2. r.op = "final" => IsFinal(r.info)
    BY <1>1 DEF Begun
  <2>3. \A v \in Workers : v # w => req'[v].up # u
    BY <1>4, <1>5 DEF IInv, PlaceInv
  <2> QED
    BY <1>4, <2>1, <2>2, <2>3 DEF Hidden, Making
<1>10. \A x \in Uploads : x # r.up
  BY <1>1, UploadsAssumption
<1>. HIDE DEF r
<1> QED
  BY <1>2, <1>3, <1>4, <1>5, <1>6, <1>7, <1>8, <1>9, <1>10, SharedFrame DEF r

LEMMA TruncInfoShares ==
  ASSUME IInv, SharedInv, TypeOK', NEW w \in Workers, TruncInfo(w)
  PROVE  SharedInv' /\ Grows
<1>. DEFINE u == req[w].up
<1>1. /\ TypeOK /\ req[w] \in Request /\ req[w].at = "truncInfo" /\ u \in Uploads
      /\ PlaceInv /\ Begun(req[w]) /\ Backed(req[w]) /\ Hidden(w)
  <2>1. TypeOK /\ PlaceInv /\ req[w].at = "truncInfo"
    BY DEF IInv, TruncInfo, At
  <2>2. req[w] \in Request /\ u \in Uploads
    BY <2>1, InHand, LimitBusy
  <2> QED
    BY <2>1, <2>2 DEF SharedInv
<1>2. CASE InfoFails(w)
  <2>1. UNCHANGED << files, used, told >> /\ known' = known
    BY <1>2 DEF TruncInfo, InfoFails, files, ids
  <2>2. Calm(w)
    BY <1>1, <1>2, InfoFailsCalm
  <2>3. Grows
    BY <1>1, <2>1, SameData DEF files
  <2> QED
    BY <2>1, <2>2, <2>3, CalmShares
<1>3. UNCHANGED << info, binFiles, bin, locks, ids, told, completed >>
  BY DEF TruncInfo
<1>4. CASE infoFile' = [infoFile EXCEPT ![u] = "torn"] /\ Goes(w, "writeInfo")
  <2>1. /\ infoFile' = [infoFile EXCEPT ![u] = "torn"] /\ info' = info /\ bin' = bin
        /\ binFiles' = binFiles /\ known' = known /\ used' = used /\ told' = told
        /\ Goes(w, "writeInfo")
    BY <1>3, <1>4 DEF ids
  <2>2. Grows
    BY <1>1, <2>1, SameData
  <2>3. /\ \A v \in Workers : v # w => req'[v] = req[v]
        /\ req'[w].at = "writeInfo" /\ req'[w].up = u /\ req'[w].op = req[w].op
        /\ req'[w].info = req[w].info /\ req'[w].n = req[w].n /\ req'[w].off = req[w].off
    BY <1>1, <2>1, GoesTo
  <2>4. infoFile'[u] = "torn" /\ \A x \in Uploads : x # u => infoFile'[x] = infoFile[x]
    BY <1>1, <2>1 DEF TypeOK
  <2>5. Begun(req'[w])
    BY <1>1, <2>3 DEF Begun
  <2>6. (Backed(req[w]))'
    BY <1>1, <2>1, <2>3 DEF Backed
  <2>7. (Hidden(w))'
    BY <1>1, <2>1, <2>3, <2>4 DEF Hidden, Making
  <2>8. ASSUME NEW x \in Uploads, x = u PROVE (OwnBytes(x) \/ FinalOnly(x))' /\ (Unused(x))'
    <3>1. OwnBytes(x) => (OwnBytes(x))'
      BY <2>1 DEF OwnBytes
    <3>2. FinalOnly(x) => (FinalOnly(x))'
      BY <1>1, <2>3, <2>4, <2>8 DEF FinalOnly
    <3>3. (Unused(x))'
      BY <1>1, <2>1 DEF SharedInv, Unused
    <3> QED
      BY <3>1, <3>2, <3>3 DEF SharedInv
  <2> QED
    BY <2>1, <2>2, <2>3, <2>4, <2>5, <2>6, <2>7, <2>8, SharedFrame
<1> QED
  BY <1>2, <1>4 DEF TruncInfo

\* How a request goes on when its info file is written
LEMMA AfterInfoGoes ==
  ASSUME IInv, SharedInv, NEW w \in Workers, req[w].at = "writeInfo",
         AfterInfo(w), bin' = bin, binFiles' = binFiles
  PROVE  /\ \A v \in Workers : v # w => req'[v] = req[v]
         /\ Begun(req'[w]) /\ (Backed(req[w]))'
         /\ req'[w].up = req[w].up
         /\ req'[w].at \notin {"stat", "truncInfo", "writeInfo"}
         /\ Making(req'[w]) => /\ Making(req[w]) /\ req'[w].at = "copy"
                               /\ req'[w].info = req[w].info
<1>. DEFINE r == req[w]
<1>1. /\ TypeOK /\ r \in Request /\ r.at = "writeInfo" /\ Begun(r) /\ Backed(r)
  BY DEF IInv, TypeOK, SharedInv
<1>2. CASE Answers(w, Unknown)
  <2>. DEFINE a == [Idle EXCEPT !.at = "reply", !.off = Unknown, !.up = r.up,
                                !.held = r.held]
  <2>1. Calm(w)
    BY <1>1, <1>2, FailsCalm DEF Fails, TypeOK
  <2>2. req'[w] = a
    BY <1>1, <1>2 DEF Answers, TypeOK
  <2>3. a.at = "reply" /\ a.up = r.up
    BY DEF Idle
  <2>. HIDE DEF a
  <2> QED
    BY <2>1, <2>2, <2>3 DEF Calm
<1>3. ASSUME NEW label \in {"begin", "copy", "lock", "finish"}, Goes(w, label),
             label = "lock" => r.op = "post", label = "copy" => r.op = "final"
      PROVE  /\ \A v \in Workers : v # w => req'[v] = req[v]
             /\ Begun(req'[w]) /\ (Backed(req[w]))'
             /\ req'[w].up = r.up
             /\ req'[w].at \notin {"stat", "truncInfo", "writeInfo"}
             /\ Making(req'[w]) => /\ Making(r) /\ req'[w].at = "copy"
                                   /\ req'[w].info = r.info
  <2>1. /\ \A v \in Workers : v # w => req'[v] = req[v]
        /\ req'[w].at = label /\ req'[w].up = r.up /\ req'[w].op = r.op
        /\ req'[w].info = r.info /\ req'[w].n = r.n /\ req'[w].off = r.off
    BY <1>1, <1>3, GoesTo
  <2>2. Begun(req'[w])
    BY <1>1, <1>3, <2>1 DEF Begun
  <2>3. (Backed(req[w]))'
    BY <1>1, <1>3, <2>1 DEF Backed
  <2>4. Making(req'[w]) => Making(r) /\ req'[w].at = "copy"
    BY <1>1, <1>3, <2>1 DEF Making
  <2> QED
    BY <2>1, <2>2, <2>3, <2>4
<1>4. \/ Answers(w, Unknown)
      \/ \E label \in {"begin", "copy", "lock", "finish"} :
           /\ Goes(w, label)
           /\ label = "lock" => r.op = "post"
           /\ label = "copy" => r.op = "final"
  BY <1>1 DEF AfterInfo
<1> QED
  BY <1>2, <1>3, <1>4

LEMMA WriteInfoShares ==
  ASSUME IInv, SharedInv, TypeOK', NEW w \in Workers, WriteInfo(w)
  PROVE  SharedInv' /\ Grows
<1>. DEFINE u == req[w].up
<1>1. /\ TypeOK /\ req[w].at = "writeInfo" /\ u \in Uploads /\ Hidden(w)
      /\ bin' = bin /\ binFiles' = binFiles /\ known' = known /\ used' = used /\ told' = told
  <2>1. TypeOK /\ PlaceInv /\ req[w].at = "writeInfo" /\ Hidden(w)
    BY DEF IInv, WriteInfo, At, SharedInv
  <2>2. u \in Uploads
    BY <2>1, InHand, LimitBusy
  <2> QED
    BY <2>1, <2>2 DEF WriteInfo, ids
<1>. DEFINE Untouched == infoFile[u] = "none" /\ infoFile' = infoFile /\ info' = info
            Written == /\ infoFile[u] # "none"
                       /\ infoFile' = [infoFile EXCEPT ![u] = "whole"]
                       /\ info' = [info EXCEPT ![u] = req[w].info]
<1>2. CASE InfoFails(w) /\ UNCHANGED info
  <2>1. UNCHANGED << files, used, told >>
    BY <1>1, <1>2 DEF InfoFails, files
  <2>2. Calm(w)
    BY <1>1, <1>2, InfoFailsCalm
  <2>3. Grows
    BY <1>1, SameData
  <2> QED
    BY <1>1, <2>1, <2>2, <2>3, CalmShares
<1>3. CASE AfterInfo(w) /\ (Untouched \/ Written)
  <2>1. /\ \A v \in Workers : v # w => req'[v] = req[v]
        /\ Begun(req'[w]) /\ (Backed(req[w]))' /\ req'[w].up = u
        /\ req'[w].at \notin {"stat", "truncInfo", "writeInfo"}
        /\ Making(req'[w]) => /\ Making(req[w]) /\ req'[w].at = "copy"
                              /\ req'[w].info = req[w].info
    BY <1>1, <1>3, AfterInfoGoes
  <2>2. \A x \in Uploads : x # u => infoFile'[x] = infoFile[x] /\ info'[x] = info[x]
    BY <1>1, <1>3 DEF TypeOK
  <2>3. \/ infoFile[u] = "none" /\ infoFile'[u] = infoFile[u] /\ info'[u] = info[u]
        \/ infoFile'[u] = "whole" /\ info'[u] = req[w].info
    BY <1>1, <1>3 DEF TypeOK
  <2>4. Grows
    BY <1>1, SameData
  <2>5. (Hidden(w))'
    BY <1>1, <2>3, <2>1 DEF Hidden
  <2>6. ASSUME NEW x \in Uploads, x = u PROVE (OwnBytes(x) \/ FinalOnly(x))' /\ (Unused(x))'
    <3>1. OwnBytes(x) => (OwnBytes(x))'
      BY <1>1 DEF OwnBytes
    <3>2. ASSUME FinalOnly(x) PROVE (FinalOnly(x))'
      <4>1. IsFinal(req[w].info)
        BY <1>1, <2>6, <3>2 DEF FinalOnly
      <4>2. infoFile'[x] = "whole" => IsFinal(info'[x])
        BY <2>3, <2>6, <4>1
      <4>3. /\ \A v \in Workers : v # w => req'[v] = req[v]
            /\ req'[w].at \notin {"stat", "truncInfo", "writeInfo"}
        BY <2>1
      <4> QED
        BY <3>2, <4>2, <4>3 DEF FinalOnly
    <3>3. (Unused(x))'
      BY <1>1 DEF SharedInv, Unused
    <3> QED
      BY <3>1, <3>2, <3>3 DEF SharedInv
  <2> QED
    BY <1>1, <2>2, <2>4, <2>5, <2>6, <2>1, SharedFrame
<1> QED
  BY <1>2, <1>3 DEF WriteInfo

\* Bytes that are appended to the data file of one upload
LEMMA AppendGrows ==
  ASSUME TypeOK, NEW u \in Uploads, NEW s \in Seq(Uploads \X Nat),
         bin' = [bin EXCEPT ![u] = @ \o s], binFiles' = binFiles
  PROVE  /\ Grows /\ Len(bin'[u]) = Len(bin[u]) + Len(s)
         /\ \A x \in Uploads : x # u => bin'[x] = bin[x]
<1>1. bin \in [Uploads -> Seq(Uploads \X Nat)]
  BY DEF TypeOK
<1>2. bin'[u] = bin[u] \o s /\ \A x \in Uploads : x # u => bin'[x] = bin[x]
  BY <1>1
<1>3. ASSUME NEW x \in Uploads
      PROVE  Len(bin[x]) <= Len(bin'[x]) /\ \A i \in 1 .. Len(bin[x]) : bin'[x][i] = bin[x][i]
  <2>1. PICK old : old = bin[x] /\ old \in Seq(Uploads \X Nat)
    BY <1>1
  <2>2. CASE x = u
    <3>1. bin'[x] = old \o s
      BY <1>2, <2>1, <2>2
    <3>2. Len(old) <= Len(old \o s) /\ \A i \in 1 .. Len(old) : (old \o s)[i] = old[i]
      BY <2>1
    <3> QED
      BY <2>1, <3>1, <3>2
  <2>3. CASE x # u
    BY <1>1, <1>2, <2>3
  <2> QED
    BY <2>2, <2>3
<1>4. Len(bin'[u]) = Len(bin[u]) + Len(s)
  BY <1>1, <1>2
<1> QED
  BY <1>2, <1>3, <1>4 DEF Grows

LEMMA StillBelow ==
  ASSUME NEW a \in Int, NEW b \in Int, NEW c \in Int, NEW d \in Int, a + b <= c, c <= d
  PROVE  a + b <= d
OBVIOUS

LEMMA CopyShares ==
  ASSUME IInv, SharedInv, TypeOK', NEW w \in Workers, Copy(w)
  PROVE  SharedInv' /\ Grows
<1>. DEFINE u == req[w].up
            p == req[w].info.parts[req[w].part]
<1>1. /\ TypeOK /\ req[w] \in Request /\ req[w].at = "copy" /\ u \in Uploads /\ u \in used
      /\ Begun(req[w]) /\ Backed(req[w]) /\ Hidden(w)
      /\ infoFile' = infoFile /\ info' = info /\ binFiles' = binFiles
      /\ known' = known /\ used' = used /\ told' = told
  <2>1. /\ TypeOK /\ PlaceInv /\ req[w].at = "copy"
        /\ Begun(req[w]) /\ Backed(req[w]) /\ Hidden(w)
    BY DEF IInv, Copy, At, SharedInv
  <2>2. req[w] \in Request /\ u \in Uploads /\ u # NoUpload
    BY <2>1, InHand, LimitBusy
  <2> QED
    BY <2>1, <2>2 DEF Copy, ids, PlaceInv
<1>2. CASE p \notin binFiles
  <2>1. Fails(w) /\ UNCHANGED << files, used, told >> /\ known' = known
    BY <1>1, <1>2 DEF Copy, files
  <2>2. Calm(w)
    BY <1>1, <2>1, FailsCalm DEF TypeOK
  <2>3. Grows
    BY <1>1, <2>1, SameData DEF files
  <2> QED
    BY <2>1, <2>2, <2>3, CalmShares
<1>3. CASE p \in binFiles
  <2>0. p \in Uploads /\ bin[p] \in Seq(Uploads \X Nat)
    BY <1>1, <1>3 DEF TypeOK
  <2>1. PICK s \in Seq(Uploads \X Nat) :
          /\ bin' = [bin EXCEPT ![u] = @ \o s]
          /\ \/ req' = [req EXCEPT ![w].part = @ + 1]
             \/ Goes(w, "finish")
             \/ Answers(w, Unknown)
    <3>1. \A n \in 0 .. Len(bin[p]) : SubSeq(bin[p], 1, n) \in Seq(Uploads \X Nat)
      BY <2>0, PrefixType
    <3>2. CASE \E n \in 0 .. Len(bin[p]) :
                 /\ bin' = [bin EXCEPT ![u] = @ \o SubSeq(bin[p], 1, n)]
                 /\ Fails(w)
      BY <3>1, <3>2 DEF Fails
    <3>3. CASE /\ bin' = [bin EXCEPT ![u] = @ \o bin[p]]
               /\ \/ req' = [req EXCEPT ![w].part = @ + 1]
                  \/ Goes(w, "finish")
                  \/ Answers(w, Unknown)
      BY <2>0, <3>3
    <3> QED
      BY <1>3, <3>2, <3>3 DEF Copy
  <2>2. /\ Grows /\ Len(bin[u]) <= Len(bin'[u]) /\ Len(bin'[u]) \in Nat /\ Len(bin[u]) \in Nat
        /\ \A x \in Uploads : x # u => bin'[x] = bin[x]
    <3>3. TypeOK /\ u \in Uploads /\ binFiles' = binFiles
      BY <1>1
    <3>4. PICK v : v = u
      OBVIOUS
    <3>5. bin' = [bin EXCEPT ![v] = @ \o s]
      BY <2>1, <3>4
    <3>6. s \in Seq(Uploads \X Nat) /\ v \in Uploads
      BY <2>1, <3>3, <3>4
    <3>7. /\ Grows /\ Len(bin'[v]) = Len(bin[v]) + Len(s)
          /\ \A x \in Uploads : x # v => bin'[x] = bin[x]
      BY ONLY <3>3, <3>5, <3>6, AppendGrows
    <3>8. Len(bin[v]) \in Nat /\ Len(s) \in Nat
      <4>1. bin[v] \in Seq(Uploads \X Nat)
        BY ONLY <3>3, <3>6 DEF TypeOK
      <4> QED
        BY ONLY <3>6, <4>1
    <3>9. Len(bin[v]) <= Len(bin'[v]) /\ Len(bin'[v]) \in Nat
      BY ONLY <3>7, <3>8
    <3> QED
      BY <3>4, <3>7, <3>8, <3>9
  <2>3. Making(req[w])
    BY <1>1 DEF Making, Begun
  <2>4. ASSUME NEW x \in Uploads, x = u PROVE (OwnBytes(x) \/ FinalOnly(x))' /\ (Unused(x))'
    <3>1. req'[w].at \notin {"stat", "truncInfo", "writeInfo"}
      <4>1. req' = [req EXCEPT ![w].part = @ + 1] => req'[w].at = "copy"
        BY <1>1 DEF TypeOK, Request
      <4>2. Goes(w, "finish") => req'[w].at = "finish"
        BY <1>1, GoesTo
      <4>3. Answers(w, Unknown) => req'[w].at = "reply"
        BY <1>1, AnswerType DEF IInv
      <4> QED
        BY <2>1, <4>1, <4>2, <4>3
    <3>2. \A v \in Workers : v # w => req'[v] = req[v]
      BY <1>1, <2>1 DEF Goes, Answers, TypeOK
    <3>3. \A v \in Workers : v # w => req'[v].up # x
      BY <1>1, <2>3, <2>4, <3>2 DEF Hidden
    <3>4. IsFinal(info'[x])
      BY <1>1, <2>3, <2>4 DEF Hidden
    <3>5. (FinalOnly(x))'
      BY <3>1, <3>3, <3>4 DEF FinalOnly
    <3>6. (Unused(x))'
      BY <1>1, <2>4 DEF Unused
    <3> QED
      BY <3>5, <3>6
  <2>5. ASSUME \A v \in Workers : v # w => req'[v] = req[v],
               req'[w].up = u, Begun(req'[w]), (Backed(req[w]))', (Hidden(w))'
        PROVE  SharedInv'
    BY <1>1, <2>2, <2>4, <2>5, SharedFrame
  <2>6. CASE Answers(w, Unknown)
    <3>1. Calm(w)
      BY <1>1, <2>6, FailsCalm DEF Fails, TypeOK
    <3>2. req'[w].up = u
      BY <1>1, <2>6 DEF Answers, Idle, TypeOK
    <3> QED
      BY <2>2, <2>5, <3>1, <3>2 DEF Calm, Hidden
  <2>7. CASE Goes(w, "finish")
    <3>1. /\ req'[w].up = u /\ req'[w].at = "finish"
          /\ req'[w].off = req[w].off /\ req'[w].n = req[w].n
          /\ \A v \in Workers : v # w => req'[v] = req[v]
      BY <1>1, <2>7, GoesTo
    <3>2. (Backed(req[w]))'
      <4>1. req[w].off \in Int /\ req[w].n \in Int
        BY <1>1 DEF Request, Unknown
      <4>2. u \in binFiles => req[w].off + req[w].n <= Len(bin[u])
        BY <1>1 DEF Backed
      <4>3. u \in binFiles => req[w].off + req[w].n <= Len(bin'[u])
        <5>1. Len(bin[u]) <= Len(bin'[u]) /\ Len(bin[u]) \in Int /\ Len(bin'[u]) \in Int
          BY <2>2
        <5> QED
          BY ONLY <4>1, <4>2, <5>1, StillBelow
      <4> QED
        BY <1>1, <3>1, <4>3 DEF Backed
    <3> QED
      BY <2>2, <2>5, <3>1, <3>2 DEF Begun, Hidden, Making
  <2>8. CASE req' = [req EXCEPT ![w].part = @ + 1]
    <3>1. /\ req'[w].up = u /\ req'[w].at = "copy" /\ req'[w].op = req[w].op
          /\ req'[w].off = req[w].off /\ req'[w].n = req[w].n /\ req'[w].info = req[w].info
          /\ \A v \in Workers : v # w => req'[v] = req[v]
      BY <1>1, <2>8 DEF TypeOK, Request
    <3>2. (Backed(req[w]))'
      <4>1. req[w].off \in Int /\ req[w].n \in Int
        BY <1>1 DEF Request, Unknown
      <4>2. u \in binFiles => req[w].off + req[w].n <= Len(bin[u])
        BY <1>1 DEF Backed
      <4>3. u \in binFiles => req[w].off + req[w].n <= Len(bin'[u])
        <5>1. Len(bin[u]) <= Len(bin'[u]) /\ Len(bin[u]) \in Int /\ Len(bin'[u]) \in Int
          BY <2>2
        <5> QED
          BY ONLY <4>1, <4>2, <5>1, StillBelow
      <4> QED
        BY <1>1, <3>1, <4>3 DEF Backed
    <3>3. Begun(req'[w])
      BY <1>1, <3>1 DEF Begun
    <3>4. (Hidden(w))'
      BY <1>1, <2>3, <3>1 DEF Hidden
    <3> QED
      BY <2>2, <2>5, <3>1, <3>2, <3>3, <3>4
  <2> QED
    BY <2>1, <2>2, <2>6, <2>7, <2>8
<1> QED
  BY <1>2, <1>3

LEMMA OwnByteAdded ==
  ASSUME NEW u \in Uploads, NEW k \in Nat, NEW old \in Seq(Uploads \X Nat),
         \A i \in DOMAIN old : old[i][1] = u
  PROVE  \A i \in DOMAIN Append(old, << u, k >>) : Append(old, << u, k >>)[i][1] = u
<1>. DEFINE e == << u, k >>
<1>1. e \in Uploads \X Nat /\ e[1] = u
  OBVIOUS
<1>. HIDE DEF e
<1>2. DOMAIN Append(old, e) = 1 .. Len(old) + 1 /\ DOMAIN old = 1 .. Len(old)
  BY <1>1
<1>3. ASSUME NEW i \in 1 .. Len(old) + 1 PROVE Append(old, e)[i][1] = u
  <2>1. CASE i = Len(old) + 1
    BY <1>1, <2>1
  <2>2. CASE i # Len(old) + 1
    <3>1. i \in 1 .. Len(old)
      BY <2>2
    <3>2. Append(old, e)[i] = old[i]
      BY <1>1, <3>1
    <3> QED
      BY <1>2, <3>1, <3>2
  <2> QED
    BY <2>1, <2>2
<1>4. \A i \in DOMAIN Append(old, e) : Append(old, e)[i][1] = u
  BY <1>2, <1>3
<1> QED
  BY <1>4 DEF e

LEMMA OneMore ==
  ASSUME NEW a \in Int, NEW b \in Int, NEW c \in Int, a + b <= c
  PROVE  a + (b + 1) <= c + 1
OBVIOUS

LEMMA WriteByteShares ==
  ASSUME IInv, SharedInv, TypeOK', NEW w \in Workers, WriteByte(w)
  PROVE  SharedInv' /\ Grows
<1>. DEFINE k == req[w].off + req[w].n + 1
<1>1. PICK u : u = req[w].up
  OBVIOUS
<1>2. /\ TypeOK /\ req[w] \in Request /\ u \in Uploads /\ u \in used /\ Backed(req[w])
      /\ infoFile' = infoFile /\ info' = info /\ binFiles' = binFiles
      /\ known' = known /\ used' = used /\ told' = told
  <2>1. TypeOK /\ PlaceInv /\ req[w].at = "write" /\ Backed(req[w])
    BY DEF IInv, WriteByte, At, SharedInv
  <2>2. req[w] \in Request /\ u \in Uploads /\ u # NoUpload
    BY <1>1, <2>1, InHand, LimitBusy
  <2> QED
    BY <1>1, <2>1, <2>2 DEF WriteByte, ids, history, PlaceInv
<1>3. /\ req' = [req EXCEPT ![w].n = @ + 1] /\ req[w].at = "write" /\ More(req[w])
      /\ bin' = IF u \in binFiles THEN [bin EXCEPT ![u] = Append(@, << u, k >>)] ELSE bin
  BY <1>1 DEF WriteByte, At
<1>4. /\ \A v \in Workers : v # w => req'[v] = req[v]
      /\ req'[w].at = "write" /\ req'[w].up = u
      /\ req'[w].off = req[w].off /\ req'[w].n = req[w].n + 1
  BY <1>1, <1>2, <1>3 DEF TypeOK, Request
<1>5. /\ Begun(req'[w]) /\ (Hidden(w))'
      /\ \A x \in Uploads : x = u => (FinalOnly(x) => (FinalOnly(x))') /\ (Unused(x))'
  BY <1>2, <1>4 DEF Begun, Hidden, Making, FinalOnly, Unused
<1>6. CASE u \notin binFiles
  <2>1. bin' = bin
    BY <1>3, <1>6
  <2>2. Grows
    BY <1>2, <2>1, SameData
  <2>3. (Backed(req[w]))'
    BY <1>2, <1>4, <1>6 DEF Backed
  <2>4. ASSUME NEW x \in Uploads, x = u PROVE (OwnBytes(x) \/ FinalOnly(x))' /\ (Unused(x))'
    BY <1>5, <2>1, <2>4 DEF SharedInv, OwnBytes
  <2> QED
    BY <1>1, <1>2, <1>4, <1>5, <2>1, <2>2, <2>3, <2>4, SharedFrame
<1>7. CASE u \in binFiles
  <2>1. k \in Nat
    <3>1. req[w].off \in Nat \cup {-1} /\ req[w].n \in Nat
      BY <1>2 DEF Request, Unknown
    <3> QED
      BY ONLY <3>1
  <2>. HIDE DEF k
  <2>2. PICK old : old = bin[u] /\ old \in Seq(Uploads \X Nat)
    BY <1>2 DEF TypeOK
  <2>3. bin' = [bin EXCEPT ![u] = Append(old, << u, k >>)]
    BY <1>3, <1>7, <2>2
  <2>. DEFINE e == << u, k >>
  <2>4. e \in Uploads \X Nat
    BY <1>2, <2>1
  <2>. HIDE DEF e
  <2>5. Append(old, e) = old \o << e >>
    BY <2>2, <2>4, AppendIsConcat
  <2>6. bin' = [bin EXCEPT ![u] = @ \o << e >>]
    BY <2>2, <2>3, <2>5 DEF e
  <2>7. << e >> \in Seq(Uploads \X Nat) /\ Len(<< e >>) = 1
    BY <2>4
  <2>8. /\ Grows /\ Len(bin'[u]) = Len(bin[u]) + 1
        /\ \A x \in Uploads : x # u => bin'[x] = bin[x]
    BY <1>2, <2>6, <2>7, AppendGrows
  <2>9. (Backed(req[w]))'
    <3>1. req[w].off + req[w].n <= Len(bin[u])
      BY <1>1, <1>2, <1>3, <1>7 DEF Backed
    <3>2. Len(bin[u]) \in Int /\ req[w].off \in Int /\ req[w].n \in Int
      BY <1>2, <2>2 DEF Request, Unknown
    <3>3. req[w].off + (req[w].n + 1) <= Len(bin[u]) + 1
      BY ONLY <3>1, <3>2, OneMore
    <3> QED
      BY <1>4, <2>8, <3>3 DEF Backed
  <2>10. OwnBytes(u) => (OwnBytes(u))'
    <3>1. bin'[u] = Append(old, << u, k >>)
      BY <1>2, <2>3 DEF TypeOK
    <3> QED
      BY <1>2, <2>1, <2>2, <3>1, OwnByteAdded DEF OwnBytes
  <2>11. ASSUME NEW x \in Uploads, x = u PROVE (OwnBytes(x) \/ FinalOnly(x))' /\ (Unused(x))'
    BY <1>5, <2>10, <2>11 DEF SharedInv
  <2> QED
    BY <1>1, <1>2, <1>4, <1>5, <2>8, <2>9, <2>11, SharedFrame
<1> QED
  BY <1>6, <1>7

LEMMA AfterTerminateCalm ==
  ASSUME TypeOK, TypeOK', NEW w \in Workers, AfterTerminate(w),
         req[w].up \in binFiles' => req[w].off + req[w].n <= Len(bin'[req[w].up])
  PROVE  Calm(w)
BY FailsCalm, GoesCalm DEF AfterTerminate, Fails, TypeOK

LEMMA RemoveShares ==
  ASSUME IInv, SharedInv, TypeOK', NEW w \in Workers, RemoveInfo(w) \/ RemoveBin(w)
  PROVE  SharedInv' /\ Grows
<1>1. PICK u : u = req[w].up
  OBVIOUS
<1>2. /\ TypeOK /\ u \in Uploads /\ u \in used /\ Backed(req[w])
      /\ req[w].at \in {"rmInfo", "rmBin"}
      /\ known' = known /\ used' = used /\ told' = told
  <2>1. TypeOK /\ PlaceInv /\ req[w].at \in {"rmInfo", "rmBin"} /\ Backed(req[w])
    BY DEF IInv, RemoveInfo, RemoveBin, At, SharedInv
  <2>2. u \in Uploads /\ u # NoUpload
    BY <1>1, <2>1, InHand, LimitBusy
  <2> QED
    BY <1>1, <2>1, <2>2 DEF RemoveInfo, RemoveBin, ids, history, PlaceInv
<1>3. CASE AfterTerminate(w) /\ UNCHANGED files
  <2>1. Calm(w)
    BY <1>1, <1>2, <1>3, AfterTerminateCalm DEF Backed, files
  <2>2. Grows
    BY <1>2, <1>3, SameData DEF files
  <2> QED
    BY <1>2, <1>3, <2>1, <2>2, CalmShares
<1>4. ASSUME Calm(w), Grows,
             req'[w].at \notin {"stat", "truncInfo", "writeInfo"},
             \A x \in Uploads : x # u =>
               infoFile'[x] = infoFile[x] /\ info'[x] = info[x] /\ bin'[x] = bin[x],
             infoFile'[u] = "whole" => infoFile[u] = "whole" /\ info'[u] = info[u],
             bin'[u] = bin[u] \/ bin'[u] = << >>
      PROVE  SharedInv'
  <2>1. ASSUME NEW x \in Uploads, x = u PROVE (OwnBytes(x) \/ FinalOnly(x))' /\ (Unused(x))'
    <3>1. OwnBytes(x) => (OwnBytes(x))'
      BY <1>4, <2>1 DEF OwnBytes
    <3>2. FinalOnly(x) => (FinalOnly(x))'
      BY <1>4, <2>1 DEF FinalOnly, Calm
    <3>3. (Unused(x))'
      BY <1>2, <2>1 DEF Unused
    <3> QED
      BY <3>1, <3>2, <3>3 DEF SharedInv
  <2>2. (Hidden(w))'
    BY <1>4 DEF Calm, Hidden
  <2> QED
    BY <1>1, <1>2, <1>4, <2>1, <2>2, SharedFrame DEF Calm
<1>5. CASE /\ RemoveInfo(w) /\ Goes(w, "rmBin")
           /\ infoFile' = [infoFile EXCEPT ![u] = "none"]
           /\ info' = [info EXCEPT ![u] = NewInfo]
  <2>1. /\ infoFile' = [infoFile EXCEPT ![u] = "none"]
        /\ info' = [info EXCEPT ![u] = NewInfo]
        /\ Goes(w, "rmBin") /\ bin' = bin /\ binFiles' = binFiles
    BY <1>5 DEF RemoveInfo
  <2>2. Calm(w)
    BY <1>1, <1>2, <2>1, <1>5, GoesCalm DEF Backed, RemoveInfo, At
  <2>3. Grows
    BY <1>2, <2>1, SameData
  <2>4. req'[w].at = "rmBin"
    BY <1>2, <2>1, GoesTo
  <2>5. /\ infoFile'[u] = "none"
        /\ \A x \in Uploads : x # u => infoFile'[x] = infoFile[x] /\ info'[x] = info[x]
    BY <1>2, <2>1 DEF TypeOK
  <2> QED
    BY <1>4, <2>1, <2>2, <2>3, <2>4, <2>5
<1>6. CASE RemoveBin(w) /\ Removed(u)
  <2>1. /\ binFiles' = binFiles \ {u} /\ bin' = [bin EXCEPT ![u] = << >>]
        /\ infoFile' = infoFile /\ info' = info /\ AfterTerminate(w)
    BY <1>6 DEF RemoveBin, Removed
  <2>2. Calm(w)
    BY <1>1, <1>2, <2>1, AfterTerminateCalm
  <2>3. bin'[u] = << >> /\ \A x \in Uploads : x # u => bin'[x] = bin[x]
    BY <1>2, <2>1 DEF TypeOK
  <2>4. Grows
    <3>1. \A x \in Uploads : Len(bin[x]) \in Nat
      BY <1>2 DEF TypeOK
    <3> QED
      BY <2>1, <2>3, <3>1 DEF Grows
  <2>5. req'[w].at \in {"stopped", "reply"}
    <3>1. Goes(w, "stopped") => req'[w].at = "stopped"
      BY <1>2, GoesTo
    <3>2. Answers(w, Unknown) => req'[w].at = "reply"
      BY <1>2, AnswerType DEF IInv
    <3> QED
      BY <2>1, <3>1, <3>2 DEF AfterTerminate
  <2> QED
    BY <1>4, <2>1, <2>2, <2>3, <2>4, <2>5
<1>7. CASE RemoveInfo(w)
  <2>1. \/ AfterTerminate(w) /\ UNCHANGED files
        \/ /\ Goes(w, "rmBin")
           /\ infoFile' = [infoFile EXCEPT ![u] = "none"]
           /\ info' = [info EXCEPT ![u] = NewInfo]
    BY <1>1, <1>7 DEF RemoveInfo, files
  <2> QED
    BY <1>3, <1>5, <1>7, <2>1
<1>8. CASE RemoveBin(w)
  <2>1. (AfterTerminate(w) /\ UNCHANGED files) \/ Removed(u)
    BY <1>1, <1>8 DEF RemoveBin, files
  <2> QED
    BY <1>3, <1>6, <1>8, <2>1
<1> QED
  BY <1>7, <1>8

-----------------------------------------------------------------------------
LEMMA SharedInit == Init => SharedInv
<1> SUFFICES ASSUME Init PROVE SharedInv
  OBVIOUS
<1>1. \A w \in Workers : req[w] = Idle
  BY DEF Init
<1>2. ASSUME NEW w \in Workers PROVE Begun(req[w]) /\ Backed(req[w]) /\ Hidden(w)
  BY <1>1, IdleType DEF Begun, Backed, Hidden, Making
<1>3. ASSUME NEW u \in Uploads PROVE OwnBytes(u) /\ Unused(u)
  BY DEF Init, OwnBytes, Unused
<1>4. ToldIsStored
  BY DEF Init, ToldIsStored
<1> QED
  BY <1>2, <1>3, <1>4 DEF SharedInv

\* A step that leaves the files and what was told, and the requests or none of
\* them
LEMMA StillShares ==
  ASSUME IInv, SharedInv, UNCHANGED << files, ids, told >>,
         req' = req \/ req' = [w \in Workers |-> Idle]
  PROVE  SharedInv' /\ Grows
<1>1. /\ TypeOK /\ infoFile' = infoFile /\ info' = info /\ binFiles' = binFiles /\ bin' = bin
      /\ used' = used /\ known' = known /\ told' = told
  BY DEF IInv, files, ids
<1>2. ToldIsStored' /\ \A u \in Uploads : (OwnBytes(u) => (OwnBytes(u))') /\ (Unused(u))'
  BY <1>1 DEF SharedInv, ToldIsStored, OwnBytes, Unused
<1>3. CASE req' = req
  <2>1. ASSUME NEW w \in Workers PROVE Begun(req'[w]) /\ (Backed(req[w]))' /\ (Hidden(w))'
    BY <1>1, <1>3 DEF SharedInv, Backed, Hidden
  <2>2. \A u \in Uploads : FinalOnly(u) => (FinalOnly(u))'
    BY <1>1, <1>3 DEF FinalOnly
  <2> QED
    BY <1>1, <1>2, <2>1, <2>2, SameData DEF SharedInv
<1>4. CASE req' = [w \in Workers |-> Idle]
  <2>1. ASSUME NEW w \in Workers PROVE Begun(req'[w]) /\ (Backed(req[w]))' /\ (Hidden(w))'
    BY <1>4, IdleType DEF Begun, Backed, Hidden, Making
  <2>2. \A u \in Uploads : FinalOnly(u) => (FinalOnly(u))'
    BY <1>1, <1>4, IdleType DEF FinalOnly
  <2> QED
    BY <1>1, <1>2, <2>1, <2>2, SameData DEF SharedInv
<1> QED
  BY <1>3, <1>4

LEMMA StepShares == IInv /\ SharedInv /\ [Next]_vars => SharedInv' /\ Grows
<1> SUFFICES ASSUME IInv, SharedInv, [Next]_vars PROVE SharedInv' /\ Grows
  OBVIOUS
<1>1. TypeOK /\ TypeOK'
  BY StepIInv DEF IInv
<1>2. CASE UNCHANGED vars
  BY <1>2, StillShares DEF vars, history
<1>3. CASE Crash
  BY <1>3, StillShares DEF Crash
<1>4. ASSUME NEW w \in Workers, Reply(w) \/ CreateBin(w) \/ TruncInfo(w) \/ WriteInfo(w)
      PROVE  SharedInv' /\ Grows
  BY <1>1, <1>4, ReplyShares, CreateBinShares, TruncInfoShares, WriteInfoShares
<1>5. ASSUME NEW w \in Workers, Copy(w) \/ WriteByte(w) \/ RemoveInfo(w) \/ RemoveBin(w)
      PROVE  SharedInv' /\ Grows
  BY <1>1, <1>5, CopyShares, WriteByteShares, RemoveShares
<1>6. ASSUME NEW w \in Workers,
             \/ Requests(w) \/ Lock(w) \/ Unlock(w) \/ ReadInfo(w) \/ Stat(w)
             \/ PartInfo(w) \/ PartStat(w) \/ Begin(w) \/ BodyEnds(w) \/ BodyFails(w)
             \/ StopUpload(w) \/ Flag(w) \/ Stopped(w) \/ Finish(w) \/ FinishRefused(w)
      PROVE  SharedInv' /\ Grows
  <2>1. SharedInv' /\ UNCHANGED files
    BY <1>1, <1>6, QuietShares
  <2> QED
    BY <1>1, <2>1, SameData DEF files
<1> QED
  BY <1>2, <1>3, <1>4, <1>5, <1>6 DEF Next, Step, Waits

LEMMA SharedInvariance == Spec => [](IInv /\ SharedInv)
BY InitIInv, StepIInv, SharedInit, StepShares, PTL DEF Spec

\* The data file of an upload that does not concatenate holds only bytes that
\* were sent for this upload: whatever runs at the same time, fails or crashes,
\* and though sizeOfUploads and ConcatUploads lock no part, nothing is written
\* into another upload.
THEOREM BytesStayApart == Spec => []BytesAreOwn
<1>1. SharedInv => BytesAreOwn
  BY DEF SharedInv, BytesAreOwn, FinalOnly
<1> QED
  BY <1>1, SharedInvariance, PTL

\* The Upload-Offset of an answer is never ahead of the data file, then or
\* later, as long as the file exists: a client that goes on from there, after a
\* failed request or a crash, leaves no gap.  This holds without a locker too.
THEOREM ToldStaysStored == Spec => []ToldIsStored
<1>1. SharedInv => ToldIsStored
  BY DEF SharedInv
<1> QED
  BY <1>1, SharedInvariance, PTL

\* WriteChunk and ConcatUploads only append: no byte that is stored is changed,
\* and the data file of an upload that Terminate has removed never comes back.
THEOREM OnlyAppends == Spec => [][Grows]_vars
<1>1. IInv /\ SharedInv /\ [Next]_vars => [Grows]_vars
  BY StepShares
<1> QED
  BY <1>1, SharedInvariance, PTL DEF Spec
=============================================================================
