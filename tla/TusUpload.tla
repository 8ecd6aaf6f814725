------------------------------ MODULE TusUpload ------------------------------
(***************************************************************************)
(* Resumable uploads: the request handlers of pkg/tus (PostFile, PatchFile,*)
(* HeadFile, GetFile, DelFile) over the file store (pkg/tus/filestore) and *)
(* the memory locker (pkg/tus/memorylocker).  Each worker is a goroutine   *)
(* that serves one request at a time; the process may crash at any moment, *)
(* which empties the locker and leaves the files, and a call of the file   *)
(* system may fail, which leaves what was done until then.                 *)
(*                                                                         *)
(* A byte is known by the upload it is sent for and its position in the    *)
(* client's file: a client that patches from an offset sends the bytes     *)
(* that follow it.  A client knows the id of an upload only once PostFile  *)
(* has answered, for ids are random.  What a request's headers say is      *)
(* chosen where the code looks at it first.  Metadata, logging and the     *)
(* counters of metrics.go are left out; a request that is refused before   *)
(* it has touched a file or a lock is not a step.                          *)
(***************************************************************************)
EXTENDS Integers, SequencesExt

CONSTANTS Uploads,    \* the ids uid.Uid gives out
          NoUpload,   \* a request that has none yet
          Workers,    \* the goroutines that serve requests
          MaxLen,     \* bound: the length of a client's file
          MaxParts,   \* bound: the parts of a final upload
          MaxSize,    \* Config.MaxSize, 0 for no limit
          UsesLocker  \* StoreComposer.UsesLocker

ASSUME UploadsAssumption == NoUpload \notin Uploads
ASSUME BoundsAssumption == MaxLen \in Nat /\ MaxParts \in Nat
ASSUME ConfigAssumption == MaxSize \in Nat /\ UsesLocker \in BOOLEAN

VARIABLES
  infoFile,   \* the [id].info files: "none", "torn" (truncated) or "whole"
  info,       \* what a whole one says
  binFiles,   \* the uploads whose data file exists
  bin,        \* the content of the data files
  locks,      \* MemoryLocker.locks
  req,        \* the request each worker serves
  used,       \* ids given out
  known,      \* ids told to a client
  told,       \* the greatest offset a client was told
  completed,  \* how often CompleteUploads was sent an upload
  broken      \* uploads left half made, declared or removed by a crash or by an
              \*   error of the file system

files == << infoFile, info, binFiles, bin >>
ids == << used, known >>
history == << told, completed, broken >>
vars == << files, locks, req, ids, history >>

Lengths == 0 .. MaxLen
Unknown == -1   \* a body without Content-Length, no Upload-Length

NewInfo == [size |-> 0, deferred |-> FALSE, parts |-> << >>]
IsFinal(i) == i.parts # << >>

Idle == [at |-> "idle", op |-> "none", up |-> NoUpload, info |-> NewInfo,
         part |-> 1, off |-> 0, len |-> 0, n |-> 0, chunk |-> FALSE,
         held |-> FALSE, err |-> FALSE, stop |-> FALSE]

Init ==
  /\ infoFile = [u \in Uploads |-> "none"]
  /\ info = [u \in Uploads |-> NewInfo]
  /\ binFiles = {}
  /\ bin = [u \in Uploads |-> << >>]
  /\ locks = {}
  /\ req = [w \in Workers |-> Idle]
  /\ used = {} /\ known = {}
  /\ told = [u \in Uploads |-> 0]
  /\ completed = [u \in Uploads |-> 0]
  /\ broken = {}

At(w, label) == req[w].at = label
Goes(w, label) == req' = [req EXCEPT ![w].at = label]

\* The answer tells the client an offset, or none.
Answers(w, offset) ==
  req' = [req EXCEPT ![w] = [Idle EXCEPT !.at = "reply", !.off = offset,
                                         !.up = req[w].up,
                                         !.held = req[w].held]]

Fails(w) == Answers(w, Unknown)

\* where one file of an upload is written or removed and the other is not
HalfDone(w) == \/ req[w].at \in {"writeInfo", "rmBin"}
               \/ req[w].at = "truncInfo" /\ req[w].op # "patch"

\* What a request leaves half done if it ends here
Interrupted(w) == IF HalfDone(w) THEN {req[w].up} ELSE {}

-----------------------------------------------------------------------------
(* Requests arrive *)

Begins(w, r) ==
  /\ At(w, "idle")
  /\ req' = [req EXCEPT ![w] = r]
  /\ UNCHANGED << files, locks, ids, history >>

\* bound: the ids the running requests may still take
IdsLeft == {u \in Uploads : u \notin used}
Creating == {w \in Workers : /\ req[w].op \in {"post", "final"}
                             /\ req[w].up = NoUpload}
CanCreate == Cardinality(Creating) < Cardinality(IdsLeft)

SizeAllowed(size) == MaxSize > 0 => size <= MaxSize

\* PostFile with Upload-Length, or Upload-Defer-Length (a size of 0 then), with
\* or without a chunk in its body
Post(w, size, deferred, chunk) ==
  /\ CanCreate /\ SizeAllowed(size)
  /\ deferred => size = 0
  /\ Begins(w, [Idle EXCEPT !.at = "createBin", !.op = "post",
                            !.info.size = size, !.info.deferred = deferred,
                            !.chunk = chunk])

\* PostFile with Upload-Concat: final
PostFinal(w, parts) ==
  /\ CanCreate
  /\ Begins(w, [Idle EXCEPT !.at = "partInfo", !.op = "final",
                            !.info.parts = parts])

\* PatchFile, HeadFile or GetFile ("look"), DelFile ("del")
Ask(w, u, op) ==
  Begins(w, [Idle EXCEPT !.at = "lock", !.op = op, !.up = u])

Requests(w) ==
  \/ \E size \in Lengths, deferred, chunk \in BOOLEAN :
       Post(w, size, deferred, chunk)
  \/ \E n \in 1 .. MaxParts : \E parts \in [1 .. n -> known] :
       PostFinal(w, parts)
  \/ \E u \in known, op \in {"patch", "look", "del"} : Ask(w, u, op)

-----------------------------------------------------------------------------
(* lockUpload and Unlock *)

\* A bug to detect: the lock is given although another request holds it.
TakenNever(u) == FALSE

\* memoryLock.Lock refuses at once.
Taken(u) == u \in locks

Lock(w) ==
  /\ At(w, "lock")
  /\ LET u == req[w].up
         next == IF req[w].op = "post" THEN "begin" ELSE "info"
     IN  \/ /\ ~UsesLocker
            /\ Goes(w, next)
            /\ UNCHANGED locks
         \/ /\ UsesLocker /\ Taken(u)
            /\ Fails(w)
            /\ UNCHANGED locks
         \/ /\ UsesLocker /\ ~Taken(u)
            /\ locks' = locks \cup {u}
            /\ req' = [req EXCEPT ![w].at = next, ![w].held = TRUE]
  /\ UNCHANGED << files, ids, history >>

\* The upload that an answer names: none if NewUpload has failed, and only then
\* does an answer still know that it is for a new upload.
Names(r) == IF r.op \in {"post", "final"} THEN {} ELSE {r.up} \ {NoUpload}

\* A bug to detect: Unlock is not deferred, and left out on an error.
UnlocksUnlessFailed(r) == r.held /\ r.off # Unknown

Unlocks(r) == r.held

\* The answer is sent, then the deferred Unlock runs.
Reply(w) ==
  /\ At(w, "reply")
  /\ LET r == req[w]
     IN  /\ known' = known \cup Names(r)
         /\ told' = [u \in Uploads |-> IF u = r.up /\ r.off > told[u]
                                       THEN r.off ELSE told[u]]
         /\ req' = [req EXCEPT ![w] =
                      IF Unlocks(r) THEN [r EXCEPT !.at = "unlock", !.off = 0]
                                    ELSE Idle]
  /\ UNCHANGED << files, locks, used, completed, broken >>

Unlock(w) ==
  /\ At(w, "unlock")
  /\ locks' = locks \ {req[w].up}
  /\ req' = [req EXCEPT ![w] = Idle]
  /\ UNCHANGED << files, ids, history >>

-----------------------------------------------------------------------------
(* FileStore.GetUpload: the info file, then the size of the data file *)

\* An info file that is torn does not unmarshal; another may not be readable.
ReadInfo(w) ==
  /\ At(w, "info")
  /\ LET u == req[w].up
     IN  \/ Fails(w)
         \/ /\ infoFile[u] = "whole"
            /\ req' = [req EXCEPT ![w].at = "stat", ![w].info = info[u]]
  /\ UNCHANGED << files, locks, ids, history >>

\* A bug to detect: the client's offset is not compared with the file's.
MatchesAlways(claim, size) == TRUE

Matches(claim, size) == claim = size

IsComplete(i, offset) == ~i.deferred /\ offset = i.size

\* What PatchFile does of the Upload-Length header
Declares(w, off, decl) ==
  IF req[w].info.deferred /\ decl >= off /\ SizeAllowed(decl)
  THEN req' = [req EXCEPT ![w].at = "truncInfo", ![w].off = off,
                          ![w].info.size = decl, ![w].info.deferred = FALSE]
  ELSE Fails(w)

\* What PatchFile does with an upload of the given size, and the Upload-Offset
\* and Upload-Length that the client has sent
PatchChecked(w, size, claim, decl) ==
  IF IsFinal(req[w].info) \/ ~Matches(claim, size) THEN Fails(w)
  ELSE IF IsComplete(req[w].info, size) THEN Answers(w, claim)
  ELSE IF decl # Unknown THEN Declares(w, claim, decl)
  ELSE req' = [req EXCEPT ![w].at = "begin", ![w].off = claim]

Stat(w) ==
  /\ At(w, "stat")
  /\ LET u == req[w].up
     IN  \/ Fails(w)
         \/ /\ u \in binFiles
            /\ \/ /\ req[w].op = "patch"
                  /\ \E claim \in Lengths, decl \in Lengths \cup {Unknown} :
                       PatchChecked(w, Len(bin[u]), claim, decl)
               \/ req[w].op = "look" /\ Answers(w, Len(bin[u]))
               \/ req[w].op = "del" /\ Goes(w, "rmInfo")
  /\ UNCHANGED << files, locks, ids, history >>

\* sizeOfUploads, for one part: it takes no lock.
PartInfo(w) ==
  /\ At(w, "partInfo")
  /\ LET p == req[w].info.parts[req[w].part]
     IN  \/ Fails(w)
         \/ /\ infoFile[p] = "whole" /\ ~info[p].deferred
            /\ req' = [req EXCEPT ![w].at = "partStat", ![w].off = info[p].size]
  /\ UNCHANGED << files, locks, ids, history >>

\* A bug to detect: parts need not be complete.
PartCompleteAlways(p, size) == p \in binFiles

PartComplete(p, size) == p \in binFiles /\ Len(bin[p]) = size

PartStat(w) ==
  /\ At(w, "partStat")
  /\ LET r == req[w]
         size == r.info.size + r.off
         last == r.part = Len(r.info.parts)
     IN  \/ Fails(w)
         \/ /\ PartComplete(r.info.parts[r.part], r.off)
            /\ last => SizeAllowed(size)
            /\ req' = [req EXCEPT ![w].at = IF last THEN "createBin"
                                                    ELSE "partInfo",
                                  ![w].part = IF last THEN 1 ELSE @ + 1,
                                  ![w].info.size = size, ![w].off = 0]
  /\ UNCHANGED << files, locks, ids, history >>

-----------------------------------------------------------------------------
(* FileStore.NewUpload, DeclareLength, ConcatUploads *)

CreateBin(w) ==
  /\ At(w, "createBin")
  /\ \E u \in IdsLeft :
       /\ used' = used \cup {u}
       /\ binFiles' = binFiles \cup {u}
       /\ req' = [req EXCEPT ![w].at = "truncInfo", ![w].up = u]
  /\ UNCHANGED << infoFile, info, bin, locks, known, history >>

\* writeInfo returns an error, and so does DeclareLength or NewUpload.
InfoFails(w) ==
  /\ broken' = broken \cup Interrupted(w)
  /\ req' = [req EXCEPT ![w] = [Idle EXCEPT !.at = "reply", !.op = req[w].op,
                                            !.off = Unknown, !.up = req[w].up,
                                            !.held = req[w].held]]
  /\ UNCHANGED infoFile

\* writeInfo: os.WriteFile creates or truncates the file, then writes it.
TruncInfo(w) ==
  /\ At(w, "truncInfo")
  /\ \/ InfoFails(w)
     \/ /\ infoFile' = [infoFile EXCEPT ![req[w].up] = "torn"]
        /\ Goes(w, "writeInfo")
        /\ UNCHANGED broken
  /\ UNCHANGED << info, binFiles, bin, locks, ids, told, completed >>

\* What comes after the info file is written
AfterInfo(w) ==
  LET r == req[w]
  IN  \/ r.op = "patch" /\ Goes(w, "begin")
      \/ r.op = "final" /\ Goes(w, "copy")
      \/ r.op = "post" /\ r.chunk /\ Goes(w, "lock")
      \/ /\ r.op = "post" /\ ~r.chunk
         /\ IF IsComplete(r.info, 0) THEN Goes(w, "finish")
                                     ELSE Answers(w, Unknown)

\* A file that was removed in the meantime is not seen any more, and one that
\* cannot be written stays torn.
WriteInfo(w) ==
  /\ At(w, "writeInfo")
  /\ LET u == req[w].up
     IN  \/ InfoFails(w) /\ UNCHANGED info
         \/ /\ infoFile[u] = "none"
            /\ AfterInfo(w)
            /\ UNCHANGED << infoFile, info, broken >>
         \/ /\ infoFile[u] # "none"
            /\ infoFile' = [infoFile EXCEPT ![u] = "whole"]
            /\ info' = [info EXCEPT ![u] = req[w].info]
            /\ AfterInfo(w)
            /\ UNCHANGED broken
  /\ UNCHANGED << binFiles, bin, locks, ids, told, completed >>

\* ConcatUploads copies a part, or fails in the middle of it.  When all are
\* copied PostFile sends the upload to CompleteUploads; an empty one is then
\* finished, and sent, once more.
Copy(w) ==
  /\ At(w, "copy")
  /\ LET r == req[w]
         p == r.info.parts[r.part]
         last == r.part = Len(r.info.parts)
     IN  \/ p \notin binFiles /\ Fails(w) /\ UNCHANGED << bin, completed >>
         \/ /\ p \in binFiles
            /\ \E n \in 0 .. Len(bin[p]) :
                 bin' = [bin EXCEPT ![r.up] = @ \o SubSeq(bin[p], 1, n)]
            /\ Fails(w) /\ UNCHANGED completed
         \/ /\ p \in binFiles
            /\ bin' = [bin EXCEPT ![r.up] = @ \o bin[p]]
            /\ completed' = IF last THEN [completed EXCEPT ![r.up] = @ + 1]
                                    ELSE completed
            /\ IF ~last THEN req' = [req EXCEPT ![w].part = @ + 1]
               ELSE IF r.info.size = 0 THEN Goes(w, "finish")
               ELSE Answers(w, Unknown)
  /\ UNCHANGED << infoFile, info, binFiles, locks, ids, told, broken >>

-----------------------------------------------------------------------------
(* writeChunk *)

\* A bug to detect: the chunk may be longer than what the upload lacks.
FitsAlways(r, len) == TRUE

Fits(r, len) == r.info.deferred \/ r.off + len <= r.info.size

\* How much of a body is read.  Without any limit the bound stands.
Limit(r, len) ==
  IF len > 0 THEN len
  ELSE IF ~r.info.deferred THEN r.info.size - r.off
  ELSE IF MaxSize > 0 THEN MaxSize - r.off ELSE MaxLen

\* WriteChunk opens the data file to append a body of the given Content-Length.
Begin(w) ==
  /\ At(w, "begin")
  /\ \E len \in Lengths \cup {Unknown} :
       LET r == req[w]
       IN  IF ~Fits(r, len) THEN Fails(w)
           ELSE IF Limit(r, len) <= 0 THEN Goes(w, "finish")
           ELSE IF r.up \notin binFiles
           THEN req' = [req EXCEPT ![w].at = "flag", ![w].err = TRUE]
           ELSE req' = [req EXCEPT ![w].at = "write", ![w].len = len]
  /\ UNCHANGED << files, locks, ids, history >>

\* whether the body goes on
More(r) == r.len # 0 /\ r.n < Limit(r, r.len)

\* The next bytes of the body are appended, wherever the file ends by now; a
\* file that was removed takes them and is not seen any more.
WriteByte(w) ==
  /\ At(w, "write")
  /\ LET r == req[w]
         position == r.off + r.n + 1
     IN  /\ More(r)
         /\ position <= MaxLen
         /\ bin' = IF r.up \in binFiles
                   THEN [bin EXCEPT ![r.up] = Append(@, << r.up, position >>)]
                   ELSE bin
  /\ req' = [req EXCEPT ![w].n = @ + 1]
  /\ UNCHANGED << infoFile, info, binFiles, locks, ids, history >>

\* The body ends, or as much of it is read as is allowed.
BodyEnds(w) ==
  /\ At(w, "write")
  /\ ~More(req[w]) \/ req[w].len = Unknown
  /\ req' = [req EXCEPT ![w].at = "flag", ![w].len = 0]
  /\ UNCHANGED << files, locks, ids, history >>

\* The client breaks off, the store cannot write, or StopUpload has closed the
\* body.
BodyFails(w) ==
  /\ At(w, "write")
  /\ More(req[w])
  /\ req' = [req EXCEPT ![w].at = "flag", ![w].len = 0, ![w].err = TRUE]
  /\ UNCHANGED << files, locks, ids, history >>

\* FileInfo.StopUpload, from a receiver of UploadProgress: it sets
\* terminateUpload while the chunk is written or just after.
StopUpload(w) ==
  /\ req[w].at \in {"write", "flag", "stopped"}
  /\ ~req[w].stop
  /\ req' = [req EXCEPT ![w].stop = TRUE]
  /\ UNCHANGED << files, locks, ids, history >>

\* terminateUpload is read: is the upload to be deleted?
Flag(w) ==
  /\ At(w, "flag")
  /\ Goes(w, IF req[w].stop THEN "rmInfo" ELSE "stopped")
  /\ UNCHANGED << files, locks, ids, history >>

\* It is read again: was the upload stopped?
Stopped(w) ==
  /\ At(w, "stopped")
  /\ IF req[w].stop \/ req[w].err THEN Fails(w) ELSE Goes(w, "finish")
  /\ UNCHANGED << files, locks, ids, history >>

-----------------------------------------------------------------------------
(* finishUploadIfComplete *)

Offset(r) == r.off + r.n

\* A bug to detect: every chunk is taken for the last one.
FinishesAlways(r) == ~r.info.deferred

Finishes(r) == IsComplete(r.info, Offset(r))

Finish(w) ==
  /\ At(w, "finish")
  /\ completed' = IF Finishes(req[w])
                  THEN [completed EXCEPT ![req[w].up] = @ + 1] ELSE completed
  /\ Answers(w, Offset(req[w]))
  /\ UNCHANGED << files, locks, ids, told, broken >>

\* PreFinishResponseCallback returns an error: the Upload-Offset header is set
\* by then.
FinishRefused(w) ==
  /\ At(w, "finish")
  /\ Finishes(req[w])
  /\ Answers(w, Offset(req[w]))
  /\ UNCHANGED << files, locks, ids, history >>

-----------------------------------------------------------------------------
(* Terminate, for DelFile and for a stopped upload *)

AfterTerminate(w) ==
  IF req[w].op = "del" THEN Answers(w, Unknown) ELSE Goes(w, "stopped")

\* An info file that cannot be removed, or is gone, leaves the upload as it is.
RemoveInfo(w) ==
  /\ At(w, "rmInfo")
  /\ LET u == req[w].up
     IN  \/ AfterTerminate(w) /\ UNCHANGED << infoFile, info >>
         \/ /\ infoFile[u] # "none"
            /\ infoFile' = [infoFile EXCEPT ![u] = "none"]
            /\ info' = [info EXCEPT ![u] = NewInfo]
            /\ Goes(w, "rmBin")
  /\ UNCHANGED << binFiles, bin, locks, ids, history >>

\* A bug to detect: the data file stays.
RemovedNothing(u) == UNCHANGED << binFiles, bin >>

Removed(u) == /\ binFiles' = binFiles \ {u}
              /\ bin' = [bin EXCEPT ![u] = << >>]

RemoveBin(w) ==
  /\ At(w, "rmBin")
  /\ \/ Removed(req[w].up) /\ UNCHANGED broken
     \/ /\ broken' = broken \cup Interrupted(w)
        /\ UNCHANGED << binFiles, bin >>
  /\ AfterTerminate(w)
  /\ UNCHANGED << infoFile, info, locks, ids, told, completed >>

-----------------------------------------------------------------------------
(* A crash: the locker is empty when the process starts again. *)

Crash ==
  /\ \E w \in Workers : ~At(w, "idle")
  /\ broken' = broken \cup UNION {Interrupted(w) : w \in Workers}
  /\ req' = [w \in Workers |-> Idle]
  /\ locks' = {}
  /\ UNCHANGED << files, ids, told, completed >>

-----------------------------------------------------------------------------
Step(w) ==
  \/ Lock(w) \/ Reply(w) \/ Unlock(w)
  \/ ReadInfo(w) \/ Stat(w) \/ PartInfo(w) \/ PartStat(w)
  \/ CreateBin(w) \/ TruncInfo(w) \/ WriteInfo(w) \/ Copy(w)
  \/ Begin(w) \/ WriteByte(w) \/ BodyEnds(w) \/ BodyFails(w)
  \/ Flag(w) \/ Stopped(w) \/ Finish(w) \/ FinishRefused(w)
  \/ RemoveInfo(w) \/ RemoveBin(w)

\* No request comes.
Waits == (\A w \in Workers : At(w, "idle")) /\ UNCHANGED vars

Next ==
  \/ \E w \in Workers : Requests(w) \/ Step(w) \/ StopUpload(w)
  \/ Crash
  \/ Waits

Spec == Init /\ [][Next]_vars

-----------------------------------------------------------------------------
(* Properties *)

Labels == {"idle", "lock", "reply", "unlock", "info", "stat", "partInfo",
           "partStat", "createBin", "truncInfo", "writeInfo", "copy", "begin",
           "write", "flag", "stopped", "finish", "rmInfo", "rmBin"}

Info == [size : Nat, deferred : BOOLEAN, parts : Seq(Uploads)]

Request == [at : Labels,
            op : {"none", "post", "final", "patch", "look", "del"},
            up : Uploads \cup {NoUpload}, info : Info, part : Nat,
            off : Nat \cup {Unknown}, len : Nat \cup {Unknown}, n : Nat,
            chunk : BOOLEAN, held : BOOLEAN, err : BOOLEAN, stop : BOOLEAN]

\* The type invariant.
TypeOK ==
  /\ infoFile \in [Uploads -> {"none", "torn", "whole"}]
  /\ info \in [Uploads -> Info]
  /\ binFiles \subseteq Uploads
  /\ bin \in [Uploads -> Seq(Uploads \X Nat)]
  /\ locks \subseteq Uploads
  /\ req \in [Workers -> Request]
  /\ used \subseteq Uploads /\ known \subseteq used
  /\ told \in [Uploads -> Nat] /\ completed \in [Uploads -> Nat]
  /\ broken \subseteq Uploads

Holds(w, u) == req[w].held /\ req[w].up = u

\* Every lock is held by one request, which is still being served and gives it
\* back when it ends; no error path leaves one behind.
LocksOwned ==
  /\ \A u \in locks : \E w \in Workers : Holds(w, u) /\ ~At(w, "idle")
  /\ \A w \in Workers : req[w].held => req[w].up \in locks
  /\ \A w, v \in Workers, u \in Uploads : Holds(w, u) /\ Holds(v, u) => w = v

\* With a locker, the bytes of an upload are stored in their places: no retry,
\* no concurrent request and no crash repeats, skips or swaps any.
StoredInOrder ==
  \A u \in Uploads : infoFile[u] = "whole" /\ ~IsFinal(info[u]) =>
    \A i \in DOMAIN bin[u] : bin[u][i] = << u, i >>

\* With a locker, an upload whose length is known never holds more than that,
\* nor is that more than MaxSize.
WithinSize ==
  \A u \in Uploads : infoFile[u] = "whole" /\ ~info[u].deferred =>
    Len(bin[u]) <= info[u].size /\ SizeAllowed(info[u].size)

\* MaxSize is documented as how many bytes may be stored in one upload.
MaxSizeKept == \A u \in Uploads : SizeAllowed(Len(bin[u]))

\* With a locker, an upload is reported complete only when all its bytes are
\* stored, and once only, unless it is an empty final one.
CompletedOnce ==
  \A u \in Uploads : infoFile[u] = "whole" =>
    /\ completed[u] > 0 => Len(bin[u]) = info[u].size
    /\ completed[u] > 1 => IsFinal(info[u]) /\ info[u].size = 0

Log == INSTANCE UploadLog WITH live <- binFiles, log <- bin, reports <- completed

\* With a locker, every upload is a log: whatever requests, retries and crashes
\* there are, what a client was told is stored stays stored, what was reported
\* complete is reported once and never changed after, and a removed upload does
\* not come back.
ImplementsUploadLog == Log!Spec

\* A final upload that was reported complete is the concatenation of its
\* parts, although a part may be removed while it is copied.
FinalIsWhole ==
  \A u \in Uploads :
    LET parts == info[u].parts
    IN  IsFinal(info[u]) /\ completed[u] > 0
          /\ (\A i \in DOMAIN parts : parts[i] \in binFiles)
        => bin[u] = FlattenSeq([i \in DOMAIN parts |-> bin[parts[i]]])

\* An upload no request is creating, declaring or removing has its data and a
\* readable info file, or neither, unless a crash or an error of the file system
\* has ended a request between the two: no interleaving of requests and no other
\* error leaves an upload half made, or half removed.
FilesTogether ==
  \A u \in Uploads \ broken :
    (\A w \in Workers : req[w].up = u => ~HalfDone(w)) =>
      (u \in binFiles <=> infoFile[u] = "whole")
=============================================================================
