# Verification of plus-core

TLA+ models of plus-core, a Go framework library: its websocket server
(`pkg/ws`), its resumable uploads (`pkg/tus`), its queues, caches and smaller
services. TLC checks the models on small instances; TLAPS proves theorems about
them for every value of the constants. `PROJECT.json` lists components, runs,
theorems, hazards and findings, and maps every definition to source lines.

Run a check with `tlc -config <cfg> <module>` and a proof with
`tlapm <module>.tla`; the sections below name them.

## 1. Inventory

### Websocket server, `src/pkg/ws`

| part | state | operations | interacts with |
|---|---|---|---|
| Connection (`connection.go`) | socket, `inChan`, `outChan`, `closeChan`, `isClosed` under `mutex`, `lastHeartbeatTime`, `rooms` | `NewConnection`, `readLoop`, `writeLoop`, `SendMessage`, `ReadMessage`, `Close`, `IsAlive`, `KeepAlive`, `heartbeatChecker`, `RouterHandle`, `handlePing`, (`handleJoin`, `handleLeave`) | four goroutines of its own; the bucket on add and delete |
| Bucket (`bucket.go`) | `id2Conn`, `rooms` under an RW mutex | `AddConn`, `DelConn`, `DelConnByCID`, `PushAll`, `PushByCid`, `PushRoom`, `JoinRoom`, `LeaveRoom` | connections (`SendMessage`, `Close`) while it holds the lock |
| ConnManager (`connMgr.go`) | buckets, `jobChan` per bucket, `dispatchChan` | `AddConn`, `DelConn`, `DelConnByCID`, `PushAll`, `PushRoom`, `PushByCid`, the dispatch and job workers | buckets; gauges of `statistics.go` |
| Merger (`merger.go`) | `contextChan`, `timeoutChan`, open batch, its timer | `PushAll`, `mergeWorkerMain`, `autoCommit`, `commitBatch` | `ConnManager.PushAll` |
| Room (`Room.go`) | members under an RW mutex | `Join`, `Leave`, `Count`, `Push` | the application through ConnManager; the router's cases are commented out |
| Statistics (`statistics.go`) | atomic counters | increments and decrements | every part above |

Hard: five parties may close one connection; the socket is closed before the
flag is set; loops block on channels whose other end may be gone; a connection
can die before it is registered; pushes range over a map that connections
enter and leave; clocks are read before a mutex is waited for; a ping waits behind
the handlers of the messages before it; full channels drop or block; timers fire
after the batch they were for.

Correct when: one close, complete teardown, nobody listed after the end, no map
changed under a range, exact gauges, a silent client dropped in time and a prompt
one never, as far as the handlers of the application are quick, a push reaching
everybody present once, in one order, and the merger losing, repeating and
overtaking nothing.

### Resumable uploads, `src/pkg/tus`

| part | state | operations | interacts with |
|---|---|---|---|
| Uploader (`api.go`, `tus.go`, `body_reader.go`) | the requests being served | `PostFile`, `PatchFile`, `HeadFile`, `GetFile`, `DelFile`, and `writeChunk`, `finishUploadIfComplete`, `terminateUpload`, `sizeOfUploads` under them | store, locker, hooks, notification channels |
| FileStore (`filestore`) | a data file and an info file per upload | `NewUpload`, `GetUpload`, `WriteChunk`, `DeclareLength`, `ConcatUploads`, `Terminate` | the file system |
| Lockers (`memorylocker`, `filelocker`) | a set of locked ids, or lock files | `Lock`, `Unlock` | every request of an upload |
| Metrics (`metrics.go`) | atomic counters | increments | nothing reads them back |
| HTTP (`http.go`, `middleware.go`, `response.go`, `common.go`) | none | parsing and formatting | the handlers |

Hard: two requests of one upload; bodies that break off and are sent again; a
crash between two steps on two files; concatenation reads parts without their
locks; a stop flag written by another goroutine and read twice; lengths that are
declared late.

Correct when: bytes are stored in their places, a client is told no offset that
is not stored, an upload stays within its length, is reported complete once and
only when it is whole, and does not change after.

### Queues, `src/sdk/queue`

| part | state | operations | interacts with |
|---|---|---|---|
| Memory queue (`memory`) | a `sync.Map` of channels, a WaitGroup | `Publish`, `Consumer`, `Run`, `Shutdown` | a goroutine per message and per consumer |
| RabbitMQ, RocketMQ (`rabbitmq`, `rocketmq`) | maps of producers and consumers, a mutex, a connection | `Publish`, `Consumer`, `Run`, `Shutdown`, `newConn` | the broker's client, which runs closures |
| NSQ, Redis (`nsq`, `redis`) | a client | one call of it per method | the client library |

Hard: load and store of a queue are two steps; a consumer puts a failed message
back in the channel it alone drains; the closures of a broker consumer share the
variable `err` with the call that made them; `Publish` fills a map under no lock.

Correct when a message is handled by one consumer of its key at a time, once,
and is acknowledged only if it was handled.

### Smaller services

| part | state | hard | correct when |
|---|---|---|---|
| Caches (`sdk/cache`), captcha store (`pkg/captcha`) | values with expiry | counters are read, changed and stored in three calls; an answer is read and then deleted | no update is lost, the answer of a captcha is good once |
| One-time passwords (`pkg/goauth`) | counter, used time steps, scratch codes | the list of used steps is trimmed; the counter overflows; a restart | no code is good twice, the list is bounded |
| Export (`pkg/export.go`) | pages, sheets, a row count that no run resets | sizes that do not divide each other; the table changes meanwhile | the workbook is a prefix of the table, in bounded sheets |
| Registry (`sdk/registry`), crontab (`sdk/cron`) | objects by name; jobs, workers, entries | `Unregister` loads, closes and deletes; jobs are replaced and started again | what leaves is closed once each time it leaves; what ticks can be stopped |
| Ciphers (`pkg/security`) | none | the AES counter is computed twice, apart; the RC4 key is mixed | `Decrypt` undoes `Encrypt` |
| Configuration and tasks (`sdk/config`, `sdk/task`, `sdk/runtime`) | queue settings, tasks, services | the first failing queue ends the set-up of all after it | every task that can be started is |
| One-time codes of `pkg/otp`, locker, helpers | none | | |

## 2. Modules and the code they stand for

### WsSession, and SessionDirectory that it implements

One action per step of the goroutines in `connection.go` that another goroutine
can see: `ReaderGot`/`ReaderEnqueue` are `readLoop`, `WriterTake`/`WriterSent`
`writeLoop`, `RouterRead`/`RouterReply` `RouterHandle`, `HeartExpired` the
checker. `Close` is two actions because the code closes the socket outside the
mutex (`CloseSocket`) and flags inside it (`CloseMark`). `DelConnByCID` holds the
bucket's write lock through both and its own delete (`KillSocket`, `KillMark`,
`KillDelete`). A lock is not a variable: `ReadLocked` and `WriteLocked` say who
is inside. `push` is the range of `Bucket.PushAll`, one connection at a time.
Left out: message contents (a frame has a kind: request, binary or garbage),
what a handler does (it replies or not), time (WsHeartbeat), rooms.

`SessionDirectory` is the promise with goroutines, locks and channels hidden:
a session is opened once, closed once, listed at most once, unlisted only when
closed, and once closed it goes. `ImplementsDirectory` is the refinement.

### WsHeartbeat

`pending` is what the client has sent and the router has not taken, in order: in
the socket, in the hand of `readLoop` and in `inChan`, whose capacity decides where
a message waits and not when its turn comes. `ClientPing` and `ClientSends` put a
message there, `RouterTakes` is `ReadMessage`. For a ping the router calls
`handlePing`: `KeepAlive` and `IsAlive` read the clock and then take the mutex, so
each is two actions (`Ping` then `KeepAlive`, `TimerFires` then `Check`) with the
sampled time in between. Any other message is with a handler of the application
until `Handled`, and the pings behind it wait. A message that cannot be decoded
closes the connection (`OtherCloses`).

A goroutine that can run does so within `MaxLag` ticks, and a message that finds
the router idle is taken within `Pickup`, a lag of `readLoop` and one of the router.
The code sets no limit to a handler, nor to what a client sends ahead; the
parameters `MaxHandle` and `Backlog` are those of an application and its client,
and both properties are stated in them: `Service` is the longest time per message,
`Wait` the longest from the sending of a ping to `KeepAlive`'s reading of the clock.
A client is prompt while its pings are at most `ClientGap` apart.

### WsDispatch, and WsBroadcast that it implements

`PushSend`/`PushCount`/`PushRefused` are `ConnManager.PushAll` and `PushRoom` (the
gauge is counted after the send), `DispatchTake`, `DispatchPendingDesc`,
`PushJobPendingIncr` and `DispatchSend` the dispatch worker, which waits for room
bucket by bucket, `JobTake`, `PushJobPendingDesc`, `JobLock`, `JobSend` and `JobDone`
the job worker and `Bucket.PushAll`. An operation on a channel and the change of
the gauge beside it are steps apart, as in the code: `fanOwes` and `workOwes` say who
has yet to change which. A connection is registered or not,
closed or not, and has an `outChan`. `WsBroadcast` hides the workers: a message
is accepted or refused at once, an accepted one is handled once by every bucket,
and a connection gets it at most once.

### WsMerger

`TakeContext`, `MergerPendingDesc`, `Merge`, `TakeTimeout`, `StopTimer`, `Commit` and
`CommitFails` are the merge worker, which holds what it has received in `context`;
`TimerFires` and `AutoCommit` are a batch's timer and its goroutine. A
batch's number stands for the pointer that the worker compares. Commits go to
`ConnManager.PushAll`, whose refusal makes no difference to the worker.

### TusUpload

Each worker is a goroutine that serves one request. A handler is cut where
another request or a crash can come between: taking the lock, reading the info
file, the stat of the data file, truncating and writing the info file, each byte
of a chunk, the two reads of the stop flag, the two removals of `Terminate`, the
answer, the deferred unlock. A byte is `<< upload, position >>`: the client that
patches from an offset sends what follows it, so a byte out of place is seen.
`Crash` forgets requests and locks and keeps the files. Request headers are
chosen where the code first looks at them, which keeps the model small and
changes nothing: no other step depends on them. `told`, `completed`
and `broken` are history.

`Answers`, `PatchChecked` and `Declares` follow the handlers' early returns.
Errors of the file system are steps too. `InfoFails` is an error of `writeInfo`,
before the info file is truncated or after, which `NewUpload` and `DeclareLength`
return (`NewUpload` also that of closing the data file, with the same outcome);
`RemoveInfo` and `RemoveBin` may each fail in `Terminate`, a chunk or a part of a
concatenation part-way, and a part may have gone. `broken` remembers the uploads
that such an error or a crash has left half made. Not modelled: a failing
`os.OpenFile` of a new upload, which creates nothing.

### WorkQueue and MemoryQueue

`Load` and `Store` are the look-up that `Publish` and `Consumer` share; `Send` is
the goroutine of a message, `Receive`, `Handle`, `Fail` and `PutBack` the loop of
a consumer, `SendTo` and `PutBackTo` the same for a channel without capacity.
`WorkQueue` is the promise: per message who has it. `workOf` is the mapping.

### BrokerQueue

One model for the RabbitMQ and RocketMQ clients, which are the same code but for
when the closure starts and what is locked; `rabbit` says which. A call is at a
place (`call`), `err` is the shared variable, and a message is with the broker,
in the handler, or waiting for its answer. The broker delivers again what is not
acknowledged. `Dial`, `Make...` and `Send` may fail.

### CacheStore

`redis` chooses the cache: the memory cache takes several calls of its library
for `Increase`, `Decrease` and `Expire`, Redis one command that may fail. A key
may lapse at any time. `Verify` of the captcha store is a get, a delete and the
comparison, in which a captcha that is not there reads as "". `reused` records every
captcha that a call accepted after another had spent it, with the answer that was
given, the empty one included.

### OneTimePassword

`Code` is a constant operator about which nothing is assumed but that TLC is
given one in which codes repeat. Integers end at `MaxInt` and wrap, as the
counter does. The caller saves the configuration now and then, and `Crash` goes
back to what it saved.

### ExportPaging

`Run`, `Before`, `NewSheet`, `FetchPage`, `EndSheet`, `Summary`, `Params` and
`SaveAs` are `Export.Run` cut where a function of the caller reads the table;
`Others` changes it between them, once in a run.

### AppServices

The registry (`Register`, and `Unregister` in its three steps) and the crontab
(`AddJobs`, `Start`, `StartJob`, `StopJob`, `Stop`; gcron is external). `Register`
refuses a name that is taken and nothing else: one object may be registered under
several names, and again after it has left. `closed` and `removed` count, for each
object, the calls of its `Close` and the names it was deleted from.

### AesCounter and Rc4Cipher

What is written down twice in the code is modelled twice (`EncryptPad` and
`DecryptPad`, the two ways of cutting blocks); the block cipher and the key
stream are constructors. `KeyByte` is computed bit by bit.

### WsRooms

`JoinRoom` and `LeaveRoom` are each one step, being under the bucket's lock;
the router notes the room in a step after (`Note`). `routed = FALSE` is the code
as it is, `TRUE` what the commented-out cases of the router would call.

### Startup

`Bootstrap`, `InitQueue` and `Initialised` are the queue configuration, `GetQueue`
the application taking a queue from it, `AddTasks` and `AddServices` its set-up,
`StartTask` and `RunQueue` the services of `sdk/task`. A nil option dereferenced
is the phase "panicked".

### Services, which composes the ten

An application takes these services side by side. They share no state in the
code, so a behaviour of `Services` is one of the service it begins with, and the
others keep their initial state: one run explores ten state graphs and not their
product. Queue consumers that call caches and the like are the application's.

## 3. Runs

| run | module, cfg | what it shows |
|---|---|---|
| session_safety | WsSession, MCWsSession.cfg | close protocol, lists, lock discipline and gauge with two connections in one bucket, a push and a `CloseSession` |
| session_live | WsSession, MCWsSessionLive.cfg | one connection with two frames, two pushes, full channels: complete teardown, and the directory is implemented |
| heartbeat | WsHeartbeat, MCWsHeartbeat.cfg | silent clients are dropped in time, prompt ones never, with pings that wait behind handlers |
| merger | WsMerger, MCWsMerger.cfg | order, timers, gauge and delivery of five messages, one not JSON |
| merger_poison | WsMerger, MCWsMergerPoison.cfg | finding: a batch that does not marshal stays open, untimed |
| dispatch_safety | MCWsDispatch, MCWsDispatch.cfg | one order for all clients, the job gauge at every step, through two buckets |
| dispatch_live | MCWsDispatch, MCWsDispatchLive.cfg | an accepted message gets through every bucket to everybody present; a room push and an unencodable message on the way; the dispatch gauge |
| tus | MCTusUpload, MCTusUpload.cfg | everything listed under TusUpload's properties, two requests at a time, crashes and errors of the file system anywhere, and the log is implemented |
| tus_unlocked | TusUpload, MCTusUploadUnlocked.cfg | finding: without a locker chunks are stored twice |
| tus_max | TusUpload, MCTusUploadMax.cfg | finding: MaxSize does not hold for uploads of deferred length |
| services | MCServices, MCServices.cfg | the properties of the ten services, each commented in its module |
| rabbit_ack | MCBrokerQueue, MCBrokerQueue.cfg | finding: with two goroutines a failed message is acknowledged |

The properties of `services`: `ImplementsWorkQueue` and `PublishedIsHandled`
(MemoryQueue), `AckedWasHandledOrEarly` (BrokerQueue), `CounterExact` and
`SpentIsSpent` (CacheStore), `NoCodeTwice` and `RemembersOneWindow`
(OneTimePassword), `ExportIsPrefix` and `SheetsBounded` (ExportPaging),
`RemovedIsClosed` and `TickingCanBeStopped` (AppServices), `RoundTrip` (both
ciphers), `RoomsSettle` (WsRooms), `StartsAsConfigured` (Startup), and one type
invariant, `ServicesTypeOK`, for all of them.

Several properties have an exception in them: it is the hazard the code does not
master, stated as exactly as it can be. So `PublishedIsHandled` excepts a channel
that was lost to a concurrent first use and one all of whose readers wait to put
a message back; `CounterExact` calls that overlap in the memory cache;
`SpentIsSpent` verifications at the same time, a failed deletion and the empty
answer; `RemovedIsClosed` two calls of `Unregister` with one name at a time;
`FilesTogether` uploads that a crash or an error of the file system has left half
done; `PromptIsKept` clients whose gap, with the time a ping may wait (`Wait`) and a
lag, is more than the interval; `ExportIsPrefix` a table that shifts; `RoundTrip` a
text of 2^32 blocks.

### Bounds, and why they are enough

* Sessions: the close protocol is per connection, and two connections meet only
  in a bucket's map and lock; one bucket makes them meet. Traffic and its
  blocking concern one connection, which `session_live` gives channels of one
  and more frames and pushes than they hold.
* Heartbeat (21 200 000 states): interval 14, lag 1, handlers of up to 2 ticks and
  two messages that wait, so that a ping may wait 9 ticks (`Wait`) behind a message
  and its handler; a client of gap 4 is prompt with nothing to spare, 4 + 9 + 1
  being the interval. The clock runs to 42, past the 41 ticks within which a silent
  client is dropped. The proofs do not depend on these numbers.
* Dispatch: one more message than each channel holds, so that every send meets a
  full channel; two buckets for the fan-out, two workers for the overtaking.
  Messages and workers are symmetric; the live run uses no symmetry.
* Merger: five messages in batches of two with channels of one: three batches,
  so that stale timeouts of two can fill `timeoutChan` before the third.
* Uploads: files of at most 3 bytes under a `MaxSize` of 2, so that uploads that
  are too long are asked for; 2 uploads give an upload and its concatenation,
  also with a part repeated; two requests meet at every pair of steps. Uploads
  and workers are symmetric.
* Services (510 000 states): a queue has two messages and two competing consumers
  of a key, and one of another, with a capacity of none and of one; the brokers'
  two consumers name one exchange; two clients share a cache; codes repeat with
  a period of the window and one, on both sides of the counter's overflow
  (`MaxInt` is 3); exports have page, sheet and limit sizes that do and do not
  divide the table, and a limit beyond int32; two objects and two calls meet in
  the registry under "", "default", which are one name, and another; an AES text
  goes on past the overflow of a counter word (5 blocks of 4 bytes); the key
  bytes include the salt, which
  mixes to 0; two connections are in two buckets with two rooms; the
  configuration is read twice, from files good, bad, absent and unreadable.

Deadlock is checked in every run but `services` and `rabbit_ack`, whose services
really stop: a one-shot export or cipher ends, a queue has no more messages, and
a panic ends the program. Elsewhere a model that may rest for good has an action
for it (`Waits`, or the end of the bounded inputs), enabled only when every
goroutine is where the program's would sleep.

### Fairness, and why the code justifies it

Safety runs assume none. `WsSession!Fairness` says that a goroutine which can go
on does (the Go scheduler), that a blocked read or write of a closed socket
returns, and that a range ends; it does not assume that a client ever sends or
closes, that a heartbeat fails or that anybody calls `CloseSession`. Where a
goroutine waits in a `select`, fairness is on its alternatives together, never
on one of them. `WsDispatch!Fairness` is on the workers, not on callers or
connections. `WsMerger!Fairness` is on the worker and on the timers as two
groups; Go's `select` chooses at random among ready channels, but no property
needs that. `Services!Fairness` is on the goroutine of each message of the queue
in memory and on the loop of each of its consumers, whose handler returns; not
on `Run`, `Shutdown` or any other service. All of it is weak fairness.

## 4. Findings

* `merger_poison`: `commitBatch` returns on a marshalling error before it resets
  the batch, so the batch stays open with its timer used up, against what
  `config.go` says of `MaxMergerDelay`.
* `tus_unlocked`: `sdk/config/uploads.go` composes the uploader without a locker;
  nothing else serialises the writes that `datastore.go` says are serialised.
* `tus_max`: `writeChunk` replaces the limit that MaxSize sets by the request's
  Content-Length when the length is deferred.
* `rabbit_ack`: the closure of a consumer assigns the handler's error to a
  variable of the enclosing call, which all its goroutines share.

Smaller things that the models show and no run singles out:

* websocket: `PushRoom` does not increment `DispatchPending`, which the dispatch
  worker decrements (`DispatchPendingIsBacklog` states the exact relation), and
  the job workers drop what it queued, as they handle `PushTypeAll` only; the
  router's cases
  for join and leave are commented out, so that `leaveAll` never leaves anything
  and a connection that the application made join a room stays in it
  (`RoomsSettle` excepts it).
* heartbeat: `connection.go:177` says that the connection is checked every second,
  and the checker looks once in a heartbeat interval; `config.go:12` that a
  connection without a heartbeat for the interval is cut, and it may last two
  intervals and the delays that `SilentIsClosed` adds. The router runs the handlers
  without a limit to their time, so a ping may refresh the heartbeat long after the
  client sent it, and the ping of a prompt client may come too late: both
  properties hold with `Wait` in them, and not without.
* captcha: `store.go:46` and `:51` make `Verify` accept the empty answer for a captcha
  that is spent, was never there, or that Redis fails to read.
* registry: an object under two names is closed twice, once by the `Unregister` of
  each, and between the two is registered though closed.
* uploads: an empty final upload is sent to `CompleteUploads` twice
  (`CompletedOnce` excepts it); one whose pre-finish hook fails, or whose process
  stops after the last byte, is never reported complete; a crash or an error while
  `writeInfo` overwrites an info file leaves an upload that exists and cannot be
  read, and one between the two steps of `NewUpload` or `Terminate` a data file
  without its info (`FilesTogether` excepts those); a request may answer that the
  upload was stopped and leave it, when the stop comes between the two reads of
  the flag (`tus.go:149`).
* queues: a second `Consumer` for a RabbitMQ exchange is ignored without an
  error; after one call in which newProducer fails nothing is lost, but two first
  calls may make two connections, one of which is never closed; the RocketMQ
  producer is used without being started. The RabbitMQ clients are modelled as
  acknowledging by hand: with `AutoAck` (`rabbitmq.go:91`, `task/rabbitmq.go:57`) the
  broker counts a message as handled when it is delivered, and how many goroutines
  the RocketMQ library runs is its own; both are outside the model.
* start-up: when RabbitMQ's settings fail, the queues after it are not set up,
  making a RabbitMQ queue panics and so does a second `Bootstrap`, which also
  appends every queue to the list again; NSQ tasks are never started.
* export: the row count is not reset between runs, so an `Export` that is used
  again exports less; rows that are pointers or maps come out blank without a
  `FieldFunc`; a sheet may exceed `SheetSize` by less than a page and a later one
  get none; `LimitSize` is compared as an int32; an empty slice from
  `SummaryFunc` is an error; the error of `HeaderFunc` is overwritten.
* ciphers: `Encrypt` and `Decrypt` of AES derive the high counter word
  differently, which shows at 2^32 blocks; with `DisallowReuse` nil nothing is
  remembered of a one-time code.

## 5. Proofs

Assumptions are named: capacities and counts are positive naturals, bounds are
naturals, special values are not members, the workers of the dispatcher and the
ids of rooms are finite sets. The websocket and upload modules state them as
ASSUMEs. Those of the services are definitions beside the constants
(`QueueCallersAssumption`, `QueueSizesAssumption`, `BrokerAssumption`,
`CacheAssumption`, `OtpAssumption`, `ExportSizesAssumption`, `AppAssumption`,
`AesAssumption`, `Rc4Assumption`, `RoomsAssumption`, `StartupAssumption`); `Services`
assumes them all in `ServicesAssumption`, which TLC evaluates.

Every invariant that a passing run checks is proved, for all values of the
constants (those about the files of an upload for an uploader with a locker; what
holds without one is said under `TusUpload_proofs`).

* `WsSession_proofs`. The inductive invariant is
  `IInv == TypeOK /\ CloseInv /\ ListInv /\ LockInv`. `CloseOnce` is not inductive:
  one must know that `closeCalls` is 1 exactly for flagged connections, that
  whoever is about to flag has closed the socket, that ids above `serverId` are
  untouched, and that only a router past `AddConn` is listed. `LockInv` says that
  no reader and writer are inside one bucket together, from which the stable
  range follows. The gauge needs a second invariant, `GaugeInv`: it is the number
  of connections that somebody will still count off. Proved: `TypeOK`,
  `CloseOnce`, `ClosedHasNoSocket`, `EndedIsUnlisted`, `PushSeesStableBucket`,
  `OnlineGauge`, and the steps of `SessionDirectory` (`DirectoryKept`): `StatusOf` and
  `ListingOf` are the refinement mapping, and an action changes one of the two of
  one connection, the way the directory does, or neither. The fairness of the
  directory stays with the run `session_live`.
* `WsHeartbeat_proofs`. The question is how long a ping waits. `Cost(k)` is the
  longest time k messages take, and `NextBy` when the router will take the next one
  at the latest. `QueueInv` says so of the router's deadlines, `PingsInv` that a ping
  with k messages before it was sent at most `Cost` of what is already past ago,
  hence that `KeepAlive` stores a time at most `Wait` after the sending; `CheckerInv`
  bounds the clock by the last stored ping, the sampled times and the checker's
  deadlines. Together they are `SilentInv`. `PromptInv` adds `GapsInv`: the ping
  last stored, the one in hand and those that wait were each sent at most `ClientGap`
  after the one before, up to the client's last, so that at every look a ping is
  stored that is young enough (`HeartbeatIsFresh`).
  Products of variables are kept out of the provers' way by stating the facts about
  `Cost` as lemmas. Proved: `TypeOK`, `SilentIsClosed`, `PromptIsKept`, for every
  interval, lag, handler time, backlog and client.
* `WsDispatch_proofs`. Four invariants, each on top of the one before. `Typed`
  bounds every channel; on it rest `JobPendingIsBacklog` and
  `DispatchPendingIsBacklog`, equalities that hold at every step between a gauge,
  what is in the channels, and who stands between an operation on a channel and the
  change of the gauge.
  `OnePlace` says that a message is at one place of a bucket's pipeline, in
  dispatchChan, with a dispatch worker, in jobChan, with a job worker or handled;
  from it follow the steps of `WsBroadcast` (`BroadcastsOnce`; its fairness stays
  with the run `dispatch_live`). `Served` says that whoever a job worker has passed
  had its turn, hence `AudienceServed`. `Ordered` says that, with one worker of each
  kind, there is a ranking of the messages with which every channel and every
  inbox rises and everything received lies below everything to come; the ranks
  are chosen as the messages are accepted. Any two connections then agree:
  `AgreedOrder`.
* `WsMerger_proofs`. `InOrder` is inductive with the type. `BatchBounded` needs the
  worker's place; `OpenBatchTimed` that armed, firing and waiting timeouts are of
  existing batches and that a batch's timeout is consumed only by its own commit
  or as stale; `PendingIsBacklog` the count of callers between send and
  count, and of the worker between receive and count.
  Proved: all five safety properties, for any messages, some of which may not
  marshal.
* `TusUpload_proofs`. `IInv == TypeOK /\ PlaceInv /\ LocksOwned`. `LocksOwned` alone is
  not inductive: `NewUpload` changes the upload a request is about, and an arriving
  request overwrites the worker's record, so one must know that neither holds a
  lock at that moment, and that whoever unlocks does (`PlaceInv`). `PlaceInv` also
  says which places have an upload in hand, for the type. Most actions are reduced
  to `Keeps`, what a step does that neither takes nor gives back a lock. Proved:
  `TypeOK`, `LocksOwned`, with and without a locker.
  `sdk/config/uploads.go` composes the uploader without one. Chunks may then be stored
  twice, as the run `tus_unlocked` shows, but three things hold nevertheless and are
  proved for both: data files only grow and a removed one does not come back
  (`OnlyAppends`), what a client was told is stored is in the file (`ToldStaysStored`),
  and nothing is written into the file of another upload unless it concatenates
  (`BytesStayApart`). Their invariant `SharedInv` says that a request counts on no more
  bytes than the file has (`Backed`), which survives everybody else since files only
  grow; that a final upload is unknown to all other requests until its info is
  whole (`Hidden`); and that an upload either holds its own bytes only or has a
  final info wherever a request has read it (`FinalOnly`), so that no patch reaches
  it. Most actions are reduced to `Calm`, what a step does that leaves the files
  alone, the others to `SharedFrame`. No run lists these three. TLC has agreed with
  them and with `SharedInv` for two uploads, two requests and files of one byte: on
  all states with a locker, on the first twelve million without.
* `TusFiles_proofs`: what the files hold, with a locker (`UsesLocker`; the run
  `tus_unlocked` shows that it is needed). `OwnInv` says which requests own an
  upload, by its lock or because nobody else knows it yet; `FileOK` what an owner
  knows of the files at each place of its handler, such as that its offset and
  what it has written are the length of the data file; `PartsOK` what a request
  that concatenates has seen of its parts, complete and unchanging; `UploadOK` what
  holds of an upload with no owner. A step of one request leaves what another
  knows alone, since it is about another upload or holds no lock. `Together` says
  that a data file without a whole info file is in the hands of a request that is
  half done with it, or in `broken`, where a crash or an error has put it. Proved:
  `StoredInOrder`, `WithinSize`, `CompletedOnce`, `FinalIsWhole`, `FilesTogether`, and
  the refinement `ImplementsUploadLog` (`UploadLog` states no fairness). `FinalIsWhole`
  compares with the recursive `FlattenSeq`: `FlattenUnfolds` shows that a sequence
  that grows by the parts one by one is what it computes, from a least
  counterexample (`LeastNatural`), the induction the provers can do.
* `MemoryQueue_proofs`: the refinement `Spec => ImplementsWorkQueue`. The invariant
  is `IInv == Typed /\ OneKey /\ OnePlace`: a channel is for one key, even when a key
  has had several channels; a message waits only in the channel it was sent to,
  once, or is with one consumer, who reads that channel, or is handled. Without
  `OneKey` a message might reach a consumer of another key, without `OnePlace` be
  handled twice. Each action is then a step of `WorkQueue` or a stutter: `WorkNow` and
  `WorkNext` say what `workOf` is before and after, `OneMoves` and `QuietStep` that no
  other message is concerned. `WorkQueue` states no fairness, so this is all of it.
  `Bounded` and `Rest` complete the type: no channel exceeds its capacity.
* `Services_proofs`: the services one at a time. A step of `Services` is a step of one
  service or leaves its variables alone (the lemmas called Frame), so each
  invariant is inductive for its own service. `TypesCorrect` is the type of all ten.
  - queue: `MemoryQueue_proofs`, instantiated (`QueueImplements`).
  - broker clients: `AckedWasHandledOrEarly`, for one goroutine per consumer. A
    consumer is engaged with one message at most, so that `err` is the error of the
    message being answered, unless the enclosing `Consumer` has not returned yet,
    which may clear it.
  - caches: `CounterExact` from `CounterInv`: without a clash, whoever is updating the
    counter has read what it still holds; `SpentIsSpent` from `CaptchaInv`: what is
    spent is not in the cache nor in the hands of a call that began later, which
    can then accept nothing but the empty answer.
  - passwords: `NoCodeTwice` and `RemembersOneWindow`. A time step accepted and
    forgotten by `Trim` lies before every window to come, and the same holds of what
    the caller has saved.
  - registry and crontab: `RemovedIsClosed` from `AppIInv`: as long as no two calls of
    `Unregister` have a name at a time, what such a call has loaded is what the map
    still has under its name, so that every deletion is of the object that was
    closed, and the counts of closes and deletions differ by the calls between the
    two, whatever names the object is under.
    `TickingCanBeStopped` is inductive by itself.
  - export: `PlanInv` relates the computed numbers of pages and sheets to the rows,
    `PagesInv` the place in the loop to the rows counted, `WrittenInv` says that what
    is written is a prefix of the table, `RawsInv` which raw sheets there are.
    `SheetsBounded` and `ExportIsPrefix` follow by arithmetic on quotients.
  - ciphers: `RoundTrip`. What `Encrypt` builds block by block is `AesSealed`, the bytes
    with their places in the pads, by uniqueness of quotient and remainder; below
    2^32 blocks both high words are 0. The lines of a formatted ciphertext sum
    up to its length.
  - rooms: `RoomsSettle` from `RoomsInv`, which relates the sets of a bucket, of a
    connection and of a handler between the two, with cardinalities of sets of
    pairs.
  - start-up: `StartsAsConfigured` from `StartedInv`, that the services and tasks
    already passed have their consumer or one of the excuses, and `PoolInv`, that
    with good settings the queue in memory is set up before anything can go wrong.

Only model-checked: the liveness properties `Teardown`, `AcceptedIsHandedOver` and
`PublishedIsHandled`, and the fairness of `SessionDirectory` and `WsBroadcast`, since
liveness under fairness and ENABLED are out of the prover's reach. The four
findings are TLC's counterexamples.

## 6. Not modelled

The JSON of the websocket protocol and running totals that nothing reads back;
the metrics, HTTP parsing, responses and metadata of the uploads, and the file
locker, whose control is in its library; the NSQ and Redis queues, one library
call per method (a second `Consumer` of the NSQ client panics, and the error
channel of the Redis consumer is never read: both inside the library); the Redis
locker; `pkg/otp`, `pkg/file.go` and the helpers; the arithmetic inside AES, RSA,
SHA-512 and HMAC; cells, styles and status words of an export; the settings that
are read into structs. The reason for each is in `PROJECT.json`.

## 7. Plan

Done: the websocket server, the uploads and `UploadLog`, then the queues, the
stores, passwords, export, ciphers, rooms and start-up, composed in `Services`, and
the proofs above. What would come next:

* Models of the notification channels of the uploader with their receivers,
  if an application of the library is to be verified with it.
