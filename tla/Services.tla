------------------------------ MODULE Services ------------------------------
(***************************************************************************)
(* The smaller services that an application takes from plus-core side by   *)
(* side: its configuration and tasks, queues, caches, registry and         *)
(* crontab, one-time passwords, exports, ciphers and rooms.  They share no *)
(* state, so nothing one of them does depends on another, and it is enough *)
(* to look at them one at a time: a behaviour is one of the service it     *)
(* begins with.                                                            *)
(***************************************************************************)
EXTENDS Integers, Sequences

CONSTANTS Messages, QueueConsumers, Keys, KeyOf, PoolNums, MaxErrors, NoMessage,
          BrokerConsumers, Groups, GroupOf, To, Concurrency, Nobody,
          Clients, MaxSets, MaxCalls,
          Code(_), WindowSize, StartCounters, Scratch, MaxInt, MaxTime,
          PageSizes, SheetSizes, LimitSizes, RawFuncs, Tables, MaxInt32, MaxRuns,
          Names, Objects, Removers, Jobs, BadJobs, NoObject,
          BlockSize, Word, MaxLength,
          Bytes, KeyLength, SubLen, MaxSecret,
          Members, RoomIds, RoomBuckets, MaxJoinRoom,
          Files, PoolSize, TaskLists, ServiceLists, ConsumerNum, ExchangeOf, MaxBoots

VARIABLES
  service,  \* the one that is used
  queue, made, chan, caller, of, holds, blocked, errors, handled, poolNum, wait, runner,
  rabbit, mux, consumers, producers, conn, dialled, call, err, running, shut, message,
    failures, succeeded, early,
  redis, value, ttl, at, got, left, num, clear, sets, calls, exact, clash, spent,
    before, reused, undeleted,
  now, counter, disallow, scratch, accepted, saved, twice,
  options, rowKind, table, change, pc, total, pageTotal, sheetTotal, page, inSheet,
    count, limit, columns, sheets, written, blank, raws, runs, start,
  map, remover, name, object, closed, removed, overlap, rawJobs, entries,
    ticking, workers,
  text, cipher, plain, done,
  secret, sent, lines, characters, opened, step,
  routed, open, inRoom, joined, noting, router, roomCount, guests,
  settings, boots, phase, cfgList, nth, broken, poolSize, queueReg, memoryPool, tasks,
    services, svc, consuming, refused, ran

Queue == INSTANCE MemoryQueue WITH Consumers <- QueueConsumers
Broker == INSTANCE BrokerQueue WITH Consumers <- BrokerConsumers
Cache == INSTANCE CacheStore
Otp == INSTANCE OneTimePassword
Export == INSTANCE ExportPaging
App == INSTANCE AppServices
Aes == INSTANCE AesCounter
Rc4 == INSTANCE Rc4Cipher
Rooms == INSTANCE WsRooms
Boot == INSTANCE Startup

ASSUME ServicesAssumption ==
  /\ Queue!QueueCallersAssumption /\ Queue!QueueSizesAssumption
  /\ Broker!BrokerAssumption /\ Cache!CacheAssumption /\ Otp!OtpAssumption
  /\ Export!ExportSizesAssumption /\ App!AppAssumption
  /\ Aes!AesAssumption /\ Rc4!Rc4Assumption /\ Rooms!RoomsAssumption
  /\ Boot!StartupAssumption

queueVars == << queue, made, chan, caller, of, holds, blocked, errors, handled,
                poolNum, wait, runner >>
brokerVars == << rabbit, mux, consumers, producers, conn, dialled, call, err,
                 running, shut, message, failures, succeeded, early >>
cacheVars == << redis, value, ttl, at, got, left, num, clear, sets, calls, exact,
                clash, spent, before, reused, undeleted >>
otpVars == << now, counter, disallow, scratch, accepted, saved, twice >>
exportVars == << options, rowKind, table, change, pc, total, pageTotal, sheetTotal,
                 page, inSheet, count, limit, columns, sheets, written, blank,
                 raws, runs, start >>
appVars == << map, remover, name, object, closed, removed, overlap,
              rawJobs, entries, ticking, workers >>
aesVars == << text, cipher, plain, done >>
rc4Vars == << secret, sent, lines, characters, opened, step >>
roomsVars == << routed, open, inRoom, joined, noting, router, roomCount, guests >>
startupVars == << settings, boots, phase, cfgList, nth, broken, poolSize, queueReg,
                  memoryPool, tasks, services, svc, consuming, refused, ran >>

vars == << service, queueVars, brokerVars, cacheVars, otpVars, exportVars, appVars,
           aesVars, rc4Vars, roomsVars, startupVars >>

\* A service that is not used has one of its settings: which one is the same.
Settled(s, x, choices) == service # s => x = CHOOSE e \in choices : TRUE

Init ==
  /\ service \in {"queue", "broker", "cache", "otp", "export", "app", "aes", "rc4",
                 "rooms", "startup"}
  /\ Queue!Init /\ Settled("queue", poolNum, PoolNums)
  /\ Broker!Init /\ Settled("broker", rabbit, BOOLEAN)
  /\ Cache!Init /\ Settled("cache", redis, BOOLEAN)
  /\ Otp!Init /\ Settled("otp", counter, StartCounters)
  /\ Export!Init /\ Settled("export", options, Export!Options)
                 /\ Settled("export", rowKind, {"struct", "pointer"})
                 /\ Settled("export", Len(table), Tables)
  /\ App!Init
  /\ Aes!Init /\ Settled("aes", Len(text), 0..MaxLength)
  /\ Rc4!Init /\ Settled("rc4", Len(secret), 0..MaxSecret)
  /\ Rooms!Init /\ Settled("rooms", routed, BOOLEAN)
  /\ Boot!Init /\ Settled("startup", settings, Files)

Next ==
  \/ /\ service = "queue" /\ Queue!Next
     /\ UNCHANGED << service, brokerVars, cacheVars, otpVars, exportVars, appVars,
                     aesVars, rc4Vars, roomsVars, startupVars >>
  \/ /\ service = "broker" /\ Broker!Next
     /\ UNCHANGED << service, queueVars, cacheVars, otpVars, exportVars, appVars,
                     aesVars, rc4Vars, roomsVars, startupVars >>
  \/ /\ service = "cache" /\ Cache!Next
     /\ UNCHANGED << service, queueVars, brokerVars, otpVars, exportVars, appVars,
                     aesVars, rc4Vars, roomsVars, startupVars >>
  \/ /\ service = "otp" /\ Otp!Next
     /\ UNCHANGED << service, queueVars, brokerVars, cacheVars, exportVars, appVars,
                     aesVars, rc4Vars, roomsVars, startupVars >>
  \/ /\ service = "export" /\ Export!Next
     /\ UNCHANGED << service, queueVars, brokerVars, cacheVars, otpVars, appVars,
                     aesVars, rc4Vars, roomsVars, startupVars >>
  \/ /\ service = "app" /\ App!Next
     /\ UNCHANGED << service, queueVars, brokerVars, cacheVars, otpVars, exportVars,
                     aesVars, rc4Vars, roomsVars, startupVars >>
  \/ /\ service = "aes" /\ Aes!Next
     /\ UNCHANGED << service, queueVars, brokerVars, cacheVars, otpVars, exportVars,
                     appVars, rc4Vars, roomsVars, startupVars >>
  \/ /\ service = "rc4" /\ Rc4!Next
     /\ UNCHANGED << service, queueVars, brokerVars, cacheVars, otpVars, exportVars,
                     appVars, aesVars, roomsVars, startupVars >>
  \/ /\ service = "rooms" /\ Rooms!Next
     /\ UNCHANGED << service, queueVars, brokerVars, cacheVars, otpVars, exportVars,
                     appVars, aesVars, rc4Vars, startupVars >>
  \/ /\ service = "startup" /\ Boot!Next
     /\ UNCHANGED << service, queueVars, brokerVars, cacheVars, otpVars, exportVars,
                     appVars, aesVars, rc4Vars, roomsVars >>

\* The Go scheduler: the goroutine of a call of Publish and the loop of a
\* consumer go on when they can.  Nothing is assumed of Run and Shutdown, or of
\* the other services.
Fairness ==
  /\ \A m \in Messages :
       WF_queueVars(service = "queue" /\ Queue!Publish(m))
  /\ \A c \in QueueConsumers :
       WF_queueVars(service = "queue" /\ Queue!Consumer(c))

Spec == Init /\ [][Next]_vars /\ Fairness

-----------------------------------------------------------------------------
(* Properties: the comment of each is beside its definition in the module of *)
(* its service.                                                              *)

\* The types of all services
ServicesTypeOK ==
  /\ Queue!QueueTypeOK /\ Broker!BrokerTypeOK /\ Cache!CacheTypeOK
  /\ Otp!OtpTypeOK /\ Export!ExportTypeOK /\ App!AppTypeOK
  /\ Rooms!RoomsTypeOK /\ Boot!StartupTypeOK

\* The queue in memory is a work queue, and handles what is published.
ImplementsWorkQueue == Queue!ImplementsWorkQueue
PublishedIsHandled == Queue!PublishedIsHandled

\* The broker clients acknowledge what has been handled.
AckedWasHandledOrEarly == Broker!AckedWasHandledOrEarly

\* The caches count, and the answer of a captcha is good once.
CounterExact == Cache!CounterExact
SpentIsSpent == Cache!SpentIsSpent

\* A one-time password is good once, and what is remembered for that is bounded.
NoCodeTwice == Otp!NoCodeTwice
RemembersOneWindow == Otp!RemembersOneWindow

\* An export is what the table lists, in bounded sheets.
ExportIsPrefix == Export!ExportIsPrefix
SheetsBounded == Export!SheetsBounded

\* What leaves the registry is closed, and what ticks can be stopped.
RemovedIsClosed == App!RemovedIsClosed
TickingCanBeStopped == App!TickingCanBeStopped

\* Decrypt undoes Encrypt, with either cipher.
RoundTrip == Aes!RoundTrip /\ Rc4!ClientRoundTrip

\* The rooms are those somebody is in.
RoomsSettle == Rooms!RoomsSettle

\* What is configured and added is what runs.
StartsAsConfigured == Boot!StartsAsConfigured
=============================================================================
