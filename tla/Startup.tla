------------------------------ MODULE Startup -------------------------------
(***************************************************************************)
(* From the configuration to the running tasks.  Bootstrap runs the Init   *)
(* of the queue configuration (sdk/config): it appends the kinds of queue  *)
(* the file has settings for to a list and initialises them one after the  *)
(* other, and stops at the first error, which Bootstrap only logs.  The    *)
(* application, external, makes queues of what is in the list, registers   *)
(* them, and adds tasks and services; Start of sdk/task then starts        *)
(* service after service, each of which makes the queue of its kind        *)
(* consume its tasks.                                                      *)
(*                                                                         *)
(* A panic ends the program.  Bootstrap may be called again.               *)
(***************************************************************************)
EXTENDS Naturals, Sequences, SequencesExt

CONSTANTS Files,        \* what the configuration may say of each kind of queue:
                        \*   "absent", "good", "bad" (its Init fails), "unreadable"
          PoolSize,     \* settings.queue.memory.poolSize, or its default
          TaskLists,    \* the lists of tasks that may be added, by kind
          ServiceLists, \* the lists of services that may be added
          ConsumerNum,  \* of the spec of a task, 0 if it has no spec
          ExchangeOf,   \* the exchange of the spec of a RabbitMQ task
          MaxBoots      \* bound on the calls of Bootstrap

\* The order in which Queue.Init looks for them
Order == << "rabbitmq", "memory", "rocketmq", "nsq", "redis" >>

Kinds == ToSet(Order)

\* The parameters are as Services assumes them.
StartupAssumption ==
  /\ PoolSize \in Nat /\ MaxBoots \in Nat
  /\ ServiceLists \subseteq Seq(Kinds)
  /\ \A k \in Kinds : \A list \in TaskLists[k] : list \in Seq(ToSet(list))

Tasks == UNION {ToSet(list) : list \in UNION {TaskLists[k] : k \in Kinds}}

VARIABLES
  settings,   \* the configuration file
  boots,      \* calls of Bootstrap
  phase,      \* "configured" (at first of nothing), "initialising", "starting",
              \*   "running", "panicked"
  cfgList,    \* Queue.CfgList
  nth,        \* the queue of cfgList, or the task of a service, that comes next
  broken,     \* the kinds whose options are nil since their Init failed
  poolSize,   \* cQueueMemory.PoolSize
  queueReg,   \* the queues registered; what the one in memory has room for:
  memoryPool,
  tasks,      \* Routers of the service of each kind
  services,   \* tService.Services
  svc,        \* the service that starts next
  consuming,  \* the tasks whose queue has got a consumer for them,
  refused,    \*   and those whose calls of Consumer failed
  ran         \* the queues Run was called on

config == << settings, boots, cfgList, broken, poolSize >>
given == << queueReg, memoryPool, tasks, services >>
vars == << config, given, phase, nth, svc, consuming, refused, ran >>

Init ==
  /\ settings \in Files
  /\ boots = 0 /\ phase = "configured" /\ cfgList = << >> /\ nth = 1
  /\ broken = {} /\ poolSize = 0
  /\ queueReg = {} /\ memoryPool = 0
  /\ tasks = [k \in Kinds |-> << >>] /\ services = << >>
  /\ svc = 1 /\ consuming = {} /\ refused = {} /\ ran = {}

-----------------------------------------------------------------------------
(* Bootstrap, runCallback and Queue.Init *)

\* Reading stops at what cannot be read.
Readable(n) == \A i \in 1..n : settings[Order[i]] # "unreadable"

Found(n) ==
  IF Readable(n) /\ settings[Order[n]] # "absent" THEN << Order[n] >> ELSE << >>

\* The list grows with every call.
Bootstrap ==
  /\ phase = "configured" /\ boots < MaxBoots
  /\ boots' = boots + 1
  /\ cfgList' = cfgList \o Found(1) \o Found(2) \o Found(3) \o Found(4) \o Found(5)
  /\ phase' = IF Readable(Len(Order)) THEN "initialising" ELSE "configured"
  /\ nth' = 1
  /\ UNCHANGED << settings, broken, poolSize, given, svc, consuming, refused, ran >>

\* queueCfg.Init; that of RabbitMQ uses the options an earlier one left.
InitQueue ==
  /\ phase = "initialising" /\ nth <= Len(cfgList)
  /\ LET k == cfgList[nth]
     IN  \/ /\ settings[k] = "good"
            /\ poolSize' = IF k = "memory" THEN PoolSize ELSE poolSize
            /\ nth' = nth + 1
            /\ UNCHANGED << broken, phase >>
         \/ /\ settings[k] = "bad"
            /\ broken' = IF k \in {"rabbitmq", "rocketmq"} THEN broken \cup {k} ELSE broken
            /\ phase' = IF k = "rabbitmq" /\ k \in broken THEN "panicked" ELSE "configured"
            /\ UNCHANGED << poolSize, nth >>
  /\ UNCHANGED << settings, boots, cfgList, given, svc, consuming, refused, ran >>

Initialised ==
  /\ phase = "initialising" /\ nth > Len(cfgList)
  /\ phase' = "configured"
  /\ UNCHANGED << config, given, nth, svc, consuming, refused, ran >>

-----------------------------------------------------------------------------
(* The application: GetQueue and Register, AddTasks and AddServices *)

\* GetQueue of what has no options panics.
GetQueue(k) ==
  /\ phase = "configured"
  /\ k \in ToSet(cfgList) /\ k \notin queueReg
  /\ \/ k \in broken /\ phase' = "panicked" /\ UNCHANGED << queueReg, memoryPool >>
     \/ /\ k \notin broken
        /\ queueReg' = queueReg \cup {k}
        /\ memoryPool' = IF k = "memory" THEN poolSize ELSE memoryPool
        /\ phase' = phase
  /\ UNCHANGED << config, tasks, services, nth, svc, consuming, refused, ran >>

\* Both replace what was added before.
AddTasks(k, list) ==
  /\ phase = "configured"
  /\ tasks' = [tasks EXCEPT ![k] = list]
  /\ UNCHANGED << config, queueReg, memoryPool, services, phase, nth, svc, consuming,
                  refused, ran >>

AddServices(list) ==
  /\ phase = "configured"
  /\ services' = list
  /\ UNCHANGED << config, queueReg, memoryPool, tasks, phase, nth, svc, consuming,
                  refused, ran >>

-----------------------------------------------------------------------------
(* Start of the task service, and of the service of each kind *)

Start ==
  /\ phase = "configured"
  /\ phase' = IF services = << >> THEN "running" ELSE "starting"
  /\ svc' = 1 /\ nth' = 1
  /\ UNCHANGED << config, given, consuming, refused, ran >>

Kind == services[svc]

NextService ==
  /\ svc' = svc + 1 /\ nth' = 1
  /\ phase' = IF svc = Len(services) THEN "running" ELSE phase

\* The memory task service warns; the NSQ one finds its queue nil at all times.
StartWarns ==
  /\ phase = "starting"
  /\ Kind = "nsq" \/ (Kind = "memory" /\ Kind \notin queueReg)
  /\ NextService
  /\ UNCHANGED << config, given, consuming, refused, ran >>

StartPanics ==
  /\ phase = "starting"
  /\ Kind \in {"rabbitmq", "rocketmq"} \ queueReg
  /\ phase' = "panicked"
  /\ UNCHANGED << config, given, nth, svc, consuming, refused, ran >>

\* A bug to detect: the loop over ConsumerNum begins with 1.
CallsOneLess(t) == IF Kind = "memory" THEN 1 ELSE ConsumerNum[t] - 1

\* How often a service calls Consumer for a task: not at all without a spec.
Calls(t) == IF Kind = "memory" THEN 1 ELSE ConsumerNum[t]

\* RabbitMQ.Consumer does nothing for an exchange that has a consumer.
Taken(t) ==
  /\ Kind = "rabbitmq"
  /\ \E u \in consuming \cap ToSet(tasks[Kind]) : ExchangeOf[u] = ExchangeOf[t]

StartTask ==
  /\ phase = "starting" /\ Kind # "nsq" /\ Kind \in queueReg
  /\ nth <= Len(tasks[Kind])
  /\ LET t == tasks[Kind][nth]
     IN  \/ /\ Calls(t) = 0 \/ Taken(t)
            /\ UNCHANGED << consuming, refused >>
         \/ /\ Calls(t) > 0 /\ ~Taken(t)
            /\ \/ consuming' = consuming \cup {t} /\ refused' = refused
               \/ Kind # "memory" /\ refused' = refused \cup {t} /\ consuming' = consuming
  /\ nth' = nth + 1
  /\ UNCHANGED << config, given, phase, svc, ran >>

\* go Queue.Run(ctx), but not for RabbitMQ
RunQueue ==
  /\ phase = "starting" /\ Kind # "nsq" /\ Kind \in queueReg
  /\ nth > Len(tasks[Kind])
  /\ ran' = IF Kind = "rabbitmq" THEN ran ELSE ran \cup {Kind}
  /\ NextService
  /\ UNCHANGED << config, given, consuming, refused >>

Next ==
  \/ Bootstrap \/ InitQueue \/ Initialised \/ Start
  \/ \E k \in Kinds : GetQueue(k)
  \/ \E k \in Kinds : \E list \in TaskLists[k] : AddTasks(k, list)
  \/ \E list \in ServiceLists : AddServices(list)
  \/ StartWarns \/ StartPanics \/ StartTask \/ RunQueue

Spec == Init /\ [][Next]_vars

-----------------------------------------------------------------------------
(* The properties *)

StartupTypeOK ==
  /\ settings \in Files /\ boots \in 0..MaxBoots
  /\ phase \in {"configured", "initialising", "starting", "running", "panicked"}
  /\ cfgList \in Seq(Kinds) /\ nth \in Nat /\ svc \in Nat
  /\ broken \subseteq Kinds /\ poolSize \in Nat
  /\ queueReg \subseteq Kinds /\ memoryPool \in Nat
  /\ tasks \in [Kinds -> Seq(Tasks)] /\ services \in Seq(Kinds)
  /\ consuming \subseteq Tasks /\ refused \subseteq Tasks /\ ran \subseteq Kinds

\* Once everything has started, every task of a service has a consumer, or one
\* that could not be had: but for NSQ tasks, which are never started, for those
\* whose spec asks for none, for memory tasks without a queue, and for a
\* RabbitMQ task whose exchange an earlier one has taken.  A queue in memory has
\* the room that is configured, or none if Queue.Init did not get as far.
StartsAsConfigured ==
  /\ phase = "running" =>
       \A n \in DOMAIN services : \A t \in ToSet(tasks[services[n]]) :
         LET k == services[n]
         IN  \/ t \in consuming \cup refused
             \/ k = "nsq"
             \/ k = "memory" /\ k \notin queueReg
             \/ k # "memory" /\ ConsumerNum[t] = 0
             \/ /\ k = "rabbitmq"
                /\ \E u \in consuming \cap ToSet(tasks[k]) : ExchangeOf[u] = ExchangeOf[t]
  /\ "memory" \in queueReg =>
       \/ memoryPool = PoolSize
       \/ memoryPool = 0 /\ (settings["rabbitmq"] = "bad" \/ settings["memory"] = "bad"
                             \/ \E k \in Kinds : settings[k] = "unreadable")
=============================================================================
