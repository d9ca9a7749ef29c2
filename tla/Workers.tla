------------------------------ MODULE Workers ------------------------------
(***************************************************************************)
(* The threads of the process and the order in which they are started and  *)
(* stopped: the main thread (MicroService::main), the event bus thread     *)
(* (EventBusManager), the Kafka producer with its queue, and the consumer. *)
(*                                                                         *)
(* Poco::NotificationQueue: a waiting thread is handed the notification    *)
(* that is enqueued, or nothing by wakeUpAll; a thread that is not waiting *)
(* at that moment does not notice wakeUpAll.                               *)
(***************************************************************************)
EXTENDS Naturals, Sequences

CONSTANT MaxBeats     \* bound on the keep-alives of the process

ASSUME BeatsAssumption == MaxBeats \in Nat

VARIABLES
  enabled,      \* KafkaEnabled_
  main,         \* where the main thread is
  bus,          \* where the event bus thread is
  busRunning,   \* EventBusManager::Running_
  busWake,      \* the event that trySleep waits for
  beats,        \* keep-alives posted
  queue,        \* KafkaProducer::Queue_
  prod,         \* where the producer thread is
  note,         \* the notification it holds
  prodRunning,  \* KafkaProducer::Running_
  topic,        \* what was sent
  cons,         \* where the consumer thread is
  consRunning   \* KafkaConsumer::Running_

busVars == <<bus, busRunning, busWake, beats>>
prodVars == <<queue, prod, note, prodRunning, topic>>
consVars == <<cons, consRunning>>
workerVars == <<enabled, main, busVars, prodVars, consVars>>

Events == {"join", "alive", "leave"}
NoNote == "null"

MainAt ==
  {"start", "startBus", "serve", "stopBus", "joinBus", "stopProducer",
   "wakeProducer", "joinProducer", "stopConsumer", "joinConsumer", "stopped"}
BusAt == {"off", "join", "loop", "sleep", "leave", "done"}
ProdAt == {"off", "setup", "dequeue", "waiting", "check", "sending", "done"}
ConsAt == {"off", "setup", "marked", "dispatching", "stopping", "done"}

WorkersInit(kafka) ==
  /\ enabled = kafka
  /\ main = "start"
  /\ bus = "off" /\ busRunning = FALSE /\ busWake = FALSE /\ beats = 0
  /\ queue = <<>> /\ prod = "off" /\ note = NoNote /\ prodRunning = FALSE
  /\ topic = <<>>
  /\ cons = "off" /\ consRunning = FALSE

-----------------------------------------------------------------------------
(* The queue.                                                              *)

\* Mutant: a busy producer finds the newest notification first.
EnqueueFirst(m) ==
  IF prod = "waiting"
  THEN prod' = "check" /\ note' = m /\ queue' = queue
  ELSE queue' = <<m>> \o queue /\ UNCHANGED <<prod, note>>

Enqueue(m) ==
  IF prod = "waiting"
  THEN prod' = "check" /\ note' = m /\ queue' = queue
  ELSE queue' = Append(queue, m) /\ UNCHANGED <<prod, note>>

\* KafkaManager::PostMessage, KafkaProducer::Produce.
PostMessage(m) ==
  /\ Enqueue(m)
  /\ UNCHANGED <<prodRunning, topic>>

-----------------------------------------------------------------------------
(* The main thread: StartSubSystemServers, waitForTerminationRequest and   *)
(* StopSubSystemServers.                                                   *)

StartKafka ==
  /\ main = "start"
  /\ main' = "startBus"
  /\ IF enabled
     THEN prod' = "setup" /\ prodRunning' = TRUE /\ cons' = "setup"
     ELSE UNCHANGED <<prod, prodRunning, cons>>
  /\ UNCHANGED <<enabled, busVars, queue, note, topic, consRunning>>

StartBus ==
  /\ main = "startBus"
  /\ main' = "serve"
  /\ bus' = IF enabled THEN "join" ELSE "off"
  /\ UNCHANGED <<enabled, busRunning, busWake, beats, prodVars, consVars>>

Terminate ==
  /\ main = "serve"
  /\ main' = IF enabled THEN "stopBus" ELSE "stopped"
  /\ UNCHANGED <<enabled, busVars, prodVars, consVars>>

StopBus ==
  /\ main = "stopBus"
  /\ main' = "joinBus"
  /\ busRunning' = FALSE /\ busWake' = TRUE
  /\ UNCHANGED <<enabled, bus, beats, prodVars, consVars>>

JoinBus ==
  /\ main = "joinBus" /\ bus = "done"
  /\ main' = "stopProducer"
  /\ UNCHANGED <<enabled, busVars, prodVars, consVars>>

StopProducer ==
  /\ main = "stopProducer"
  /\ main' = IF prodRunning THEN "wakeProducer" ELSE "stopConsumer"
  /\ prodRunning' = FALSE
  /\ UNCHANGED <<enabled, busVars, queue, prod, note, topic, consVars>>

\* Mutant: the producer is told to stop, but not woken up.
WakeProducerQuiet ==
  /\ main = "wakeProducer"
  /\ main' = "joinProducer"
  /\ UNCHANGED <<enabled, busVars, prodVars, consVars>>

WakeProducer ==
  /\ main = "wakeProducer"
  /\ main' = "joinProducer"
  /\ IF prod = "waiting"
     THEN prod' = "check" /\ note' = NoNote
     ELSE UNCHANGED <<prod, note>>
  /\ UNCHANGED <<enabled, busVars, queue, prodRunning, topic, consVars>>

JoinProducer ==
  /\ main = "joinProducer" /\ prod = "done"
  /\ main' = "stopConsumer"
  /\ UNCHANGED <<enabled, busVars, prodVars, consVars>>

\* A consumer that has not set Running_ yet is not joined; one that has, but
\* has no dispatcher yet, is joined without being stopped.
StopConsumer ==
  /\ main = "stopConsumer"
  /\ main' = IF consRunning THEN "joinConsumer" ELSE "stopped"
  /\ cons' = IF consRunning /\ cons = "dispatching" THEN "stopping" ELSE cons
  /\ consRunning' = FALSE
  /\ UNCHANGED <<enabled, busVars, prodVars>>

JoinConsumer ==
  /\ main = "joinConsumer" /\ cons = "done"
  /\ main' = "stopped"
  /\ UNCHANGED <<enabled, busVars, prodVars, consVars>>

MainNext ==
  \/ StartKafka \/ StartBus \/ StopBus \/ JoinBus \/ StopProducer
  \/ WakeProducer \/ JoinProducer \/ StopConsumer \/ JoinConsumer

-----------------------------------------------------------------------------
(* EventBusManager::run.                                                   *)

BusJoin ==
  /\ bus = "join"
  /\ busRunning' = TRUE
  /\ PostMessage("join")
  /\ bus' = "loop"
  /\ UNCHANGED <<enabled, main, busWake, beats, consVars>>

BusLoop ==
  /\ bus = "loop"
  /\ bus' = IF busRunning THEN "sleep" ELSE "leave"
  /\ UNCHANGED <<enabled, main, busRunning, busWake, beats, prodVars, consVars>>

BusWoken ==
  /\ bus = "sleep" /\ busWake
  /\ busWake' = FALSE
  /\ bus' = "leave"
  /\ UNCHANGED <<enabled, main, busRunning, beats, prodVars, consVars>>

BusBeat ==
  /\ bus = "sleep" /\ ~busWake /\ beats < MaxBeats
  /\ PostMessage("alive")
  /\ beats' = beats + 1
  /\ bus' = "loop"
  /\ UNCHANGED <<enabled, main, busRunning, busWake, consVars>>

BusLeave ==
  /\ bus = "leave"
  /\ PostMessage("leave")
  /\ bus' = "done"
  /\ UNCHANGED <<enabled, main, busRunning, busWake, beats, consVars>>

BusNext == BusJoin \/ BusLoop \/ BusWoken \/ BusBeat \/ BusLeave

-----------------------------------------------------------------------------
(* KafkaProducer::run.                                                     *)

ProducerReady ==
  /\ prod = "setup"
  /\ prod' = "dequeue"
  /\ prodRunning' = TRUE
  /\ UNCHANGED <<enabled, main, busVars, queue, note, topic, consVars>>

WaitDequeue ==
  /\ prod = "dequeue"
  /\ IF queue = <<>>
     THEN prod' = "waiting" /\ UNCHANGED <<queue, note>>
     ELSE prod' = "check" /\ note' = Head(queue) /\ queue' = Tail(queue)
  /\ UNCHANGED <<enabled, main, busVars, prodRunning, topic, consVars>>

ProducerCheck ==
  /\ prod = "check"
  /\ IF note # NoNote /\ prodRunning
     THEN prod' = "sending" /\ note' = note
     ELSE prod' = "done" /\ note' = NoNote
  /\ UNCHANGED <<enabled, main, busVars, queue, prodRunning, topic, consVars>>

\* produce and flush, or an exception.
Produce ==
  /\ prod = "sending"
  /\ topic' = Append(topic, note) \/ topic' = topic
  /\ prod' = "dequeue" /\ note' = NoNote
  /\ UNCHANGED <<enabled, main, busVars, queue, prodRunning, consVars>>

ProducerNext == ProducerReady \/ WaitDequeue \/ ProducerCheck \/ Produce

-----------------------------------------------------------------------------
(* KafkaConsumer::run, as far as its start and stop.                       *)

ConsumerReady ==
  /\ cons = "setup"
  /\ cons' = "marked" /\ consRunning' = TRUE
  /\ UNCHANGED <<enabled, main, busVars, prodVars>>

Dispatch ==
  /\ cons = "marked"
  /\ cons' = "dispatching"
  /\ UNCHANGED <<enabled, main, busVars, prodVars, consRunning>>

DispatchEnds ==
  /\ cons = "stopping"
  /\ cons' = "done"
  /\ UNCHANGED <<enabled, main, busVars, prodVars, consRunning>>

ConsumerNext == ConsumerReady \/ Dispatch \/ DispatchEnds

-----------------------------------------------------------------------------
WorkersNext == MainNext \/ Terminate \/ BusNext \/ ProducerNext \/ ConsumerNext

WorkersSafety == (\E k \in BOOLEAN : WorkersInit(k)) /\ [][WorkersNext]_workerVars

\* Threads run; nobody has to ask for the end of the process.
WorkersFairness ==
  /\ WF_workerVars(MainNext) /\ WF_workerVars(BusNext)
  /\ WF_workerVars(ProducerNext) /\ WF_workerVars(ConsumerNext)

-----------------------------------------------------------------------------
(* Properties.                                                             *)

WorkersTypeOK ==
  /\ enabled \in BOOLEAN /\ main \in MainAt
  /\ bus \in BusAt /\ busRunning \in BOOLEAN /\ busWake \in BOOLEAN
  /\ beats \in Nat
  /\ queue \in Seq(Events) /\ prod \in ProdAt /\ note \in Events \cup {NoNote}
  /\ prodRunning \in BOOLEAN /\ topic \in Seq(Events)
  /\ cons \in ConsAt /\ consRunning \in BOOLEAN

\* The message the producer holds goes out before the ones in the queue.
InHand == IF note = NoNote THEN <<>> ELSE <<note>>

Feed ==
  INSTANCE MessageFeed WITH
    Messages <- Events,
    pending <- InHand \o queue, delivered <- topic, open <- prod # "done"

\* The producer thread, its queue and the hand-over to a waiting thread are
\* an ordered feed: events go out in the order the bus thread posts them,
\* none twice, and none overtakes another, whenever the process is stopped.
ImplementsFeed == Feed!FeedSpec

\* Stopping the process comes to an end once the bus thread has left, if the
\* producer is waiting and the consumer has its dispatcher.  A producer that
\* is sending, or still setting up, misses wakeUpAll and is joined forever.
StopCompletes ==
  (main = "stopProducer" /\ prod = "waiting" /\ cons = "dispatching")
    ~> (main = "stopped")
=============================================================================
