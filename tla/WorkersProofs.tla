--------------------------- MODULE WorkersProofs ---------------------------
(***************************************************************************)
(* The threads of Workers implement the ordered feed of MessageFeed, for   *)
(* any number of keep-alives.  The refinement needs an invariant: what the *)
(* producer holds and where it is tell each other, and it waits only while *)
(* the queue is empty.                                                     *)
(***************************************************************************)
EXTENDS Workers, TLAPS

-----------------------------------------------------------------------------
(* Sequences.                                                              *)

\* Nothing in hand: what is pending is the queue.
LEMMA EmptyHand ==
  ASSUME NEW S, NEW q \in Seq(S)
  PROVE  <<>> \o q = q
  OBVIOUS

\* With one message in hand, that message is the first that is pending.
LEMMA FullHand ==
  ASSUME NEW S, NEW q \in Seq(S), NEW x \in S
  PROVE  /\ <<x>> \o q \in Seq(S) /\ <<x>> \o q # <<>>
         /\ Head(<<x>> \o q) = x
         /\ Tail(<<x>> \o q) = q
  <1>1. <<x>> \o q \in Seq(S) /\ Len(<<x>> \o q) = Len(q) + 1
    OBVIOUS
  <1>2. Head(<<x>> \o q) = x
    OBVIOUS
  <1>3. Tail(<<x>> \o q) \in Seq(S) /\ Len(Tail(<<x>> \o q)) = Len(q)
    BY <1>1
  <1>4. \A i \in 1..Len(q) : Tail(<<x>> \o q)[i] = q[i]
    BY <1>1
  <1>5. Tail(<<x>> \o q) = q
    BY <1>3, <1>4
  <1>6. QED
    BY <1>1, <1>2, <1>5

\* Taking the first message of the queue into the hand changes nothing.
LEMMA HeadInHand ==
  ASSUME NEW S, NEW q \in Seq(S), q # <<>>
  PROVE  Head(q) \in S /\ Tail(q) \in Seq(S) /\ <<Head(q)>> \o Tail(q) = q
  <1>1. Head(q) \in S /\ Tail(q) \in Seq(S) /\ Len(Tail(q)) = Len(q) - 1
    OBVIOUS
  <1>2. /\ <<Head(q)>> \o Tail(q) \in Seq(S)
        /\ Len(<<Head(q)>> \o Tail(q)) = Len(q)
    BY <1>1
  <1>3. \A i \in 1..Len(q) : (<<Head(q)>> \o Tail(q))[i] = q[i]
    BY <1>1
  <1>4. QED
    BY <1>1, <1>2, <1>3

\* A message enqueued behind the one in hand is pending last.
LEMMA AppendBehind ==
  ASSUME NEW S, NEW q \in Seq(S), NEW h \in Seq(S), NEW m \in S
  PROVE  h \o Append(q, m) = Append(h \o q, m)
  <1>1. /\ h \o Append(q, m) \in Seq(S) /\ Append(h \o q, m) \in Seq(S)
        /\ Len(h \o Append(q, m)) = Len(h) + Len(q) + 1
        /\ Len(Append(h \o q, m)) = Len(h) + Len(q) + 1
    OBVIOUS
  <1>2. \A i \in 1..(Len(h) + Len(q) + 1) :
          (h \o Append(q, m))[i] = Append(h \o q, m)[i]
    OBVIOUS
  <1>3. QED
    BY <1>1, <1>2

-----------------------------------------------------------------------------
(* The invariant.                                                          *)

\* What the producer thread holds, where it is, and the queue.
HandInv ==
  /\ main = "start" => prod = "off"
  /\ prod \notin {"check", "sending"} => note = NoNote
  /\ prod = "sending" => note # NoNote
  /\ prod = "waiting" => queue = <<>>

WorkersInv == WorkersTypeOK /\ HandInv

PostType ==
  /\ queue \in Seq(Events) /\ prod \in ProdAt /\ note \in Events \cup {NoNote}
  /\ prodRunning \in BOOLEAN /\ topic \in Seq(Events)

\* Posting keeps the types of the producer.
LEMMA PostMessageType ==
  ASSUME PostType, NEW m \in Events, PostMessage(m)
  PROVE  PostType'
  BY DEF PostType, PostMessage, Enqueue, ProdAt

\* A step of the main thread, of the bus thread, of the producer or of the
\* consumer keeps the types.
LEMMA MainType ==
  ASSUME WorkersTypeOK, MainNext \/ Terminate
  PROVE  WorkersTypeOK'
  <1> USE DEF WorkersTypeOK, MainAt, BusAt, ProdAt, ConsAt, busVars, prodVars, consVars
  <1>1. CASE StartKafka
    <2>1. CASE enabled
      BY <1>1, <2>1 DEF StartKafka
    <2>2. CASE ~enabled
      BY <1>1, <2>2 DEF StartKafka
    <2>3. QED
      BY <2>1, <2>2
  <1>2. CASE StartBus
    BY <1>2 DEF StartBus
  <1>3. CASE Terminate
    BY <1>3 DEF Terminate
  <1>4. CASE StopBus
    BY <1>4 DEF StopBus
  <1>5. CASE JoinBus
    BY <1>5 DEF JoinBus
  <1>6. CASE StopProducer \/ WakeProducer \/ JoinProducer
    BY <1>6 DEF StopProducer, WakeProducer, JoinProducer
  <1>7. CASE StopConsumer \/ JoinConsumer
    BY <1>7 DEF StopConsumer, JoinConsumer
  <1>8. QED
    BY <1>1, <1>2, <1>3, <1>4, <1>5, <1>6, <1>7 DEF MainNext

LEMMA BusType ==
  ASSUME WorkersTypeOK, BusNext
  PROVE  WorkersTypeOK'
  <1>1. PostType
    BY DEF WorkersTypeOK, PostType
  <1>2. CASE BusJoin
    <2>1. PostType'
      BY <1>1, <1>2, PostMessageType DEF BusJoin, Events
    <2>2. QED
      BY <1>2, <2>1 DEF BusJoin, WorkersTypeOK, PostType, BusAt, consVars
  <1>3. CASE BusBeat
    <2>1. PostType'
      BY <1>1, <1>3, PostMessageType DEF BusBeat, Events
    <2>2. QED
      BY <1>3, <2>1 DEF BusBeat, WorkersTypeOK, PostType, BusAt, consVars
  <1>4. CASE BusLeave
    <2>1. PostType'
      BY <1>1, <1>4, PostMessageType DEF BusLeave, Events
    <2>2. QED
      BY <1>4, <2>1 DEF BusLeave, WorkersTypeOK, PostType, BusAt, consVars
  <1>5. CASE BusLoop \/ BusWoken
    BY <1>5 DEF BusLoop, BusWoken, WorkersTypeOK, BusAt, prodVars, consVars
  <1>6. QED
    BY <1>2, <1>3, <1>4, <1>5 DEF BusNext

LEMMA ProducerType ==
  ASSUME WorkersInv, ProducerNext
  PROVE  WorkersTypeOK'
  <1> USE DEF WorkersInv, WorkersTypeOK, ProdAt, busVars, consVars
  <1>1. CASE ProducerReady
    BY <1>1 DEF ProducerReady
  <1>2. CASE WaitDequeue
    <2>1. CASE queue = <<>>
      BY <1>2, <2>1 DEF WaitDequeue
    <2>2. CASE queue # <<>>
      <3>1. Head(queue) \in Events /\ Tail(queue) \in Seq(Events)
        BY <2>2, HeadInHand
      <3>2. QED
        BY <1>2, <2>2, <3>1 DEF WaitDequeue
    <2>3. QED
      BY <2>1, <2>2
  <1>3. CASE ProducerCheck
    BY <1>3 DEF ProducerCheck
  <1>4. CASE Produce
    BY <1>4 DEF Produce, HandInv
  <1>5. QED
    BY <1>1, <1>2, <1>3, <1>4 DEF ProducerNext

LEMMA ConsumerType ==
  ASSUME WorkersTypeOK, ConsumerNext
  PROVE  WorkersTypeOK'
  BY DEF ConsumerNext, ConsumerReady, Dispatch, DispatchEnds, WorkersTypeOK, ConsAt,
         busVars, prodVars

-----------------------------------------------------------------------------
(* Every step keeps the invariant.                                         *)

\* A message is handed to a producer that waits, with nothing queued before.
LEMMA PostKeepsHand ==
  ASSUME WorkersInv, NEW m \in Events, PostMessage(m), main' = main
  PROVE  HandInv'
  BY DEF WorkersInv, WorkersTypeOK, HandInv, PostMessage, Enqueue, Events, NoNote

LEMMA HandStep ==
  ASSUME WorkersInv, WorkersNext
  PROVE  HandInv'
  <1> USE DEF WorkersInv, WorkersTypeOK, HandInv, busVars, prodVars, consVars
  <1>1. CASE MainNext \/ Terminate
    <2>1. CASE StartKafka
      BY <2>1 DEF StartKafka
    <2>2. CASE WakeProducer
      BY <2>2 DEF WakeProducer
    <2>3. CASE StopProducer \/ JoinProducer \/ StopConsumer \/ JoinConsumer
      BY <2>3 DEF StopProducer, JoinProducer, StopConsumer, JoinConsumer
    <2>4. CASE StartBus \/ Terminate \/ StopBus \/ JoinBus
      BY <2>4 DEF StartBus, Terminate, StopBus, JoinBus
    <2>5. QED
      BY <1>1, <2>1, <2>2, <2>3, <2>4 DEF MainNext
  <1>2. CASE BusNext
    <2>1. CASE BusJoin
      BY <2>1, PostKeepsHand DEF BusJoin, Events
    <2>2. CASE BusBeat
      BY <2>2, PostKeepsHand DEF BusBeat, Events
    <2>3. CASE BusLeave
      BY <2>3, PostKeepsHand DEF BusLeave, Events
    <2>4. CASE BusLoop \/ BusWoken
      BY <2>4 DEF BusLoop, BusWoken
    <2>5. QED
      BY <1>2, <2>1, <2>2, <2>3, <2>4 DEF BusNext
  <1>3. CASE ProducerNext
    <2>1. CASE ProducerReady
      BY <2>1 DEF ProducerReady
    <2>2. CASE WaitDequeue
      BY <2>2 DEF WaitDequeue
    <2>3. CASE ProducerCheck
      BY <2>3 DEF ProducerCheck
    <2>4. CASE Produce
      BY <2>4 DEF Produce
    <2>5. QED
      BY <1>3, <2>1, <2>2, <2>3, <2>4 DEF ProducerNext
  <1>4. CASE ConsumerNext
    BY <1>4 DEF ConsumerNext, ConsumerReady, Dispatch, DispatchEnds
  <1>5. QED
    BY <1>1, <1>2, <1>3, <1>4 DEF WorkersNext

\* The process keeps to the types and to the invariant, whenever it is asked
\* to stop and whatever keep-alives it posts before.
THEOREM WorkersInvariant == WorkersSafety => []WorkersInv
  <1>1. (\E k \in BOOLEAN : WorkersInit(k)) => WorkersInv
    <2> SUFFICES ASSUME NEW k \in BOOLEAN, WorkersInit(k) PROVE WorkersInv
      OBVIOUS
    <2>1. /\ enabled \in BOOLEAN /\ busRunning \in BOOLEAN /\ busWake \in BOOLEAN
          /\ prodRunning \in BOOLEAN /\ consRunning \in BOOLEAN
      BY Zenon DEF WorkersInit
    <2>2. /\ main \in MainAt /\ bus \in BusAt /\ prod \in ProdAt /\ cons \in ConsAt
          /\ note \in Events \cup {NoNote} /\ HandInv
      BY Zenon DEF WorkersInit, HandInv, MainAt, BusAt, ProdAt, ConsAt
    <2>3. beats \in Nat /\ queue \in Seq(Events) /\ topic \in Seq(Events)
      BY DEF WorkersInit
    <2>4. QED
      BY <2>1, <2>2, <2>3 DEF WorkersInv, WorkersTypeOK
  <1>2. WorkersInv /\ [WorkersNext]_workerVars => WorkersInv'
    <2> SUFFICES ASSUME WorkersInv, [WorkersNext]_workerVars PROVE WorkersInv'
      OBVIOUS
    <2>1. CASE WorkersNext
      <3>1. WorkersTypeOK'
        BY <2>1, MainType, BusType, ProducerType, ConsumerType DEF WorkersNext, WorkersInv
      <3>2. QED
        BY <2>1, <3>1, HandStep DEF WorkersInv
    <2>2. CASE UNCHANGED workerVars
      BY <2>2 DEF WorkersInv, WorkersTypeOK, HandInv, workerVars, busVars, prodVars, consVars
    <2>3. QED
      BY <2>1, <2>2
  <1>3. QED
    BY <1>1, <1>2, PTL DEF WorkersSafety

-----------------------------------------------------------------------------
(* The refinement.                                                         *)

\* What is in hand and what is queued are messages.
LEMMA PendingType ==
  ASSUME WorkersInv
  PROVE  InHand \in Seq(Events) /\ (note = NoNote => InHand \o queue = queue)
  <1>1. CASE note = NoNote
    BY <1>1, EmptyHand DEF InHand, WorkersInv, WorkersTypeOK
  <1>2. CASE note # NoNote
    BY <1>2 DEF InHand, WorkersInv, WorkersTypeOK
  <1>3. QED
    BY <1>1, <1>2

\* A step that leaves hand, queue and topic alone does nothing to the feed.
LEMMA Silent ==
  ASSUME queue' = queue, note' = note, topic' = topic,
         prod' # "done" <=> prod # "done"
  PROVE  UNCHANGED Feed!feedVars
  BY DEF Feed!feedVars, InHand

\* Posting to the queue, or straight to a waiting producer, posts to the feed.
LEMMA PostRefines ==
  ASSUME WorkersInv, NEW m \in Events, PostMessage(m)
  PROVE  Feed!Post(m)
  <1> USE DEF PostMessage, Enqueue
  <1>1. topic' = topic /\ (prod' # "done" <=> prod # "done")
    OBVIOUS
  <1>2. InHand' \o queue' = Append(InHand \o queue, m)
    <2>1. CASE prod = "waiting"
      <3>1. queue = <<>> /\ note = NoNote /\ queue' = <<>> /\ note' = m
        BY <2>1 DEF WorkersInv, HandInv
      <3>2. InHand = <<>> /\ InHand' = <<m>>
        BY <3>1 DEF InHand, Events, NoNote
      <3>3. QED
        BY <3>1, <3>2
    <2>2. CASE prod # "waiting"
      <3>1. queue' = Append(queue, m) /\ InHand' = InHand
        BY <2>2 DEF InHand
      <3>2. InHand \o Append(queue, m) = Append(InHand \o queue, m)
        BY PendingType, AppendBehind DEF WorkersInv, WorkersTypeOK
      <3>3. QED
        BY <3>1, <3>2
    <2>3. QED
      BY <2>1, <2>2
  <1>3. QED
    BY <1>1, <1>2 DEF Feed!Post

\* A message in hand goes out, is skipped, or is given up when the producer
\* ends; taking the next one from the queue does nothing to the feed.
LEMMA ProducerRefines ==
  ASSUME WorkersInv, ProducerNext
  PROVE  Feed!Deliver \/ Feed!Skip \/ Feed!Close \/ UNCHANGED Feed!feedVars
  <1> USE DEF WorkersInv, WorkersTypeOK
  <1>1. CASE ProducerReady
    BY <1>1, Silent DEF ProducerReady
  <1>2. CASE WaitDequeue
    <2>1. prod # "done" /\ prod' # "done" /\ topic' = topic /\ note = NoNote
      BY <1>2 DEF WaitDequeue, HandInv
    <2>2. CASE queue = <<>>
      BY <1>2, <2>1, <2>2, Silent DEF WaitDequeue
    <2>3. CASE queue # <<>>
      <3>1. note' = Head(queue) /\ queue' = Tail(queue)
        BY <1>2, <2>3 DEF WaitDequeue
      <3>2. InHand' = <<Head(queue)>>
        BY <2>3, <3>1, HeadInHand DEF InHand, Events, NoNote
      <3>3. InHand' \o queue' = InHand \o queue
        BY <2>1, <2>3, <3>1, <3>2, HeadInHand, PendingType
      <3>4. QED
        BY <2>1, <3>3 DEF Feed!feedVars
    <2>4. QED
      BY <2>2, <2>3
  <1>3. CASE ProducerCheck
    <2>1. prod # "done" /\ queue' = queue /\ topic' = topic
      BY <1>3 DEF ProducerCheck
    <2>2. CASE prod' = "sending" /\ note' = note
      BY <2>1, <2>2, Silent
    <2>3. CASE prod' = "done" /\ note' = NoNote
      <3>1. InHand' \o queue' = queue
        BY <2>1, <2>3, EmptyHand DEF InHand
      <3>2. CASE note = NoNote
        BY <2>1, <2>3, <3>1, <3>2, PendingType DEF Feed!Close
      <3>3. CASE note # NoNote
        BY <2>1, <2>3, <3>1, <3>3, FullHand DEF Feed!Close, InHand
      <3>4. QED
        BY <3>2, <3>3
    <2>4. QED
      BY <1>3, <2>2, <2>3 DEF ProducerCheck
  <1>4. CASE Produce
    <2>1. /\ prod # "done" /\ prod' # "done" /\ note \in Events /\ note' = NoNote
          /\ queue' = queue /\ (topic' = Append(topic, note) \/ topic' = topic)
      BY <1>4 DEF Produce, HandInv
    <2>2. InHand' \o queue' = queue
      BY <2>1, EmptyHand DEF InHand
    <2>3. InHand \o queue = <<note>> \o queue
      BY <2>1 DEF InHand, Events, NoNote
    <2>4. /\ InHand \o queue # <<>> /\ Head(InHand \o queue) = note
          /\ Tail(InHand \o queue) = queue
      BY <2>1, <2>3, FullHand
    <2>5. QED
      BY <2>1, <2>2, <2>4 DEF Feed!Deliver, Feed!Skip
  <1>5. QED
    BY <1>1, <1>2, <1>3, <1>4 DEF ProducerNext

LEMMA FeedStep ==
  ASSUME WorkersInv, WorkersNext
  PROVE  Feed!FeedNext \/ UNCHANGED Feed!feedVars
  <1>1. CASE MainNext \/ Terminate
    <2> USE DEF busVars, prodVars, consVars
    <2>1. CASE StartKafka
      BY <2>1, Silent DEF StartKafka, WorkersInv, HandInv
    <2>2. CASE WakeProducer
      BY <2>2, Silent DEF WakeProducer, WorkersInv, HandInv
    <2>3. CASE StopProducer \/ JoinProducer \/ StopConsumer \/ JoinConsumer
      BY <2>3, Silent DEF StopProducer, JoinProducer, StopConsumer, JoinConsumer
    <2>4. CASE StartBus \/ Terminate \/ StopBus \/ JoinBus
      BY <2>4, Silent DEF StartBus, Terminate, StopBus, JoinBus
    <2>5. QED
      BY <1>1, <2>1, <2>2, <2>3, <2>4 DEF MainNext
  <1>2. CASE BusNext
    <2>1. CASE BusJoin \/ BusBeat \/ BusLeave
      <3>1. PICK m \in Events : PostMessage(m)
        BY <2>1 DEF BusJoin, BusBeat, BusLeave, Events
      <3>2. QED
        BY <3>1, PostRefines DEF Feed!FeedNext
    <2>2. CASE BusLoop \/ BusWoken
      BY <2>2, Silent DEF BusLoop, BusWoken, prodVars
    <2>3. QED
      BY <1>2, <2>1, <2>2 DEF BusNext
  <1>3. CASE ProducerNext
    BY <1>3, ProducerRefines DEF Feed!FeedNext
  <1>4. CASE ConsumerNext
    BY <1>4, Silent DEF ConsumerNext, ConsumerReady, Dispatch, DispatchEnds, prodVars
  <1>5. QED
    BY <1>1, <1>2, <1>3, <1>4 DEF WorkersNext

\* The bus thread, the queue and the producer thread implement the ordered
\* feed: what is posted goes out in that order and at most once, for any
\* number of keep-alives, whenever Kafka and the process start and stop.
THEOREM WorkersRefineFeed == WorkersSafety => ImplementsFeed
  <1>1. (\E k \in BOOLEAN : WorkersInit(k)) => Feed!FeedInit
    BY DEF WorkersInit, Feed!FeedInit, InHand
  <1>2. WorkersInv /\ [WorkersNext]_workerVars => [Feed!FeedNext]_Feed!feedVars
    <2> SUFFICES ASSUME WorkersInv, [WorkersNext]_workerVars
                 PROVE  [Feed!FeedNext]_Feed!feedVars
      OBVIOUS
    <2>1. CASE UNCHANGED workerVars
      BY <2>1, Silent DEF workerVars, prodVars
    <2>2. QED
      BY <2>1, FeedStep
  <1>3. QED
    BY <1>1, <1>2, WorkersInvariant, PTL DEF WorkersSafety, ImplementsFeed, Feed!FeedSpec
=============================================================================
