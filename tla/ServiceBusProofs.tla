-------------------------- MODULE ServiceBusProofs --------------------------
(***************************************************************************)
(* Safety of the registry and of the token cache, for any processes,       *)
(* tokens, threads, ages and bounds.  That a removed token stays forgotten *)
(* needs to know of the topic that removals in it are of tokens that are   *)
(* no longer valid, and of the threads that only a valid token is          *)
(* confirmed.                                                              *)
(***************************************************************************)
EXTENDS ServiceBus, TLAPS

States == {"none", "valid", "revoked", "expired"}
Dead == {"revoked", "expired"}

\* The parts of the invariant.
TopicOK ==
  /\ topic \in Seq(Messages)
  /\ \A n \in 1 .. Len(topic) :
       topic[n].event = "remove-token" => life[topic[n].token] \in Dead

RegistryOK ==
  /\ DOMAIN services \subseteq EndPoints
  /\ \A e \in DOMAIN services : services[e] \in 0 .. Zombie + 1

CacheOK ==
  /\ DOMAIN cache \subseteq {k \in Tokens : life[k] # "none"}
  /\ \A k \in DOMAIN cache : cache[k] \in 0 .. Lifetime - 1

ThreadTypes ==
  /\ pc \in [Threads -> {"idle", "validate", "retrieve"}]
  /\ token \in [Threads -> Tokens \cup {NoToken}]
  /\ confirmed \in [Threads -> BOOLEAN]

ThreadOK(t) ==
  /\ pc[t] # "idle" <=> token[t] # NoToken
  /\ confirmed[t] => pc[t] = "retrieve" /\ life[token[t]] # "none"

ThreadsOK == ThreadTypes /\ \A t \in Threads : ThreadOK(t)

ProcsOK == up \subseteq Ids /\ starts \in 0 .. MaxStarts
LifeOK == life \in [Tokens -> States]

BusInv ==
  /\ ProcsOK /\ LifeOK /\ TopicOK /\ RegistryOK /\ CacheOK /\ ThreadsOK
  /\ forgotten \subseteq {k \in Tokens : life[k] \in Dead}
  /\ RemovedTokenForgotten

\* The invariant is the one that is checked, with more about the topic.
LEMMA InvImplies ==
  ASSUME BusInv
  PROVE  BusTypeOK /\ RemovedTokenForgotten
  BY DEF BusInv, BusTypeOK, ProcsOK, LifeOK, States, TopicOK, RegistryOK, CacheOK,
         ThreadsOK, ThreadTypes, ThreadOK

-----------------------------------------------------------------------------
(* The topic.                                                              *)

\* A message is posted; if it is a removal, the token is dead by now, and no
\* token comes back to life.
LEMMA PostKeeps ==
  ASSUME TopicOK, NEW m \in Messages, Post(m), LifeOK, LifeOK',
         m.event = "remove-token" => life'[m.token] \in Dead,
         \A k \in Tokens : life[k] \in Dead => life'[k] \in Dead
  PROVE  TopicOK'
  <1>1. topic' \in Seq(Messages) /\ Len(topic') = Len(topic) + 1
    BY DEF Post, TopicOK
  <1>2. ASSUME NEW n \in 1 .. Len(topic), topic[n].event = "remove-token"
        PROVE  life'[topic[n].token] \in Dead
    <2>1. topic[n] \in Messages
      BY DEF TopicOK
    <2>2. topic[n].token \in Tokens
      BY <1>2, <2>1 DEF Messages
    <2>3. QED
      BY <1>2, <2>2 DEF TopicOK
  <1>3. ASSUME NEW n \in 1 .. Len(topic'), topic'[n].event = "remove-token"
        PROVE  life'[topic'[n].token] \in Dead
    <2>1. CASE n \in 1 .. Len(topic)
      <3>1. topic'[n] = topic[n]
        BY <2>1 DEF Post, TopicOK
      <3>2. QED
        BY <1>2, <1>3, <2>1, <3>1
    <2>2. CASE n = Len(topic) + 1
      <3>1. topic'[n] = m
        BY <2>2 DEF Post, TopicOK
      <3>2. QED
        BY <1>3, <3>1
    <2>3. QED
      BY <1>1, <2>1, <2>2 DEF TopicOK
  <1>4. QED
    BY <1>1, <1>3 DEF TopicOK

\* The same when nothing is posted.
LEMMA QuietKeeps ==
  ASSUME TopicOK, topic' = topic, \A k \in Tokens : life[k] \in Dead => life'[k] \in Dead
  PROVE  TopicOK'
  <1>1. ASSUME NEW n \in 1 .. Len(topic), topic[n].event = "remove-token"
        PROVE  life'[topic[n].token] \in Dead
    <2>1. topic[n] \in Messages
      BY DEF TopicOK
    <2>2. topic[n].token \in Tokens
      BY <1>1, <2>1 DEF Messages
    <2>3. QED
      BY <1>1, <2>2 DEF TopicOK
  <1>2. QED
    BY <1>1 DEF TopicOK

\* The first message is one of those posted; the rest are too.
LEMMA TopicHead ==
  ASSUME TopicOK, topic # <<>>
  PROVE  /\ Head(topic) \in Messages
         /\ Head(topic).event = "remove-token" => life[Head(topic).token] \in Dead
         /\ topic' = Tail(topic) /\ life' = life => TopicOK'
  <1>1. /\ Len(topic) \in Nat \ {0} /\ Head(topic) = topic[1]
        /\ Tail(topic) \in Seq(Messages) /\ Len(Tail(topic)) = Len(topic) - 1
        /\ \A n \in 1 .. Len(topic) - 1 : Tail(topic)[n] = topic[n + 1]
    BY DEF TopicOK
  <1>2. QED
    BY <1>1 DEF TopicOK

-----------------------------------------------------------------------------
(* The handler of a message.                                               *)

GoodRegistry(reg) ==
  /\ DOMAIN reg \subseteq EndPoints
  /\ \A e \in DOMAIN reg : reg[e] \in 0 .. Zombie + 1

\* The registry stays one of known endpoints.
LEMMA RegistryStep ==
  ASSUME NEW reg, GoodRegistry(reg), NEW m \in Messages
  PROVE  GoodRegistry(Heard(reg, m)) /\ GoodRegistry(Sweep(reg))
  <1>1. m.from \in Ids /\ EndPoint[m.from] \in EndPoints
    BY DEF Messages, EndPoints
  <1>2. GoodRegistry(Fresh(reg, EndPoint[m.from]))
    BY <1>1, BusAssumption DEF GoodRegistry, Fresh
  <1>3. GoodRegistry(Drop(reg, EndPoint[m.from]))
    BY DEF GoodRegistry, Drop
  <1>4. GoodRegistry(Heard(reg, m))
    BY <1>2, <1>3 DEF Heard
  <1>5. GoodRegistry(Sweep(reg))
    BY DEF GoodRegistry, Sweep, Keep
  <1>6. QED
    BY <1>4, <1>5

\* A removal forgets the token, and all that holds of the others stays.
LEMMA MessageKeeps ==
  ASSUME BusInv, NEW m, m \in Messages \/ m = Message("keep-alive", Self),
         m.event = "remove-token" => life[m.token] \in Dead,
         BusMessageReceived(m), UNCHANGED <<procs, life, threads>>, TopicOK'
  PROVE  BusInv'
  <1>1. RegistryOK'
    <2>1. GoodRegistry(services)
      BY DEF BusInv, RegistryOK, GoodRegistry
    <2>2. CASE m.from = Self
      <3>1. services' = Sweep(services)
        BY <2>2 DEF BusMessageReceived
      <3>2. GoodRegistry(Sweep(services))
        BY <2>1 DEF GoodRegistry, Sweep, Keep
      <3>3. QED
        BY <3>1, <3>2 DEF RegistryOK, GoodRegistry
    <2>3. CASE m.from # Self
      <3>1. m \in Messages
        BY <2>3 DEF Message
      <3>2. services' = Sweep(Heard(services, m))
        BY <2>3 DEF BusMessageReceived
      <3>3. GoodRegistry(Sweep(Heard(services, m)))
        BY <2>1, <3>1, RegistryStep
      <3>4. QED
        BY <3>2, <3>3 DEF RegistryOK, GoodRegistry
    <2>4. QED
      BY <2>2, <2>3
  <1>2. CacheOK' /\ DOMAIN cache' \subseteq DOMAIN cache
    BY DEF BusMessageReceived, RemovedCachedToken, Drop, BusInv, CacheOK
  <1>3. m.event = "remove-token" => m.token \in Tokens
    BY DEF Messages, Message
  <1>4. forgotten' \subseteq {k \in Tokens : life'[k] \in Dead}
    BY <1>3 DEF BusMessageReceived, BusInv
  <1>5. \A k : OnItsWay(k)' <=> OnItsWay(k)
    BY DEF OnItsWay, threads
  <1>6. RemovedTokenForgotten'
    <2> SUFFICES ASSUME NEW k \in forgotten'
                 PROVE  k \notin DOMAIN cache' /\ life[k] # "valid" /\ ~OnItsWay(k)
      BY <1>5 DEF RemovedTokenForgotten
    <2>1. CASE k \in forgotten
      BY <1>2, <2>1 DEF BusInv, RemovedTokenForgotten
    <2>2. CASE k \notin forgotten
      <3>1. m.event = "remove-token" /\ k = m.token /\ ~OnItsWay(k)
        BY <2>2 DEF BusMessageReceived
      <3>2. k \notin DOMAIN cache'
        BY <3>1 DEF BusMessageReceived, RemovedCachedToken, Drop
      <3>3. QED
        BY <3>1, <3>2 DEF Dead
    <2>3. QED
      BY <2>1, <2>2
  <1>7. ProcsOK' /\ LifeOK' /\ ThreadsOK'
    BY DEF BusInv, ProcsOK, LifeOK, ThreadsOK, ThreadTypes, ThreadOK, procs, threads
  <1>8. QED
    BY <1>1, <1>2, <1>4, <1>6, <1>7 DEF BusInv

-----------------------------------------------------------------------------
(* Steps of the other services.                                            *)

\* Processes start, speak and stop.
LEMMA ProcessKeeps ==
  ASSUME BusInv, NEW i \in Ids, Join(i) \/ Leave(i) \/ KeepAlive(i)
  PROVE  BusInv'
  <1>1. UNCHANGED <<services, life, cache, pc, token, confirmed, forgotten>>
    BY DEF Join, Leave, KeepAlive, threads
  <1>2. ProcsOK'
    BY BusAssumption DEF BusInv, ProcsOK, Join, Leave, KeepAlive, procs
  <1>3. TopicOK'
    <2>1. \A e \in {"join", "keep-alive", "leave"} :
            Message(e, i) \in Messages /\ Message(e, i).event # "remove-token"
      BY DEF Message, Messages
    <2>2. topic' = topic \/ \E e \in {"join", "keep-alive", "leave"} : Post(Message(e, i))
      BY DEF Join, Leave, KeepAlive
    <2>3. LifeOK /\ LifeOK' /\ life' = life
      BY <1>1 DEF BusInv, LifeOK
    <2>4. QED
      BY <2>1, <2>2, <2>3, PostKeeps, QuietKeeps DEF BusInv
  <1>4. RegistryOK' /\ CacheOK' /\ LifeOK' /\ ThreadsOK' /\ RemovedTokenForgotten'
    BY <1>1 DEF BusInv, RegistryOK, CacheOK, LifeOK, ThreadsOK, ThreadTypes, ThreadOK,
       RemovedTokenForgotten, OnItsWay
  <1>5. QED
    BY <1>1, <1>2, <1>3, <1>4 DEF BusInv

\* Tokens are issued, revoked and expire, in that order.
LEMMA LifeKeeps ==
  ASSUME BusInv, NEW k \in Tokens, Issue(k) \/ Revoke(k) \/ Expire(k)
  PROVE  BusInv'
  <1>1. UNCHANGED <<up, starts, services, cache, pc, token, confirmed, forgotten>>
    BY DEF Issue, Revoke, Expire, threads, procs
  <1>2. PICK s \in States :
          /\ life' = [life EXCEPT ![k] = s] /\ s # "none"
          /\ life[k] \in Dead => s \in Dead
          /\ s = "valid" => life[k] = "none"
          /\ \/ topic' = topic
             \/ s \in Dead /\ \E i \in up : Post([event |-> "remove-token", from |-> i, token |-> k])
    BY DEF Issue, Revoke, Expire, States, Dead
  <1>3. LifeOK /\ LifeOK' /\ \A x \in Tokens : /\ life[x] # "none" => life'[x] # "none"
                                               /\ life[x] \in Dead => life'[x] \in Dead
                                               /\ life'[x] = "valid" => life[x] \in {"none", "valid"}
    BY <1>2 DEF BusInv, LifeOK, States, Dead
  <1>4. TopicOK'
    <2>1. CASE topic' = topic
      BY <1>3, <2>1, QuietKeeps DEF BusInv
    <2>2. CASE topic' # topic
      <3>1. PICK i \in up : Post([event |-> "remove-token", from |-> i, token |-> k])
        BY <1>2, <2>2
      <3>2. life'[k] \in Dead
        BY <1>2, <1>3, <2>2 DEF LifeOK
      <3>3. [event |-> "remove-token", from |-> i, token |-> k] \in Messages
        BY DEF Messages, BusInv, ProcsOK
      <3>4. QED
        BY <1>3, <3>1, <3>2, <3>3, PostKeeps DEF BusInv
    <2>3. QED
      BY <2>1, <2>2
  <1>5. CacheOK' /\ RegistryOK' /\ ProcsOK'
    BY <1>1, <1>3 DEF BusInv, CacheOK, RegistryOK, ProcsOK
  <1>6. ThreadsOK'
    <2>1. ThreadTypes'
      BY <1>1 DEF BusInv, ThreadsOK, ThreadTypes
    <2>2. ASSUME NEW t \in Threads PROVE ThreadOK(t)'
      <3>1. token[t] \in Tokens \cup {NoToken} /\ ThreadOK(t)
        BY DEF BusInv, ThreadsOK, ThreadTypes
      <3>2. pc'[t] = pc[t] /\ token'[t] = token[t] /\ confirmed'[t] = confirmed[t]
        BY <1>1
      <3>3. QED
        BY <1>3, <3>1, <3>2 DEF ThreadOK
    <2>3. QED
      BY <2>1, <2>2 DEF ThreadsOK
  <1>7. RemovedTokenForgotten'
    <2> SUFFICES ASSUME NEW x \in forgotten
                 PROVE  x \notin DOMAIN cache /\ life'[x] # "valid" /\ ~OnItsWay(x)
      BY <1>1 DEF RemovedTokenForgotten, OnItsWay
    <2>1. x \in Tokens /\ life[x] \in Dead
      BY DEF BusInv
    <2>2. QED
      BY <1>3, <2>1 DEF BusInv, RemovedTokenForgotten, Dead
  <1>8. QED
    BY <1>1, <1>3, <1>4, <1>5, <1>6, <1>7 DEF BusInv

-----------------------------------------------------------------------------
(* Steps of the portal.                                                    *)

\* The cache loses entries or grows older.
LEMMA CacheShrinks ==
  ASSUME BusInv, RegistryOK', CacheOK', DOMAIN cache' \subseteq DOMAIN cache,
         UNCHANGED <<procs, topic, life, threads, forgotten>>
  PROVE  BusInv'
  <1>1. ProcsOK' /\ LifeOK' /\ TopicOK' /\ ThreadsOK'
    BY DEF BusInv, ProcsOK, LifeOK, TopicOK, ThreadsOK, ThreadTypes, ThreadOK, procs, threads
  <1>2. RemovedTokenForgotten'
    BY DEF BusInv, RemovedTokenForgotten, OnItsWay, threads
  <1>3. QED
    BY <1>1, <1>2 DEF BusInv

\* A thread moves on; it may cache a token that is confirmed.
LEMMA ThreadMoves ==
  ASSUME BusInv, ThreadsOK', CacheOK', UNCHANGED <<procs, topic, services, life, forgotten>>,
         \A k \in forgotten : k \notin DOMAIN cache' /\ ~OnItsWay(k)'
  PROVE  BusInv'
  <1>1. ProcsOK' /\ LifeOK' /\ TopicOK' /\ RegistryOK'
    BY DEF BusInv, ProcsOK, LifeOK, TopicOK, RegistryOK, procs
  <1>2. RemovedTokenForgotten'
    BY DEF BusInv, RemovedTokenForgotten
  <1>3. QED
    BY <1>1, <1>2 DEF BusInv

\* A thread that is done holds nothing.
LEMMA DoneKeeps ==
  ASSUME BusInv, NEW t \in Threads, Done(t), life' = life
  PROVE  ThreadsOK' /\ \A k : OnItsWay(k)' => OnItsWay(k)
  <1>1. ThreadsOK
    BY DEF BusInv
  <1>2. ThreadTypes'
    BY <1>1 DEF ThreadsOK, ThreadTypes, Done
  <1>3. ASSUME NEW u \in Threads
        PROVE  IF u = t THEN pc'[u] = "idle" /\ token'[u] = NoToken /\ confirmed'[u] = FALSE
               ELSE pc'[u] = pc[u] /\ token'[u] = token[u] /\ confirmed'[u] = confirmed[u]
    BY <1>1 DEF ThreadsOK, ThreadTypes, Done
  <1>4. ASSUME NEW u \in Threads PROVE ThreadOK(u)'
    BY <1>1, <1>3 DEF ThreadsOK, ThreadOK
  <1>5. \A k : OnItsWay(k)' => OnItsWay(k)
    BY <1>3 DEF OnItsWay
  <1>6. QED
    BY <1>2, <1>4, <1>5 DEF ThreadsOK

LEMMA AuthorizedKeeps ==
  ASSUME BusInv, NEW t \in Threads, NEW k \in Tokens, IsAuthorized(t, k)
  PROVE  BusInv'
  <1>1. CASE pc' = pc /\ token' = token /\ confirmed' = confirmed
    <2>1. UNCHANGED <<procs, topic, life, threads, forgotten>> /\ services' = services
      BY <1>1 DEF IsAuthorized, threads
    <2>2. cache' = cache \/ cache' = Drop(cache, k)
      BY <1>1 DEF IsAuthorized
    <2>3. CacheOK' /\ DOMAIN cache' \subseteq DOMAIN cache
      BY <2>1, <2>2 DEF BusInv, CacheOK, Drop
    <2>4. RegistryOK'
      BY <2>1 DEF BusInv, RegistryOK
    <2>5. QED
      BY <2>1, <2>3, <2>4, CacheShrinks
  <1>2. CASE /\ pc' = [pc EXCEPT ![t] = "validate"] /\ token' = [token EXCEPT ![t] = k]
             /\ cache' = cache /\ confirmed' = confirmed
    <2>1. UNCHANGED <<procs, topic, services, life, forgotten>> /\ pc[t] = "idle"
      BY DEF IsAuthorized
    <2>2. ThreadTypes /\ \A u \in Threads : ThreadOK(u)
      BY DEF BusInv, ThreadsOK
    <2>3. ThreadTypes'
      BY <1>2, <2>2 DEF ThreadTypes
    <2>4. ~confirmed[t]
      BY <2>1, <2>2 DEF ThreadOK
    <2>5. ASSUME NEW u \in Threads
          PROVE  IF u = t THEN pc'[u] = "validate" /\ token'[u] = k ELSE pc'[u] = pc[u] /\ token'[u] = token[u]
      BY <1>2, <2>2 DEF ThreadTypes
    <2>6. ASSUME NEW u \in Threads PROVE ThreadOK(u)'
      BY <1>2, <2>1, <2>2, <2>4, <2>5, BusAssumption DEF ThreadOK
    <2>7. \A x : OnItsWay(x)' => OnItsWay(x)
      BY <1>2, <2>5 DEF OnItsWay
    <2>8. CacheOK'
      BY <1>2, <2>1 DEF BusInv, CacheOK
    <2>9. QED
      BY <1>2, <2>1, <2>3, <2>6, <2>7, <2>8, ThreadMoves
         DEF BusInv, ThreadsOK, RemovedTokenForgotten
  <1>3. QED
    BY <1>1, <1>2 DEF IsAuthorized

LEMMA ValidateKeeps ==
  ASSUME BusInv, NEW t \in Threads, Validate(t)
  PROVE  BusInv'
  <1>1. UNCHANGED <<procs, topic, services, life, cache, forgotten>> /\ pc[t] = "validate"
    BY DEF Validate
  <1>2. CacheOK'
    BY <1>1 DEF BusInv, CacheOK
  <1>3. CASE Done(t)
    BY <1>1, <1>2, <1>3, DoneKeeps, ThreadMoves DEF BusInv, RemovedTokenForgotten
  <1>4. CASE /\ pc' = [pc EXCEPT ![t] = "retrieve"] /\ token' = token
             /\ confirmed' = [confirmed EXCEPT ![t] = life[token[t]] = "valid"]
    <2>1. ThreadTypes /\ \A u \in Threads : ThreadOK(u)
      BY DEF BusInv, ThreadsOK
    <2>2. ThreadTypes'
      BY <1>4, <2>1, Zenon DEF ThreadTypes
    <2>3. ASSUME NEW u \in Threads
          PROVE  IF u = t THEN pc'[u] = "retrieve" /\ (confirmed'[u] <=> life[token[u]] = "valid")
                 ELSE pc'[u] = pc[u] /\ confirmed'[u] = confirmed[u]
      BY <1>4, <2>1 DEF ThreadTypes
    <2>4. ASSUME NEW u \in Threads PROVE ThreadOK(u)'
      BY <1>1, <1>4, <2>1, <2>3 DEF ThreadOK
    <2>5. \A x \in forgotten : ~OnItsWay(x)'
      BY <1>4, <2>3 DEF BusInv, RemovedTokenForgotten, OnItsWay
    <2>6. QED
      BY <1>1, <1>2, <2>2, <2>4, <2>5, ThreadMoves DEF BusInv, ThreadsOK, RemovedTokenForgotten
  <1>5. QED
    BY <1>3, <1>4 DEF Validate

LEMMA RetrieveKeeps ==
  ASSUME BusInv, NEW t \in Threads, RetrieveTokenInformation(t)
  PROVE  BusInv'
  <1>1. UNCHANGED <<procs, topic, services, life, forgotten>> /\ pc[t] = "retrieve" /\ Done(t)
    BY DEF RetrieveTokenInformation
  <1>2. ThreadsOK' /\ \A k : OnItsWay(k)' => OnItsWay(k)
    BY <1>1, DoneKeeps
  <1>3. CASE confirmed[t] /\ cache' = Fresh(cache, token[t])
    <2>1. OnItsWay(token[t])
      BY <1>1, <1>3 DEF OnItsWay
    <2>2. token[t] \in Tokens /\ life[token[t]] # "none"
      BY <1>1, <1>3 DEF BusInv, ThreadsOK, ThreadTypes, ThreadOK
    <2>3. CacheOK'
      BY <1>1, <1>3, <2>2, BusAssumption DEF BusInv, CacheOK, Fresh
    <2>4. \A k \in forgotten : k # token[t] /\ k \notin DOMAIN cache'
      BY <1>3, <2>1 DEF BusInv, RemovedTokenForgotten, Fresh
    <2>5. QED
      BY <1>1, <1>2, <2>3, <2>4, ThreadMoves DEF BusInv, RemovedTokenForgotten
  <1>4. CASE cache' = cache
    <2>1. CacheOK'
      BY <1>1, <1>4 DEF BusInv, CacheOK
    <2>2. QED
      BY <1>1, <1>2, <1>4, <2>1, ThreadMoves DEF BusInv, RemovedTokenForgotten
  <1>5. QED
    BY <1>3, <1>4 DEF RetrieveTokenInformation

LEMMA TimeKeeps ==
  ASSUME BusInv, Tick \/ \E k \in Tokens : Evict(k)
  PROVE  BusInv'
  <1>1. CASE Tick
    <2>1. UNCHANGED <<procs, topic, life, threads, forgotten>>
      BY <1>1 DEF Tick
    <2>2. RegistryOK'
      BY <1>1, BusAssumption DEF Tick, BusInv, RegistryOK
    <2>3. CacheOK' /\ DOMAIN cache' \subseteq DOMAIN cache
      BY <1>1, <2>1, BusAssumption DEF Tick, BusInv, CacheOK
    <2>4. QED
      BY <2>1, <2>2, <2>3, CacheShrinks
  <1>2. ASSUME NEW k \in Tokens, Evict(k)
        PROVE  BusInv'
    <2>1. UNCHANGED <<procs, topic, life, threads, forgotten>> /\ services' = services
      BY <1>2 DEF Evict
    <2>2. RegistryOK' /\ CacheOK' /\ DOMAIN cache' \subseteq DOMAIN cache
      BY <1>2, <2>1 DEF Evict, BusInv, RegistryOK, CacheOK, Drop
    <2>3. QED
      BY <2>1, <2>2, CacheShrinks
  <1>3. QED
    BY <1>1, <1>2

LEMMA ReceiveKeeps ==
  ASSUME BusInv, Receive \/ ReceiveUncommitted \/ ReceiveOwn
  PROVE  BusInv'
  <1>1. UNCHANGED <<procs, life, threads>>
    BY DEF Receive, ReceiveUncommitted, ReceiveOwn
  <1>2. CASE Receive
    BY <1>1, <1>2, TopicHead, MessageKeeps DEF Receive, BusInv
  <1>3. topic' = topic => TopicOK'
    BY <1>1, QuietKeeps DEF BusInv
  <1>4. CASE ReceiveUncommitted
    BY <1>1, <1>3, <1>4, TopicHead, MessageKeeps DEF ReceiveUncommitted, BusInv
  <1>5. CASE ReceiveOwn
    <2>1. Message("keep-alive", Self).event # "remove-token"
      BY DEF Message
    <2>2. QED
      BY <1>1, <1>3, <1>5, <2>1, MessageKeeps DEF ReceiveOwn
  <1>6. QED
    BY <1>2, <1>4, <1>5

-----------------------------------------------------------------------------
(* The theorems.                                                           *)

LEMMA BusInvariant == Spec => []BusInv
  <1>1. Init => BusInv
    <2> SUFFICES ASSUME Init PROVE BusInv
      OBVIOUS
    <2>1. ProcsOK /\ LifeOK
      BY BusAssumption DEF Init, ProcsOK, LifeOK, States
    <2>2. TopicOK
      BY DEF Init, TopicOK
    <2>3. RegistryOK /\ CacheOK
      BY DEF Init, RegistryOK, CacheOK
    <2>4. ThreadsOK
      BY DEF Init, ThreadsOK, ThreadTypes, ThreadOK
    <2>5. forgotten = {}
      BY DEF Init
    <2>6. QED
      BY <2>1, <2>2, <2>3, <2>4, <2>5 DEF BusInv, RemovedTokenForgotten
  <1>2. BusInv /\ [Next]_vars => BusInv'
    <2> SUFFICES ASSUME BusInv, [Next]_vars PROVE BusInv'
      OBVIOUS
    <2>1. CASE UNCHANGED vars
      <3>1. /\ UNCHANGED <<procs, topic, life, threads, forgotten>>
            /\ services' = services /\ cache' = cache
        BY <2>1 DEF vars
      <3>2. RegistryOK' /\ CacheOK'
        BY <3>1 DEF BusInv, RegistryOK, CacheOK
      <3>3. QED
        BY <3>1, <3>2, CacheShrinks
    <2>2. QED
      BY <2>1, ProcessKeeps, LifeKeeps, ReceiveKeeps, AuthorizedKeeps, ValidateKeeps,
         RetrieveKeeps, TimeKeeps DEF Next
  <1>3. QED
    BY <1>1, <1>2, PTL DEF Spec

\* Registry, topic, cache and threads keep to their types; only tokens that
\* the security service has issued are cached or waiting to be.
THEOREM BusTypeCorrect == Spec => []BusTypeOK
  <1>1. BusInv => BusTypeOK
    BY InvImplies
  <1>2. QED
    BY <1>1, BusInvariant, PTL

\* Once the removal of a token is handled with no confirmation of it on its
\* way, no thread, message or repetition of a message caches it again.
THEOREM ForgottenTheorem == Spec => []RemovedTokenForgotten
  <1>1. BusInv => RemovedTokenForgotten
    BY InvImplies
  <1>2. QED
    BY <1>1, BusInvariant, PTL
=============================================================================
