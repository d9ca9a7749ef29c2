---------------------------- MODULE ServiceBus ----------------------------
(***************************************************************************)
(* The service registry and the token cache of the portal, both fed by the *)
(* service_events topic (MicroService.cpp, EventBusManager.cpp,            *)
(* KafkaManager.cpp, AuthClient.cpp).                                      *)
(*                                                                         *)
(* The registry maps the private endpoint of a service to the time it was  *)
(* last heard of.  A call goes to the first endpoint of its kind, alive or *)
(* not.  The services modelled are instances of the security service, and  *)
(* the calls the validations of tokens; positive answers are cached.       *)
(* The topic has one partition, so its messages are in one order; those of *)
(* a service that stops may be lost with its queue, and a message may be   *)
(* handled again before it is committed.                                   *)
(***************************************************************************)
EXTENDS Integers, Sequences, FiniteSetsExt

CONSTANTS
  Ids,         \* processes of the security service
  EndPoint,    \* the private endpoint (a number, for its order) of each process
  Self,        \* the portal's own identifier
  Tokens,      \* session tokens
  NoToken,     \* no token
  Threads,     \* request-handling threads
  Zombie,      \* age at which a silent service is dropped (120 s)
  Lifetime,    \* age at which a cached token is dropped (1200 s)
  MaxStarts    \* bound on how often processes start

ASSUME BusAssumption ==
  /\ EndPoint \in [Ids -> Nat]
  /\ Self \notin Ids /\ NoToken \notin Tokens
  /\ Zombie \in Nat /\ Lifetime \in Nat \ {0} /\ MaxStarts \in Nat

EndPoints == {EndPoint[i] : i \in Ids}

VARIABLES
  up,         \* processes that run
  starts,     \* number of starts so far (bound)
  topic,      \* messages not yet committed by the portal, oldest first
  services,   \* Services_: age of every registered endpoint
  life,       \* per token: how far the security service is with it
  cache,      \* Cache_: age of every cached token
  pc, token,  \* per thread: control point and token being validated
  confirmed,  \* per thread: the security service's answer
  forgotten   \* history: tokens removed while no confirmation was on its way

procs == <<up, starts>>
threads == <<pc, token, confirmed>>
vars == <<procs, topic, services, life, cache, threads, forgotten>>

-----------------------------------------------------------------------------
(* Maps from some keys to ages.                                            *)

Keep(ages, keys) == [k \in DOMAIN ages \cap keys |-> ages[k]]
Drop(ages, k) == [x \in DOMAIN ages \ {k} |-> ages[x]]
Fresh(ages, k) == [x \in DOMAIN ages \cup {k} |-> IF x = k THEN 0 ELSE ages[x]]

\* The first endpoint in the order of the map: the only one a call tries.
First(reg) == Min(DOMAIN reg)

Alive(e) == \E i \in up : EndPoint[i] = e

-----------------------------------------------------------------------------
(* Messages: EventBusManager::run in every process, and token removals.    *)

Message(event, from) == [event |-> event, from |-> from, token |-> NoToken]
Post(m) == topic' = Append(topic, m)

\* A process starts and announces itself.
Join(i) ==
  /\ i \notin up
  /\ starts < MaxStarts
  /\ up' = up \cup {i}
  /\ starts' = starts + 1
  /\ Post(Message("join", i))
  /\ UNCHANGED <<services, life, cache, threads, forgotten>>

\* The bus timer, once the messages before are handled (bound on the topic).
KeepAlive(i) ==
  /\ i \in up
  /\ \A n \in 1 .. Len(topic) : topic[n].from # i
  /\ Post(Message("keep-alive", i))
  /\ UNCHANGED <<procs, services, life, cache, threads, forgotten>>

\* A process stops.  Its last message may be lost: the producer does not send
\* what is still queued when it is told to stop, and a crash sends nothing.
Leave(i) ==
  /\ i \in up
  /\ up' = up \ {i}
  /\ Post(Message("leave", i)) \/ UNCHANGED topic
  /\ UNCHANGED <<starts, services, life, cache, threads, forgotten>>

\* A user logs in, and the security service issues the token.
Issue(k) ==
  /\ up # {} /\ life[k] = "none"
  /\ life' = [life EXCEPT ![k] = "valid"]
  /\ UNCHANGED <<procs, topic, services, cache, threads, forgotten>>

\* The security service revokes a token and says so, or fails to.
Revoke(k) ==
  /\ life[k] = "valid"
  /\ life' = [life EXCEPT ![k] = "revoked"]
  /\ \E i \in up : \/ Post([event |-> "remove-token", from |-> i, token |-> k])
                   \/ UNCHANGED topic
  /\ UNCHANGED <<procs, services, cache, threads, forgotten>>

\* A token, revoked or not, reaches the end of its own lifetime.
Expire(k) ==
  /\ life[k] \in {"valid", "revoked"}
  /\ life' = [life EXCEPT ![k] = "expired"]
  /\ UNCHANGED <<procs, topic, services, cache, threads, forgotten>>

-----------------------------------------------------------------------------
(* Handling a message.                                                     *)

\* Mutant: a keep-alive refreshes an entry and never adds one.
HeardRefreshing(reg, m) ==
  CASE m.event = "join" -> Fresh(reg, EndPoint[m.from])
    [] m.event = "keep-alive" ->
         IF EndPoint[m.from] \in DOMAIN reg THEN Fresh(reg, EndPoint[m.from]) ELSE reg
    [] m.event = "leave" -> Drop(reg, EndPoint[m.from])
    [] OTHER -> reg

\* The registry after the message of another service.
Heard(reg, m) ==
  CASE m.event \in {"join", "keep-alive"} -> Fresh(reg, EndPoint[m.from])
    [] m.event = "leave" -> Drop(reg, EndPoint[m.from])
    [] OTHER -> reg

\* Entries that have not been heard of for too long are dropped.
Sweep(reg) == Keep(reg, {e \in DOMAIN reg : reg[e] <= Zombie})

\* Mutant: the removal is not applied to the cache.
RemovedCachedTokenIgnored(m) == UNCHANGED cache

RemovedCachedToken(m) == cache' = Drop(cache, m.token)

OnItsWay(k) ==
  \E t \in Threads : pc[t] = "retrieve" /\ token[t] = k /\ confirmed[t]

\* Mutant: the portal's own messages are ignored altogether.
BusMessageReceivedForeign(m) ==
  /\ services' = IF m.from = Self THEN services ELSE Sweep(Heard(services, m))
  /\ IF m.event = "remove-token" THEN RemovedCachedToken(m) ELSE UNCHANGED cache
  /\ UNCHANGED forgotten

\* Every message, the portal's own ones too, ends with a sweep.
BusMessageReceived(m) ==
  /\ services' = Sweep(IF m.from = Self THEN services ELSE Heard(services, m))
  /\ IF m.event = "remove-token" THEN RemovedCachedToken(m) ELSE UNCHANGED cache
  /\ forgotten' = IF m.event = "remove-token" /\ ~OnItsWay(m.token)
                  THEN forgotten \cup {m.token} ELSE forgotten

\* The consumer handles the next message and commits it.
Receive ==
  /\ topic # <<>>
  /\ BusMessageReceived(Head(topic))
  /\ topic' = Tail(topic)
  /\ UNCHANGED <<procs, life, threads>>

\* The same, but the commit is lost: the message will come again.
ReceiveUncommitted ==
  /\ topic # <<>>
  /\ BusMessageReceived(Head(topic))
  /\ UNCHANGED <<procs, topic, life, threads>>

\* The portal's own keep-alive comes back to it.  It changes nothing before
\* it is received, so its place in the topic does not matter.
ReceiveOwn ==
  /\ BusMessageReceived(Message("keep-alive", Self))
  /\ UNCHANGED <<procs, topic, life, threads>>

-----------------------------------------------------------------------------
(* Authorising a request.                                                  *)

Done(t) ==
  /\ pc' = [pc EXCEPT ![t] = "idle"]
  /\ token' = [token EXCEPT ![t] = NoToken]
  /\ confirmed' = [confirmed EXCEPT ![t] = FALSE]

\* Mutant: a hit renews the entry.
IsAuthorizedRenewing(t, k) ==
  /\ pc[t] = "idle"
  /\ \/ /\ k \in DOMAIN cache
        /\ cache' = Fresh(cache, k)
        /\ UNCHANGED <<pc, token, confirmed>>
     \/ /\ k \notin DOMAIN cache
        /\ pc' = [pc EXCEPT ![t] = "validate"]
        /\ token' = [token EXCEPT ![t] = k]
        /\ UNCHANGED <<cache, confirmed>>
  /\ UNCHANGED <<procs, topic, services, life, forgotten>>

\* A request with token k: the cache decides, or the security service is asked.
IsAuthorized(t, k) ==
  /\ pc[t] = "idle"
  /\ \/ /\ k \in DOMAIN cache /\ life[k] # "expired"
        /\ UNCHANGED <<cache, pc, token, confirmed>>
     \/ /\ k \in DOMAIN cache /\ life[k] = "expired"
        /\ cache' = Drop(cache, k)
        /\ UNCHANGED <<pc, token, confirmed>>
     \/ /\ k \notin DOMAIN cache
        /\ pc' = [pc EXCEPT ![t] = "validate"]
        /\ token' = [token EXCEPT ![t] = k]
        /\ UNCHANGED <<cache, confirmed>>
  /\ UNCHANGED <<procs, topic, services, life, forgotten>>

\* The first registered endpoint is asked, and answers if a process is there;
\* otherwise, or without an entry, the request is denied.
Validate(t) ==
  /\ pc[t] = "validate"
  /\ \/ /\ DOMAIN services # {} /\ Alive(First(services))
        /\ pc' = [pc EXCEPT ![t] = "retrieve"]
        /\ confirmed' = [confirmed EXCEPT ![t] = life[token[t]] = "valid"]
        /\ UNCHANGED token
     \/ Done(t)
  /\ UNCHANGED <<procs, topic, services, life, cache, forgotten>>

\* Mutant: an answer is cached without a look at it.
RetrieveTokenInformationAny(t) ==
  /\ pc[t] = "retrieve"
  /\ cache' = Fresh(cache, token[t])
  /\ Done(t)
  /\ UNCHANGED <<procs, topic, services, life, forgotten>>

\* The answer arrives; a confirmed token that has not expired is cached.
RetrieveTokenInformation(t) ==
  /\ pc[t] = "retrieve"
  /\ IF confirmed[t] /\ life[token[t]] # "expired"
     THEN cache' = Fresh(cache, token[t])
     ELSE UNCHANGED cache
  /\ Done(t)
  /\ UNCHANGED <<procs, topic, services, life, forgotten>>

\* The cache is full and drops an entry.
Evict(k) ==
  /\ k \in DOMAIN cache
  /\ cache' = Drop(cache, k)
  /\ UNCHANGED <<procs, topic, services, life, threads, forgotten>>

\* Time passes.  Ages are counted as far as they matter; the cache does not
\* return an entry that has reached its lifetime.
Tick ==
  /\ services' = [e \in DOMAIN services |->
                    IF services[e] > Zombie THEN services[e] ELSE services[e] + 1]
  /\ cache' = [k \in {x \in DOMAIN cache : cache[x] + 1 < Lifetime} |-> cache[k] + 1]
  /\ UNCHANGED <<procs, topic, life, threads, forgotten>>

-----------------------------------------------------------------------------
Init ==
  /\ up = {}
  /\ starts = 0
  /\ topic = <<>>
  /\ services = [e \in {} |-> 0]
  /\ life = [k \in Tokens |-> "none"]
  /\ cache = [k \in {} |-> 0]
  /\ pc = [t \in Threads |-> "idle"]
  /\ token = [t \in Threads |-> NoToken]
  /\ confirmed = [t \in Threads |-> FALSE]
  /\ forgotten = {}

Next ==
  \/ \E i \in Ids : Join(i) \/ Leave(i) \/ KeepAlive(i)
  \/ \E k \in Tokens : Issue(k) \/ Revoke(k) \/ Expire(k) \/ Evict(k)
  \/ Receive \/ ReceiveUncommitted \/ ReceiveOwn
  \/ \E t \in Threads, k \in Tokens : IsAuthorized(t, k)
  \/ \E t \in Threads : Validate(t) \/ RetrieveTokenInformation(t)
  \/ Tick

\* Time passes, the bus timer of a running process goes off, and the consumer
\* is given the messages of the topic.  Nobody has to start, stop or ask.
Fairness ==
  /\ WF_vars(Tick)
  /\ WF_vars(Receive)
  /\ WF_vars(ReceiveOwn)
  /\ \A i \in Ids : WF_vars(KeepAlive(i))

Spec == Init /\ [][Next]_vars /\ Fairness

-----------------------------------------------------------------------------
(* Properties.                                                             *)

Messages ==
  [event : {"join", "keep-alive", "leave"}, from : Ids, token : {NoToken}]
    \cup [event : {"remove-token"}, from : Ids, token : Tokens]

\* Types; in particular only tokens that the security service has issued
\* are ever cached or waiting to be (RetrieveTokenInformation).
BusTypeOK ==
  /\ up \subseteq Ids /\ starts \in 0 .. MaxStarts
  /\ topic \in Seq(Messages)
  /\ DOMAIN services \subseteq EndPoints
  /\ \A e \in DOMAIN services : services[e] \in 0 .. Zombie + 1
  /\ life \in [Tokens -> {"none", "valid", "revoked", "expired"}]
  /\ DOMAIN cache \subseteq {k \in Tokens : life[k] # "none"}
  /\ \A k \in DOMAIN cache : cache[k] \in 0 .. Lifetime - 1
  /\ pc \in [Threads -> {"idle", "validate", "retrieve"}]
  /\ token \in [Threads -> Tokens \cup {NoToken}]
  /\ confirmed \in [Threads -> BOOLEAN]
  /\ forgotten \subseteq Tokens
  /\ \A t \in Threads :
       /\ pc[t] # "idle" <=> token[t] # NoToken
       /\ confirmed[t] => pc[t] = "retrieve" /\ life[token[t]] # "none"

\* A token whose removal was handled while no confirmation of it was on its
\* way is gone for good: nothing caches it again, however late the requests
\* that were already asking about it (RemovedCachedToken,
\* RetrieveTokenInformation).  With a confirmation on its way it may be cached
\* once more, see RevocationTakesHold.
RemovedTokenForgotten ==
  \A k \in forgotten : k \notin DOMAIN cache /\ life[k] # "valid" /\ ~OnItsWay(k)

\* A revoked token is not authorised for ever, even if its removal is lost or
\* overtaken by a confirmation: cache entries are not renewed by use.
RevocationTakesHold ==
  \A k \in Tokens : life[k] = "revoked" ~> [](k \notin DOMAIN cache)

\* If from some time on one endpoint and no other has a running process, calls
\* reach it again and again: dead endpoints before it are swept, and the late
\* message of a predecessor at the same endpoint, which removes it from the
\* registry, is made up for (BusMessageReceived, OpenAPIRequest...::Do).
StableServiceReached ==
  \A e \in EndPoints :
    <>[](\A x \in EndPoints : Alive(x) <=> x = e)
      => []<>(DOMAIN services # {} /\ First(services) = e)

\* When every service is gone, however it went, the registry becomes empty:
\* the portal's own messages keep the sweep going.
DeadServicesForgotten == <>[](up = {}) => <>[](DOMAIN services = {})
===========================================================================
