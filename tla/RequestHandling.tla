--------------------------- MODULE RequestHandling ---------------------------
(***************************************************************************)
(* The way of a request to its handler (RESTAPIHandler::handleRequest):    *)
(* body, rate limit, method, authorization by API key (AuthClient) or      *)
(* otherwise, and the handler.  Server threads serve requests of one       *)
(* client at the same time; the limiter and the key cache are shared.      *)
(*                                                                         *)
(* The limiter keeps one counter per path and client, in a cache of        *)
(* limited size that all clients share.  It hands out shared pointers: two *)
(* threads may change the same counter without a lock, or replace one that *)
(* another thread still holds; and the cache may drop it at any time.      *)
(*                                                                         *)
(* Session tokens are in ServiceBus: here they are accepted or not.        *)
(***************************************************************************)
EXTENDS Naturals, Sequences, FiniteSets

CONSTANTS
  Threads,       \* the threads of the server
  Period,        \* RateLimit::Interval
  MaxCalls,      \* RateLimit::MaxCalls
  KeyEnd,        \* expiresOn of the API key
  CacheLife,     \* how long the key cache keeps an entry
  Horizon,       \* bound on the clock
  MaxRequests    \* bound on the requests of the client

ASSUME HandlingAssumption ==
  /\ IsFiniteSet(Threads)
  /\ {Period, MaxCalls, KeyEnd, CacheLife, Horizon, MaxRequests} \subseteq Nat
  /\ 0 \notin {Period, MaxCalls}

VARIABLES
  req,       \* per thread: the request it serves
  served,    \* requests begun
  counters,  \* the counters of the limiter, in the order they were made
  cached,    \* the one in its cache; 0 when there is none
  keyCache,  \* the cached API key
  keyGood,   \* whether the security service confirms the key
  clock,
  calls,     \* log: when each call reached the limiter
  admitted,  \* log: the same for those that passed
  raced      \* whether two threads were in the limiter at the same time

limiterVars == <<counters, cached>>
observedVars == <<calls, admitted, raced>>
limitVars == <<limiterVars, observedVars>>
keyVars == <<keyCache, keyGood>>
handlingVars == <<req, served, limitVars, keyVars, clock>>

NoKey == [kept |-> FALSE, since |-> 0]
Idle ==
  [at |-> "idle", route |-> "", limited |-> FALSE, authorize |-> FALSE,
   credential |-> "", known |-> FALSE, held |-> 0, now |-> 0, read |-> 0,
   answer |-> "none"]

HandlingInit ==
  /\ req = [t \in Threads |-> Idle]
  /\ served = 0
  /\ counters = <<>> /\ cached = 0
  /\ keyCache = NoKey /\ keyGood = TRUE
  /\ clock = 0
  /\ calls = <<>> /\ admitted = <<>> /\ raced = FALSE

At(t, p) == req[t].at = p
Go(t, p) == req' = [req EXCEPT ![t].at = p]
Answer(t, a) ==
  req' = [req EXCEPT ![t] = [Idle EXCEPT !.at = "done", !.answer = a,
                               !.credential = req[t].credential,
                               !.known = req[t].known]]

InLimiter == {t \in Threads : req[t].at \in {"compare", "count", "over"}}

\* The request passes the limiter, to ContinueProcessing.
Admit(t) ==
  /\ req' = [req EXCEPT ![t].at = "method", ![t].held = 0, ![t].now = 0, ![t].read = 0]
  /\ admitted' = Append(admitted, req[t].now)

-----------------------------------------------------------------------------
\* A request for the route r with credential c: the router makes the handler,
\* handleRequest parses the body or throws.
Begin(t, r, c) ==
  /\ At(t, "idle") \/ At(t, "done")
  /\ served < MaxRequests
  /\ served' = served + 1
  /\ req' = [req EXCEPT ![t] =
       [Idle EXCEPT !.at = IF r.limited THEN "lookup" ELSE "method",
                    !.route = r.name, !.limited = r.limited,
                    !.authorize = r.authorize, !.credential = c,
                    !.known = keyGood]]
  /\ UNCHANGED <<limitVars, keyVars, clock>>

BadBody(t) ==
  /\ At(t, "idle") \/ At(t, "done")
  /\ served < MaxRequests
  /\ served' = served + 1
  /\ req' = [req EXCEPT ![t] = [Idle EXCEPT !.at = "done", !.answer = "400"]]
  /\ UNCHANGED <<limitVars, keyVars, clock>>

-----------------------------------------------------------------------------
(* RESTAPI_RateLimiter::IsRateLimited.                                     *)

RateLookup(t) ==
  /\ At(t, "lookup")
  /\ req' = [req EXCEPT ![t].at = "compare", ![t].held = cached, ![t].now = clock]
  /\ calls' = Append(calls, clock)
  /\ raced' = (raced \/ InLimiter # {})
  /\ UNCHANGED <<served, limiterVars, admitted, keyVars, clock>>

RateNew(t) ==
  /\ At(t, "compare") /\ req[t].held = 0
  /\ counters' = Append(counters, [start |-> req[t].now, count |-> 1])
  /\ cached' = Len(counters) + 1
  /\ Admit(t)
  /\ UNCHANGED <<served, calls, raced, keyVars, clock>>

\* Mutant: the period includes the moment that ends it.
InPeriodLong(t) == req[t].now <= counters[req[t].held].start + Period

\* The entry was looked at before the clock: the difference may be negative.
InPeriod(t) == req[t].now < counters[req[t].held].start + Period

RateRead(t) ==
  /\ At(t, "compare") /\ req[t].held # 0 /\ InPeriod(t)
  /\ req' = [req EXCEPT ![t].at = "count", ![t].read = counters[req[t].held].count]
  /\ UNCHANGED <<served, limitVars, keyVars, clock>>

RateCount(t) ==
  /\ At(t, "count")
  /\ counters' = [counters EXCEPT ![req[t].held].count = req[t].read + 1]
  /\ cached' = req[t].held
  /\ Go(t, "over")
  /\ UNCHANGED <<served, observedVars, keyVars, clock>>

RateOver(t) ==
  /\ At(t, "over")
  /\ IF counters[req[t].held].count > MaxCalls
     THEN Answer(t, "limited") /\ UNCHANGED admitted
     ELSE Admit(t)
  /\ UNCHANGED <<served, limiterVars, calls, raced, keyVars, clock>>

RateReset(t) ==
  /\ At(t, "compare") /\ req[t].held # 0 /\ ~InPeriod(t)
  /\ counters' = [counters EXCEPT ![req[t].held] = [start |-> req[t].now, count |-> 1]]
  /\ cached' = req[t].held
  /\ Admit(t)
  /\ UNCHANGED <<served, calls, raced, keyVars, clock>>

\* The cache is full of counters of other paths and clients, or the counter
\* has not been touched for long: it is dropped, and the next call finds none.
Evict ==
  /\ cached # 0
  /\ cached' = 0
  /\ UNCHANGED <<req, served, counters, observedVars, keyVars, clock>>

-----------------------------------------------------------------------------
\* ContinueProcessing: OPTIONS and methods the route does not have end here.
Method(t) ==
  /\ At(t, "method")
  /\ \/ Answer(t, "options")
     \/ Answer(t, "400")
     \/ Go(t, IF req[t].authorize THEN "authorize" ELSE "handle")
  /\ UNCHANGED <<served, limitVars, keyVars, clock>>

Token(t) ==
  /\ At(t, "authorize") /\ req[t].credential # "key"
  /\ Go(t, "handle") \/ Answer(t, "403")
  /\ UNCHANGED <<served, limitVars, keyVars, clock>>

-----------------------------------------------------------------------------
(* AuthClient::IsValidApiKey and RetrieveApiKeyInformation.                *)

KeyFound == keyCache.kept /\ clock <= keyCache.since + CacheLife

\* Mutant: the cached key is used while it lasts.
KeyLookupTrusting(t) ==
  /\ At(t, "authorize") /\ req[t].credential = "key"
  /\ IF KeyFound THEN Go(t, "handle") ELSE Go(t, "ask")
  /\ UNCHANGED <<served, limitVars, keyVars, clock>>

\* The cached key is used once its time has passed, and removed before that.
KeyLookup(t) ==
  /\ At(t, "authorize") /\ req[t].credential = "key"
  /\ IF KeyFound /\ KeyEnd < clock
     THEN Go(t, "handle") /\ UNCHANGED keyCache
     ELSE Go(t, "ask") /\ keyCache' = NoKey
  /\ UNCHANGED <<served, limitVars, keyGood, clock>>

KeyConfirmed(t) ==
  /\ At(t, "ask") /\ keyGood
  /\ Go(t, "store")
  /\ UNCHANGED <<served, limitVars, keyVars, clock>>

KeyStore(t) ==
  /\ At(t, "store")
  /\ keyCache' = [kept |-> TRUE, since |-> clock]
  /\ Go(t, "handle")
  /\ UNCHANGED <<served, limitVars, keyGood, clock>>

\* Refused, an answer that is not understood, or none.
KeyRefused(t) ==
  /\ At(t, "ask")
  /\ Answer(t, "403")
  /\ UNCHANGED <<served, limitVars, keyVars, clock>>

-----------------------------------------------------------------------------
\* The handler answers; handleRequest answers 400 when it throws.
Handle(t) ==
  /\ At(t, "handle") /\ req[t].route # "topology"
  /\ Answer(t, "handled") \/ Answer(t, "400")
  /\ UNCHANGED <<served, limitVars, keyVars, clock>>

Tick ==
  /\ clock < Horizon
  /\ clock' = clock + 1
  /\ UNCHANGED <<req, served, limitVars, keyVars>>

\* The security service deletes the key.
DropKey ==
  /\ keyGood
  /\ keyGood' = FALSE
  /\ UNCHANGED <<req, served, limitVars, keyCache, clock>>

ThreadStep(t) ==
  \/ RateLookup(t) \/ RateNew(t) \/ RateRead(t) \/ RateCount(t) \/ RateOver(t)
  \/ RateReset(t) \/ Method(t) \/ Token(t) \/ KeyLookup(t) \/ KeyConfirmed(t)
  \/ KeyStore(t) \/ KeyRefused(t) \/ Handle(t)

-----------------------------------------------------------------------------
(* Properties.                                                             *)

\* The entries of a log in the period that begins at i.
InSpan(log, i) == {k \in DOMAIN log : i <= log[k] /\ log[k] < i + Period}
Polite == \A i \in 0..Horizon : Cardinality(InSpan(calls, i)) <= MaxCalls

\* While no two requests were in IsRateLimited at once, a client that makes
\* no more than MaxCalls calls in any Interval is never limited, and none
\* gets more through in an Interval than twice MaxCalls (windows are fixed,
\* not sliding) and MaxCalls more for each time the cache lost the counter
\* and it was made anew.  Otherwise a client may be limited too early or too
\* late, but never before it has made more than MaxCalls calls at all.
LimitHonest ==
  /\ ~raced =>
       /\ Polite => \A t \in Threads : req[t].answer # "limited"
       /\ \A i \in 0..Horizon :
              Cardinality(InSpan(admitted, i)) <= (Len(counters) + 1) * MaxCalls
  /\ (\E t \in Threads : req[t].answer = "limited") => Len(calls) > MaxCalls

\* A key that the security service no longer confirms is of no use to later
\* requests as long as its time has not passed: the cached copy is not used.
DroppedKeyRefused ==
  \A t \in Threads :
    req[t].at = "handle" /\ req[t].authorize /\ req[t].credential = "key" /\ ~req[t].known
      => KeyEnd < clock
=============================================================================
