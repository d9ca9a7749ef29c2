# Verification of the WLAN cloud user portal

TLA+ models, TLC runs and TLAPS proofs for the OpenWiFi user portal service
(`src/`, C++). The portal sits between a subscriber's app and the services that hold the
real state. It keeps almost nothing itself: its correctness is that of **sequences of
downstream calls without a transaction**, run by several request threads at once, any of
which may fail half way or time out and be carried out later.

## 1. Inventory

### Parts, state, operations

| Part | State it keeps or changes | Operations | Source |
|---|---|---|---|
| Configure action | gateway and mesh configurations (in owgw), client-access rules (in the parental-control service) | POST `/action?action=configure` with `ssid` and/or `client` | `RESTAPI_action_handler.cpp`, `SDK_gw.cpp` |
| Parental-control mutations | rules in the parental-control service; `config-raw` on the gateway | nine POST/PUT/DELETE handlers of groups, group devices, group schedules, schedules | `RESTAPI_parental_control_utils.cpp`, the group and schedule handlers, `SDK_parental_control.cpp` |
| Schedule times | schedules in UTC in the service, the zone of the subscriber's location | validate, convert to UTC, convert back, evaluate `blocked_until` | `RESTAPI_parental_control_utils.cpp` |
| Subscriber location | a venue and a location in owprov | POST, PUT, DELETE, GET | `RESTAPI_subscriber_location_handler.cpp` |
| Device onboarding | subscriber-device records in owprov | POST, DELETE `/subscriber/devices/{mac}` | `RESTAPI_subscriber_devices_handler.cpp`, `ConfigMaker.cpp` |
| Device commands | running configuration and firmware of a device | reboot, blink, upgrade, factory | `RESTAPI_action_handler.cpp` |
| Topology | none (six reads of other services) | GET `/topology` | `RESTAPI_topology_handler.cpp`, `SDK_nw_topology.cpp` |
| Clients, statistics | none (reads); a statistics ring that nothing fills here | GET | `RESTAPI_wifiClients_handler.cpp`, `StatsSvr.cpp`, ... |
| REST objects | the records that services exchange | `from_json`, `to_json` of 173 classes | `RESTObjects/`, `framework/RESTAPI_utils.h` |
| Sign-up, login, MFA | none here (owsec, owprov) | forwarded calls | `RESTAPI_subscriber_handler.cpp`, `RESTAPI_oauth2_handler.cpp`, ... |
| Request handling | rate-limit counters, routing | authorise, limit, parse, dispatch | `framework/RESTAPI_Handler.h`, `RESTAPI_RateLimiter.h` |
| Token cache | validated tokens and API keys | validate, remove on a bus message | `framework/AuthClient.cpp` |
| Service registry and bus | live services by endpoint; Kafka queues and threads | join, keep-alive, leave, zombie removal, start, stop | `framework/MicroService.cpp`, `EventBusManager.cpp`, `KafkaManager.cpp` |
| Process | the threads of the server, the bus, the producer and the consumer | start and stop in order | `framework/MicroService.cpp`, `Daemon.cpp` |
| UI web sockets (never started here) | connection list, cleaner thread | connect, message, end, stop | `framework/UI_WebSocketClientServer.cpp` |
| Outgoing requests | none | one HTTP call with a timeout (60 to 120 s) | `framework/OpenAPIRequests.cpp` |

### How they interact

Request threads of the REST server run handlers to completion and share no lock. A
handler calls owprov (devices, venues, locations, records), owgw (get and push a
device's configuration), owsec (users, tokens) and the parental-control service through
`OpenAPIRequests`. The answer of a parental-control mutation may carry `config-raw`, a
snapshot of **all** of a subscriber's rules, which the portal then writes into the
gateway's configuration with a second and third call. Other instances, and the removal of
tokens, are learned from Kafka messages handled on another thread.

### What is hard here

* fetch-edit-push of a whole configuration by two threads (lost updates), and pushing
  snapshots in another order than they were taken;
* a failure between two calls of one request, and the retry that follows it;
* a call that timed out here and is carried out later, over newer state;
* a decision taken from a list read several calls earlier (first device = gateway);
* threads told to stop while they are busy, and events on their way through a queue;
* counters and cached keys shared by request threads without a lock;
* records converted member by member, in two directions, by hand;
* time: local to UTC and back, weekdays, windows over midnight, daylight saving, and a
  clock read twice with calls in between.

`PROJECT.json` ("hazards") lists each with its line and the properties that cover it.
What makes each part correct: the two kinds of device keep their own sections and every
device's settings come from where they should (configure, mutations, onboarding); a
rejected request did nothing; an undisturbed success really holds and repairs whatever
was left before it; failures alone leave nothing dangling (location); what is blocked is
what was asked for (times); every request is answered; events go out in order and a
stop comes to an end (process); a client is limited only for what it did, and a dropped
key is refused while its time has not passed (requests; after that the cached copy is
accepted, see section 6); the nodes and edges of an answer are the subscriber's own
(topology; the historical clients are those of the whole board); a record that is read and
sent on is the same record (objects).

## 2. Modules

| Module | Models | Kind |
|---|---|---|
| `ConfigSync` | configure action and parental-control mutations against three stores | specification |
| `MCConfigSync` | its small instances | for TLC |
| `ConfigSyncProofs` | seven theorems about `ConfigSync` | proofs |
| `SubscriberLocation`, `MCSubscriberLocation`, `SubscriberLocationProofs` | subscriber location | specification, for TLC, proofs |
| `ParentalTime`, `MCParentalTime`, `ParentalTimeProofs` | schedule times, timed blocks, `blocked_until` | specification, for TLC, proofs |
| `Onboarding`, `MCOnboarding`, `OnboardingProofs` | adding and deleting devices | specification, for TLC, proofs |
| `ServiceBus`, `MCServiceBus`, `ServiceBusProofs` | service registry, message bus and token cache | specification, for TLC, proofs |
| `MessageFeed` | what Kafka promises to a poster of messages | abstract specification |
| `Workers`, `WorkersProofs` | main, bus, producer and consumer threads; implements `MessageFeed` | specification, proofs |
| `RequestHandling` | the way of a request to its handler: rate limiter, API keys | component |
| `Topology` | GET `/topology` | component |
| `Portal`, `MCPortal`, `PortalProofs` | the process: `Workers`, `RequestHandling` and `Topology` together | composition, for TLC, proofs |
| `ProvObjects`, `SecurityObjects`, `GWObjects`, `SubObjects`, `PeerObjects` | the classes of REST objects, by their members | tables |
| `ObjectTables`, `ObjectClasses` | the shape of those tables, and all classes together | helpers |
| `RestObjects`, `MCRestObjects`, `RestObjectsProofs` | reading and writing such objects | specification, for TLC, proofs |

Conventions shared by the request-handling modules: `pc[t]` is the control point of a
request thread, named after the next downstream call. **One downstream call is one step**,
and what the handler computes until the next call belongs to it. `Acts(t)` keeps
`alone[t]`, a history variable that is true while nobody but `t` has moved since its
request began. A failed call either had no effect or is put into `late`, from where
`LateArrival` carries it out at any later step, or never. The services are external:
they are modelled by what the portal relies on, and their definitions are marked so in
the map. Definitions whose comment begins with "Mutant" are deliberately wrong versions
of the one that follows; replacing the definition by them shows that a property notices.

### ConfigSync

State: `pcRules` (the service's rules), `gw`, `mesh` (configurations), and per thread
`job`, `orig`/`cfg` (configuration as fetched and as edited, `SetConfig`'s two objects),
`todo` (client entries left), `snap` (`config-raw` of the last answer), `meshTodo`, `http`
and `done` (what `SetConfig` returned). A configuration is reduced to the sections the
code writes: SSID, `config-raw`, addressing, and the shape of its SSID entries as
`ApplySsidOverrides` sees it. `config-raw` is the set of rules in it.

A configure request goes `lookup` (device list) → `get` (fetch, SSID edit) → `client`
(one call per entry) → `configure` (gateway) → `mesh` (each mesh device); a mutation goes
`mutate` → `rawLookup` → `rawGet` → `rawConfigure`. The nine mutation handlers differ only
in what they pass to the helpers they share, so each is a record (`Handler`). What an
answer may look like (`Answers`: snapshot, null, absent, malformed, unparsable) is kept,
because the code treats each differently.

### SubscriberLocation

`venue` (the link), `zones` (the locations that exist), `loc[t]` (the location read from
the venue). `ClearLocation`, `DeleteLocation` and the repair `SetLocation` are the three
steps of DELETE. `raced` records that requests overlapped or a call timed out, `unrestored`
that the repair itself failed.

### ParentalTime

A pure part (zones with one transition, `ToSys` for `choose::earliest`, the two
conversions, the evaluation of rules) and a clock that ticks between the steps of
requests. `wish` remembers what was asked for, the offset used and the window of the day of
the request by the subscriber's clock, so that properties compare the stored UTC schedule
with a definition in local time (`InLocalWindow`, `Reached`). The
midnight check (`CheckBlock`) and the dating (`CreateBlock`) of a timed block are two
steps, as they are two passes in the code.

### Onboarding

`prov` (records of the subscriber), `live` (what each device runs), `ctx[t]` (the
`AddDeviceContext`). POST is five steps from the list to the creation of the record.
An SSID entry is `keyed` if it has an encryption object: `BuildGatewayConfig` skips the
others, so a gateway may keep its factory key. `http` is `forwarded` when an error path
passes on the 200 of a call that failed after it (no configuration in the answer, or an
answer that does not parse): to the client a success, though no record exists.
Around it, `Provision` brings a device to its record, `Reconfigure` stands for configure
requests on the gateway and `Factory` for the factory command, so that the configuration
read by `PrepareMeshConfiguration` may be any that the device can run at that moment.

### ServiceBus

`services` is `Services_` with the age of each entry instead of its `LastUpdate`, `cache`
is `Cache_` likewise, `topic` the messages of `service_events` that the portal has not
committed. The topic has one partition (`partition(0)`), so messages keep one order, but
those of a process that stops may be lost (`Leave`), and a message whose commit fails is
handled again (`ReceiveUncommitted`). `BusMessageReceived` is one step, as it holds
`InfraMutex_`; the portal's own messages take only its last part, the sweep. Validating a
token is three steps (`IsAuthorized`, `Validate`, `RetrieveTokenInformation`), because the
answer of the security service travels while messages are handled. Registered services
are all of the security service here; entries of other types never meet in a call.
Messages that do not parse change nothing and are left out.

### Workers and MessageFeed

`main`, `bus`, `prod` and `cons` are where the four threads are; `queue` and `note` are
`Queue_` and the notification in the producer's hand. `Poco::NotificationQueue` hands an
enqueued message straight to a thread that waits, and `wakeUpAll` reaches only a thread
that waits at that moment: both are modelled, because the order of events and the end of
`Stop` depend on them. `busRunning`, `prodRunning`, `consRunning` are the three
`Running_` flags, which the code sets in other places than it clears them.
`MessageFeed` has the messages posted and not yet sent, and those sent. `Workers`
implements it with `pending` as the message in hand followed by the queue, `delivered` as
the topic and `open` until the producer thread has ended.

### RequestHandling, Topology and Portal

`req[t]` is the request a server thread is busy with. The limiter's look-up, comparison,
read, write back and test are separate steps, as `IsRateLimited` works on a shared pointer
without a lock; `counters` are all counters ever made and `cached` the one in the cache.
The cache has 2048 entries for all paths and clients, which also expire, so `Evict` may drop
the counter at any step; the next call makes another.
`calls` and `admitted` are logs of when calls reached and passed the limiter.
`KeyLookup`, `KeyConfirmed` and `KeyStore` are `IsValidApiKey`. `Topology` has one step per
downstream call; `view[v]` is what the handler has read, and `had` and `zoned`
record which devices were the subscriber's while it ran and which zone each venue was in.
Venue, board and zone are those of the gateway's inventory record when it is read: a gateway
that moved since the list was read shows its new venue, and that is not excluded. Nodes and
edges of the board are filtered, its history is not. In `Portal` requests are accepted
between the start of the REST servers, after Kafka, and their stop, and a topology request
is handled by `Topology` once it has passed `RequestHandling`.

### RestObjects

The tables give for each class its members by kind (text, number, list of objects, ...),
the members without an initializer, and what `to_json` and `from_json` carry, in order.
`RestObjects` reads one or two documents into an object and writes it. A value is only
where it comes from: its initializer, no initializer (indeterminate), the first or second
document, both, something a document did not mean, or the front part of a list. A document
has every member as it should be except at most one, which is absent, null, of a wrong
type, partly wrong or refused by its own `from_json`. Members that end `from_json` with an
exception leave the rest as it was. `from_json` then returns false, except that of the
firmware service's `Firmware`, which is `lenient`: it returns true, and vouches (`Vouched`)
only for what comes before the exception.

## 3. Runs

| Run | Shows |
|---|---|
| `sync` | requests of every kind, valid and rejected, on three shapes of gateway: types; `config-raw` never reaches a mesh device and mesh addressing never the gateway; a 400 means nothing was sent; every request is eventually answered |
| `recovery` | three requests: mesh SSIDs come from the gateway; `config-raw` is always one set the service held; an undisturbed success repairs rules and SSID whatever was left before it |
| `location` | failures alone leave no dangling link and no orphan; an undisturbed success has its effect |
| `time` | stored schedules block as wished, read back as entered, do not drift when saved again; on the day it is saved a window is exact even across a change of the clocks; `blocked_until` is the real end; a timed block lasts its duration |
| `onboarding` | one gateway unless adds overlap or a call times out; records are well formed, also that of a former mesh node that becomes the gateway; an undisturbed `OK()` has its effect |
| `bus` | a removed token stays out of the cache unless a confirmation was under way, and no revoked token stays there for ever; the endpoint that runs is called again and again once the others are gone; the registry forgets services that died without a word |
| `portal` | the process implements `MessageFeed`; a stop ends if the producer waits and the consumer dispatches; the limiter refuses only clients that made too many calls, and without overlapping requests lets through at most twice the limit and once more the limit for each counter the cache lost; a dropped API key is refused while its time has not passed; the nodes and edges of a topology are the subscriber's and its zone is that of the venue shown |
| `objects` | all classes of the repository: a record read and sent on loses nothing and has nothing made up, apart from six classes named in `MCRestObjects` and from what follows an exception in `Firmware`; a document that fails half way leaves exactly its front part; a second document replaces the first except in nested objects and lists of pairs and objects |
| `ok_completed`, `mesh_retry`, `client_rules`, `midnight` | the four disagreements of section 6, as counterexamples |

### Bounds

* `ConfigSync`: two threads (an interleaving of two requests is what a lost update or a
  reordering needs), one mesh device, two SSIDs (change and change back), one client and
  one group rule, two requests with all kinds of jobs or three with the jobs that
  interact: the third is the undisturbed one after two that raced or failed.
* `SubscriberLocation`: two threads, four requests, three identifiers for new locations.
* `ParentalTime`: a three-minute day, so that each minute is first, middle or last of its
  day; zones two minutes east and west (so start, stop or both change day) and two
  whose clocks are put forward or back by a minute at minute 13, in the middle of a horizon
  of nearly nine days
  (the week wraps around, days on either side of the transition are reached); schedules on
  one and on two weekdays, the last of the week included. Three requests: save, move, block.
* `Onboarding`: two threads, two devices of one's own, one of another subscriber, one not
  in the inventory, three requests (two that race or fail, and one more) and a late call;
  longer runs, of up to five requests, are followed only if they are sequential and lose no
  call (`BoundedRuns`): two adds, two deletes and the add of a device that was a mesh node
  before. The two devices that cannot be had occur in the first two requests.
* `ServiceBus`: three processes, two of which share an endpoint (a rolling restart) behind
  one that comes earlier in the registry, and two starts between them: a predecessor and a
  successor in every combination. One token and one thread: tokens do not interact, and
  the race is between a thread and the consumer. Ages are counted up to `Zombie + 1` and
  `Lifetime`; a process sends a keep-alive only when its earlier messages are handled.
* `Portal`: four deployments, since its parts meet only in the main thread: with Kafka, one
  request and two keep-alives (an event in the queue, one in hand, one handed over); without
  Kafka, four calls of a limited route in three units of time, with a limit of one call in
  two units (a window ends and begins again while a second thread still holds its counter);
  two requests with an API key over its end and that of its cache entry; and a topology
  request with two changes while it runs. Two server threads; a gateway, a mesh node and a
  device of a neighbour; two venues, so that the gateway may move, and one time zone, which
  a venue has or not.
* `RestObjects`: two documents (a third meets the same cases as the second).
* The specifications stop at `MaxRequests` (and `Horizon`), so runs do not check for
  deadlock: a quiet system is a legal end. That no request gets stuck is
  `EveryRequestAnswered`.
* Symmetry is used where the permuted values are only compared for equality, never in the
  run with a liveness property.

### Fairness

`ConfigSync` assumes weak fairness of each thread's next step. A thread with a request is
always inside one downstream call or between two; each call is made with a timeout
(`OpenAPIRequests.cpp`), after which it returns a failure that the model includes, so the
thread moves again. Clients (`Submit`) and late calls are under no fairness: nobody
promises them. `ServiceBus` assumes that the clock advances, that the bus timer of a running process
goes off and that the consumer handles the next message (`EventBusManager::run` and the
dispatcher loop do nothing else); nobody is assumed to start, stop, ask or answer.
`Portal` assumes that each of the four threads of `Workers` moves on when it can, and
nothing of clients, requests or of whoever asks the process to stop.
`ServiceBus` never stops, so its run checks for deadlock. The other specifications state
safety only.

## 4. Proofs

The theorems hold for every set of threads, devices, SSIDs, clients, rules, locations and
zones and every number of requests, under `ConstantsAssumption`, `LocationAssumption`,
`OnboardingAssumption` and `BusAssumption` (special values differ from ordinary ones,
requests are well formed, kinds of device are disjoint), `DeploymentsAssumption`,
`ViewersAssumption`, `BoardsAssumption` and `HandlingAssumption` (parameters have their
types, the server threads are finitely many and those that serve topologies, and neither
the period nor the limit of a rate limiter is zero: the code has an interval of 1000 ms and
limits of 10 and 100 calls), `TimeAssumption` (a day has at least one minute, no zone is a
whole day away from UTC, a schedule names at least one weekday and a block lasts at least
one minute) and `ClassesAssumption` (a class reads and writes its own members, each once).
Fairness is not used.

| Theorem | Inductive invariant | Why the strengthening is needed |
|---|---|---|
| `TypeCorrect` | `TypeInv` = `TypeOK` and `ControlInv` | the type of a step's result depends on the kind of job at each control point: only a configure job has `client`, only a mutation has `handler` |
| `SectionsSeparate` | `SectionInv` | a thread that fetched the gateway's configuration before others changed it, and a call that is still `late`, carry configurations too: these must have static addressing when meant for the gateway and be free of `config-raw` when meant for the mesh |
| `MeshFollowsGateway` | `MeshInv` | at `mesh` the configuration in hand has an SSID the gateway has already had, and so has every late mesh call |
| `RawIsIssued` | `RawInv` | fetched configurations, edited configurations, snapshots and late pushes hold rule sets the service issued |
| `RejectionIsClean` | `RejectInv` | `touched` is false at each control point from which a 400 can still be answered |
| `SoloRulesTheorem`, `SoloSsidTheorem` (`ConfigSync`) | `SoloInv` | for a thread that is `alone`: what it fetched is still what the gateway has, what it edited still carries what it asked for, its snapshot is still the rules of the service, and the mesh devices it has already reached run the mesh form of the gateway's configuration |
| `LocationTypeCorrect` | `TypeInv` | that every location has a timezone rests on the body POST accepted, which lives in the request and perhaps in a late call |
| `RepairTheorem` | `RepairInv` | between the steps of DELETE the location exists without its link; the thread in `remove` or `restore` holds it, and no other thread has a request |
| `SoloTheorem` (`SubscriberLocation`) | `SoloInv` | for a thread that is `alone`: the link it read is still the venue's, and at each control point only the request that leads there is under way |
| `OnboardingTypeCorrect` | `TypeInv` | that a device is in the inventory and nobody else's is learned from two calls |
| `RecordsSound` | `RecordInv` | a record is made of what a device runs and waits in a request or a late call: all of them must be sound, a device runs a key of its own or of a former gateway, and one with static addressing (all that `ValidateConfig` lets into a gateway's record) a key of its own |
| `OneGatewayTheorem` | `GatewayInv` | without races only one add is under way and, if it decided that its device is the first, the list is still empty: deletes keep an empty list empty |
| `SoloTheorem` (`Onboarding`) | `SoloInv` | for a thread that is `alone`: the list it decided from is still the list, and a mesh record it prepared still has the key that a gateway runs |
| `WorkersRefineFeed`, `PortalRefinesFeed` | `WorkersInv` | a waiting producer has an empty queue, so handing it a message is posting last; what it holds is nothing unless it checks or sends; before the start it is off, so a closed feed never opens again |
| `TopologyTheorem` | `ViewInv` | everything read so far was the case while the request ran and what holds now is among it: the device list, the zone as that of the venue read before it, and the board as one of that venue, already filtered |
| `DroppedKeyTheorem` | `KeyInv` | a key that was unknown when the request came is still unknown, so what is being stored was known |
| `LimitTheorem` | `LimitInv` | the number of calls alone does not bound a counter that other threads read, reset and write back: `CountBound` says that no counter, and no value read from one, is ahead of the calls made less those still to be counted. Without overlap the last counter counts no more than the calls since its window began, and what was let through before is too old or too little to exceed twice the limit, and the limit once more for each earlier counter, which was evicted (`LoneInv`) |
| `TimeTypeTheorem`, `BlocksTheorem`, `ReadsBackTheorem`, `ResaveTheorem`, `FirstWindowTheorem` | `TimeInv`: `WishInv`, `FirstInv` | the stored schedule is the one asked for, shifted by the offset it was converted with (`Shifted`), or, when the two ends had different offsets, has the ends of the first window in UTC. The rest is arithmetic: shifting back undoes shifting, every window moves with its schedule, `ScheduleUntil` is the end of the open window, and `ToSys` is the first instant at which the clock has reached a local time |
| `TimedBlockTheorem`, `BlockedUntilTheorem` | `TimeInv`: `AccessInv` | a timed rule was dated at one instant, with the duration asked for |
| `SecondReadTheorem`, `FrontPartTheorem` | `ObjInv` | what one document does to a fresh object, member by member up to the first failure, and a second to one read once; for any classes, lenient ones included |
| `BusTypeCorrect`, `ForgottenTheorem` | `BusInv` | removals in the topic are of tokens that are dead, dead tokens stay dead, and only a valid one is confirmed |

Each invariant is proved to hold initially and to be kept by every action, one step per
action; the temporal step combines the three facts.

The refinement is proved as it is checked: the initial states of `Workers` are those of the
feed, and under `WorkersInv` every step is a step of the feed or changes nothing there.

Only model-checked: the liveness properties (`EveryRequestAnswered`, `StopCompletes`,
`RevocationTakesHold`, `StableServiceReached`, `DeadServicesForgotten`: fairness is out of
the prover's reach), and `RelayKeepsAll` and `NothingMadeUp`, which are facts about the
repository's classes and not about all classes. Every other property of a passing run is a theorem.

## 5. Not modelled

* Client lists and statistics: reads that reformat one record. The Daemon does not start
  `StatsSvr`, so its ring is empty.
* Web sockets (`UI_WebSocketClientServer`): framework code that this Daemon does not start.
* Storage and ORM: no handler writes a record through them.
* The handlers of sign-up, login and MFA: parameter checks and one forwarded call each.
* The configuration validator (an embedded schema given to a library), the tables of
  constants and country codes, string helpers, TLS and the health endpoint.
* Query parameters, uploaded files, headers and the text of answers.

Requests enter `ConfigSync`, `SubscriberLocation`, `ParentalTime` and `Onboarding`
authorised and with a syntactically valid body; bodies that a handler itself refuses are
included. Within the modelled parts the following is left out: the JSON traversal
of configurations and of `config-raw` commands, the wording of errors, logging, seconds.

## 6. Disagreements between the code and what is said of it

* `ok_completed`: a configure request is answered 200 ("Action completed successfully")
  although `SetConfig` returned false: the handler drops the result and uses the status of
  the last call, which may be 200.
* `mesh_retry`: after a mesh push failed, the retry finds the gateway already changed,
  returns early and never configures the mesh, contrary to step 6 of its comment.
* `client_rules`: an answer without a usable `config-raw` clears the section although rules
  remain, while the log says that none do.
* `midnight`: a timed block checked against midnight in pass 1 is dated by a later clock in
  pass 2 and may cross it; its `stop_date` is then a day too late.

Three more behaviours are in the models without a run of their own:

* The expiry of a cached API key is compared the wrong way round (`AuthClient.cpp:122`). A
  cached key is asked for again as long as it is good, and accepted from the cache once its
  time has passed, whether or not it has been dropped; no document says otherwise. `DroppedKeyRefused` holds before the
  end of the key thanks to that, and says nothing of the time after it.
* Adding a device is answered 200 though no record was created, when the gateway service
  answers 200 without a configuration or an existing record does not parse: the error path
  forwards the status it got (`RESTAPI_subscriber_devices_handler.cpp:89` and `:123`).
  `SoloOnboarding` is therefore about `OK()` and not about the status.
* A topology is answered 200 with every client `blocked` "0" when the configuration of the
  gateway cannot be had (`RESTAPI_topology_handler.cpp:353`), although the API description
  says that a client with an active rule is reported as blocked, and always with the
  historical clients of the whole board (`:363`). `ShowsOwnNetwork` speaks of neither.

## 7. Plan

Done, in this order: `ConfigSync`, `SubscriberLocation`, `ParentalTime`, `Onboarding`,
`ServiceBus`, `RestObjects` with its tables, `Workers` with `MessageFeed`,
`RequestHandling`, `Topology`, their composition `Portal`, and proofs of every safety
property of the passing runs but the two about the repository's own classes. Next:

1. Composition of `Onboarding` with `ConfigSync`: devices that come and go during a
   configure request; an abstract specification (the gateway's rules as a register that
   only ever takes values the service held) implemented by both.
2. An abstract registry (the set of live services, stale by a bounded number of
   keep-alives) that `ServiceBus` implements.
3. How `GetBlockedClients` takes rules apart from `config-raw` commands.
