------------------------------- MODULE Portal -------------------------------
(***************************************************************************)
(* The process as a whole: the threads of Workers, the request threads of  *)
(* RequestHandling, which exist between the start and the stop of the REST *)
(* servers, and Topology as the handler of one of the routes.              *)
(*                                                                         *)
(* A deployment is whether Kafka is enabled, and what the clients ask for. *)
(***************************************************************************)
EXTENDS Workers, RequestHandling, Topology

CONSTANT Deployments     \* records [kafka, routes, credentials, requests, time]

ASSUME DeploymentsAssumption == \A d \in Deployments : d.kafka \in BOOLEAN
ASSUME ViewersAssumption == Viewers = Threads

VARIABLE deployment

portalVars == <<deployment, workerVars, handlingVars, topologyVars>>

PortalInit ==
  /\ deployment \in Deployments
  /\ WorkersInit(deployment.kafka)
  /\ HandlingInit
  /\ TopologyInit
  /\ "topology" \notin {r.name : r \in deployment.routes} =>
       /\ devices = {} /\ blocked = {} /\ venue = NoVenue
       /\ zone = [w \in Venues |-> NoZone]

\* The REST servers start after Kafka and before the event bus, and stop in
\* the opposite order.
Accepting == main \in {"startBus", "serve", "stopBus", "joinBus"}

Request(t) ==
  /\ Accepting /\ served < deployment.requests
  /\ BadBody(t) \/ \E r \in deployment.routes, c \in deployment.credentials : Begin(t, r, c)
  /\ UNCHANGED <<deployment, workerVars, topologyVars>>

Serve ==
  /\ \/ \E t \in Threads : ThreadStep(t)
     \/ clock < deployment.time /\ Tick
     \/ "key" \in deployment.credentials /\ DropKey
     \/ Evict
  /\ UNCHANGED <<deployment, workerVars, topologyVars>>

Run ==
  /\ WorkersNext
  /\ UNCHANGED <<deployment, handlingVars, topologyVars>>

\* The handler of a topology request begins, works, and has answered.
ViewBegins(t) ==
  /\ At(t, "handle") /\ req[t].route = "topology"
  /\ Go(t, "viewing")
  /\ DoGet(t)
  /\ UNCHANGED <<deployment, workerVars, served, limitVars, keyVars, clock>>

ViewWorks(t) ==
  /\ At(t, "viewing")
  /\ ViewStep(t)
  /\ UNCHANGED <<deployment, workerVars, handlingVars>>

ViewAnswers(t) ==
  /\ At(t, "viewing") /\ view[t].at = "done"
  /\ Answer(t, "handled")
  /\ UNCHANGED <<deployment, workerVars, served, limitVars, keyVars, clock, topologyVars>>

NetworkChanges ==
  /\ DevicesChange \/ BlockedChange \/ VenueChange \/ ZoneChange
  /\ UNCHANGED <<deployment, workerVars, handlingVars>>

PortalNext ==
  \/ Run \/ Serve \/ NetworkChanges
  \/ \E t \in Threads : Request(t) \/ ViewBegins(t) \/ ViewWorks(t) \/ ViewAnswers(t)

\* The threads of the process run; nothing is assumed of the clients.
PortalSpec == PortalInit /\ [][PortalNext]_portalVars /\ WorkersFairness
=============================================================================
