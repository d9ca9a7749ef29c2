---------------------------- MODULE PortalProofs ----------------------------
(***************************************************************************)
(* Proofs about the process as a whole, for any deployments, threads,      *)
(* devices, boards, bounds and periods.                                    *)
(***************************************************************************)
EXTENDS Portal, WorkersProofs, FiniteSetTheorems

-----------------------------------------------------------------------------
(* The process runs the threads of Workers.                                *)

\* What requests do leaves the threads alone.
LEMMA PortalRunsWorkers ==
  ASSUME [PortalNext]_portalVars
  PROVE  [WorkersNext]_workerVars
  <1>1. CASE Run
    BY <1>1 DEF Run
  <1>2. CASE Serve \/ NetworkChanges
    BY <1>2 DEF Serve, NetworkChanges
  <1>3. ASSUME NEW t \in Threads, Request(t) \/ ViewBegins(t) \/ ViewWorks(t) \/ ViewAnswers(t)
        PROVE  UNCHANGED workerVars
    BY <1>3 DEF Request, ViewBegins, ViewWorks, ViewAnswers
  <1>4. CASE UNCHANGED portalVars
    BY <1>4 DEF portalVars
  <1>5. QED
    BY <1>1, <1>2, <1>3, <1>4 DEF PortalNext

\* The process implements the ordered feed of events whatever requests it
\* serves meanwhile.
THEOREM PortalRefinesFeed == PortalSpec => ImplementsFeed
  <1>1. PortalInit => \E k \in BOOLEAN : WorkersInit(k)
    BY DeploymentsAssumption, Zenon DEF PortalInit
  <1>2. [PortalNext]_portalVars => [WorkersNext]_workerVars
    BY PortalRunsWorkers
  <1>3. QED
    BY <1>1, <1>2, WorkersRefineFeed, PTL DEF PortalSpec, WorkersSafety

-----------------------------------------------------------------------------
(* The topology.                                                           *)

ViewAt ==
  {"idle", "devices", "gateway", "venue", "location", "board", "tag", "done"}
Reports ==
  [venue : Venues \cup {NoVenue}, nodes : SUBSET Nodes,
   edges : SUBSET (Serials \X Serials), historical : SUBSET Stations]
Views ==
  [at : ViewAt, list : SUBSET Serials, venue : Venues \cup {NoVenue},
   zone : Zones \cup {NoZone}, board : Reports,
   flags : SUBSET Stations, answer : {"none", "error", "empty", "ok"},
   had : SUBSET Serials, zoned : SUBSET (Venues \X (Zones \cup {NoZone}))]

NetworkType ==
  /\ devices \in SUBSET Serials /\ blocked \in SUBSET Stations
  /\ venue \in Venues \cup {NoVenue} /\ zone \in [Venues -> Zones \cup {NoZone}]

\* The devices that a request has read of were had while it ran.
Seen(w) ==
  /\ w.list \subseteq w.had
  /\ \A n \in w.board.nodes : n.serial \in w.had
  /\ \A e \in w.board.edges : e[1] \in w.had /\ e[2] \in w.had

\* A request that runs has noted what holds now.  Once it has a venue, that is
\* one; once it has a zone, it was the venue's; and so is the board.
Current(w) ==
  /\ w.at \notin {"idle", "done"} =>
       w.answer = "none" /\ devices \subseteq w.had /\ ZonesOf(zone) \subseteq w.zoned
  /\ w.at = "location" => w.venue \in Venues
  /\ w.at \in {"board", "tag"} \/ w.answer = "ok" =>
       <<w.venue, w.zone>> \in w.zoned /\ w.zone # NoZone
  /\ w.at = "tag" \/ w.answer = "ok" => w.board.venue = w.venue

ViewOK(w) == w \in Views /\ Seen(w) /\ Current(w)

ViewInv ==
  /\ NetworkType
  /\ view \in [Viewers -> Views]
  /\ \A v \in Viewers : ViewOK(view[v])

LEMMA ZonesTyped ==
  ASSUME NetworkType
  PROVE  /\ ZonesOf(zone) \in SUBSET (Venues \X (Zones \cup {NoZone}))
         /\ \A w \in Venues : <<w, zone[w]>> \in ZonesOf(zone)
  BY DEF NetworkType, ZonesOf

\* A handler's step is a new view of one request, which keeps to the above.
LEMMA OneView ==
  ASSUME ViewInv, NEW v \in Viewers, NEW w, ViewOK(w), UNCHANGED networkVars,
         view' = [view EXCEPT ![v] = w]
  PROVE  ViewInv'
  <1>1. w \in Views
    BY DEF ViewOK
  <1>2. view' \in [Viewers -> Views]
    BY <1>1 DEF ViewInv
  <1>3. ASSUME NEW u \in Viewers PROVE ViewOK(view'[u])
    BY DEF ViewInv
  <1>4. QED
    BY <1>2, <1>3 DEF ViewInv, NetworkType, networkVars, ViewOK, Current

\* A request that ends early keeps what it has read.
LEMMA EndKeeps ==
  ASSUME ViewInv, NEW v \in Viewers, NEW status \in {"error", "empty", "ok"},
         End(v, status), status = "ok" => view[v].at = "tag"
  PROVE  ViewInv'
  <1> DEFINE w == [view[v] EXCEPT !.at = "done", !.answer = status]
  <1>1. ViewOK(view[v]) /\ view[v] \in Views
    BY DEF ViewInv
  <1>2. ViewOK(w)
    BY <1>1 DEF ViewOK, Views, ViewAt, Seen, Current
  <1>3. view' = [view EXCEPT ![v] = w] /\ UNCHANGED networkVars
    BY DEF End, ViewInv
  <1>4. QED
    BY <1>2, <1>3, OneView

LEMMA ViewStepKeeps ==
  ASSUME ViewInv, NEW v \in Viewers, DoGet(v) \/ ViewStep(v)
  PROVE  ViewInv'
  <1>1. ViewOK(view[v]) /\ view[v] \in Views /\ NetworkType
    BY DEF ViewInv
  <1>2. CASE DoGet(v)
    <2> DEFINE started == [Unasked EXCEPT !.at = "devices", !.had = devices,
                             !.zoned = ZonesOf(zone)]
               refused == [Unasked EXCEPT !.at = "done", !.answer = "error"]
    <2>1. ViewOK(started) /\ ViewOK(refused)
      <3>1. ZonesOf(zone) \in SUBSET (Venues \X (Zones \cup {NoZone}))
        BY <1>1, ZonesTyped
      <3>2. started \in Views /\ refused \in Views
        BY <1>1, <3>1 DEF Unasked, EmptyBoard, Reports, Views, ViewAt, NetworkType
      <3>3. QED
        BY <3>2 DEF Unasked, EmptyBoard, ViewOK, Seen, Current
    <2>2. /\ view' = [view EXCEPT ![v] = started] \/ view' = [view EXCEPT ![v] = refused]
          /\ UNCHANGED networkVars
      BY <1>2 DEF DoGet
    <2> HIDE DEF started, refused
    <2>3. QED
      BY <2>1, <2>2, OneView
  <1>3. CASE FetchSubscriberDevices(v)
    <2> DEFINE w == [view[v] EXCEPT !.at = "gateway", !.list = devices]
    <2>1. ViewOK(w)
      BY <1>1, <1>3 DEF FetchSubscriberDevices, ViewOK, Views, ViewAt, Seen, Current, NetworkType
    <2>2. view' = [view EXCEPT ![v] = w] /\ UNCHANGED networkVars
      BY <1>3 DEF FetchSubscriberDevices, ViewInv
    <2>3. QED
      BY <2>1, <2>2, OneView
  <1>4. CASE FindGatewaySerial(v)
    <2> DEFINE w == [view[v] EXCEPT !.at = "venue"]
    <2>1. ViewOK(w)
      BY <1>1, <1>4 DEF FindGatewaySerial, ViewOK, Views, ViewAt, Seen, Current
    <2>2. CASE view' = [view EXCEPT ![v].at = "venue"] /\ UNCHANGED networkVars
      BY <2>1, <2>2, OneView DEF ViewInv
    <2>3. CASE End(v, "empty")
      BY <2>3, EndKeeps
    <2>4. QED
      BY <1>4, <2>2, <2>3 DEF FindGatewaySerial
  <1>5. CASE ResolveVenue(v)
    <2> DEFINE w == [view[v] EXCEPT !.at = "location", !.venue = venue]
    <2>1. CASE venue = NoVenue
      BY <1>5, <2>1, EndKeeps DEF ResolveVenue
    <2>2. CASE venue # NoVenue
      <3>1. ViewOK(w)
        BY <1>1, <1>5, <2>2 DEF ResolveVenue, ViewOK, Views, ViewAt, Seen, Current, NetworkType
      <3>2. view' = [view EXCEPT ![v] = w] /\ UNCHANGED networkVars
        BY <1>5, <2>2 DEF ResolveVenue, ViewInv
      <3>3. QED
        BY <3>1, <3>2, OneView
    <2>3. QED
      BY <2>1, <2>2
  <1>6. CASE ResolveLocation(v)
    <2> DEFINE z == zone[view[v].venue]
               w == [view[v] EXCEPT !.at = "board", !.zone = z]
    <2>1. /\ view[v].at = "location" /\ view[v].venue \in Venues
          /\ <<view[v].venue, z>> \in view[v].zoned /\ z \in Zones \cup {NoZone}
      BY <1>1, <1>6, ZonesTyped DEF ResolveLocation, ViewOK, Current, NetworkType
    <2>2. CASE z = NoZone
      BY <1>6, <2>2, EndKeeps DEF ResolveLocation
    <2>3. CASE z # NoZone
      <3>1. view' = [view EXCEPT ![v] = w] /\ UNCHANGED networkVars
        BY <1>6, <2>3 DEF ResolveLocation, ViewInv
      <3> HIDE DEF z
      <3>2. ViewOK(w)
        BY <1>1, <2>1, <2>3 DEF ViewOK, Views, ViewAt, Seen, Current
      <3>3. QED
        BY <3>1, <3>2, OneView
    <2>4. QED
      BY <2>2, <2>3
  <1>7. CASE FetchTopology(v)
    <2> DEFINE kept(b) == [b EXCEPT !.nodes = FilterTopologyNodes(view[v].list, @),
                                    !.edges = FilterTopologyEdges(view[v].list, @)]
    <2>1. PICK b \in Boards :
            /\ b.venue = view[v].venue
            /\ view' = [view EXCEPT ![v].at = "tag", ![v].board = kept(b)]
      BY <1>7 DEF FetchTopology
    <2> DEFINE shown == kept(b)
               w == [view[v] EXCEPT !.at = "tag", !.board = shown]
    <2>2. /\ shown \in Reports /\ shown.venue = view[v].venue
          /\ \A n \in shown.nodes : n.serial \in view[v].list
          /\ \A e \in shown.edges : e[1] \in view[v].list /\ e[2] \in view[v].list
      BY <2>1, BoardsAssumption DEF FilterTopologyNodes, FilterTopologyEdges, Reports
    <2>3. view' = [view EXCEPT ![v] = w] /\ UNCHANGED networkVars
      BY <1>7, <2>1 DEF FetchTopology, ViewInv
    <2> HIDE DEF shown
    <2>4. ViewOK(w)
      BY <1>1, <1>7, <2>2 DEF FetchTopology, ViewOK, Views, ViewAt, Seen, Current
    <2>5. QED
      BY <2>3, <2>4, OneView
  <1>8. CASE TagBlockedClients(v)
    <2> DEFINE f == Shown(view[v].board) \cap blocked
               w == [view[v] EXCEPT !.at = "done", !.answer = "ok", !.flags = f]
    <2>1. f \in SUBSET Stations
      BY <1>1 DEF NetworkType
    <2>2. view' = [view EXCEPT ![v] = w] /\ UNCHANGED networkVars
      BY <1>8 DEF TagBlockedClients, ViewInv
    <2> HIDE DEF f
    <2>3. ViewOK(w)
      BY <1>1, <1>8, <2>1 DEF TagBlockedClients, ViewOK, Views, ViewAt, Seen, Current
    <2>4. QED
      BY <2>2, <2>3, OneView
  <1>9. CASE \/ FetchDevicesFails(v) \/ ResolveVenueFails(v) \/ ResolveLocationFails(v)
             \/ FetchTopologyFails(v) \/ TagBlockedClientsFails(v)
    BY <1>9, EndKeeps DEF FetchDevicesFails, ResolveVenueFails, ResolveLocationFails,
       FetchTopologyFails, TagBlockedClientsFails
  <1>10. QED
    BY <1>2, <1>3, <1>4, <1>5, <1>6, <1>7, <1>8, <1>9 DEF ViewStep

\* A change of the network is noted by every request that runs.
LEMMA ChangeKeeps ==
  ASSUME ViewInv, DevicesChange \/ BlockedChange \/ VenueChange \/ ZoneChange
  PROVE  ViewInv'
  <1>1. Noted /\ NetworkType'
    <2>1. NetworkType
      BY DEF ViewInv
    <2>2. CASE ZoneChange
      <3>1. PICK w \in Venues, z \in Zones \cup {NoZone} : zone' = [zone EXCEPT ![w] = z]
        BY <2>2 DEF ZoneChange
      <3>2. QED
        BY <2>1, <2>2, <3>1 DEF ZoneChange, NetworkType
    <2>3. CASE DevicesChange \/ BlockedChange \/ VenueChange
      BY <2>1, <2>3 DEF DevicesChange, BlockedChange, VenueChange, NetworkType
    <2>4. QED
      BY <2>2, <2>3
  <1>2. /\ devices' \in SUBSET Serials
        /\ ZonesOf(zone)' \in SUBSET (Venues \X (Zones \cup {NoZone}))
    BY <1>1 DEF NetworkType, ZonesOf
  <1>3. ASSUME NEW v \in Viewers
        PROVE  view'[v] \in Views /\ ViewOK(view[v])'
    <2>1. ViewOK(view[v])
      BY DEF ViewInv
    <2>2. CASE v \in Reading
      <3>1. view'[v] = [view[v] EXCEPT !.had = @ \cup devices', !.zoned = @ \cup ZonesOf(zone')]
        BY <1>1, <2>2 DEF Noted
      <3>2. ZonesOf(zone') = ZonesOf(zone)'
        BY DEF ZonesOf
      <3>3. view'[v] \in Views
        <4>1. view[v] \in Views
          BY <2>1 DEF ViewOK
        <4>2. /\ view[v].had \cup devices' \in SUBSET Serials
              /\ view[v].zoned \cup ZonesOf(zone') \in SUBSET (Venues \X (Zones \cup {NoZone}))
          BY <1>2, <3>2, <4>1 DEF Views
        <4>3. QED
          BY <3>1, <4>1, <4>2 DEF Views
      <3>4. /\ view'[v].at = view[v].at /\ view'[v].answer = view[v].answer
            /\ view'[v].zone = view[v].zone /\ view'[v].list = view[v].list
            /\ view'[v].board = view[v].board /\ view'[v].venue = view[v].venue
            /\ view'[v].had = view[v].had \cup devices'
            /\ view'[v].zoned = view[v].zoned \cup ZonesOf(zone)'
        BY <2>1, <3>1, <3>2 DEF ViewOK, Views
      <3>5. Seen(view[v])'
        BY <2>1, <3>4 DEF ViewOK, Seen
      <3>6. Current(view[v])'
        BY <2>1, <2>2, <3>4 DEF ViewOK, Current, Reading
      <3>7. QED
        BY <3>3, <3>5, <3>6 DEF ViewOK
    <2>3. CASE v \notin Reading
      <3>1. view'[v] = view[v] /\ view[v].at \in {"idle", "done"}
        BY <1>1, <2>3 DEF Noted, Reading
      <3>2. QED
        BY <2>1, <3>1 DEF ViewOK, Seen, Current
    <2>4. QED
      BY <2>2, <2>3
  <1>4. view' \in [Viewers -> Views]
    BY <1>1, <1>3 DEF Noted
  <1>5. QED
    BY <1>1, <1>3, <1>4 DEF ViewInv

\* Nodes and both ends of the edges of every topology that is answered were
\* the subscriber's devices at some time while its request ran, and its zone
\* was that of the venue whose board it shows, whatever changes between the
\* calls of the handler.
THEOREM TopologyTheorem == PortalSpec => []ShowsOwnNetwork
  <1>1. PortalInit => ViewInv
    <2> SUFFICES ASSUME PortalInit PROVE ViewInv
      OBVIOUS
    <2>1. NetworkType /\ view = [v \in Viewers |-> Unasked]
      BY DEF PortalInit, TopologyInit, NetworkType
    <2>2. ViewOK(Unasked) /\ Unasked \in Views
      BY DEF Unasked, EmptyBoard, Reports, ViewOK, Views, ViewAt, Seen, Current
    <2>3. QED
      BY <2>1, <2>2 DEF ViewInv
  <1>2. ViewInv /\ [PortalNext]_portalVars => ViewInv'
    <2> SUFFICES ASSUME ViewInv, [PortalNext]_portalVars PROVE ViewInv'
      OBVIOUS
    <2>1. CASE UNCHANGED topologyVars
      BY <2>1 DEF topologyVars, networkVars, ViewInv, NetworkType, ViewOK, Seen, Current
    <2>2. CASE NetworkChanges
      BY <2>2, ChangeKeeps DEF NetworkChanges
    <2>3. ASSUME NEW t \in Threads, ViewBegins(t) \/ ViewWorks(t)
          PROVE  ViewInv'
      BY <2>3, ViewStepKeeps, ViewersAssumption DEF ViewBegins, ViewWorks
    <2>4. ASSUME NEW t \in Threads, Request(t) \/ ViewAnswers(t)
          PROVE  UNCHANGED topologyVars
      BY <2>4 DEF Request, ViewAnswers
    <2>5. CASE Run \/ Serve \/ UNCHANGED portalVars
      BY <2>1, <2>5 DEF Run, Serve, portalVars
    <2>6. QED
      BY <2>1, <2>2, <2>3, <2>4, <2>5 DEF PortalNext
  <1>3. ViewInv => ShowsOwnNetwork
    <2> SUFFICES ASSUME ViewInv, NEW v \in Viewers, view[v].answer = "ok"
                 PROVE  /\ {n.serial : n \in view[v].board.nodes} \subseteq view[v].had
                        /\ \A e \in view[v].board.edges : {e[1], e[2]} \subseteq view[v].had
                        /\ <<view[v].board.venue, view[v].zone>> \in view[v].zoned
                        /\ view[v].zone # NoZone
      BY DEF ShowsOwnNetwork
    <2>1. Seen(view[v]) /\ Current(view[v])
      BY DEF ViewInv, ViewOK
    <2>2. QED
      BY <2>1 DEF Seen, Current
  <1>4. QED
    BY <1>1, <1>2, <1>3, PTL DEF PortalSpec

-----------------------------------------------------------------------------
(* API keys.                                                               *)

Fields ==
  {"at", "route", "limited", "authorize", "credential", "known", "held", "now",
   "read", "answer"}
Shaped(r) == r = [f \in Fields |-> r[f]]

\* A key that was not confirmed when the request came is not confirmed later,
\* and only a confirmed one is stored.
KeyOK(r) ==
  /\ r.at \notin {"idle", "done"} /\ ~r.known => ~keyGood
  /\ r.at = "store" => r.known
  /\ r.at = "handle" /\ r.authorize /\ r.credential = "key" /\ ~r.known => KeyEnd < clock

KeyInv ==
  /\ clock \in Nat
  /\ req = [t \in Threads |-> req[t]]
  /\ \A t \in Threads : Shaped(req[t]) /\ KeyOK(req[t])

LEMMA IdleShaped ==
  Shaped(Idle)
  BY DEF Shaped, Fields, Idle

\* One request moves on; the key and the clock stay.
LEMMA OneRequest ==
  ASSUME KeyInv, NEW t \in Threads, NEW r, Shaped(r), KeyOK(r),
         req' = [req EXCEPT ![t] = r], keyGood' = keyGood, clock' = clock
  PROVE  KeyInv'
  <1>1. req' = [u \in Threads |-> IF u = t THEN r ELSE req[u]]
    BY DEF KeyInv
  <1>2. ASSUME NEW u \in Threads PROVE Shaped(req'[u]) /\ KeyOK(req'[u])
    BY <1>1 DEF KeyInv
  <1>3. QED
    BY <1>1, <1>2 DEF KeyInv, KeyOK, Shaped

\* An answered request is of no concern.
LEMMA AnswerKeeps ==
  ASSUME KeyInv, NEW t \in Threads, NEW a, Answer(t, a), keyGood' = keyGood, clock' = clock
  PROVE  KeyInv'
  <1> DEFINE r == [Idle EXCEPT !.at = "done", !.answer = a,
                               !.credential = req[t].credential, !.known = req[t].known]
  <1>1. Shaped(r) /\ r.at = "done"
    BY DEF Idle, Shaped, Fields
  <1>2. KeyOK(r)
    BY <1>1 DEF KeyOK
  <1>3. QED
    BY <1>1, <1>2, OneRequest DEF Answer

\* A request goes to a place where nothing new is asked of it.
LEMMA GoKeeps ==
  ASSUME KeyInv, NEW t \in Threads, NEW p, req[t].at \notin {"idle", "done"},
         Go(t, p), keyGood' = keyGood, clock' = clock,
         p = "store" => req[t].known,
         p = "handle" /\ req[t].authorize /\ req[t].credential = "key" /\ ~req[t].known
           => KeyEnd < clock
  PROVE  KeyInv'
  <1> DEFINE r == [req[t] EXCEPT !.at = p]
  <1>1. Shaped(req[t]) /\ KeyOK(req[t])
    BY DEF KeyInv
  <1>2. /\ Shaped(r) /\ r.at = p /\ r.known = req[t].known
        /\ r.authorize = req[t].authorize /\ r.credential = req[t].credential
    BY <1>1 DEF Shaped, Fields
  <1>3. KeyOK(r)
    BY <1>1, <1>2 DEF KeyOK
  <1>4. req' = [req EXCEPT ![t] = r]
    BY DEF Go, KeyInv
  <1> HIDE DEF r
  <1>5. QED
    BY <1>2, <1>3, <1>4, OneRequest

\* The limiter moves a request on and notes what it holds.
LEMMA LimiterKeeps ==
  ASSUME KeyInv, NEW t \in Threads,
         RateLookup(t) \/ RateNew(t) \/ RateRead(t) \/ RateCount(t) \/ RateOver(t) \/ RateReset(t)
  PROVE  KeyInv'
  <1>1. keyGood' = keyGood /\ clock' = clock
    BY DEF RateLookup, RateNew, RateRead, RateCount, RateOver, RateReset, keyVars, limitVars
  <1>2. Shaped(req[t]) /\ KeyOK(req[t])
    BY DEF KeyInv
  <1>3. ASSUME NEW r, Shaped(r), r.known = req[t].known, r.at \in {"compare", "count", "method"},
               req[t].at \notin {"idle", "done"}, req' = [req EXCEPT ![t] = r]
        PROVE  KeyInv'
    <2>1. KeyOK(r)
      BY <1>2, <1>3 DEF KeyOK
    <2>2. QED
      BY <1>1, <1>3, <2>1, OneRequest
  <1>4. ASSUME Admit(t), req[t].at \notin {"idle", "done"}
        PROVE  KeyInv'
    <2> DEFINE r == [req[t] EXCEPT !.at = "method", !.held = 0, !.now = 0, !.read = 0]
    <2>1. Shaped(r) /\ r.known = req[t].known /\ r.at = "method"
      BY <1>2 DEF Shaped, Fields
    <2>2. req' = [req EXCEPT ![t] = r]
      BY <1>4 DEF Admit, KeyInv
    <2> HIDE DEF r
    <2>3. QED
      BY <1>3, <1>4, <2>1, <2>2
  <1>5. CASE RateLookup(t)
    <2> DEFINE r == [req[t] EXCEPT !.at = "compare", !.held = cached, !.now = clock]
    <2>1. Shaped(r) /\ r.known = req[t].known /\ r.at = "compare"
      BY <1>2 DEF Shaped, Fields
    <2>2. req' = [req EXCEPT ![t] = r] /\ req[t].at = "lookup"
      BY <1>5 DEF RateLookup, At, KeyInv
    <2> HIDE DEF r
    <2>3. QED
      BY <1>3, <2>1, <2>2
  <1>6. CASE RateRead(t)
    <2> DEFINE r == [req[t] EXCEPT !.at = "count", !.read = counters[req[t].held].count]
    <2>1. Shaped(r) /\ r.known = req[t].known /\ r.at = "count"
      BY <1>2 DEF Shaped, Fields
    <2>2. req' = [req EXCEPT ![t] = r] /\ req[t].at = "compare"
      BY <1>6 DEF RateRead, At, KeyInv
    <2> HIDE DEF r
    <2>3. QED
      BY <1>3, <2>1, <2>2
  <1>7. CASE RateNew(t) \/ RateReset(t)
    BY <1>4, <1>7 DEF RateNew, RateReset, At
  <1>8. CASE RateCount(t)
    BY <1>1, <1>8, GoKeeps DEF RateCount, At
  <1>9. CASE RateOver(t)
    BY <1>1, <1>4, <1>9, AnswerKeeps DEF RateOver, At
  <1>10. QED
    BY <1>5, <1>6, <1>7, <1>8, <1>9

\* Authorization: a key is confirmed now, or was cached and has run out.
LEMMA ThreadKeeps ==
  ASSUME KeyInv, NEW t \in Threads, ThreadStep(t)
  PROVE  KeyInv'
  <1>1. Shaped(req[t]) /\ KeyOK(req[t])
    BY DEF KeyInv
  <1>2. CASE Method(t)
    <2>1. keyGood' = keyGood /\ clock' = clock /\ req[t].at = "method"
      BY <1>2 DEF Method, keyVars, At
    <2>2. CASE Answer(t, "options") \/ Answer(t, "400")
      BY <2>1, <2>2, AnswerKeeps
    <2>3. CASE Go(t, IF req[t].authorize THEN "authorize" ELSE "handle")
      <3>1. CASE req[t].authorize
        <4>1. Go(t, "authorize")
          BY <2>3, <3>1
        <4>2. QED
          BY <2>1, <4>1, GoKeeps
      <3>2. CASE ~req[t].authorize
        <4>1. Go(t, "handle")
          BY <2>3, <3>2
        <4>2. QED
          BY <2>1, <3>2, <4>1, GoKeeps
      <3>3. QED
        BY <3>1, <3>2
    <2>4. QED
      BY <1>2, <2>2, <2>3 DEF Method
  <1>3. CASE Token(t)
    BY <1>3, AnswerKeeps, GoKeeps DEF Token, keyVars, At
  <1>4. CASE KeyLookup(t)
    BY <1>4, GoKeeps DEF KeyLookup, At
  <1>5. CASE KeyConfirmed(t)
    BY <1>1, <1>5, GoKeeps DEF KeyConfirmed, KeyOK, keyVars, At
  <1>6. CASE KeyStore(t)
    BY <1>1, <1>6, GoKeeps DEF KeyStore, KeyOK, At
  <1>7. CASE KeyRefused(t)
    BY <1>7, AnswerKeeps DEF KeyRefused, keyVars
  <1>8. CASE Handle(t)
    BY <1>8, AnswerKeeps DEF Handle, keyVars
  <1>9. QED
    BY <1>2, <1>3, <1>4, <1>5, <1>6, <1>7, <1>8, LimiterKeeps DEF ThreadStep

\* A request comes with what the security service says of the key then.
LEMMA RequestKeeps ==
  ASSUME KeyInv, NEW t \in Threads, Request(t)
  PROVE  KeyInv'
  <1>1. CASE BadBody(t)
    <2> DEFINE r == [Idle EXCEPT !.at = "done", !.answer = "400"]
    <2>1. Shaped(r) /\ r.at = "done"
      BY DEF Idle, Shaped, Fields
    <2>2. KeyOK(r)
      BY <2>1 DEF KeyOK
    <2>3. QED
      BY <1>1, <2>1, <2>2, OneRequest DEF BadBody, keyVars
  <1>2. ASSUME NEW q, NEW c, Begin(t, q, c)
        PROVE  KeyInv'
    <2> DEFINE p == IF q.limited THEN "lookup" ELSE "method"
               r == [Idle EXCEPT !.at = p, !.route = q.name, !.limited = q.limited,
                       !.authorize = q.authorize, !.credential = c, !.known = keyGood]
    <2>1. Shaped(r) /\ r.at = p /\ r.known = keyGood
      BY DEF Idle, Shaped, Fields
    <2>2. p \in {"lookup", "method"}
      OBVIOUS
    <2>3. req' = [req EXCEPT ![t] = r] /\ keyGood' = keyGood /\ clock' = clock
      BY <1>2 DEF Begin, keyVars
    <2> HIDE DEF r, p
    <2>4. KeyOK(r)
      BY <2>1, <2>2 DEF KeyOK
    <2>5. QED
      BY <2>1, <2>3, <2>4, OneRequest
  <1>3. QED
    BY <1>1, <1>2 DEF Request

LEMMA KeyInvHolds == PortalSpec => []KeyInv
  <1>1. PortalInit => KeyInv
    <2> SUFFICES ASSUME PortalInit PROVE KeyInv
      OBVIOUS
    <2>1. req = [t \in Threads |-> Idle] /\ clock = 0
      BY DEF PortalInit, HandlingInit
    <2>2. KeyOK(Idle)
      BY DEF KeyOK, Idle
    <2>3. QED
      BY <2>1, <2>2, IdleShaped DEF KeyInv
  <1>2. KeyInv /\ [PortalNext]_portalVars => KeyInv'
    <2> SUFFICES ASSUME KeyInv, [PortalNext]_portalVars PROVE KeyInv'
      OBVIOUS
    <2>1. CASE UNCHANGED <<req, keyGood, clock>>
      BY <2>1 DEF KeyInv, KeyOK, Shaped
    <2>2. CASE Run \/ NetworkChanges \/ UNCHANGED portalVars
      BY <2>1, <2>2 DEF Run, NetworkChanges, portalVars, handlingVars, keyVars
    <2>3. CASE Serve
      <3>1. CASE Tick
        <4>1. clock' = clock + 1 /\ UNCHANGED <<req, keyGood>>
          BY <3>1 DEF Tick, keyVars
        <4>2. clock' \in Nat /\ (KeyEnd < clock => KeyEnd < clock')
          BY <4>1, HandlingAssumption DEF KeyInv
        <4>3. QED
          BY <4>1, <4>2 DEF KeyInv, KeyOK, Shaped
      <3>2. CASE DropKey
        <4>1. keyGood' = FALSE /\ UNCHANGED <<req, clock>>
          BY <3>2 DEF DropKey
        <4>2. QED
          BY <4>1 DEF KeyInv, KeyOK, Shaped
      <3>3. CASE Evict
        BY <2>1, <3>3 DEF Evict, keyVars
      <3>4. QED
        BY <2>3, <3>1, <3>2, <3>3, ThreadKeeps DEF Serve
    <2>4. ASSUME NEW t \in Threads, ViewBegins(t)
          PROVE  KeyInv'
      BY <2>4, GoKeeps DEF ViewBegins, At, keyVars
    <2>5. ASSUME NEW t \in Threads, ViewAnswers(t)
          PROVE  KeyInv'
      BY <2>5, AnswerKeeps DEF ViewAnswers, keyVars
    <2>6. ASSUME NEW t \in Threads, ViewWorks(t)
          PROVE  KeyInv'
      BY <2>1, <2>6 DEF ViewWorks, handlingVars, keyVars
    <2>7. QED
      BY <2>2, <2>3, <2>4, <2>5, <2>6, RequestKeeps DEF PortalNext
  <1>3. QED
    BY <1>1, <1>2, PTL DEF PortalSpec

\* An API key that the security service no longer confirms when a request
\* comes does not get that request to its handler before the key has run out,
\* whatever is cached, however validations, removals and requests interleave.
THEOREM DroppedKeyTheorem == PortalSpec => []DroppedKeyRefused
  <1>1. KeyInv => DroppedKeyRefused
    BY DEF KeyInv, KeyOK, DroppedKeyRefused
  <1>2. QED
    BY <1>1, KeyInvHolds, PTL

-----------------------------------------------------------------------------
(* The rate limiter: logs of times.                                        *)

LEMMA LimitConstants ==
  /\ Period \in Nat /\ Period > 0 /\ MaxCalls \in Nat /\ MaxCalls > 0
  /\ Horizon \in Nat /\ IsFiniteSet(Threads)
  BY HandlingAssumption

\* The entries of a log from the time i on, and those that a period which
\* reaches the time i can have.
Since(log, i) == {k \in DOMAIN log : log[k] >= i}
Near(log, i) == {k \in DOMAIN log : log[k] + Period > i}

\* What q counters allow.
Allow(q) == q * MaxCalls

LEMMA Allowance ==
  ASSUME NEW q \in Nat
  PROVE  /\ Allow(q) \in Nat /\ Allow(q + 1) = Allow(q) + MaxCalls
         /\ Allow(q + 2) = Allow(q + 1) + MaxCalls /\ Allow(q + 1) \in Nat
         /\ Allow(q + 2) \in Nat
  BY LimitConstants DEF Allow

LEMMA Logged ==
  ASSUME NEW log \in Seq(Nat), NEW n \in Nat
  PROVE  /\ Append(log, n) \in Seq(Nat) /\ Len(log) \in Nat
         /\ Len(Append(log, n)) = Len(log) + 1
         /\ DOMAIN log = 1..Len(log) /\ DOMAIN Append(log, n) = (DOMAIN log) \cup {Len(log) + 1}
         /\ Len(log) + 1 \notin DOMAIN log
         /\ \A k \in DOMAIN log : Append(log, n)[k] = log[k] /\ log[k] \in Nat
         /\ Append(log, n)[Len(log) + 1] = n
  OBVIOUS

\* Entries of a log can be counted.
LEMMA Countable ==
  ASSUME NEW log \in Seq(Nat), NEW S, S \subseteq DOMAIN log
  PROVE  IsFiniteSet(S) /\ Cardinality(S) \in Nat
  <1>1. DOMAIN log = 1..Len(log) /\ Len(log) \in Nat
    OBVIOUS
  <1>2. IsFiniteSet(DOMAIN log)
    BY <1>1, FS_Interval
  <1>3. S \in SUBSET DOMAIN log
    OBVIOUS
  <1>4. IsFiniteSet(S)
    BY <1>2, <1>3, FS_Subset
  <1>5. QED
    BY <1>4, FS_CardinalityType

LEMMA FewerEntries ==
  ASSUME NEW log \in Seq(Nat), NEW S, S \subseteq DOMAIN log, NEW R, R \subseteq S
  PROVE  Cardinality(R) <= Cardinality(S)
  <1>1. IsFiniteSet(S) /\ R \in SUBSET S
    BY Countable
  <1>2. QED
    BY <1>1, FS_Subset

\* One more entry.
LEMMA OneMore ==
  ASSUME NEW log \in Seq(Nat), NEW S, S \subseteq DOMAIN log
  PROVE  Cardinality(S \cup {Len(log) + 1}) = Cardinality(S) + 1
  <1>1. IsFiniteSet(S)
    BY Countable
  <1>2. Len(log) + 1 \notin S
    OBVIOUS
  <1>3. QED
    BY <1>1, <1>2, FS_AddElement

Counters == [start : Nat, count : Nat]

\* What was admitted when c counts and q counters were made before it: since
\* c was started, no more than c has counted or allows and the others allow;
\* in a period that reaches the start, as much again as one counter allows;
\* and nothing after the period of c.
Fair(log, c, q) ==
  /\ Cardinality(Since(log, c.start)) <= Allow(q) + c.count
  /\ Cardinality(Since(log, c.start)) <= Allow(q + 1)
  /\ Cardinality(Near(log, c.start)) <= Allow(q + 1) + c.count
  /\ Cardinality(Near(log, c.start)) <= Allow(q + 2)
  /\ \A k \in DOMAIN log : log[k] < c.start + Period

\* A call has been counted that is not in the log yet.
Short(log, c, q) ==
  /\ Cardinality(Since(log, c.start)) + 1 <= Allow(q) + c.count
  /\ Cardinality(Near(log, c.start)) + 1 <= Allow(q + 1) + c.count

LEMMA LogParts ==
  ASSUME NEW log \in Seq(Nat), NEW i \in Nat
  PROVE  /\ Since(log, i) \subseteq DOMAIN log /\ Near(log, i) \subseteq DOMAIN log
         /\ Cardinality(Since(log, i)) \in Nat /\ Cardinality(Near(log, i)) \in Nat
  <1>1. Since(log, i) \subseteq DOMAIN log /\ Near(log, i) \subseteq DOMAIN log
    BY DEF Since, Near
  <1>2. QED
    BY <1>1, Countable

\* One more entry at or after the time i.
LEMMA PartsGrow ==
  ASSUME NEW log \in Seq(Nat), NEW n \in Nat, NEW i \in Nat, i <= n
  PROVE  /\ Cardinality(Since(Append(log, n), i)) = Cardinality(Since(log, i)) + 1
         /\ Cardinality(Near(Append(log, n), i)) = Cardinality(Near(log, i)) + 1
  <1>1. Since(Append(log, n), i) = Since(log, i) \cup {Len(log) + 1}
    BY Logged DEF Since
  <1>2. Near(Append(log, n), i) = Near(log, i) \cup {Len(log) + 1}
    BY Logged, LimitConstants DEF Near
  <1>3. QED
    BY <1>1, <1>2, LogParts, OneMore

\* A call that the counter lets through.
LEMMA AdmitCounted ==
  ASSUME NEW log \in Seq(Nat), NEW c \in Counters, NEW n \in Nat, NEW q \in Nat,
         Fair(log, c, q), Short(log, c, q),
         c.start <= n, n < c.start + Period, c.count <= MaxCalls
  PROVE  Fair(Append(log, n), c, q)
  <1> DEFINE new == Append(log, n)
  <1>1. c.start \in Nat /\ c.count \in Nat
    BY DEF Counters
  <1>2. /\ Cardinality(Since(new, c.start)) = Cardinality(Since(log, c.start)) + 1
        /\ Cardinality(Near(new, c.start)) = Cardinality(Near(log, c.start)) + 1
    BY <1>1, PartsGrow
  <1>3. \A k \in DOMAIN new : new[k] < c.start + Period
    BY Logged DEF Fair
  <1>4. Cardinality(Since(log, c.start)) \in Nat /\ Cardinality(Near(log, c.start)) \in Nat
    BY <1>1, LogParts
  <1>5. /\ Allow(q) \in Nat /\ Allow(q + 1) \in Nat /\ Allow(q + 2) \in Nat
        /\ Allow(q + 1) = Allow(q) + MaxCalls /\ Allow(q + 2) = Allow(q + 1) + MaxCalls
    BY Allowance
  <1> HIDE DEF new
  <1>6. /\ Cardinality(Since(new, c.start)) <= Allow(q) + c.count
        /\ Cardinality(Near(new, c.start)) <= Allow(q + 1) + c.count
    BY <1>2 DEF Short
  <1>7. Allow(q) + c.count <= Allow(q + 1) /\ Allow(q + 1) + c.count <= Allow(q + 2)
    BY <1>1, <1>5, LimitConstants
  <1>8. /\ Cardinality(Since(new, c.start)) <= Allow(q + 1)
        /\ Cardinality(Near(new, c.start)) <= Allow(q + 2)
    BY <1>1, <1>2, <1>4, <1>5, <1>6, <1>7
  <1>9. QED
    BY <1>3, <1>6, <1>8 DEF Fair, new

\* A call that starts a counter.
LEMMA AdmitFirst ==
  ASSUME NEW log \in Seq(Nat), NEW n \in Nat, NEW q \in Nat,
         \A k \in DOMAIN log : log[k] <= n,
         Cardinality(Since(log, n)) <= Allow(q),
         Cardinality(Near(log, n)) <= Allow(q + 1)
  PROVE  Fair(Append(log, n), [start |-> n, count |-> 1], q)
  <1> DEFINE new == Append(log, n)
  <1>1. /\ Cardinality(Since(new, n)) = Cardinality(Since(log, n)) + 1
        /\ Cardinality(Near(new, n)) = Cardinality(Near(log, n)) + 1
    BY PartsGrow
  <1>2. \A k \in DOMAIN new : new[k] < n + Period
    BY Logged, LimitConstants
  <1>3. Cardinality(Since(log, n)) \in Nat /\ Cardinality(Near(log, n)) \in Nat
    BY LogParts
  <1>4. /\ Allow(q) \in Nat /\ Allow(q + 1) \in Nat /\ Allow(q + 2) \in Nat
        /\ Allow(q + 1) = Allow(q) + MaxCalls /\ Allow(q + 2) = Allow(q + 1) + MaxCalls
    BY Allowance
  <1> HIDE DEF new
  <1>5. Fair(new, [start |-> n, count |-> 1], q)
    BY <1>1, <1>2, <1>3, <1>4, LimitConstants DEF Fair
  <1>6. QED
    BY <1>5 DEF new

\* The counter c was lost: another one is made.
LEMMA AdmitAnew ==
  ASSUME NEW log \in Seq(Nat), NEW c \in Counters, NEW n \in Nat, NEW q \in Nat,
         Fair(log, c, q), c.start <= n, \A k \in DOMAIN log : log[k] <= n
  PROVE  Fair(Append(log, n), [start |-> n, count |-> 1], q + 1)
  <1>1. c.start \in Nat
    BY DEF Counters
  <1>2. Since(log, n) \subseteq Since(log, c.start) /\ Near(log, n) \subseteq Near(log, c.start)
    BY <1>1, Logged, LimitConstants DEF Since, Near
  <1>3. /\ Cardinality(Since(log, n)) <= Cardinality(Since(log, c.start))
        /\ Cardinality(Near(log, n)) <= Cardinality(Near(log, c.start))
    BY <1>1, <1>2, LogParts, FewerEntries
  <1>4. /\ Cardinality(Since(log, n)) \in Nat /\ Cardinality(Since(log, c.start)) \in Nat
        /\ Cardinality(Near(log, n)) \in Nat /\ Cardinality(Near(log, c.start)) \in Nat
    BY <1>1, LogParts
  <1>5. Cardinality(Since(log, n)) <= Allow(q + 1) /\ Cardinality(Near(log, n)) <= Allow(q + 2)
    <2>1. Allow(q + 1) \in Nat /\ Allow(q + 2) \in Nat
      BY Allowance
    <2>2. QED
      BY <1>3, <1>4, <2>1 DEF Fair
  <1>6. q + 1 \in Nat /\ (q + 1) + 1 = q + 2
    OBVIOUS
  <1>7. QED
    BY <1>5, <1>6, AdmitFirst

\* The period of c is over.
LEMMA AdmitReset ==
  ASSUME NEW log \in Seq(Nat), NEW c \in Counters, NEW n \in Nat, NEW q \in Nat,
         Fair(log, c, q), c.start + Period <= n
  PROVE  Fair(Append(log, n), [start |-> n, count |-> 1], q)
  <1>1. c.start \in Nat
    BY DEF Counters
  <1>2. \A k \in DOMAIN log : log[k] < n
    BY <1>1, Logged, LimitConstants DEF Fair
  <1>3. Since(log, n) = {} /\ Near(log, n) \subseteq Since(log, c.start)
    BY <1>1, <1>2, Logged, LimitConstants DEF Near, Since
  <1>4. /\ Cardinality(Since(log, n)) = 0
        /\ Cardinality(Near(log, n)) <= Cardinality(Since(log, c.start))
    BY <1>1, <1>3, LogParts, FewerEntries, FS_EmptySet
  <1>5. Cardinality(Near(log, n)) \in Nat /\ Cardinality(Since(log, c.start)) \in Nat
    BY <1>1, LogParts
  <1>6. Cardinality(Since(log, n)) <= Allow(q) /\ Cardinality(Near(log, n)) <= Allow(q + 1)
    <2>1. Allow(q) \in Nat /\ Allow(q + 1) \in Nat
      BY Allowance
    <2>2. QED
      BY <1>4, <1>5, <2>1 DEF Fair
  <1>7. \A k \in DOMAIN log : log[k] <= n
    BY <1>2, Logged
  <1>8. QED
    BY <1>6, <1>7, AdmitFirst

\* A period that has the new entry does not go back farther than one that
\* reaches the start of its counter.
LEMMA SpansKeep ==
  ASSUME NEW log \in Seq(Nat), NEW c \in Counters, NEW n \in Nat, NEW q \in Nat,
         c.start <= n, Fair(Append(log, n), c, q), NEW i \in Nat,
         Cardinality(InSpan(log, i)) <= Allow(q + 2)
  PROVE  Cardinality(InSpan(Append(log, n), i)) <= Allow(q + 2)
  <1> DEFINE new == Append(log, n)
  <1>1. c.start \in Nat /\ new \in Seq(Nat)
    BY DEF Counters
  <1>2. CASE i <= n /\ n < i + Period
    <2>1. \A k \in DOMAIN new : new[k] \in Nat
      BY <1>1
    <2> HIDE DEF new
    <2>2. InSpan(new, i) \subseteq Near(new, c.start) /\ InSpan(new, i) \subseteq DOMAIN new
      BY <1>1, <1>2, <2>1, LimitConstants DEF InSpan, Near
    <2>3. /\ Cardinality(InSpan(new, i)) <= Cardinality(Near(new, c.start))
          /\ Cardinality(InSpan(new, i)) \in Nat /\ Cardinality(Near(new, c.start)) \in Nat
      BY <1>1, <2>2, LogParts, FewerEntries, Countable
    <2>4. Cardinality(Near(new, c.start)) <= Allow(q + 2)
      BY DEF Fair, new
    <2>5. Allow(q + 2) \in Nat
      BY Allowance
    <2>6. QED
      BY <2>3, <2>4, <2>5 DEF new
  <1>3. CASE ~(i <= n /\ n < i + Period)
    <2>1. InSpan(new, i) = InSpan(log, i)
      BY <1>3, Logged DEF InSpan
    <2>2. QED
      BY <2>1
  <1>4. QED
    BY <1>2, <1>3

-----------------------------------------------------------------------------
(* The rate limiter: the threads in it.                                    *)

\* The threads that have not been counted yet.
Pending == {t \in Threads : req[t].at \in {"compare", "count"}}

\* The calls in the period of i that have been counted.
Counted(i) == IF Pending = {} THEN InSpan(calls, i) ELSE InSpan(calls, i) \ {Len(calls)}

LimitTypes ==
  /\ clock <= Horizon
  /\ counters \in Seq(Counters) /\ cached \in 0..Len(counters)
  /\ calls \in Seq(Nat) /\ admitted \in Seq(Nat)
  /\ \A t \in InLimiter :
       /\ req[t].held \in 0..Len(counters)
       /\ req[t].now \in Nat /\ req[t].now <= clock
       /\ req[t].at = "count" => req[t].read \in Nat
       /\ req[t].at # "compare" => req[t].held # 0

\* Lost updates, replaced counters: no counter is ahead of the calls made.
CountBound ==
  /\ Cardinality(Pending) <= Len(calls)
  /\ \A k \in DOMAIN counters : counters[k].count + Cardinality(Pending) <= Len(calls)
  /\ \A t \in Threads : req[t].at = "count" => req[t].read + Cardinality(Pending) <= Len(calls)
  /\ \A t \in Threads : req[t].answer = "limited" => Len(calls) > MaxCalls

\* The one thread in the limiter, whose call is the last one.  It holds the
\* last counter, or none if the cache had lost it.
Alone ==
  /\ cached \in {0, Len(counters)}
  /\ \A k \in DOMAIN admitted : admitted[k] <= clock
  /\ \A t, u \in InLimiter : t = u
  /\ \A t \in InLimiter :
       /\ req[t].held \in {0, Len(counters)}
       /\ Len(calls) > 0 /\ calls[Len(calls)] = req[t].now
       /\ \A k \in DOMAIN admitted : admitted[k] <= req[t].now

\* The counters made before the last one.
Earlier == Len(counters) - 1

\* The last counter c, while it has not been raced for.
Honest(c) ==
  /\ c.start <= clock
  /\ Fair(admitted, c, Earlier)
  /\ c.count <= Cardinality(Counted(c.start))
  /\ \A t \in InLimiter :
       /\ c.start <= req[t].now
       /\ req[t].at # "compare" => req[t].now < c.start + Period
       /\ req[t].at = "count" => req[t].read = c.count
       /\ req[t].at = "over" => Short(admitted, c, Earlier)

SpansBounded ==
  \A i \in Nat : Cardinality(InSpan(admitted, i)) <= Allow(Len(counters) + 1)

Impolite == \E i \in 0..Horizon : Cardinality(InSpan(calls, i)) > MaxCalls

LoneInv ==
  ~raced =>
    /\ Alone
    /\ IF Len(counters) = 0 THEN admitted = <<>> ELSE Honest(counters[Len(counters)])
    /\ SpansBounded
    /\ \A t \in Threads : req[t].answer = "limited" => Impolite

LimitInv == LimitTypes /\ CountBound /\ LoneInv

Inside == {"compare", "count", "over"}

LEMMA ThreadMoves ==
  ASSUME KeyInv, NEW t \in Threads, NEW r, req' = [req EXCEPT ![t] = r]
  PROVE  /\ req'[t] = r
         /\ \A u \in Threads : u # t => req'[u] = req[u]
         /\ InLimiter' = IF r.at \in Inside THEN InLimiter \cup {t} ELSE InLimiter \ {t}
         /\ Pending' = IF r.at \in {"compare", "count"} THEN Pending \cup {t} ELSE Pending \ {t}
  <1>1. req'[t] = r /\ \A u \in Threads : u # t => req'[u] = req[u]
    BY DEF KeyInv
  <1>2. QED
    BY <1>1 DEF InLimiter, Pending, Inside

LEMMA PendingCard ==
  /\ IsFiniteSet(Pending) /\ Cardinality(Pending) \in Nat
  /\ \A t \in Threads :
       /\ t \in Pending => Cardinality(Pending \ {t}) = Cardinality(Pending) - 1
                            /\ Cardinality(Pending) >= 1
       /\ t \notin Pending => Cardinality(Pending \cup {t}) = Cardinality(Pending) + 1
  <1>1. Pending \in SUBSET Threads
    BY DEF Pending
  <1>2. IsFiniteSet(Pending)
    BY <1>1, LimitConstants, FS_Subset
  <1>3. Cardinality(Pending) \in Nat
    BY <1>2, FS_CardinalityType
  <1>4. ASSUME NEW t \in Pending
        PROVE  Cardinality(Pending \ {t}) = Cardinality(Pending) - 1 /\ Cardinality(Pending) >= 1
    <2>1. Cardinality(Pending \ {t}) = Cardinality(Pending) - 1 /\ IsFiniteSet(Pending \ {t})
      BY <1>2, FS_RemoveElement
    <2>2. Cardinality(Pending \ {t}) \in Nat
      BY <2>1, FS_CardinalityType
    <2>3. QED
      BY <1>3, <2>1, <2>2
  <1>5. ASSUME NEW t \in Threads, t \notin Pending
        PROVE  Cardinality(Pending \cup {t}) = Cardinality(Pending) + 1
    BY <1>2, <1>5, FS_AddElement
  <1>6. QED
    BY <1>2, <1>3, <1>4, <1>5

\* Whoever was impolite stays so.
LEMMA StillImpolite ==
  ASSUME calls \in Seq(Nat), NEW n \in Nat, calls' = Append(calls, n), Impolite
  PROVE  Impolite'
  <1>1. PICK i \in 0..Horizon : Cardinality(InSpan(calls, i)) > MaxCalls
    BY DEF Impolite
  <1>2. calls' \in Seq(Nat) /\ InSpan(calls, i) \subseteq InSpan(calls', i)
    BY Logged DEF InSpan
  <1>3. InSpan(calls', i) \subseteq DOMAIN calls' /\ InSpan(calls, i) \subseteq DOMAIN calls
    BY DEF InSpan
  <1>4. /\ Cardinality(InSpan(calls, i)) <= Cardinality(InSpan(calls', i))
        /\ Cardinality(InSpan(calls, i)) \in Nat /\ Cardinality(InSpan(calls', i)) \in Nat
    BY <1>2, <1>3, FewerEntries, Countable
  <1>5. Cardinality(InSpan(calls', i)) > MaxCalls
    BY <1>1, <1>4, LimitConstants
  <1>6. QED
    BY <1>5 DEF Impolite

\* The clock goes on, or something else happens.
LEMMA ClockKeeps ==
  ASSUME KeyInv, LimitInv, UNCHANGED <<req, limitVars>>, clock' \in Nat,
         clock <= clock', clock' <= Horizon
  PROVE  LimitInv'
  <1>1. /\ counters' = counters /\ cached' = cached /\ calls' = calls
        /\ admitted' = admitted /\ raced' = raced /\ req' = req
    BY DEF limitVars, limiterVars, observedVars
  <1>2. InLimiter' = InLimiter /\ Pending' = Pending /\ clock \in Nat
    BY <1>1 DEF InLimiter, Pending, KeyInv
  <1>3. LimitTypes'
    BY <1>1, <1>2, LimitConstants DEF LimitInv, LimitTypes
  <1>4. CountBound'
    BY <1>1, <1>2 DEF LimitInv, CountBound
  <1>5. LoneInv'
    <2>1. ASSUME NEW c \in Counters, Honest(c) PROVE Honest(c)'
      BY <1>1, <1>2, <2>1 DEF Honest, Counted, Counters, Earlier
    <2>2. (Len(counters) # 0 => counters[Len(counters)] \in Counters) /\ (Alone => Alone')
      BY <1>1, <1>2, Logged DEF LimitInv, LimitTypes, Alone
    <2>3. QED
      BY <1>1, <2>1, <2>2 DEF LimitInv, LoneInv, SpansBounded, Impolite
  <1>6. QED
    BY <1>3, <1>4, <1>5 DEF LimitInv

\* The cache loses the counter, which a thread may hold.
LEMMA EvictKeeps ==
  ASSUME KeyInv, LimitInv, Evict
  PROVE  LimitInv'
  <1>1. /\ counters' = counters /\ cached' = 0 /\ calls' = calls
        /\ admitted' = admitted /\ raced' = raced /\ req' = req /\ clock' = clock
    BY DEF Evict, observedVars
  <1>2. InLimiter' = InLimiter /\ Pending' = Pending
    BY <1>1 DEF InLimiter, Pending
  <1>3. LimitTypes'
    BY <1>1, <1>2 DEF LimitInv, LimitTypes
  <1>4. CountBound'
    BY <1>1, <1>2 DEF LimitInv, CountBound
  <1>5. LoneInv'
    <2>1. ASSUME NEW c, Honest(c) PROVE Honest(c)'
      BY <1>1, <1>2, <2>1 DEF Honest, Counted, Earlier
    <2>2. Alone => Alone'
      BY <1>1, <1>2 DEF Alone
    <2>3. QED
      BY <1>1, <2>1, <2>2 DEF LimitInv, LoneInv, SpansBounded, Impolite
  <1>6. QED
    BY <1>3, <1>4, <1>5 DEF LimitInv

\* A request moves on before or after the limiter.
LEMMA OutsideKeeps ==
  ASSUME KeyInv, LimitInv, NEW t \in Threads, NEW r, req' = [req EXCEPT ![t] = r],
         req[t].at \notin Inside, r.at \notin Inside,
         r.answer = "limited" => req[t].answer = "limited",
         UNCHANGED limitVars, clock' = clock
  PROVE  LimitInv'
  <1>1. /\ counters' = counters /\ cached' = cached /\ calls' = calls
        /\ admitted' = admitted /\ raced' = raced /\ clock' = clock
    BY DEF limitVars, limiterVars, observedVars
  <1>2. /\ req'[t] = r /\ \A u \in Threads : u # t => req'[u] = req[u]
        /\ InLimiter' = InLimiter /\ Pending' = Pending /\ t \notin InLimiter
        /\ InLimiter \subseteq Threads
    BY ThreadMoves DEF Inside, InLimiter, Pending
  <1>3. \A u \in InLimiter : req'[u] = req[u]
    BY <1>2
  <1>4. LimitTypes'
    BY <1>1, <1>2, <1>3 DEF LimitInv, LimitTypes
  <1>5. \A u \in Threads : req'[u].answer = "limited" => req[u].answer = "limited"
    BY <1>2
  <1>6. \A u \in Threads : req'[u].at = "count" => req'[u] = req[u]
    BY <1>2 DEF Inside
  <1>7. CountBound'
    BY <1>1, <1>2, <1>5, <1>6 DEF LimitInv, CountBound
  <1>8. LoneInv'
    <2>1. ASSUME NEW c, Honest(c) PROVE Honest(c)'
      BY <1>1, <1>2, <1>3, <2>1 DEF Honest, Counted, Earlier
    <2>2. Alone => Alone'
      BY <1>1, <1>2, <1>3 DEF Alone
    <2>3. QED
      BY <1>1, <1>5, <2>1, <2>2 DEF LimitInv, LoneInv, SpansBounded, Impolite
  <1>9. QED
    BY <1>4, <1>7, <1>8 DEF LimitInv

LEMMA CountersTyped ==
  ASSUME counters \in Seq(Counters), NEW k \in DOMAIN counters
  PROVE  counters[k] \in Counters /\ counters[k].start \in Nat /\ counters[k].count \in Nat
  <1>1. counters[k] \in Counters
    OBVIOUS
  <1>2. QED
    BY <1>1 DEF Counters

\* A call comes to the limiter.
LEMMA LookupKeeps ==
  ASSUME KeyInv, LimitInv, NEW t \in Threads, RateLookup(t)
  PROVE  LimitInv'
  <1> DEFINE r == [req[t] EXCEPT !.at = "compare", !.held = cached, !.now = clock]
  <1>1. /\ counters' = counters /\ cached' = cached /\ calls' = Append(calls, clock)
        /\ admitted' = admitted /\ raced' = (raced \/ InLimiter # {}) /\ clock' = clock
        /\ req[t].at = "lookup" /\ clock \in Nat /\ req' = [req EXCEPT ![t] = r]
    BY DEF RateLookup, limiterVars, At, KeyInv
  <1>2. r.at = "compare" /\ r.held = cached /\ r.now = clock /\ r.answer = req[t].answer
    BY DEF KeyInv, Shaped, Fields
  <1> HIDE DEF r
  <1>3. /\ req'[t] = r /\ \A u \in Threads : u # t => req'[u] = req[u]
        /\ InLimiter' = InLimiter \cup {t} /\ Pending' = Pending \cup {t}
        /\ t \notin InLimiter /\ t \notin Pending
    BY <1>1, <1>2, ThreadMoves DEF Inside, InLimiter, Pending
  <1>4. /\ calls \in Seq(Nat) /\ calls' \in Seq(Nat) /\ Len(calls) \in Nat
        /\ Len(calls') = Len(calls) + 1 /\ calls'[Len(calls')] = clock
    BY <1>1, Logged DEF LimitInv, LimitTypes
  <1>5. \A u \in InLimiter : u \in Threads /\ req'[u] = req[u]
    BY <1>3 DEF InLimiter
  <1>6. LimitTypes'
    BY <1>1, <1>2, <1>3, <1>4, <1>5 DEF LimitInv, LimitTypes
  <1>7. CountBound'
    <2>1. Cardinality(Pending') = Cardinality(Pending) + 1 /\ Cardinality(Pending) \in Nat
      BY <1>3, PendingCard
    <2>2. \A k \in DOMAIN counters : counters[k].count \in Nat
      BY CountersTyped DEF LimitInv, LimitTypes
    <2>3. \A u \in Threads : req'[u].at = "count" => req'[u] = req[u] /\ req[u].read \in Nat
      BY <1>2, <1>3 DEF LimitInv, LimitTypes, InLimiter
    <2>4. \A u \in Threads : req'[u].answer = req[u].answer
      BY <1>2, <1>3
    <2>5. QED
      BY <1>1, <1>4, <2>1, <2>2, <2>3, <2>4, LimitConstants DEF LimitInv, CountBound
  <1>8. ASSUME ~raced' PROVE LoneInv'
    <2>1. ~raced /\ InLimiter = {} /\ InLimiter' = {t}
      BY <1>1, <1>3, <1>8
    <2>2. Pending = {} /\ Pending' = {t}
      BY <1>3, <2>1 DEF InLimiter, Pending
    <2>3. Alone'
      BY <1>1, <1>2, <1>3, <1>4, <2>1 DEF LimitInv, LoneInv, Alone
    <2>4. ASSUME NEW c \in Counters, Honest(c) PROVE Honest(c)'
      <3>1. InSpan(calls', c.start) \ {Len(calls')} = InSpan(calls, c.start)
        BY <1>1, <1>4, Logged DEF InSpan
      <3>2. Counted(c.start)' = Counted(c.start)
        BY <2>2, <3>1 DEF Counted
      <3>3. \A u \in InLimiter' : req'[u] = r
        BY <1>3, <2>1
      <3>4. QED
        BY <1>1, <1>2, <2>4, <3>2, <3>3 DEF Honest, Earlier
    <2>5. Len(counters) # 0 => counters[Len(counters)] \in Counters
      BY DEF LimitInv, LimitTypes
    <2>6. \A u \in Threads : req'[u].answer = req[u].answer
      BY <1>2, <1>3
    <2>7. Impolite => Impolite'
      BY <1>1, <1>4, StillImpolite
    <2>8. QED
      BY <1>1, <2>1, <2>3, <2>4, <2>5, <2>6, <2>7 DEF LimitInv, LoneInv, SpansBounded
  <1>9. QED
    BY <1>6, <1>7, <1>8 DEF LimitInv, LoneInv

\* The entry is there and its period not over: the count is read.
LEMMA ReadKeeps ==
  ASSUME KeyInv, LimitInv, NEW t \in Threads, RateRead(t)
  PROVE  LimitInv'
  <1> DEFINE c == counters[req[t].held]
             r == [req[t] EXCEPT !.at = "count", !.read = c.count]
  <1>1. /\ counters' = counters /\ cached' = cached /\ calls' = calls
        /\ admitted' = admitted /\ raced' = raced /\ clock' = clock
        /\ req[t].at = "compare" /\ req' = [req EXCEPT ![t] = r]
        /\ req[t].held # 0 /\ req[t].now < c.start + Period
    BY DEF RateRead, InPeriod, limitVars, limiterVars, observedVars, At, KeyInv
  <1>2. /\ r.at = "count" /\ r.read = c.count /\ r.held = req[t].held
        /\ r.now = req[t].now /\ r.answer = req[t].answer
    BY DEF KeyInv, Shaped, Fields
  <1>3. t \in InLimiter /\ t \in Pending /\ req[t].held \in DOMAIN counters /\ c \in Counters
    BY <1>1 DEF InLimiter, Pending, LimitInv, LimitTypes
  <1> HIDE DEF r, c
  <1>4. /\ req'[t] = r /\ \A u \in Threads : u # t => req'[u] = req[u]
        /\ InLimiter' = InLimiter /\ Pending' = Pending
    <2>1. /\ req'[t] = r /\ \A u \in Threads : u # t => req'[u] = req[u]
          /\ InLimiter' = InLimiter \cup {t} /\ Pending' = Pending \cup {t}
      BY <1>1, <1>2, ThreadMoves DEF Inside
    <2>2. QED
      BY <1>3, <2>1
  <1>5. \A u \in InLimiter : u \in Threads
    BY DEF InLimiter
  <1>6. LimitTypes'
    BY <1>1, <1>2, <1>3, <1>4, <1>5 DEF LimitInv, LimitTypes, Counters
  <1>7. CountBound'
    <2>1. c.count + Cardinality(Pending) <= Len(calls)
      BY <1>3 DEF LimitInv, CountBound, c
    <2>2. QED
      BY <1>1, <1>2, <1>4, <2>1 DEF LimitInv, CountBound
  <1>8. ASSUME ~raced' PROVE LoneInv'
    <2>1. ~raced /\ Alone
      BY <1>1, <1>8 DEF LimitInv, LoneInv
    <2>2. InLimiter = {t} /\ req[t].held = Len(counters) /\ Len(counters) # 0
      BY <1>1, <1>3, <2>1 DEF Alone
    <2>3. Honest(c)
      BY <2>1, <2>2 DEF LimitInv, LoneInv, c
    <2>5. Honest(counters[Len(counters)])'
      <3>1. counters'[Len(counters')] = c
        BY <1>1, <2>2 DEF c
      <3>2. \A u \in InLimiter' : req'[u] = r /\ u = t
        BY <1>4, <2>2
      <3>3. Counted(c.start) = IF Pending' = {} THEN InSpan(calls', c.start)
                                                ELSE InSpan(calls', c.start) \ {Len(calls')}
        BY <1>1, <1>4 DEF Counted
      <3>4. QED
        BY <1>1, <1>2, <1>3, <2>2, <2>3, <3>1, <3>2, <3>3 DEF Honest, Counted, Earlier
    <2>6. Alone'
      BY <1>1, <1>2, <1>4, <2>1, <2>2 DEF Alone
    <2>7. \A u \in Threads : req'[u].answer = req[u].answer
      BY <1>2, <1>4
    <2>8. QED
      BY <1>1, <2>1, <2>2, <2>5, <2>6, <2>7 DEF LimitInv, LoneInv, SpansBounded, Impolite
  <1>9. QED
    BY <1>6, <1>7, <1>8 DEF LimitInv, LoneInv

\* The last call is in the period of the counter that counts it.
LEMMA LastCounts ==
  ASSUME calls \in Seq(Nat), Len(calls) > 0, NEW i \in Nat, i <= calls[Len(calls)],
         calls[Len(calls)] < i + Period
  PROVE  Cardinality(InSpan(calls, i)) = Cardinality(InSpan(calls, i) \ {Len(calls)}) + 1
         /\ Cardinality(InSpan(calls, i) \ {Len(calls)}) \in Nat
  <1> DEFINE S == InSpan(calls, i)
  <1>1. S \subseteq DOMAIN calls /\ Len(calls) \in S
    BY DEF InSpan
  <1> HIDE DEF S
  <1>2. IsFiniteSet(S) /\ Cardinality(S) \in Nat /\ Cardinality(S \ {Len(calls)}) \in Nat
    BY <1>1, Countable
  <1>3. Cardinality(S \ {Len(calls)}) = Cardinality(S) - 1
    BY <1>1, <1>2, FS_RemoveElement
  <1>4. QED
    BY <1>2, <1>3 DEF S

\* A counter gets a new value.
LEMMA CounterSet ==
  ASSUME counters \in Seq(Counters), NEW h \in DOMAIN counters, NEW c \in Counters,
         counters' = [counters EXCEPT ![h] = c]
  PROVE  /\ counters' \in Seq(Counters) /\ Len(counters') = Len(counters)
         /\ DOMAIN counters' = DOMAIN counters /\ counters'[h] = c
         /\ \A k \in DOMAIN counters : k # h => counters'[k] = counters[k]
  OBVIOUS

\* The count is written, from what was read.
LEMMA CountKeeps ==
  ASSUME KeyInv, LimitInv, NEW t \in Threads, RateCount(t)
  PROVE  LimitInv'
  <1> DEFINE h == req[t].held
             c == [counters[h] EXCEPT !.count = req[t].read + 1]
             r == [req[t] EXCEPT !.at = "over"]
  <1>1. /\ cached' = h /\ calls' = calls
        /\ admitted' = admitted /\ raced' = raced /\ clock' = clock
        /\ req[t].at = "count" /\ req' = [req EXCEPT ![t] = r]
    BY DEF RateCount, Go, observedVars, At, KeyInv
  <1>2. /\ r.at = "over" /\ r.held = h /\ r.now = req[t].now /\ r.answer = req[t].answer
    BY DEF KeyInv, Shaped, Fields
  <1>3. /\ t \in InLimiter /\ t \in Pending /\ h \in DOMAIN counters
        /\ counters[h] \in Counters /\ req[t].read \in Nat /\ counters \in Seq(Counters)
    BY <1>1 DEF InLimiter, Pending, LimitInv, LimitTypes
  <1>4. c \in Counters /\ c.count = req[t].read + 1 /\ c.start = counters[h].start
        /\ counters' = [counters EXCEPT ![h] = c]
    BY <1>3 DEF Counters, RateCount
  <1> HIDE DEF h, c, r
  <1>5. /\ counters' \in Seq(Counters) /\ Len(counters') = Len(counters)
        /\ DOMAIN counters' = DOMAIN counters /\ counters'[h] = c
        /\ \A k \in DOMAIN counters : k # h => counters'[k] = counters[k]
    BY <1>3, <1>4, CounterSet
  <1>6. /\ req'[t] = r /\ \A u \in Threads : u # t => req'[u] = req[u]
        /\ InLimiter' = InLimiter /\ Pending' = Pending \ {t}
    <2>1. /\ req'[t] = r /\ \A u \in Threads : u # t => req'[u] = req[u]
          /\ InLimiter' = InLimiter \cup {t} /\ Pending' = Pending \ {t}
      BY <1>1, <1>2, ThreadMoves DEF Inside
    <2>2. QED
      BY <1>3, <2>1
  <1>7. \A u \in InLimiter : u \in Threads
    BY DEF InLimiter
  <1>8. LimitTypes'
    BY <1>1, <1>2, <1>3, <1>5, <1>6, <1>7 DEF LimitInv, LimitTypes, h
  <1>9. CountBound'
    <2>1. /\ Cardinality(Pending') = Cardinality(Pending) - 1
          /\ Cardinality(Pending) \in Nat /\ Cardinality(Pending) >= 1 /\ Len(calls) \in Nat
      BY <1>3, <1>6, PendingCard DEF LimitInv, LimitTypes
    <2>2. req[t].read + Cardinality(Pending) <= Len(calls)
      BY <1>1 DEF LimitInv, CountBound
    <2>3. c.count + Cardinality(Pending') <= Len(calls)
      BY <1>3, <1>4, <2>1, <2>2
    <2>4. ASSUME NEW k \in DOMAIN counters, k # h
          PROVE  counters'[k].count + Cardinality(Pending') <= Len(calls)
      <3>1. counters[k].count \in Nat /\ counters[k].count + Cardinality(Pending) <= Len(calls)
        BY CountersTyped DEF LimitInv, LimitTypes, CountBound
      <3>2. QED
        BY <1>5, <2>1, <2>4, <3>1
    <2>5. ASSUME NEW u \in Threads, req'[u].at = "count"
          PROVE  req'[u].read + Cardinality(Pending') <= Len(calls)
      <3>1. req'[u] = req[u] /\ req[u].at = "count"
        BY <1>2, <1>6, <2>5
      <3>2. req[u].read \in Nat /\ req[u].read + Cardinality(Pending) <= Len(calls)
        BY <3>1 DEF LimitInv, LimitTypes, CountBound, InLimiter
      <3>3. QED
        BY <2>1, <3>1, <3>2
    <2>6. \A u \in Threads : req'[u].answer = req[u].answer
      BY <1>2, <1>6
    <2>7. Cardinality(Pending') <= Len(calls)
      BY <2>1 DEF LimitInv, CountBound
    <2>8. QED
      BY <1>1, <1>5, <2>3, <2>4, <2>5, <2>6, <2>7 DEF LimitInv, CountBound
  <1>10. ASSUME ~raced' PROVE LoneInv'
    <2>1. ~raced /\ Alone
      BY <1>1, <1>10 DEF LimitInv, LoneInv
    <2>2. /\ InLimiter = {t} /\ h = Len(counters) /\ h # 0 /\ Len(calls) > 0
          /\ calls[Len(calls)] = req[t].now /\ calls \in Seq(Nat)
      BY <1>3, <2>1 DEF Alone, LimitInv, LimitTypes, h
    <2>3. Honest(counters[h])
      BY <2>1, <2>2 DEF LimitInv, LoneInv
    <2>4. Pending # {} /\ Pending' = {}
      BY <1>3, <1>6, <2>2 DEF Pending, InLimiter
    <2>5. /\ c.start \in Nat /\ counters[h].count \in Nat /\ req[t].read = counters[h].count
          /\ c.start <= req[t].now /\ req[t].now < c.start + Period
      BY <1>1, <1>3, <1>4, <2>3 DEF Honest, Counters
    <2>6. /\ Cardinality(InSpan(calls, c.start))
               = Cardinality(InSpan(calls, c.start) \ {Len(calls)}) + 1
          /\ Cardinality(InSpan(calls, c.start) \ {Len(calls)}) \in Nat
      BY <2>2, <2>5, LastCounts
    <2>7. Earlier \in Nat /\ Earlier' = Earlier
      BY <1>3, <1>5, <2>2 DEF Earlier
    <2>8. Fair(admitted, c, Earlier) /\ Short(admitted, c, Earlier)
      <3>1. Cardinality(Since(admitted, c.start)) \in Nat /\ Cardinality(Near(admitted, c.start)) \in Nat
        BY <2>5, LogParts DEF LimitInv, LimitTypes
      <3>2. Fair(admitted, counters[h], Earlier)
        BY <2>3 DEF Honest
      <3>3. QED
        BY <1>4, <2>5, <2>7, <3>1, <3>2, Allowance DEF Fair, Short
    <2>9. counters'[Len(counters')] = c
      BY <1>1, <1>5, <2>2
    <2>10. Honest(counters[Len(counters)])'
      <3>1. \A u \in InLimiter' : req'[u] = r
        BY <1>6, <2>2
      <3>2. Counted(counters[Len(counters)].start)' = InSpan(calls, c.start)
        BY <1>1, <2>4, <2>9 DEF Counted
      <3>3. c.count <= Cardinality(InSpan(calls, c.start))
        <4>1. counters[h].count <= Cardinality(InSpan(calls, c.start) \ {Len(calls)})
          BY <1>4, <2>3, <2>4 DEF Honest, Counted
        <4>2. QED
          BY <1>4, <2>5, <2>6, <4>1
      <3>4. c.start <= clock
        BY <1>4, <2>3 DEF Honest
      <3>5. QED
        BY <1>1, <1>2, <2>5, <2>7, <2>8, <2>9, <3>1, <3>2, <3>3, <3>4 DEF Honest
    <2>11. Alone'
      BY <1>1, <1>2, <1>5, <1>6, <2>1, <2>2 DEF Alone
    <2>12. \A u \in Threads : req'[u].answer = req[u].answer
      BY <1>2, <1>6
    <2>13. QED
      BY <1>1, <1>5, <2>1, <2>2, <2>10, <2>11, <2>12 DEF LimitInv, LoneInv, SpansBounded, Impolite
  <1>11. QED
    BY <1>8, <1>9, <1>10 DEF LimitInv, LoneInv

\* The thread leaves the limiter, admitted or not.
LEMMA AdmitLeaves ==
  ASSUME KeyInv, NEW t \in Threads, req[t].at \in Inside,
         Admit(t) \/ Answer(t, "limited")
  PROVE  /\ \A u \in Threads : u # t => req'[u] = req[u]
         /\ InLimiter' = InLimiter \ {t} /\ Pending' = Pending \ {t}
         /\ req'[t].at \notin Inside
         /\ Admit(t) => req'[t].answer = req[t].answer
  <1>1. CASE Admit(t)
    <2> DEFINE r == [req[t] EXCEPT !.at = "method", !.held = 0, !.now = 0, !.read = 0]
    <2>1. r.at = "method" /\ r.answer = req[t].answer
      BY DEF KeyInv, Shaped, Fields
    <2>2. req' = [req EXCEPT ![t] = r]
      BY <1>1 DEF Admit, KeyInv
    <2> HIDE DEF r
    <2>3. QED
      BY <2>1, <2>2, ThreadMoves DEF Inside
  <1>2. CASE Answer(t, "limited")
    <2> DEFINE r == [Idle EXCEPT !.at = "done", !.answer = "limited",
                       !.credential = req[t].credential, !.known = req[t].known]
    <2>1. r.at = "done"
      BY DEF Idle
    <2>2. req' = [req EXCEPT ![t] = r]
      BY <1>2 DEF Answer
    <2>3. ASSUME Admit(t) PROVE req'[t].answer = req[t].answer
      <3>1. req'[t].at = "method"
        BY <2>3 DEF Admit, KeyInv, Shaped, Fields
      <3>2. req'[t] = r
        BY <2>2, ThreadMoves
      <3>3. QED
        BY <2>1, <3>1, <3>2
    <2> HIDE DEF r
    <2>4. QED
      BY <2>1, <2>2, <2>3, ThreadMoves DEF Inside
  <1>3. QED
    BY <1>1, <1>2

LEMMA StaysIn ==
  ASSUME NEW a \in Nat, NEW b \in Nat, a <= b, NEW x \in 0..a
  PROVE  x \in 0..b
  OBVIOUS

\* What is left to show when the call of t is admitted by the counter c.
LEMMA AdmitKeeps ==
  ASSUME KeyInv, LimitInv, NEW t \in Threads, req[t].at \in Inside, Admit(t),
         NEW h \in Nat, NEW c \in Counters, h # 0,
         counters' \in Seq(Counters), h \in DOMAIN counters', counters'[h] = c,
         cached' \in 0..Len(counters'),
         ~raced => h = Len(counters') /\ cached' \in {0, h},
         Len(counters') = Len(counters) \/ Len(counters') = Len(counters) + 1,
         Len(counters) <= Len(counters'),
         \A k \in DOMAIN counters' : k # h => k \in DOMAIN counters /\ counters'[k] = counters[k],
         c.count + Cardinality(Pending \ {t}) <= Len(calls),
         UNCHANGED <<calls, raced, clock>>,
         ~raced => /\ c.start <= req[t].now
                   /\ Fair(Append(admitted, req[t].now), c, Earlier')
                   /\ c.count <= Cardinality(InSpan(calls, c.start))
  PROVE  LimitInv'
  <1>1. /\ \A u \in Threads : u # t => req'[u] = req[u]
        /\ InLimiter' = InLimiter \ {t} /\ Pending' = Pending \ {t}
        /\ req'[t].at \notin Inside /\ req'[t].answer = req[t].answer
        /\ t \in InLimiter
    BY AdmitLeaves DEF InLimiter, Inside
  <1>2. /\ admitted' = Append(admitted, req[t].now) /\ req[t].now \in Nat
        /\ req[t].now <= clock /\ clock \in Nat /\ admitted \in Seq(Nat) /\ admitted' \in Seq(Nat)
    BY <1>1, Logged DEF Admit, LimitInv, LimitTypes, KeyInv
  <1>3. \A u \in InLimiter' : u \in InLimiter /\ u \in Threads /\ req'[u] = req[u]
    BY <1>1 DEF InLimiter
  <1>4. LimitTypes'
    <2>1. /\ Len(counters) \in Nat /\ Len(counters') \in Nat
          /\ DOMAIN counters' = 1..Len(counters')
      BY DEF LimitInv, LimitTypes
    <2>2. ASSUME NEW u \in InLimiter'
          PROVE  /\ req'[u].held \in 0..Len(counters')
                 /\ req'[u].now \in Nat /\ req'[u].now <= clock
                 /\ req'[u].at = "count" => req'[u].read \in Nat
                 /\ req'[u].at # "compare" => req'[u].held # 0
      <3>1. u \in InLimiter /\ req'[u] = req[u]
        BY <1>3
      <3>2. /\ req[u].held \in 0..Len(counters) /\ req[u].now \in Nat /\ req[u].now <= clock
            /\ req[u].at = "count" => req[u].read \in Nat
            /\ req[u].at # "compare" => req[u].held # 0
        BY <3>1 DEF LimitInv, LimitTypes
      <3>3. req[u].held \in 0..Len(counters')
        BY <2>1, <3>2, StaysIn, Zenon
      <3>4. QED
        BY <3>1, <3>2, <3>3
    <2>3. QED
      BY <1>2, <2>2 DEF LimitInv, LimitTypes
  <1>5. CountBound'
    <2>1. /\ Cardinality(Pending') \in Nat /\ Cardinality(Pending') <= Cardinality(Pending)
          /\ Cardinality(Pending) \in Nat
      <3>1. IsFiniteSet(Pending) /\ Pending \ {t} \in SUBSET Pending /\ Cardinality(Pending) \in Nat
        BY PendingCard
      <3>2. IsFiniteSet(Pending \ {t}) /\ Cardinality(Pending \ {t}) <= Cardinality(Pending)
        BY <3>1, FS_Subset
      <3>3. QED
        BY <1>1, <3>1, <3>2, FS_CardinalityType
    <2>2. Len(calls) \in Nat
      BY DEF LimitInv, LimitTypes
    <2>3. ASSUME NEW k \in DOMAIN counters', k # h
          PROVE  counters'[k].count + Cardinality(Pending') <= Len(calls)
      <3>1. k \in DOMAIN counters /\ counters'[k] = counters[k]
        BY <2>3
      <3>2. counters[k].count \in Nat /\ counters[k].count + Cardinality(Pending) <= Len(calls)
        BY <3>1, CountersTyped DEF LimitInv, LimitTypes, CountBound
      <3>3. QED
        BY <2>1, <2>2, <3>1, <3>2
    <2>4. ASSUME NEW u \in Threads, req'[u].at = "count"
          PROVE  req'[u].read + Cardinality(Pending') <= Len(calls)
      <3>1. req'[u] = req[u] /\ req[u].at = "count"
        BY <1>1, <2>4 DEF Inside
      <3>2. req[u].read \in Nat /\ req[u].read + Cardinality(Pending) <= Len(calls)
        BY <3>1 DEF LimitInv, LimitTypes, CountBound, InLimiter
      <3>3. QED
        BY <2>1, <2>2, <3>1, <3>2
    <2>5. \A u \in Threads : req'[u].answer = req[u].answer
      BY <1>1
    <2>6. Cardinality(Pending') <= Len(calls)
      BY <2>1, <2>2 DEF LimitInv, CountBound
    <2>7. \A k \in DOMAIN counters' : counters'[k].count + Cardinality(Pending') <= Len(calls)
      BY <1>1, <2>3
    <2>8. QED
      BY <2>4, <2>5, <2>6, <2>7 DEF LimitInv, CountBound
  <1>6. ASSUME ~raced' PROVE LoneInv'
    <2>1. ~raced /\ Alone
      BY <1>6 DEF LimitInv, LoneInv
    <2>2. InLimiter' = {} /\ Pending' = {}
      BY <1>1, <2>1 DEF Alone, InLimiter, Pending
    <2>3. Alone'
      <3>1. \A k \in DOMAIN admitted' : admitted'[k] <= clock
        BY <1>2, <2>1, Logged DEF Alone
      <3>2. QED
        BY <2>1, <2>2, <3>1 DEF Alone
    <2>4. Counted(counters[Len(counters)].start)' = InSpan(calls, c.start)
      BY <2>1, <2>2 DEF Counted
    <2>5. c.start \in Nat /\ c.start <= clock
      BY <1>2, <2>1 DEF Counters
    <2>6. Honest(counters[Len(counters)])'
      BY <1>2, <2>1, <2>2, <2>4, <2>5 DEF Honest
    <2>7. ASSUME NEW i \in Nat PROVE Cardinality(InSpan(admitted', i)) <= Allow(Len(counters') + 1)
      <3>1. /\ Earlier' \in Nat /\ Earlier' + 2 = Len(counters') + 1
            /\ Len(counters) \in Nat /\ Len(counters') \in Nat
        BY <2>1 DEF Earlier, LimitInv, LimitTypes
      <3>2. Cardinality(InSpan(admitted, i)) <= Allow(Len(counters) + 1)
        BY <2>1 DEF LimitInv, LoneInv, SpansBounded
      <3>3. Cardinality(InSpan(admitted, i)) \in Nat
        BY <1>2, Countable DEF InSpan
      <3>4. /\ Allow(Len(counters) + 1) \in Nat /\ Allow(Len(counters') + 1) \in Nat
            /\ Allow(Len(counters) + 1) <= Allow(Len(counters') + 1)
        <4>1. /\ Allow(Len(counters) + 1) \in Nat
              /\ Allow(Len(counters) + 2) = Allow(Len(counters) + 1) + MaxCalls
          BY <3>1, Allowance
        <4>2. CASE Len(counters') = Len(counters)
          BY <4>1, <4>2
        <4>3. CASE Len(counters') = Len(counters) + 1
          <5>1. Len(counters') + 1 = Len(counters) + 2
            BY <3>1, <4>3
          <5>2. QED
            BY <4>1, <5>1, LimitConstants
        <4>4. QED
          BY <4>2, <4>3
      <3>5. Cardinality(InSpan(admitted, i)) <= Allow(Earlier' + 2)
        BY <3>1, <3>2, <3>3, <3>4
      <3>6. Cardinality(InSpan(admitted', i)) <= Allow(Earlier' + 2)
        BY <1>2, <2>1, <3>1, <3>5, SpansKeep
      <3>7. QED
        BY <3>1, <3>6
    <2>8. \A u \in Threads : req'[u].answer = req[u].answer
      BY <1>1
    <2>9. QED
      BY <2>1, <2>3, <2>6, <2>7, <2>8 DEF LimitInv, LoneInv, SpansBounded, Impolite
  <1>7. QED
    BY <1>4, <1>5, <1>6 DEF LimitInv, LoneInv

\* No entry: a counter is made.
LEMMA NewKeeps ==
  ASSUME KeyInv, LimitInv, NEW t \in Threads, RateNew(t)
  PROVE  LimitInv'
  <1> DEFINE n == req[t].now
             c == [start |-> n, count |-> 1]
             h == Len(counters) + 1
  <1>1. /\ req[t].at = "compare" /\ req[t].held = 0 /\ Admit(t)
        /\ counters' = Append(counters, c) /\ cached' = h
        /\ UNCHANGED <<calls, raced, clock>>
    BY DEF RateNew, At
  <1>2. /\ t \in InLimiter /\ t \in Pending /\ n \in Nat /\ c \in Counters
        /\ counters \in Seq(Counters) /\ calls \in Seq(Nat) /\ admitted \in Seq(Nat)
        /\ req[t].at \in Inside
    BY <1>1 DEF InLimiter, Pending, Inside, LimitInv, LimitTypes, Counters
  <1> HIDE DEF c
  <1>3. /\ counters' \in Seq(Counters) /\ h \in DOMAIN counters' /\ counters'[h] = c
        /\ h \in Nat /\ h # 0 /\ Len(counters') = h /\ h \in 0..Len(counters')
        /\ \A k \in DOMAIN counters' : k # h => k \in DOMAIN counters /\ counters'[k] = counters[k]
    BY <1>1, <1>2
  <1>4. c.start = n /\ c.count = 1
    BY DEF c
  <1>5. c.count + Cardinality(Pending \ {t}) <= Len(calls)
    <2>1. Cardinality(Pending \ {t}) = Cardinality(Pending) - 1 /\ Cardinality(Pending) \in Nat
      BY <1>2, PendingCard
    <2>2. QED
      BY <1>2, <1>4, <2>1 DEF LimitInv, CountBound
  <1>6. ASSUME ~raced
        PROVE  /\ c.start <= n
               /\ Fair(Append(admitted, n), c, Earlier')
               /\ c.count <= Cardinality(InSpan(calls, c.start))
    <2>1. /\ Len(calls) > 0 /\ calls[Len(calls)] = n
          /\ \A k \in DOMAIN admitted : admitted[k] <= n
      BY <1>1, <1>2, <1>6 DEF LimitInv, LoneInv, Alone
    <2>2. Len(counters) \in Nat /\ Earlier' = Len(counters)
      BY <1>2, <1>3 DEF Earlier
    <2>5. Fair(Append(admitted, n), c, Len(counters))
      <3>1. CASE Len(counters) = 0
        <4>1. admitted = <<>>
          BY <1>6, <3>1 DEF LimitInv, LoneInv
        <4>2. Since(admitted, n) = {} /\ Near(admitted, n) = {}
          BY <4>1 DEF Since, Near
        <4>3. Cardinality(Since(admitted, n)) = 0 /\ Cardinality(Near(admitted, n)) = 0
          BY <4>2, FS_EmptySet
        <4>4. 0 <= Allow(0) /\ 0 <= Allow(0 + 1) /\ 0 \in Nat
          BY Allowance
        <4>5. Fair(Append(admitted, n), c, 0)
          BY <1>2, <2>1, <4>3, <4>4, AdmitFirst DEF c
        <4>6. QED
          BY <3>1, <4>5
      <3>2. CASE Len(counters) # 0
        <4> DEFINE d == counters[Len(counters)]
        <4>1. d \in Counters /\ Honest(d) /\ Earlier \in Nat /\ Earlier + 1 = Len(counters)
          BY <1>2, <1>6, <2>2, <3>2 DEF LimitInv, LoneInv, Earlier
        <4> HIDE DEF d
        <4>2. Fair(admitted, d, Earlier) /\ d.start <= n
          BY <1>2, <4>1 DEF Honest
        <4>3. Fair(Append(admitted, n), c, Earlier + 1)
          BY <1>2, <2>1, <4>1, <4>2, AdmitAnew DEF c
        <4>4. QED
          BY <4>1, <4>3
      <3>3. QED
        BY <3>1, <3>2
    <2>6. c.count <= Cardinality(InSpan(calls, c.start))
      <3>1. n < n + Period /\ n <= n
        BY <1>2, LimitConstants
      <3>2. /\ Cardinality(InSpan(calls, n)) = Cardinality(InSpan(calls, n) \ {Len(calls)}) + 1
            /\ Cardinality(InSpan(calls, n) \ {Len(calls)}) \in Nat
        BY <1>2, <2>1, <3>1, LastCounts
      <3>3. QED
        BY <1>4, <3>2
    <2>7. QED
      BY <1>2, <1>4, <2>2, <2>5, <2>6
  <1>7. /\ Len(counters') = Len(counters) + 1 /\ cached' \in {0, h}
        /\ Len(counters) <= Len(counters')
    BY <1>1, <1>2, <1>3
  <1> HIDE DEF h
  <1>8. QED
    BY <1>1, <1>2, <1>3, <1>5, <1>6, <1>7, AdmitKeeps

\* The period is over: the counter starts again.
LEMMA ResetKeeps ==
  ASSUME KeyInv, LimitInv, NEW t \in Threads, RateReset(t)
  PROVE  LimitInv'
  <1> DEFINE n == req[t].now
             c == [start |-> n, count |-> 1]
             h == req[t].held
  <1>1. /\ req[t].at = "compare" /\ h # 0 /\ Admit(t) /\ ~(n < counters[h].start + Period)
        /\ counters' = [counters EXCEPT ![h] = c] /\ cached' = h
        /\ UNCHANGED <<calls, raced, clock>>
    BY DEF RateReset, InPeriod, At
  <1>2. /\ t \in InLimiter /\ t \in Pending /\ n \in Nat /\ c \in Counters
        /\ counters \in Seq(Counters) /\ calls \in Seq(Nat) /\ admitted \in Seq(Nat)
        /\ req[t].at \in Inside /\ h \in Nat /\ h \in DOMAIN counters
    BY <1>1 DEF InLimiter, Pending, Inside, LimitInv, LimitTypes, Counters
  <1> HIDE DEF c
  <1>3. /\ counters' \in Seq(Counters) /\ h \in DOMAIN counters' /\ counters'[h] = c
        /\ Len(counters') = Len(counters) /\ h \in 0..Len(counters')
        /\ \A k \in DOMAIN counters' : k # h => k \in DOMAIN counters /\ counters'[k] = counters[k]
    <2>1. /\ counters' \in Seq(Counters) /\ Len(counters') = Len(counters)
          /\ DOMAIN counters' = DOMAIN counters /\ counters'[h] = c
          /\ \A k \in DOMAIN counters : k # h => counters'[k] = counters[k]
      BY <1>1, <1>2, CounterSet
    <2>2. Len(counters) \in Nat
      BY <1>2
    <2>3. QED
      BY <1>2, <2>1, <2>2
  <1>4. c.start = n /\ c.count = 1
    BY DEF c
  <1>5. c.count + Cardinality(Pending \ {t}) <= Len(calls)
    <2>1. Cardinality(Pending \ {t}) = Cardinality(Pending) - 1 /\ Cardinality(Pending) \in Nat
      BY <1>2, PendingCard
    <2>2. QED
      BY <1>2, <1>4, <2>1 DEF LimitInv, CountBound
  <1>6. ASSUME ~raced
        PROVE  /\ c.start <= n
               /\ Fair(Append(admitted, n), c, Earlier')
               /\ c.count <= Cardinality(InSpan(calls, c.start))
    <2>1. h = Len(counters) /\ Len(calls) > 0 /\ calls[Len(calls)] = n
      BY <1>1, <1>2, <1>6 DEF LimitInv, LoneInv, Alone
    <2>2. /\ Fair(admitted, counters[h], Earlier) /\ counters[h] \in Counters
          /\ counters[h].start \in Nat /\ Earlier \in Nat /\ Earlier' = Earlier
      BY <1>1, <1>2, <1>3, <1>6, <2>1, CountersTyped DEF LimitInv, LoneInv, Honest, Earlier
    <2>3. counters[h].start + Period <= n
      <3> DEFINE s == counters[h].start
      <3>1. ~(n < s + Period)
        BY <1>1
      <3>2. n \in Nat /\ s \in Nat /\ Period \in Nat
        BY <1>2, <2>2, LimitConstants
      <3> HIDE DEF n, s
      <3>3. s + Period <= n
        BY <3>1, <3>2
      <3>4. QED
        BY <3>3 DEF s
    <2>4. Fair(Append(admitted, n), c, Earlier')
      BY <1>2, <2>2, <2>3, AdmitReset DEF c
    <2>5. c.count <= Cardinality(InSpan(calls, c.start))
      <3>1. n < n + Period /\ n <= n
        BY <1>2, LimitConstants
      <3>2. /\ Cardinality(InSpan(calls, n)) = Cardinality(InSpan(calls, n) \ {Len(calls)}) + 1
            /\ Cardinality(InSpan(calls, n) \ {Len(calls)}) \in Nat
        BY <1>2, <2>1, <3>1, LastCounts
      <3>3. QED
        BY <1>4, <3>2
    <2>6. QED
      BY <1>2, <1>4, <2>4, <2>5
  <1>7. ~raced => h = Len(counters') /\ cached' \in {0, h}
    BY <1>1, <1>2, <1>3 DEF LimitInv, LoneInv, Alone
  <1>8. cached' \in 0..Len(counters') /\ Len(counters) <= Len(counters')
    BY <1>1, <1>2, <1>3
  <1> HIDE DEF h
  <1>9. QED
    BY <1>1, <1>2, <1>3, <1>5, <1>6, <1>7, <1>8, AdmitKeeps DEF h

\* The call has been counted: it passes, or is refused.
LEMMA OverKeeps ==
  ASSUME KeyInv, LimitInv, NEW t \in Threads, RateOver(t)
  PROVE  LimitInv'
  <1> DEFINE n == req[t].now
             h == req[t].held
             c == counters[h]
  <1>1. /\ req[t].at = "over" /\ UNCHANGED <<counters, cached, calls, raced, clock>>
        /\ \/ c.count > MaxCalls /\ Answer(t, "limited") /\ admitted' = admitted
           \/ ~(c.count > MaxCalls) /\ Admit(t)
    BY DEF RateOver, limiterVars, At
  <1>2. /\ t \in InLimiter /\ t \notin Pending /\ n \in Nat /\ h \in DOMAIN counters
        /\ counters \in Seq(Counters) /\ calls \in Seq(Nat) /\ admitted \in Seq(Nat)
        /\ req[t].at \in Inside /\ h \in Nat /\ h # 0
    BY <1>1 DEF InLimiter, Pending, Inside, LimitInv, LimitTypes
  <1>3. c \in Counters /\ c.start \in Nat /\ c.count \in Nat
    BY <1>2, CountersTyped
  <1>4. /\ Pending \ {t} = Pending /\ Cardinality(Pending) \in Nat
        /\ c.count + Cardinality(Pending) <= Len(calls) /\ Len(calls) \in Nat
    BY <1>2, PendingCard DEF LimitInv, CountBound
  <1>5. ASSUME ~raced
        PROVE  /\ InLimiter = {t} /\ Pending = {} /\ h = Len(counters) /\ cached \in {0, h}
               /\ Honest(c) /\ c.count <= Cardinality(InSpan(calls, c.start))
    <2>1. InLimiter = {t} /\ h = Len(counters) /\ cached \in {0, h}
      BY <1>2, <1>5 DEF LimitInv, LoneInv, Alone
    <2>2. Pending = {}
      BY <1>2, <2>1 DEF InLimiter, Pending
    <2>3. Honest(c)
      BY <1>2, <1>5, <2>1 DEF LimitInv, LoneInv
    <2>4. QED
      BY <2>1, <2>2, <2>3 DEF Honest, Counted
  <1>6. CASE ~(c.count > MaxCalls) /\ Admit(t)
    <2>1. ASSUME ~raced
          PROVE  /\ c.start <= n
                 /\ Fair(Append(admitted, n), c, Earlier')
                 /\ c.count <= Cardinality(InSpan(calls, c.start))
      <3>1. /\ Fair(admitted, c, Earlier) /\ c.start <= n /\ n < c.start + Period
            /\ Short(admitted, c, Earlier)
        BY <1>1, <1>2, <1>5, <2>1 DEF Honest
      <3>2. c.count <= MaxCalls
        BY <1>3, <1>6, LimitConstants
      <3>3. Earlier \in Nat /\ Earlier' = Earlier
        BY <1>1, <1>2, <1>5, <2>1 DEF Earlier
      <3>4. Fair(Append(admitted, n), c, Earlier)
        BY <1>2, <1>3, <3>1, <3>2, <3>3, AdmitCounted
      <3>5. QED
        BY <1>5, <2>1, <3>1, <3>3, <3>4
    <2>2. /\ counters' = counters /\ cached' \in 0..Len(counters')
          /\ (~raced => h = Len(counters') /\ cached' \in {0, h})
          /\ Len(counters') = Len(counters) /\ Len(counters) <= Len(counters')
      BY <1>1, <1>2, <1>5 DEF LimitInv, LimitTypes
    <2>3. c.count + Cardinality(Pending \ {t}) <= Len(calls)
      BY <1>4
    <2> HIDE DEF c, h
    <2>4. counters'[h] = c
      BY <2>2 DEF c
    <2>5. QED
      BY <1>1, <1>2, <1>3, <1>6, <2>1, <2>2, <2>3, <2>4, AdmitKeeps
  <1>7. CASE c.count > MaxCalls /\ Answer(t, "limited") /\ admitted' = admitted
    <2>1. /\ \A u \in Threads : u # t => req'[u] = req[u]
          /\ InLimiter' = InLimiter \ {t} /\ Pending' = Pending
          /\ req'[t].at \notin Inside
      BY <1>2, <1>4, <1>7, AdmitLeaves
    <2>2. \A u \in InLimiter' : u \in InLimiter /\ u \in Threads /\ req'[u] = req[u]
      BY <2>1 DEF InLimiter
    <2>3. LimitTypes'
      BY <1>1, <1>7, <2>2 DEF LimitInv, LimitTypes
    <2>4. CountBound'
      <3>1. \A u \in Threads : req'[u].at = "count" => req'[u] = req[u]
        BY <2>1 DEF Inside
      <3>2. Len(calls) > MaxCalls
        BY <1>3, <1>4, <1>7, LimitConstants
      <3>3. QED
        BY <1>1, <2>1, <3>1, <3>2 DEF LimitInv, CountBound
    <2>5. ASSUME ~raced' PROVE LoneInv'
      <3>1. ~raced /\ InLimiter' = {} /\ Pending' = {} /\ h = Len(counters) /\ h # 0
        BY <1>1, <1>2, <1>5, <2>1, <2>5
      <3>2. Honest(c) /\ c.start <= clock
        BY <1>5, <3>1 DEF Honest
      <3>3. Counted(counters[Len(counters)].start)' = InSpan(calls, c.start)
        BY <1>1, <3>1 DEF Counted
      <3>4. Honest(counters[Len(counters)])'
        BY <1>1, <1>5, <1>7, <3>1, <3>2, <3>3 DEF Honest, Earlier
      <3>5. Impolite'
        <4>1. c.start \in 0..Horizon
          BY <1>3, <3>2, LimitConstants DEF LimitInv, LimitTypes, KeyInv
        <4>2. Cardinality(InSpan(calls, c.start)) \in Nat
          BY <1>2, Countable DEF InSpan
        <4>3. Cardinality(InSpan(calls, c.start)) > MaxCalls
          BY <1>3, <1>5, <1>7, <3>1, <4>2, LimitConstants
        <4>4. QED
          BY <1>1, <4>1, <4>3 DEF Impolite
      <3>6. Alone'
        BY <1>1, <1>7, <3>1 DEF LimitInv, LoneInv, Alone
      <3>7. QED
        BY <1>1, <1>2, <1>7, <3>1, <3>4, <3>5, <3>6 DEF LimitInv, LoneInv, SpansBounded
    <2>6. QED
      BY <2>3, <2>4, <2>5 DEF LimitInv, LoneInv
  <1>8. QED
    BY <1>1, <1>6, <1>7

-----------------------------------------------------------------------------
(* The rate limiter: the whole process.                                    *)

\* The steps of a request that only change where it is, or answer it.
LEMMA GoOutside ==
  ASSUME KeyInv, LimitInv, NEW t \in Threads, req[t].at \notin Inside,
         NEW p, p \notin Inside, NEW a, a # "limited",
         Go(t, p) \/ Answer(t, a), UNCHANGED limitVars, clock' = clock
  PROVE  LimitInv'
  <1>1. CASE Go(t, p)
    <2> DEFINE r == [req[t] EXCEPT !.at = p]
    <2>1. r.at = p /\ r.answer = req[t].answer
      BY DEF KeyInv, Shaped, Fields
    <2>2. req' = [req EXCEPT ![t] = r]
      BY <1>1 DEF Go, KeyInv
    <2> HIDE DEF r
    <2>3. QED
      BY <2>1, <2>2, OutsideKeeps
  <1>2. CASE Answer(t, a)
    <2> DEFINE r == [Idle EXCEPT !.at = "done", !.answer = a,
                       !.credential = req[t].credential, !.known = req[t].known]
    <2>1. r.at = "done" /\ r.answer = a
      BY DEF Idle
    <2>2. req' = [req EXCEPT ![t] = r]
      BY <1>2 DEF Answer
    <2> HIDE DEF r
    <2>3. QED
      BY <2>1, <2>2, OutsideKeeps DEF Inside
  <1>3. QED
    BY <1>1, <1>2

LEMMA ThreadKeepsLimit ==
  ASSUME KeyInv, LimitInv, NEW t \in Threads, ThreadStep(t)
  PROVE  LimitInv'
  <1>1. CASE RateLookup(t) \/ RateNew(t) \/ RateRead(t) \/ RateCount(t) \/ RateOver(t)
             \/ RateReset(t)
    BY <1>1, LookupKeeps, NewKeeps, ReadKeeps, CountKeeps, OverKeeps, ResetKeeps
  <1>2. CASE Method(t)
    <2>1. UNCHANGED limitVars /\ clock' = clock /\ req[t].at \notin Inside
      BY <1>2 DEF Method, At, Inside
    <2>2. \/ Answer(t, "options") \/ Answer(t, "400") \/ Go(t, "authorize") \/ Go(t, "handle")
      BY <1>2 DEF Method
    <2>3. {"authorize", "handle"} \cap Inside = {}
      BY DEF Inside
    <2>4. QED
      BY <2>1, <2>2, <2>3, GoOutside
  <1>3. CASE Token(t)
    <2>1. UNCHANGED limitVars /\ clock' = clock /\ req[t].at \notin Inside
      BY <1>3 DEF Token, At, Inside
    <2>2. Answer(t, "403") \/ Go(t, "handle")
      BY <1>3 DEF Token
    <2>3. QED
      BY <2>1, <2>2, GoOutside DEF Inside
  <1>4. CASE KeyLookup(t) \/ KeyConfirmed(t) \/ KeyStore(t) \/ KeyRefused(t)
    <2>1. UNCHANGED limitVars /\ clock' = clock /\ req[t].at \notin Inside
      BY <1>4 DEF KeyLookup, KeyConfirmed, KeyStore, KeyRefused, At, Inside
    <2>2. Go(t, "handle") \/ Go(t, "ask") \/ Go(t, "store") \/ Answer(t, "403")
      BY <1>4 DEF KeyLookup, KeyConfirmed, KeyStore, KeyRefused
    <2>3. {"handle", "ask", "store"} \cap Inside = {}
      BY DEF Inside
    <2>4. QED
      BY <2>1, <2>2, <2>3, GoOutside
  <1>5. CASE Handle(t)
    <2>1. UNCHANGED limitVars /\ clock' = clock /\ req[t].at \notin Inside
      BY <1>5 DEF Handle, At, Inside
    <2>2. Answer(t, "handled") \/ Answer(t, "400")
      BY <1>5 DEF Handle
    <2>3. "done" \notin Inside
      BY DEF Inside
    <2>4. QED
      BY <2>1, <2>2, <2>3, GoOutside
  <1>6. QED
    BY <1>1, <1>2, <1>3, <1>4, <1>5 DEF ThreadStep

LEMMA RequestKeepsLimit ==
  ASSUME KeyInv, LimitInv, NEW t \in Threads, Request(t)
  PROVE  LimitInv'
  <1>1. CASE BadBody(t)
    <2> DEFINE r == [Idle EXCEPT !.at = "done", !.answer = "400"]
    <2>1. r.at = "done" /\ r.answer = "400"
      BY DEF Idle
    <2>2. /\ req' = [req EXCEPT ![t] = r] /\ UNCHANGED limitVars /\ clock' = clock
          /\ req[t].at \notin Inside
      BY <1>1 DEF BadBody, At, Inside
    <2> HIDE DEF r
    <2>3. QED
      BY <2>1, <2>2, OutsideKeeps DEF Inside
  <1>2. ASSUME NEW q, NEW c, Begin(t, q, c)
        PROVE  LimitInv'
    <2> DEFINE p == IF q.limited THEN "lookup" ELSE "method"
               r == [Idle EXCEPT !.at = p, !.route = q.name, !.limited = q.limited,
                       !.authorize = q.authorize, !.credential = c, !.known = keyGood]
    <2>1. r.at = p /\ r.answer = "none"
      BY DEF Idle
    <2>2. p \notin Inside
      BY DEF Inside
    <2>3. /\ req' = [req EXCEPT ![t] = r] /\ UNCHANGED limitVars /\ clock' = clock
          /\ req[t].at \notin Inside
      BY <1>2 DEF Begin, At, Inside
    <2> HIDE DEF r, p
    <2>4. QED
      BY <2>1, <2>2, <2>3, OutsideKeeps
  <1>3. QED
    BY <1>1, <1>2 DEF Request

LEMMA LimitInit == PortalInit => LimitInv
  <1> SUFFICES ASSUME PortalInit PROVE LimitInv
    OBVIOUS
  <1>1. /\ req = [t \in Threads |-> Idle] /\ clock = 0 /\ counters = <<>> /\ cached = 0
        /\ calls = <<>> /\ admitted = <<>>
    BY DEF PortalInit, HandlingInit
  <1>2. \A t \in Threads : req[t].at = "idle" /\ req[t].answer = "none"
    BY <1>1 DEF Idle
  <1>3. InLimiter = {} /\ Pending = {} /\ Cardinality(Pending) = 0
    BY <1>2, FS_EmptySet DEF InLimiter, Pending
  <1>4. LimitTypes
    BY <1>1, <1>3, LimitConstants DEF LimitTypes
  <1>5. CountBound
    BY <1>1, <1>2, <1>3 DEF CountBound
  <1>6. SpansBounded
    <2>1. \A i \in Nat : InSpan(admitted, i) = {}
      BY <1>1 DEF InSpan
    <2>2. QED
      <3>1. Allow(Len(counters) + 1) \in Nat
        BY <1>1, Allowance
      <3>2. QED
        BY <2>1, <3>1, FS_EmptySet DEF SpansBounded
  <1>7. LoneInv
    BY <1>1, <1>2, <1>3, <1>6 DEF LoneInv, Alone
  <1>8. QED
    BY <1>4, <1>5, <1>7 DEF LimitInv

LEMMA LimitStep ==
  ASSUME KeyInv, KeyInv', LimitInv, [PortalNext]_portalVars
  PROVE  LimitInv'
  <1>1. CASE UNCHANGED <<req, limitVars, clock>>
    <2>1. clock \in Nat /\ clock <= Horizon
      BY DEF KeyInv, LimitInv, LimitTypes
    <2>2. QED
      BY <1>1, <2>1, ClockKeeps
  <1>2. CASE Run \/ NetworkChanges \/ UNCHANGED portalVars
    BY <1>1, <1>2 DEF Run, NetworkChanges, portalVars, handlingVars
  <1>3. CASE Serve
    <2>1. CASE Tick
      <3>1. /\ clock' = clock + 1 /\ UNCHANGED <<req, limitVars>> /\ clock < Horizon
            /\ clock \in Nat
        BY <2>1 DEF Tick, KeyInv
      <3>2. clock' \in Nat /\ clock <= clock' /\ clock' <= Horizon
        BY <3>1, LimitConstants
      <3>3. QED
        BY <3>1, <3>2, ClockKeeps
    <2>2. CASE DropKey
      BY <1>1, <2>2 DEF DropKey
    <2>3. QED
      BY <1>3, <2>1, <2>2, ThreadKeepsLimit, EvictKeeps DEF Serve
  <1>4. ASSUME NEW t \in Threads, ViewBegins(t)
        PROVE  LimitInv'
    <2>1. /\ Go(t, "viewing") /\ UNCHANGED limitVars /\ clock' = clock
          /\ req[t].at \notin Inside /\ "viewing" \notin Inside
      BY <1>4 DEF ViewBegins, At, Inside
    <2>2. QED
      BY <2>1, GoOutside
  <1>5. ASSUME NEW t \in Threads, ViewAnswers(t)
        PROVE  LimitInv'
    <2>1. /\ Answer(t, "handled") /\ UNCHANGED limitVars /\ clock' = clock
          /\ req[t].at \notin Inside /\ "viewing" \notin Inside
      BY <1>5 DEF ViewAnswers, At, Inside
    <2>2. QED
      BY <2>1, GoOutside
  <1>6. ASSUME NEW t \in Threads, ViewWorks(t)
        PROVE  LimitInv'
    BY <1>1, <1>6 DEF ViewWorks, handlingVars
  <1>7. QED
    BY <1>2, <1>3, <1>4, <1>5, <1>6, RequestKeepsLimit DEF PortalNext

\* IsRateLimited, for any threads, period and limit: a client that keeps to
\* the limit is refused only when two of its calls were in the limiter at
\* once, without such a race nobody gets more through in a period than twice
\* the limit and the limit again for each counter that the cache lost, and
\* even a race refuses nobody who has not made more calls than the limit at
\* all.
THEOREM LimitTheorem == PortalSpec => []LimitHonest
  <1>1. LimitInv => LimitHonest
    <2> SUFFICES ASSUME LimitInv PROVE LimitHonest
      OBVIOUS
    <2>1. ASSUME ~raced
          PROVE  /\ Polite => \A t \in Threads : req[t].answer # "limited"
                 /\ \A i \in 0..Horizon :
                      Cardinality(InSpan(admitted, i)) <= (Len(counters) + 1) * MaxCalls
      <3>1. SpansBounded /\ \A t \in Threads : req[t].answer = "limited" => Impolite
        BY <2>1 DEF LimitInv, LoneInv
      <3>2. Impolite => ~Polite
        <4>1. ASSUME NEW i \in 0..Horizon
              PROVE  Cardinality(InSpan(calls, i)) \in Nat
          BY Countable DEF InSpan, LimitInv, LimitTypes
        <4>2. QED
          BY <4>1, LimitConstants DEF Impolite, Polite
      <3>3. QED
        BY <3>1, <3>2 DEF SpansBounded, Allow
    <2>2. QED
      BY <2>1 DEF LimitHonest, LimitInv, CountBound
  <1>2. QED
    BY <1>1, LimitInit, LimitStep, KeyInvHolds, PTL DEF PortalSpec
=============================================================================
