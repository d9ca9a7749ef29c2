------------------------------ MODULE Topology ------------------------------
(***************************************************************************)
(* GET /topology (RESTAPI_topology_handler): the picture of a subscriber's *)
(* network is put together from six answers: the device list, inventory,   *)
(* venue and location of the gateway, the topology of the venue's board,   *)
(* and the running configuration of the gateway, from which the blocked    *)
(* clients are taken (ParentalTime).  What the answers are about may       *)
(* change between any two of them.                                         *)
(*                                                                         *)
(* The board reports nodes, with the clients they serve, and edges of the  *)
(* whole venue, whoever owns them, and the clients it has ever seen; its   *)
(* reports are taken to be well formed.  Nodes and edges are filtered by   *)
(* the subscriber's devices, the history is not.  Venue, board and zone    *)
(* are those of the gateway's inventory record when it is read: a gateway  *)
(* that has moved since the device list was read shows its new venue.      *)
(***************************************************************************)
EXTENDS Naturals

CONSTANTS
  Viewers,    \* the threads that serve the request
  Serials,    \* devices at the venue
  Stations,   \* clients seen there
  Venues,     \* venues the gateway may be in; NoVenue when it is in none
  NoVenue,
  Boards,     \* what the topology service may report, with the venue
  Gateway,    \* the device that may be the subscriber's gateway
  Zones,      \* time zones of a location; NoZone when it has none or a bad one
  NoZone,
  MaxChanges  \* bound on the changes while a request runs

Nodes == [serial : Serials, clients : SUBSET Stations]

ASSUME BoardsAssumption ==
  Boards \subseteq [venue : Venues, nodes : SUBSET Nodes,
                   edges : SUBSET (Serials \X Serials), historical : SUBSET Stations]

VARIABLES
  view,       \* per thread: where the handler is and what it has read
  devices,    \* the subscriber's devices
  blocked,    \* the clients that the gateway's configuration blocks
  venue,      \* the venue in the gateway's inventory record
  zone,       \* per venue: the time zone of its location
  changes     \* how often these four changed

networkVars == <<devices, blocked, venue, zone, changes>>
topologyVars == <<view, networkVars>>

EmptyBoard == [venue |-> NoVenue, nodes |-> {}, edges |-> {}, historical |-> {}]

\* The last two are observations: the devices the subscriber had at some time
\* since the request began, and the venues and their zones likewise.
Unasked ==
  [at |-> "idle", list |-> {}, venue |-> NoVenue, zone |-> NoZone,
   board |-> EmptyBoard, flags |-> {}, answer |-> "none",
   had |-> {}, zoned |-> {}]

\* The graph of a function: which zone each venue is in.
ZonesOf(z) == {<<w, z[w]>> : w \in Venues}

TopologyInit ==
  /\ view = [v \in Viewers |-> Unasked]
  /\ devices \in SUBSET Serials
  /\ blocked \in SUBSET Stations
  /\ venue \in Venues \cup {NoVenue}
  /\ zone \in [Venues -> Zones \cup {NoZone}]
  /\ changes = 0

Reading == {v \in Viewers : view[v].at \notin {"idle", "done"}}

\* Every request that runs takes note of what holds after a step.
Noted ==
  view' = [v \in Viewers |->
    IF v \in Reading
    THEN [view[v] EXCEPT !.had = @ \cup devices', !.zoned = @ \cup ZonesOf(zone')]
    ELSE view[v]]

-----------------------------------------------------------------------------
(* The handler.                                                            *)

\* A request without a subscriber id is answered 404.
DoGet(v) ==
  /\ view[v].at \in {"idle", "done"}
  /\ \/ view' = [view EXCEPT ![v] =
          [Unasked EXCEPT !.at = "devices", !.had = devices, !.zoned = ZonesOf(zone)]]
     \/ view' = [view EXCEPT ![v] = [Unasked EXCEPT !.at = "done", !.answer = "error"]]
  /\ UNCHANGED networkVars

End(v, status) ==
  /\ view' = [view EXCEPT ![v].at = "done", ![v].answer = status]
  /\ UNCHANGED networkVars

FetchSubscriberDevices(v) ==
  /\ view[v].at = "devices"
  /\ view' = [view EXCEPT ![v].at = "gateway", ![v].list = devices]
  /\ UNCHANGED networkVars

FetchDevicesFails(v) == view[v].at = "devices" /\ End(v, "error")

\* No gateway among the devices: an empty object.
FindGatewaySerial(v) ==
  /\ view[v].at = "gateway"
  /\ IF Gateway \in view[v].list
     THEN view' = [view EXCEPT ![v].at = "venue"] /\ UNCHANGED networkVars
     ELSE End(v, "empty")

\* Inventory and venue; no venue, board or location is an error.
ResolveVenue(v) ==
  /\ view[v].at = "venue"
  /\ IF venue = NoVenue
     THEN End(v, "error")
     ELSE view' = [view EXCEPT ![v].at = "location", ![v].venue = venue] /\ UNCHANGED networkVars

ResolveVenueFails(v) == view[v].at = "venue" /\ End(v, "error")

\* The location of the venue that was read.
ResolveLocation(v) ==
  /\ view[v].at = "location"
  /\ LET z == zone[view[v].venue]
     IN  IF z = NoZone
         THEN End(v, "error")
         ELSE view' = [view EXCEPT ![v].at = "board", ![v].zone = z] /\ UNCHANGED networkVars

ResolveLocationFails(v) == view[v].at = "location" /\ End(v, "error")

\* Mutant: an edge is kept if one of its ends is the subscriber's.
FilterTopologyEdgesAny(list, edges) == {e \in edges : e[1] \in list \/ e[2] \in list}

FilterTopologyEdges(list, edges) == {e \in edges : e[1] \in list /\ e[2] \in list}

FilterTopologyNodes(list, nodes) == {n \in nodes : n.serial \in list}

\* FetchTopology and the two filters; the history stays as it is.
FetchTopology(v) ==
  /\ view[v].at = "board"
  /\ \E b \in Boards :
       /\ b.venue = view[v].venue
       /\ view' = [view EXCEPT ![v].at = "tag",
            ![v].board =
              [b EXCEPT !.nodes = FilterTopologyNodes(view[v].list, @),
                        !.edges = FilterTopologyEdges(view[v].list, @)]]
  /\ UNCHANGED networkVars

FetchTopologyFails(v) == view[v].at = "board" /\ End(v, "error")

\* The clients that an answer shows: of the nodes and of the history.
Shown(b) == b.historical \cup UNION {n.clients : n \in b.nodes}

\* TagBlockedClients, and the answer.  When the configuration cannot be had,
\* nobody is flagged and the answer is sent all the same.
TagBlockedClients(v) ==
  /\ view[v].at = "tag"
  /\ view' = [view EXCEPT ![v].at = "done", ![v].answer = "ok",
                          ![v].flags = Shown(view[v].board) \cap blocked]
  /\ UNCHANGED networkVars

TagBlockedClientsFails(v) == view[v].at = "tag" /\ End(v, "ok")

ViewStep(v) ==
  \/ FetchSubscriberDevices(v) \/ FetchDevicesFails(v) \/ FindGatewaySerial(v)
  \/ ResolveVenue(v) \/ ResolveVenueFails(v) \/ ResolveLocation(v)
  \/ ResolveLocationFails(v) \/ FetchTopology(v) \/ FetchTopologyFails(v)
  \/ TagBlockedClients(v) \/ TagBlockedClientsFails(v)

-----------------------------------------------------------------------------
(* The other services, and other requests of the subscriber.               *)

Change == Reading # {} /\ changes < MaxChanges /\ changes' = changes + 1

DevicesChange ==
  /\ Change /\ devices' \in SUBSET Serials
  /\ UNCHANGED <<blocked, venue, zone>> /\ Noted

BlockedChange ==
  /\ Change /\ blocked' \in SUBSET Stations
  /\ UNCHANGED <<devices, venue, zone>> /\ Noted

VenueChange ==
  /\ Change /\ venue' \in Venues \cup {NoVenue}
  /\ UNCHANGED <<devices, blocked, zone>> /\ Noted

ZoneChange ==
  /\ Change
  /\ \E w \in Venues, z \in Zones \cup {NoZone} : zone' = [zone EXCEPT ![w] = z]
  /\ UNCHANGED <<devices, blocked, venue>> /\ Noted

-----------------------------------------------------------------------------
(* Properties.                                                             *)

\* Whatever moves between the calls of the handler, the nodes of an answered
\* topology and both ends of its edges were the subscriber's devices at some
\* time while the request ran, and the zone it names was then the zone of the
\* very venue whose board it shows.  (Not that the venue is the subscriber's,
\* and nothing about the history, which is the whole board's.)
ShowsOwnNetwork ==
  \A v \in Viewers :
    view[v].answer = "ok" =>
      /\ {n.serial : n \in view[v].board.nodes} \subseteq view[v].had
      /\ \A e \in view[v].board.edges : {e[1], e[2]} \subseteq view[v].had
      /\ <<view[v].board.venue, view[v].zone>> \in view[v].zoned
      /\ view[v].zone # NoZone
=============================================================================
