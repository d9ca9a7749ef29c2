------------------------- MODULE SubscriberLocation -------------------------
(***************************************************************************)
(* POST, PUT and DELETE /subscriber/location                               *)
(* (RESTAPI_subscriber_location_handler.cpp).  The subscriber's venue and  *)
(* its location are two objects of the provisioning service; the portal    *)
(* creates, updates, unlinks and deletes them with separate calls, without *)
(* a transaction: DELETE undoes its own first step when the second fails.  *)
(*                                                                         *)
(* A location is its identifier and its timezone, the only member that the *)
(* portal itself looks at.  One downstream call is one step.  A call that  *)
(* times out here may still be carried out by the service later, or never. *)
(***************************************************************************)
EXTENDS Naturals, FiniteSets

CONSTANTS
  Threads,      \* request-handling threads
  LocationIds,  \* identifiers that the service gives to new locations
  Zones,        \* timezones
  NoLocation,   \* the venue's "location" is empty
  NoZone,       \* the body has no "timezone"
  MaxRequests   \* bound on the number of requests

ASSUME LocationAssumption ==
  /\ NoLocation \notin LocationIds
  /\ NoZone \notin Zones
  /\ MaxRequests \in Nat

Requests == [kind : {"post", "put", "delete"}, zone : Zones \cup {NoZone},
             valid : BOOLEAN]

VARIABLES
  hasVenue,    \* the subscriber has a venue
  venue,       \* the location that the venue is linked to
  zones,       \* the timezone of every location that exists
  used,        \* identifiers given out so far
  late,        \* calls that timed out here and may still be carried out
  started,     \* number of requests so far (bound)
  pc, req,     \* per thread: control point and request
  loc,         \* per thread: the location read from the venue
  http,        \* per thread: status answered
  alone,       \* history: nobody else has acted since the thread started
  raced,       \* history: requests have overlapped or a call has timed out
  unrestored   \* history: a DELETE could not restore the link

service == <<venue, zones, used>>
vars == <<hasVenue, service, late, started, pc, req, loc, http, alone, raced,
          unrestored>>

-----------------------------------------------------------------------------
(* The provisioning service, as far as the portal uses it.                 *)

Accepts(call) == call.op \in {"update", "remove"} => call.id \in DOMAIN zones

\* Effect of an accepted call.  A new location is linked at once, whatever the
\* venue was linked to.
Effect(call) ==
  \/ /\ call.op = "create"
     /\ \E id \in LocationIds \ used :
          /\ venue' = id
          /\ zones' = [l \in DOMAIN zones \cup {id} |->
                         IF l = id THEN call.zone ELSE zones[l]]
          /\ used' = used \cup {id}
  \/ /\ call.op = "update"
     /\ zones' = IF call.zone = NoZone THEN zones
                 ELSE [zones EXCEPT ![call.id] = call.zone]
     /\ UNCHANGED <<venue, used>>
  \/ /\ call.op = "remove"
     /\ zones' = [l \in DOMAIN zones \ {call.id} |-> zones[l]]
     /\ UNCHANGED <<venue, used>>
  \/ /\ call.op \in {"clear", "link"}
     /\ venue' = IF call.op = "clear" THEN NoLocation ELSE call.id
     /\ UNCHANGED <<zones, used>>

-----------------------------------------------------------------------------
(* The portal.                                                             *)

Acts(t) == alone' = [u \in Threads |-> u = t /\ alone[t]]

Goto(t, label) == pc' = [pc EXCEPT ![t] = label] /\ UNCHANGED http

Answer(t, status) ==
  /\ pc' = [pc EXCEPT ![t] = "idle"]
  /\ http' = [http EXCEPT ![t] = status]

\* Thread t's call is carried out and answered 200.
Succeeds(t, call) ==
  /\ Accepts(call)
  /\ Effect(call)
  /\ Acts(t)
  /\ UNCHANGED <<hasVenue, late, started, req, loc, raced, unrestored>>

\* Thread t's call is refused, or times out and may be carried out later.
Fails(t, call) ==
  /\ late' \in {late, late \cup {call}}
  /\ raced' = (raced \/ late' # late)
  /\ Acts(t)
  /\ UNCHANGED <<hasVenue, service, started, req, loc>>

\* A request arrives; an invalid body (unknown members, bad timezone) is
\* rejected before any call.
Submit(t, r) ==
  /\ pc[t] = "idle"
  /\ started < MaxRequests
  /\ started' = started + 1
  /\ req' = [req EXCEPT ![t] = r]
  /\ alone' = [u \in Threads |-> u = t /\ \A v \in Threads : pc[v] = "idle"]
  /\ raced' = (raced \/ \E v \in Threads : pc[v] # "idle")
  /\ IF r.valid THEN /\ pc' = [pc EXCEPT ![t] = "venues"]
                     /\ http' = [http EXCEPT ![t] = "none"]
                ELSE Answer(t, "400")
  /\ UNCHANGED <<hasVenue, service, late, loc, unrestored>>

\* Mutant: POST does not look at the venue's link.
GetVenuesUnchecked(t) ==
  /\ pc[t] = "venues"
  /\ Acts(t)
  /\ loc' = [loc EXCEPT ![t] = venue]
  /\ Goto(t, CASE req[t].kind = "post" -> "create"
               [] req[t].kind = "put" -> "update"
               [] req[t].kind = "delete" -> "clear")
  /\ UNCHANGED <<hasVenue, service, late, started, req, raced, unrestored>>

\* Every handler first reads the subscriber's venue and its link.
GetVenues(t) ==
  /\ pc[t] = "venues"
  /\ Acts(t)
  /\ loc' = [loc EXCEPT ![t] = venue]
  /\ \/ Answer(t, "error")
     \/ ~hasVenue /\ Answer(t, "404")
     \/ /\ hasVenue
        /\ req[t].kind = "post"
        /\ IF venue = NoLocation THEN Goto(t, "create") ELSE Answer(t, "400")
     \/ /\ hasVenue
        /\ req[t].kind \in {"put", "delete"}
        /\ IF venue = NoLocation
           THEN Answer(t, "404")
           ELSE Goto(t, IF req[t].kind = "put" THEN "update" ELSE "clear")
  /\ UNCHANGED <<hasVenue, service, late, started, req, raced, unrestored>>

\* POST: one call creates the location and links it.
CreateLocation(t) ==
  LET call == [op |-> "create", zone |-> req[t].zone]
  IN  /\ pc[t] = "create"
      /\ \/ Succeeds(t, call) /\ Answer(t, "200")
         \/ Fails(t, call) /\ Answer(t, "error") /\ UNCHANGED unrestored

\* PUT updates the location that was linked when the venue was read.
PutLocation(t) ==
  LET call == [op |-> "update", id |-> loc[t], zone |-> req[t].zone]
  IN  /\ pc[t] = "update"
      /\ \/ Succeeds(t, call) /\ Answer(t, "200")
         \/ Fails(t, call) /\ Answer(t, "error") /\ UNCHANGED unrestored

\* Mutant: deletes the location without clearing the link.
ClearLocationSkipped(t) ==
  /\ pc[t] = "clear"
  /\ Acts(t)
  /\ Goto(t, "remove")
  /\ UNCHANGED <<hasVenue, service, late, started, req, loc, raced, unrestored>>

\* DELETE, step 1: the venue's link is cleared.
ClearLocation(t) ==
  LET call == [op |-> "clear"]
  IN  /\ pc[t] = "clear"
      /\ \/ Succeeds(t, call) /\ Goto(t, "remove")
         \/ Fails(t, call) /\ Answer(t, "error") /\ UNCHANGED unrestored

\* Mutant: gives up when the location cannot be deleted.
DeleteLocationNoRestore(t) ==
  LET call == [op |-> "remove", id |-> loc[t]]
  IN  /\ pc[t] = "remove"
      /\ \/ Succeeds(t, call) /\ Answer(t, "200")
         \/ Fails(t, call) /\ Answer(t, "error") /\ UNCHANGED unrestored

\* DELETE, step 2: the location itself; a failure is followed by a repair.
DeleteLocation(t) ==
  LET call == [op |-> "remove", id |-> loc[t]]
  IN  /\ pc[t] = "remove"
      /\ \/ Succeeds(t, call) /\ Answer(t, "200")
         \/ Fails(t, call) /\ Goto(t, "restore") /\ UNCHANGED unrestored

\* DELETE, repair: the link is set again; the client gets the status of
\* step 2 either way.
SetLocation(t) ==
  LET call == [op |-> "link", id |-> loc[t]]
  IN  /\ pc[t] = "restore"
      /\ Answer(t, "error")
      /\ \/ Succeeds(t, call)
         \/ Fails(t, call) /\ unrestored' = TRUE

\* A call that timed out is carried out after all, or refused.
LateArrival(call) ==
  /\ late' = late \ {call}
  /\ alone' = [u \in Threads |-> FALSE]
  /\ IF Accepts(call) THEN Effect(call) ELSE UNCHANGED service
  /\ UNCHANGED <<hasVenue, started, pc, req, loc, http, raced, unrestored>>

Init ==
  /\ hasVenue \in BOOLEAN
  /\ venue = NoLocation
  /\ zones = [l \in {} |-> NoZone]
  /\ used = {}
  /\ late = {}
  /\ started = 0
  /\ pc = [t \in Threads |-> "idle"]
  /\ req = [t \in Threads |-> [kind |-> "post", zone |-> NoZone, valid |-> FALSE]]
  /\ loc = [t \in Threads |-> NoLocation]
  /\ http = [t \in Threads |-> "none"]
  /\ alone = [t \in Threads |-> FALSE]
  /\ raced = FALSE
  /\ unrestored = FALSE

\* The body of POST must name a timezone, that of PUT may, DELETE has none.
WellFormed(r) ==
  CASE r.kind = "post" -> r.valid => r.zone # NoZone
    [] r.kind = "put" -> TRUE
    [] r.kind = "delete" -> r.zone = NoZone /\ r.valid

ThreadStep(t) ==
  \/ GetVenues(t)
  \/ CreateLocation(t)
  \/ PutLocation(t)
  \/ ClearLocation(t)
  \/ DeleteLocation(t)
  \/ SetLocation(t)

Next ==
  \/ \E t \in Threads, r \in {q \in Requests : WellFormed(q)} : Submit(t, r)
  \/ \E t \in Threads : ThreadStep(t)
  \/ \E call \in late : LateArrival(call)

Spec == Init /\ [][Next]_vars

-----------------------------------------------------------------------------
(* Properties.                                                             *)

Calls ==
  [op : {"create"}, zone : Zones \cup {NoZone}]
    \cup [op : {"update"}, id : LocationIds, zone : Zones \cup {NoZone}]
    \cup [op : {"remove", "link"}, id : LocationIds]
    \cup [op : {"clear"}]

\* Type correctness of the service's objects and the handlers' locals; in
\* particular only a location read from the venue is ever updated, deleted or
\* linked again.
LocationTypeOK ==
  /\ hasVenue \in BOOLEAN
  /\ venue \in LocationIds \cup {NoLocation}
  /\ used \subseteq LocationIds
  /\ DOMAIN zones \subseteq used
  /\ \A l \in DOMAIN zones : zones[l] \in Zones
  /\ late \subseteq Calls
  /\ started \in 0 .. MaxRequests
  /\ pc \in [Threads -> {"idle", "venues", "create", "update", "clear", "remove",
                         "restore"}]
  /\ req \in [Threads -> Requests]
  /\ loc \in [Threads -> LocationIds \cup {NoLocation}]
  /\ \A t \in Threads :
       pc[t] \in {"update", "clear", "remove", "restore"} => loc[t] # NoLocation
  /\ http \in [Threads -> {"none", "200", "400", "404", "error"}]
  /\ alone \in [Threads -> BOOLEAN]
  /\ raced \in BOOLEAN
  /\ unrestored \in BOOLEAN

\* Partial failures alone do no damage: as long as requests come one at a time
\* and refused calls are really not carried out, the venue never links a
\* location that does not exist, and once DELETE's repair is through nothing
\* but the linked location is left in the service.
FailuresAreRepaired ==
  ~raced =>
    /\ venue # NoLocation => venue \in DOMAIN zones
    /\ (\A t \in Threads : pc[t] = "idle") /\ ~unrestored =>
         DOMAIN zones \subseteq {venue}

\* A success that nobody disturbed has its effect, whatever races, orphans and
\* dangling links were left before it: POST leaves the venue linked to a location
\* with the requested timezone, PUT has updated the linked location, DELETE
\* has removed both link and location.
SoloOutcome ==
  \A t \in Threads :
    pc[t] = "idle" /\ http[t] = "200" /\ alone[t] =>
      CASE req[t].kind = "delete" ->
             venue = NoLocation /\ loc[t] \notin DOMAIN zones
        [] req[t].kind = "post" ->
             venue \in DOMAIN zones /\ zones[venue] = req[t].zone
        [] req[t].kind = "put" ->
             /\ venue = loc[t] /\ venue \in DOMAIN zones
             /\ req[t].zone # NoZone => zones[venue] = req[t].zone
=============================================================================
