---------------------- MODULE SubscriberLocationProofs ----------------------
(***************************************************************************)
(* Proofs about SubscriberLocation, for any sets of threads, identifiers   *)
(* and timezones and any number of requests.                               *)
(***************************************************************************)
EXTENDS SubscriberLocation, TLAPS

Labels == {"idle", "venues", "create", "update", "clear", "remove", "restore"}
Statuses == {"none", "200", "400", "404", "error"}

\* A call whose effect leaves the service well typed: a new location has a
\* timezone.
GoodCalls == {c \in Calls : c.op = "create" => c.zone \in Zones}

LEMMA CallParts ==
  ASSUME NEW c \in Calls
  PROVE  /\ c.op \in {"create", "update", "remove", "clear", "link"}
         /\ c.op = "create" => c.zone \in Zones \cup {NoZone}
         /\ c.op = "update" => c.id \in LocationIds /\ c.zone \in Zones \cup {NoZone}
         /\ c.op \in {"remove", "link"} => c.id \in LocationIds
  BY DEF Calls

-----------------------------------------------------------------------------
(* Type correctness.                                                       *)

ServiceType ==
  /\ hasVenue \in BOOLEAN
  /\ venue \in LocationIds \cup {NoLocation}
  /\ used \subseteq LocationIds
  /\ DOMAIN zones \subseteq used
  /\ \A l \in DOMAIN zones : zones[l] \in Zones

LocalType ==
  /\ pc \in [Threads -> Labels]
  /\ http \in [Threads -> Statuses]

BookType ==
  /\ started \in 0 .. MaxRequests
  /\ req \in [Threads -> Requests]
  /\ loc \in [Threads -> LocationIds \cup {NoLocation}]
  /\ alone \in [Threads -> BOOLEAN]
  /\ raced \in BOOLEAN
  /\ unrestored \in BOOLEAN

\* LocationTypeOK is not inductive: that every location has a timezone rests on
\* the body that POST accepted, several calls or a timeout earlier.
ControlInv ==
  \A t \in Threads :
    /\ pc[t] \in {"update", "clear", "remove", "restore"} => loc[t] # NoLocation
    /\ pc[t] = "create" => req[t].zone \in Zones
    /\ pc[t] = "venues" /\ req[t].kind = "post" => req[t].zone \in Zones

TypeInv == ServiceType /\ LocalType /\ BookType /\ ControlInv /\ late \subseteq GoodCalls

LEMMA TypeInvImplies == TypeInv => LocationTypeOK
  BY DEF TypeInv, LocationTypeOK, ServiceType, LocalType, BookType, ControlInv, GoodCalls,
     Labels, Statuses

LEMMA EffectType ==
  ASSUME ServiceType, NEW call \in GoodCalls, Accepts(call), Effect(call), UNCHANGED hasVenue
  PROVE  ServiceType'
<1>1. call \in Calls /\ (call.op = "create" => call.zone \in Zones)
  BY DEF GoodCalls
<1>2. CASE call.op = "create"
  <2>1. PICK id \in LocationIds \ used :
          /\ venue' = id
          /\ zones' = [l \in DOMAIN zones \cup {id} |->
                         IF l = id THEN call.zone ELSE zones[l]]
          /\ used' = used \cup {id}
    BY <1>2 DEF Effect
  <2>2. QED
    BY <1>1, <1>2, <2>1 DEF ServiceType
<1>3. CASE call.op = "update"
  <2>1. /\ zones' = IF call.zone = NoZone THEN zones
                    ELSE [zones EXCEPT ![call.id] = call.zone]
        /\ UNCHANGED <<venue, used>>
    BY <1>3 DEF Effect
  <2>2. call.zone = NoZone \/ call.zone \in Zones
    BY <1>1, <1>3, CallParts
  <2>3. QED
    BY <2>1, <2>2 DEF ServiceType
<1>4. CASE call.op = "remove"
  BY <1>4 DEF Effect, ServiceType
<1>5. CASE call.op \in {"clear", "link"}
  BY <1>1, <1>5, CallParts DEF Effect, ServiceType
<1>6. QED
  BY <1>1, <1>2, <1>3, <1>4, <1>5, CallParts

\* A call by thread t, whatever becomes of it.
LEMMA CallType ==
  ASSUME TypeInv, NEW t \in Threads, NEW call \in GoodCalls,
         \/ Succeeds(t, call)
         \/ Fails(t, call) /\ unrestored' \in BOOLEAN
  PROVE  /\ ServiceType' /\ BookType' /\ late' \subseteq GoodCalls
         /\ UNCHANGED <<req, loc>>
<1>1. CASE Succeeds(t, call)
  BY <1>1, EffectType DEF TypeInv, Succeeds, BookType, Acts
<1>2. CASE Fails(t, call) /\ unrestored' \in BOOLEAN
  <2>1. raced' \in BOOLEAN /\ alone' \in [Threads -> BOOLEAN]
    BY <1>2 DEF TypeInv, Fails, BookType, Acts
  <2>2. QED
    BY <1>2, <2>1 DEF TypeInv, Fails, service, ServiceType, BookType
<1>3. QED
  BY <1>1, <1>2

\* The thread's next control point or answer.
LEMMA ControlType ==
  ASSUME LocalType, ControlInv, UNCHANGED <<req, loc>>, NEW t \in Threads,
         \/ \E status \in Statuses : Answer(t, status)
         \/ \E label \in {"remove", "restore"} : Goto(t, label) /\ loc[t] # NoLocation
  PROVE  LocalType' /\ ControlInv'
  BY DEF LocalType, ControlInv, Answer, Goto, Labels

LEMMA InitTypeInv == Init => TypeInv
<1> SUFFICES ASSUME Init PROVE TypeInv
  OBVIOUS
<1>1. ServiceType /\ LocalType /\ ControlInv /\ late \subseteq GoodCalls
  BY DEF Init, ServiceType, LocalType, ControlInv, Labels, Statuses
<1>2. [kind |-> "post", zone |-> NoZone, valid |-> FALSE] \in Requests
  BY DEF Requests
<1>3. BookType
  <2>1. started \in 0 .. MaxRequests
    BY LocationAssumption DEF Init
  <2>2. QED
    BY <1>2, <2>1 DEF Init, BookType
<1>4. QED
  BY <1>1, <1>3 DEF TypeInv

LEMMA TypeStep == TypeInv /\ [Next]_vars => TypeInv'
<1> SUFFICES ASSUME TypeInv, [Next]_vars PROVE TypeInv'
  OBVIOUS
<1>0. ServiceType /\ LocalType /\ BookType /\ ControlInv /\ late \subseteq GoodCalls
  BY DEF TypeInv
<1>1. ASSUME NEW t \in Threads, NEW r \in {q \in Requests : WellFormed(q)}, Submit(t, r)
      PROVE  TypeInv'
  <2>1. ServiceType' /\ late' \subseteq GoodCalls
    BY <1>0, <1>1 DEF Submit, service, ServiceType
  <2>2. LocalType'
    BY <1>0, <1>1 DEF Submit, LocalType, Answer, Labels, Statuses
  <2>3. BookType'
    <3>1. started' \in 0 .. MaxRequests
      BY <1>0, <1>1, LocationAssumption DEF Submit, BookType
    <3>2. raced' \in BOOLEAN /\ alone' \in [Threads -> BOOLEAN]
      BY <1>0, <1>1 DEF Submit, BookType
    <3>3. QED
      BY <1>0, <1>1, <3>1, <3>2 DEF Submit, BookType
  <2>4. ControlInv'
    <3>1. r.valid /\ r.kind = "post" => r.zone \in Zones
      BY DEF WellFormed, Requests
    <3>2. QED
      BY <1>0, <1>1, <3>1 DEF Submit, ControlInv, LocalType, BookType, Answer
  <2>5. QED
    BY <2>1, <2>2, <2>3, <2>4 DEF TypeInv
<1>2. ASSUME NEW t \in Threads, GetVenues(t) PROVE TypeInv'
  <2>1. ServiceType' /\ BookType' /\ late' \subseteq GoodCalls
    BY <1>0, <1>2 DEF GetVenues, service, ServiceType, BookType, Acts
  <2>2. LocalType'
    BY <1>0, <1>2 DEF GetVenues, LocalType, Answer, Goto, Labels, Statuses
  <2>3. ControlInv'
    BY <1>0, <1>2 DEF GetVenues, ControlInv, LocalType, BookType, Answer, Goto
  <2>4. QED
    BY <2>1, <2>2, <2>3 DEF TypeInv
<1>3. ASSUME NEW t \in Threads, NEW call \in GoodCalls,
             \/ Succeeds(t, call)
             \/ Fails(t, call) /\ unrestored' \in BOOLEAN,
             \/ \E status \in Statuses : Answer(t, status)
             \/ \E label \in {"remove", "restore"} : Goto(t, label) /\ loc[t] # NoLocation
      PROVE  TypeInv'
  BY <1>0, <1>3, CallType, ControlType DEF TypeInv
<1>4. unrestored \in BOOLEAN
  BY <1>0 DEF BookType
<1>5. ASSUME NEW t \in Threads, CreateLocation(t) PROVE TypeInv'
  <2>1. [op |-> "create", zone |-> req[t].zone] \in GoodCalls
    BY <1>0, <1>5 DEF CreateLocation, ControlInv, GoodCalls, Calls
  <2>2. QED
    BY <1>3, <1>4, <1>5, <2>1 DEF CreateLocation, Statuses
<1>6. ASSUME NEW t \in Threads, pc[t] \in {"update", "clear", "remove", "restore"}
      PROVE  loc[t] \in LocationIds /\ loc[t] # NoLocation
  BY <1>0, <1>6 DEF ControlInv, BookType
<1>7. ASSUME NEW t \in Threads, PutLocation(t) PROVE TypeInv'
  <2>1. req[t].zone \in Zones \cup {NoZone}
    BY <1>0 DEF BookType, Requests
  <2>2. [op |-> "update", id |-> loc[t], zone |-> req[t].zone] \in GoodCalls
    BY <1>6, <1>7, <2>1 DEF PutLocation, GoodCalls, Calls
  <2>3. QED
    BY <1>3, <1>4, <1>7, <2>2 DEF PutLocation, Statuses
<1>8. ASSUME NEW t \in Threads, ClearLocation(t) PROVE TypeInv'
  <2>1. [op |-> "clear"] \in GoodCalls
    BY DEF GoodCalls, Calls
  <2>2. QED
    BY <1>3, <1>4, <1>6, <1>8, <2>1 DEF ClearLocation, Statuses
<1>9. ASSUME NEW t \in Threads, DeleteLocation(t) PROVE TypeInv'
  <2>1. [op |-> "remove", id |-> loc[t]] \in GoodCalls
    BY <1>6, <1>9 DEF DeleteLocation, GoodCalls, Calls
  <2>2. QED
    BY <1>3, <1>4, <1>6, <1>9, <2>1 DEF DeleteLocation, Statuses
<1>10. ASSUME NEW t \in Threads, SetLocation(t) PROVE TypeInv'
  <2>1. [op |-> "link", id |-> loc[t]] \in GoodCalls
    BY <1>6, <1>10 DEF SetLocation, GoodCalls, Calls
  <2>2. QED
    BY <1>3, <1>10, <2>1 DEF SetLocation, Statuses
<1>11. ASSUME NEW call \in late, LateArrival(call) PROVE TypeInv'
  <2>1. ServiceType'
    <3>1. CASE Accepts(call) /\ Effect(call)
      BY <1>0, <1>11, <3>1, EffectType DEF LateArrival
    <3>2. CASE UNCHANGED service
      BY <1>0, <1>11, <3>2 DEF LateArrival, service, ServiceType
    <3>3. QED
      BY <1>11, <3>1, <3>2 DEF LateArrival
  <2>2. LocalType' /\ ControlInv' /\ late' \subseteq GoodCalls
    BY <1>0, <1>11 DEF LateArrival, LocalType, ControlInv
  <2>3. BookType'
    BY <1>0, <1>11 DEF LateArrival, BookType
  <2>4. QED
    BY <2>1, <2>2, <2>3 DEF TypeInv
<1>12. CASE UNCHANGED vars
  BY <1>0, <1>12 DEF vars, service, TypeInv, ServiceType, LocalType, BookType, ControlInv
<1>13. QED
  BY <1>1, <1>2, <1>5, <1>7, <1>8, <1>9, <1>10, <1>11, <1>12 DEF Next, ThreadStep

LEMMA TypeInvHolds == Spec => []TypeInv
  BY InitTypeInv, TypeStep, PTL DEF Spec

\* Every reachable state is well typed; in particular every location that
\* exists has a timezone, and only a location read from the venue is ever
\* updated, deleted or linked again (DoPost, DoPut, DoDelete).
THEOREM LocationTypeCorrect == Spec => []LocationTypeOK
  BY TypeInvHolds, TypeInvImplies, PTL

-----------------------------------------------------------------------------
(* Failures are repaired.                                                  *)

\* FailuresAreRepaired speaks of the ends of requests; in the middle of a
\* DELETE the location exists without its link, and the thread knows it.
NothingLate == late = {}
OneRequest == \A t, u \in Threads : pc[t] # "idle" /\ pc[u] # "idle" => t = u
Linked == venue # NoLocation => venue \in DOMAIN zones
InHand ==
  \A t \in Threads :
    /\ pc[t] = "create" => venue = NoLocation
    /\ pc[t] = "clear" => loc[t] = venue
    /\ pc[t] \in {"remove", "restore"} => venue = NoLocation /\ loc[t] \in DOMAIN zones
NoOrphan ==
  ~unrestored =>
    \A l \in DOMAIN zones :
      l = venue \/ \E t \in Threads : pc[t] \in {"remove", "restore"} /\ loc[t] = l

Repairable == NothingLate /\ OneRequest /\ Linked /\ InHand /\ NoOrphan

RepairInv == ~raced => Repairable

LEMMA InitRepairInv == Init => RepairInv
  BY DEF Init, RepairInv, Repairable, NothingLate, OneRequest, Linked, InHand, NoOrphan

\* A call that fails without becoming late changes nothing.
LEMMA FailsQuietly ==
  ASSUME NEW t \in Threads, NEW call, Fails(t, call), ~raced'
  PROVE  ~raced /\ UNCHANGED <<venue, zones, late, req, loc>>
<1>1. raced' = (raced \/ late' # late) /\ UNCHANGED <<venue, zones, req, loc>>
  BY DEF Fails, service
<1>2. ~raced /\ late' = late
  BY <1>1, Zenon
<1>3. QED
  BY <1>1, <1>2

\* Only the thread itself has a request, and it moves.
LEMMA OneRequestStep ==
  ASSUME LocalType, OneRequest, NEW t \in Threads, pc[t] # "idle",
         (\E status : Answer(t, status)) \/ (\E label : Goto(t, label))
  PROVE  OneRequest' /\ \A u \in Threads \ {t} : pc[u] = "idle" /\ pc'[u] = "idle"
<1>1. \A u \in Threads \ {t} : pc[u] = "idle" /\ pc'[u] = "idle"
  BY DEF LocalType, OneRequest, Answer, Goto
<1>2. QED
  BY <1>1 DEF OneRequest

LEMMA RepairStep == TypeInv /\ RepairInv /\ [Next]_vars => RepairInv'
<1> SUFFICES ASSUME TypeInv, RepairInv, [Next]_vars, ~raced' PROVE Repairable'
  BY DEF RepairInv
<1>0. ServiceType /\ LocalType /\ BookType /\ ControlInv
  BY DEF TypeInv
<1>1. ASSUME NEW t \in Threads, NEW r \in {q \in Requests : WellFormed(q)}, Submit(t, r)
      PROVE  Repairable'
  <2>1. /\ ~raced /\ UNCHANGED <<venue, zones, late, loc, unrestored>>
        /\ \A v \in Threads : pc[v] = "idle"
    BY <1>1 DEF Submit, service
  <2>2. Repairable
    BY <2>1 DEF RepairInv
  <2>3. /\ pc'[t] \in {"idle", "venues"}
        /\ \A u \in Threads \ {t} : pc'[u] = "idle"
    BY <1>0, <1>1, <2>1 DEF Submit, Answer, LocalType
  <2>4. QED
    BY <2>1, <2>2, <2>3
    DEF Repairable, NothingLate, OneRequest, Linked, InHand, NoOrphan
<1>2. ASSUME NEW t \in Threads, GetVenues(t) PROVE Repairable'
  <2>1. ~raced /\ UNCHANGED <<venue, zones, late, unrestored>>
    BY <1>2 DEF GetVenues, service
  <2>2. Repairable
    BY <2>1 DEF RepairInv
  <2>3. OneRequest' /\ \A u \in Threads \ {t} : pc[u] = "idle" /\ pc'[u] = "idle"
    BY <1>0, <1>2, <2>2, OneRequestStep DEF GetVenues, Repairable
  <2>4. /\ pc[t] = "venues" /\ loc'[t] = venue
        /\ pc'[t] \in {"idle", "create", "update", "clear"}
        /\ pc'[t] = "create" => venue = NoLocation
    BY <1>0, <1>2 DEF GetVenues, Answer, Goto, LocalType, BookType
  <2>5. InHand'
    BY <2>1, <2>3, <2>4 DEF InHand
  <2>6. NoOrphan'
    BY <2>1, <2>2, <2>3, <2>4 DEF Repairable, NoOrphan
  <2>7. QED
    BY <2>1, <2>2, <2>3, <2>5, <2>6 DEF Repairable, NothingLate, Linked
<1>3. ASSUME NEW t \in Threads, NEW call, Fails(t, call), Answer(t, "error"),
             pc[t] \notin {"idle", "remove", "restore"}, UNCHANGED unrestored
      PROVE  Repairable'
  <2>1. ~raced /\ UNCHANGED <<venue, zones, late, loc>>
    BY <1>3, FailsQuietly
  <2>2. Repairable
    BY <2>1 DEF RepairInv
  <2>3. OneRequest' /\ \A u \in Threads \ {t} : pc[u] = "idle" /\ pc'[u] = "idle"
    BY <1>0, <1>3, <2>2, OneRequestStep DEF Repairable
  <2>4. pc'[t] = "idle"
    BY <1>0, <1>3 DEF Answer, LocalType
  <2>5. QED
    BY <1>3, <2>1, <2>2, <2>3, <2>4 DEF Repairable, NothingLate, Linked, InHand, NoOrphan
<1>4. ASSUME NEW t \in Threads, NEW call, Succeeds(t, call), pc[t] # "idle",
             (\E status : Answer(t, status)) \/ (\E label : Goto(t, label))
      PROVE  /\ Repairable /\ NothingLate' /\ OneRequest' /\ UNCHANGED <<loc, unrestored>>
             /\ \A u \in Threads \ {t} : pc[u] = "idle" /\ pc'[u] = "idle"
  <2>1. ~raced /\ UNCHANGED <<late, loc, unrestored>>
    BY <1>4 DEF Succeeds
  <2>2. Repairable
    BY <2>1 DEF RepairInv
  <2>3. QED
    BY <1>0, <1>4, <2>1, <2>2, OneRequestStep DEF Repairable, NothingLate
<1>5. ASSUME NEW t \in Threads, CreateLocation(t) PROVE Repairable'
  <2> DEFINE call == [op |-> "create", zone |-> req[t].zone]
  <2>1. CASE Succeeds(t, call) /\ Answer(t, "200")
    <3>1. /\ Repairable /\ NothingLate' /\ OneRequest' /\ pc[t] = "create"
          /\ \A u \in Threads \ {t} : pc[u] = "idle" /\ pc'[u] = "idle"
          /\ UNCHANGED <<loc, unrestored>>
      BY <1>4, <1>5, <2>1 DEF CreateLocation
    <3>2. pc'[t] = "idle"
      BY <1>0, <2>1 DEF Answer, LocalType
    <3>3. PICK id \in LocationIds :
            /\ venue' = id
            /\ DOMAIN zones' = DOMAIN zones \cup {id}
      BY <2>1 DEF Succeeds, Effect
    <3>4. ~unrestored => DOMAIN zones = {}
      BY <1>0, <3>1, LocationAssumption DEF Repairable, InHand, NoOrphan, ServiceType
    <3>5. Linked' /\ InHand' /\ NoOrphan'
      BY <3>1, <3>2, <3>3, <3>4 DEF Linked, InHand, NoOrphan
    <3>6. QED
      BY <3>1, <3>5 DEF Repairable
  <2>2. CASE Fails(t, call) /\ Answer(t, "error") /\ UNCHANGED unrestored
    BY <1>3, <1>5, <2>2 DEF CreateLocation
  <2>3. QED
    BY <1>5, <2>1, <2>2 DEF CreateLocation
<1>6. ASSUME NEW t \in Threads, PutLocation(t) PROVE Repairable'
  <2> DEFINE call == [op |-> "update", id |-> loc[t], zone |-> req[t].zone]
  <2>1. CASE Succeeds(t, call) /\ Answer(t, "200")
    <3>1. /\ Repairable /\ NothingLate' /\ OneRequest' /\ pc[t] = "update"
          /\ \A u \in Threads \ {t} : pc[u] = "idle" /\ pc'[u] = "idle"
          /\ UNCHANGED <<loc, unrestored>>
      BY <1>4, <1>6, <2>1 DEF PutLocation
    <3>2. pc'[t] = "idle"
      BY <1>0, <2>1 DEF Answer, LocalType
    <3>3. venue' = venue /\ DOMAIN zones' = DOMAIN zones
      BY <2>1 DEF Succeeds, Effect
    <3>4. Linked' /\ InHand' /\ NoOrphan'
      BY <3>1, <3>2, <3>3 DEF Repairable, Linked, InHand, NoOrphan
    <3>5. QED
      BY <3>1, <3>4 DEF Repairable
  <2>2. CASE Fails(t, call) /\ Answer(t, "error") /\ UNCHANGED unrestored
    BY <1>3, <1>6, <2>2 DEF PutLocation
  <2>3. QED
    BY <1>6, <2>1, <2>2 DEF PutLocation
<1>7. ASSUME NEW t \in Threads, ClearLocation(t) PROVE Repairable'
  <2> DEFINE call == [op |-> "clear"]
  <2>1. CASE Succeeds(t, call) /\ Goto(t, "remove")
    <3>1. /\ Repairable /\ NothingLate' /\ OneRequest' /\ pc[t] = "clear"
          /\ \A u \in Threads \ {t} : pc[u] = "idle" /\ pc'[u] = "idle"
          /\ UNCHANGED <<loc, unrestored>>
      BY <1>4, <1>7, <2>1 DEF ClearLocation
    <3>2. pc'[t] = "remove"
      BY <1>0, <2>1 DEF Goto, LocalType
    <3>3. venue' = NoLocation /\ zones' = zones
      BY <2>1 DEF Succeeds, Effect
    <3>4. loc[t] = venue /\ venue \in DOMAIN zones
      BY <1>0, <3>1 DEF Repairable, InHand, Linked, ControlInv
    <3>5. Linked' /\ InHand' /\ NoOrphan'
      BY <3>1, <3>2, <3>3, <3>4 DEF Repairable, Linked, InHand, NoOrphan
    <3>6. QED
      BY <3>1, <3>5 DEF Repairable
  <2>2. CASE Fails(t, call) /\ Answer(t, "error") /\ UNCHANGED unrestored
    BY <1>3, <1>7, <2>2 DEF ClearLocation
  <2>3. QED
    BY <1>7, <2>1, <2>2 DEF ClearLocation
<1>8. ASSUME NEW t \in Threads, DeleteLocation(t) PROVE Repairable'
  <2> DEFINE call == [op |-> "remove", id |-> loc[t]]
  <2>1. CASE Succeeds(t, call) /\ Answer(t, "200")
    <3>1. /\ Repairable /\ NothingLate' /\ OneRequest' /\ pc[t] = "remove"
          /\ \A u \in Threads \ {t} : pc[u] = "idle" /\ pc'[u] = "idle"
          /\ UNCHANGED <<loc, unrestored>>
      BY <1>4, <1>8, <2>1 DEF DeleteLocation
    <3>2. pc'[t] = "idle"
      BY <1>0, <2>1 DEF Answer, LocalType
    <3>3. venue' = venue /\ DOMAIN zones' = DOMAIN zones \ {loc[t]}
      BY <2>1 DEF Succeeds, Effect
    <3>4. venue = NoLocation
      BY <3>1 DEF Repairable, InHand
    <3>5. Linked' /\ InHand' /\ NoOrphan'
      BY <3>1, <3>2, <3>3, <3>4 DEF Repairable, Linked, InHand, NoOrphan
    <3>6. QED
      BY <3>1, <3>5 DEF Repairable
  <2>2. CASE Fails(t, call) /\ Goto(t, "restore") /\ UNCHANGED unrestored
    <3>1. ~raced /\ UNCHANGED <<venue, zones, late, loc>> /\ pc[t] = "remove"
      BY <1>8, <2>2, FailsQuietly DEF DeleteLocation
    <3>2. Repairable
      BY <3>1 DEF RepairInv
    <3>3. OneRequest' /\ \A u \in Threads \ {t} : pc[u] = "idle" /\ pc'[u] = "idle"
      BY <1>0, <2>2, <3>1, <3>2, OneRequestStep DEF Repairable
    <3>4. pc'[t] = "restore"
      BY <1>0, <2>2 DEF Goto, LocalType
    <3>5. QED
      BY <2>2, <3>1, <3>2, <3>3, <3>4
      DEF Repairable, NothingLate, Linked, InHand, NoOrphan
  <2>3. QED
    BY <1>8, <2>1, <2>2 DEF DeleteLocation
<1>9. ASSUME NEW t \in Threads, SetLocation(t) PROVE Repairable'
  <2> DEFINE call == [op |-> "link", id |-> loc[t]]
  <2>1. pc[t] = "restore" /\ Answer(t, "error") /\ pc'[t] = "idle"
    BY <1>0, <1>9 DEF SetLocation, Answer, LocalType
  <2>2. CASE Succeeds(t, call)
    <3>1. /\ Repairable /\ NothingLate' /\ OneRequest'
          /\ \A u \in Threads \ {t} : pc[u] = "idle" /\ pc'[u] = "idle"
          /\ UNCHANGED <<loc, unrestored>>
      BY <1>4, <2>1, <2>2
    <3>2. venue' = loc[t] /\ zones' = zones
      BY <2>2 DEF Succeeds, Effect
    <3>3. venue = NoLocation /\ loc[t] \in DOMAIN zones
      BY <2>1, <3>1 DEF Repairable, InHand
    <3>4. NoOrphan'
      BY <1>0, <2>1, <3>1, <3>2, <3>3, LocationAssumption
      DEF Repairable, NoOrphan, ServiceType
    <3>5. Linked' /\ InHand'
      BY <2>1, <3>1, <3>2, <3>3 DEF Linked, InHand
    <3>6. QED
      BY <3>1, <3>4, <3>5 DEF Repairable
  <2>3. CASE Fails(t, call) /\ unrestored' = TRUE
    <3>1. ~raced /\ UNCHANGED <<venue, zones, late, loc>>
      BY <2>3, FailsQuietly
    <3>2. Repairable
      BY <3>1 DEF RepairInv
    <3>3. OneRequest' /\ \A u \in Threads \ {t} : pc[u] = "idle" /\ pc'[u] = "idle"
      BY <1>0, <2>1, <3>2, OneRequestStep DEF Repairable
    <3>4. QED
      BY <2>1, <2>3, <3>1, <3>2, <3>3
      DEF Repairable, NothingLate, Linked, InHand, NoOrphan
  <2>4. QED
    BY <1>9, <2>2, <2>3 DEF SetLocation
<1>10. ASSUME NEW call \in late, LateArrival(call) PROVE Repairable'
  BY <1>10 DEF LateArrival, RepairInv, Repairable, NothingLate
<1>11. CASE UNCHANGED vars
  BY <1>11 DEF vars, service, RepairInv, Repairable, NothingLate, OneRequest, Linked,
     InHand, NoOrphan
<1>12. QED
  BY <1>1, <1>2, <1>5, <1>6, <1>7, <1>8, <1>9, <1>10, <1>11 DEF Next, ThreadStep

\* As long as requests come one at a time and a refused call is really not
\* carried out, no sequence of failures makes the venue link a location that
\* does not exist, or leaves a location behind that is not linked, unless the
\* repair of DELETE itself failed (DoDelete: clear, delete, set again).
THEOREM RepairTheorem == Spec => []FailuresAreRepaired
<1>1. RepairInv => FailuresAreRepaired
  BY DEF RepairInv, Repairable, Linked, NoOrphan, FailuresAreRepaired
<1>2. QED
  BY <1>1, TypeInvHolds, InitRepairInv, RepairStep, PTL DEF Spec

-----------------------------------------------------------------------------
(* A success that nobody disturbed.                                        *)

\* SoloOutcome speaks of the answer; the thread's way there is what makes it
\* true: while it is alone, what it read of the venue still holds, except for
\* the link that it has cleared itself.
Outcome(t) ==
  /\ req[t].kind = "delete" => venue = NoLocation /\ loc[t] \notin DOMAIN zones
  /\ req[t].kind = "post" => venue \in DOMAIN zones /\ zones[venue] = req[t].zone
  /\ req[t].kind = "put" =>
       /\ venue = loc[t] /\ venue \in DOMAIN zones
       /\ req[t].zone # NoZone => zones[venue] = req[t].zone

OnItsWay(t) ==
  /\ pc[t] = "create" => req[t].kind = "post"
  /\ pc[t] = "update" => req[t].kind = "put" /\ loc[t] = venue
  /\ pc[t] = "clear" => req[t].kind = "delete" /\ loc[t] = venue
  /\ pc[t] = "remove" => req[t].kind = "delete" /\ venue = NoLocation

Undisturbed(t) == OnItsWay(t) /\ (pc[t] = "idle" /\ http[t] = "200" => Outcome(t))

SoloInv == \A t \in Threads : alone[t] => Undisturbed(t)

LEMMA InitSoloInv == Init => SoloInv
  BY DEF Init, SoloInv

\* After a step of thread t, only t can be alone, and only if it was before.
LEMMA ActorAlone ==
  ASSUME NEW t \in Threads, Acts(t), alone[t] => Undisturbed(t)'
  PROVE  SoloInv'
  BY DEF Acts, SoloInv

\* A refused call ends the request with an error, or leads to the repair.
LEMMA FailureUndisturbed ==
  ASSUME LocalType, NEW t \in Threads, NEW call, Fails(t, call),
         Answer(t, "error") \/ Goto(t, "restore")
  PROVE  SoloInv'
<1>1. Acts(t) /\ ((pc'[t] = "idle" /\ http'[t] = "error") \/ pc'[t] = "restore")
  BY DEF Fails, Answer, Goto, LocalType
<1>2. Undisturbed(t)'
  BY <1>1 DEF Undisturbed, OnItsWay
<1>3. QED
  BY <1>1, <1>2, ActorAlone

LEMMA SoloStep == TypeInv /\ SoloInv /\ [Next]_vars => SoloInv'
<1> SUFFICES ASSUME TypeInv, SoloInv, [Next]_vars PROVE SoloInv'
  OBVIOUS
<1>0. ServiceType /\ LocalType /\ BookType /\ ControlInv
  BY DEF TypeInv
<1>1. ASSUME NEW t \in Threads, NEW r \in {q \in Requests : WellFormed(q)}, Submit(t, r)
      PROVE  SoloInv'
  <2>1. \A u \in Threads \ {t} : ~alone'[u]
    BY <1>1 DEF Submit
  <2>2. pc'[t] = "venues" \/ (pc'[t] = "idle" /\ http'[t] = "400")
    BY <1>0, <1>1 DEF Submit, Answer, LocalType
  <2>3. Undisturbed(t)'
    BY <2>2 DEF Undisturbed, OnItsWay
  <2>4. QED
    BY <2>1, <2>3 DEF SoloInv
<1>2. ASSUME NEW t \in Threads, GetVenues(t) PROVE SoloInv'
  <2>1. Acts(t) /\ loc'[t] = venue /\ UNCHANGED <<venue, req>>
    BY <1>0, <1>2 DEF GetVenues, service, BookType
  <2>2. \/ pc'[t] = "idle" /\ http'[t] \in {"error", "404", "400"}
        \/ pc'[t] = "create" /\ req[t].kind = "post"
        \/ pc'[t] = "update" /\ req[t].kind = "put"
        \/ pc'[t] = "clear" /\ req[t].kind = "delete"
    BY <1>0, <1>2 DEF GetVenues, Answer, Goto, LocalType
  <2>3. Undisturbed(t)'
    BY <2>1, <2>2 DEF Undisturbed, OnItsWay
  <2>4. QED
    BY <2>1, <2>3, ActorAlone
<1>3. ASSUME NEW t \in Threads, NEW call, Succeeds(t, call), alone[t] => Undisturbed(t)'
      PROVE  SoloInv'
  BY <1>3, ActorAlone DEF Succeeds
<1>4. ASSUME NEW t \in Threads, CreateLocation(t) PROVE SoloInv'
  <2> DEFINE call == [op |-> "create", zone |-> req[t].zone]
  <2>1. CASE Succeeds(t, call) /\ Answer(t, "200")
    <3>1. PICK id \in LocationIds \ used :
            /\ venue' = id
            /\ zones' = [l \in DOMAIN zones \cup {id} |->
                           IF l = id THEN call.zone ELSE zones[l]]
      BY <2>1 DEF Succeeds, Effect
    <3>2. pc[t] = "create" /\ pc'[t] = "idle" /\ req' = req
      BY <1>0, <1>4, <2>1 DEF CreateLocation, Succeeds, Answer, LocalType
    <3>3. ASSUME alone[t] PROVE Undisturbed(t)'
      <4>1. req[t].kind = "post"
        BY <3>2, <3>3 DEF SoloInv, Undisturbed, OnItsWay
      <4>2. QED
        BY <3>1, <3>2, <4>1 DEF Undisturbed, OnItsWay, Outcome
    <3>4. QED
      BY <1>3, <2>1, <3>3
  <2>2. QED
    BY <1>0, <1>4, <2>1, FailureUndisturbed DEF CreateLocation
<1>5. ASSUME NEW t \in Threads, PutLocation(t) PROVE SoloInv'
  <2> DEFINE call == [op |-> "update", id |-> loc[t], zone |-> req[t].zone]
  <2>1. CASE Succeeds(t, call) /\ Answer(t, "200")
    <3>1. /\ loc[t] \in DOMAIN zones
          /\ zones' = IF req[t].zone = NoZone THEN zones
                      ELSE [zones EXCEPT ![loc[t]] = req[t].zone]
          /\ venue' = venue
      BY <2>1 DEF Succeeds, Accepts, Effect
    <3>2. pc[t] = "update" /\ pc'[t] = "idle" /\ UNCHANGED <<req, loc>>
      BY <1>0, <1>5, <2>1 DEF PutLocation, Succeeds, Answer, LocalType
    <3>3. ASSUME alone[t] PROVE Undisturbed(t)'
      <4>1. req[t].kind = "put" /\ loc[t] = venue
        BY <3>2, <3>3 DEF SoloInv, Undisturbed, OnItsWay
      <4>2. QED
        BY <3>1, <3>2, <4>1 DEF Undisturbed, OnItsWay, Outcome
    <3>4. QED
      BY <1>3, <2>1, <3>3
  <2>2. QED
    BY <1>0, <1>5, <2>1, FailureUndisturbed DEF PutLocation
<1>6. ASSUME NEW t \in Threads, ClearLocation(t) PROVE SoloInv'
  <2> DEFINE call == [op |-> "clear"]
  <2>1. CASE Succeeds(t, call) /\ Goto(t, "remove")
    <3>1. venue' = NoLocation /\ req' = req
      BY <2>1 DEF Succeeds, Effect
    <3>2. pc[t] = "clear" /\ pc'[t] = "remove"
      BY <1>0, <1>6, <2>1 DEF ClearLocation, Goto, LocalType
    <3>3. ASSUME alone[t] PROVE Undisturbed(t)'
      BY <3>1, <3>2, <3>3 DEF SoloInv, Undisturbed, OnItsWay
    <3>4. QED
      BY <1>3, <2>1, <3>3
  <2>2. QED
    BY <1>0, <1>6, <2>1, FailureUndisturbed DEF ClearLocation
<1>7. ASSUME NEW t \in Threads, DeleteLocation(t) PROVE SoloInv'
  <2> DEFINE call == [op |-> "remove", id |-> loc[t]]
  <2>1. CASE Succeeds(t, call) /\ Answer(t, "200")
    <3>1. venue' = venue /\ DOMAIN zones' = DOMAIN zones \ {loc[t]}
      BY <2>1 DEF Succeeds, Effect
    <3>2. pc[t] = "remove" /\ pc'[t] = "idle" /\ UNCHANGED <<req, loc>>
      BY <1>0, <1>7, <2>1 DEF DeleteLocation, Succeeds, Answer, LocalType
    <3>3. ASSUME alone[t] PROVE Undisturbed(t)'
      <4>1. req[t].kind = "delete" /\ venue = NoLocation
        BY <3>2, <3>3 DEF SoloInv, Undisturbed, OnItsWay
      <4>2. QED
        BY <3>1, <3>2, <4>1 DEF Undisturbed, OnItsWay, Outcome
    <3>4. QED
      BY <1>3, <2>1, <3>3
  <2>2. QED
    BY <1>0, <1>7, <2>1, FailureUndisturbed DEF DeleteLocation
<1>8. ASSUME NEW t \in Threads, SetLocation(t) PROVE SoloInv'
  <2>1. pc'[t] = "idle" /\ http'[t] = "error"
    BY <1>0, <1>8 DEF SetLocation, Answer, LocalType
  <2>2. Undisturbed(t)' /\ Acts(t)
    BY <1>8, <2>1 DEF SetLocation, Succeeds, Fails, Undisturbed, OnItsWay
  <2>3. QED
    BY <2>2, ActorAlone
<1>9. ASSUME NEW call \in late, LateArrival(call) PROVE SoloInv'
  BY <1>9 DEF LateArrival, SoloInv
<1>10. CASE UNCHANGED vars
  BY <1>10 DEF vars, service, SoloInv, Undisturbed, OnItsWay, Outcome
<1>11. QED
  BY <1>1, <1>2, <1>4, <1>5, <1>6, <1>7, <1>8, <1>9, <1>10 DEF Next, ThreadStep

\* Whatever races, orphans, dangling links and late calls came before, a 200
\* that nobody disturbed has its full effect: POST has linked a location with
\* the requested timezone, PUT has updated the linked one, DELETE has removed
\* both link and location (DoPost, DoPut, DoDelete).
THEOREM SoloTheorem == Spec => []SoloOutcome
<1>1. TypeInv /\ SoloInv => SoloOutcome
  <2> SUFFICES ASSUME TypeInv, SoloInv, NEW t \in Threads,
                      pc[t] = "idle", http[t] = "200", alone[t]
               PROVE  CASE req[t].kind = "delete" ->
                             venue = NoLocation /\ loc[t] \notin DOMAIN zones
                        [] req[t].kind = "post" ->
                             venue \in DOMAIN zones /\ zones[venue] = req[t].zone
                        [] req[t].kind = "put" ->
                             /\ venue = loc[t] /\ venue \in DOMAIN zones
                             /\ req[t].zone # NoZone => zones[venue] = req[t].zone
    BY DEF SoloOutcome
  <2>1. req[t].kind \in {"post", "put", "delete"}
    BY DEF TypeInv, BookType, Requests
  <2>2. QED
    BY <2>1 DEF SoloInv, Undisturbed, Outcome
<1>2. QED
  BY <1>1, TypeInvHolds, InitSoloInv, SoloStep, PTL DEF Spec
=============================================================================
