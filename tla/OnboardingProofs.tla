------------------------- MODULE OnboardingProofs -------------------------
(***************************************************************************)
(* Proofs about Onboarding, for any sets of threads and devices and any    *)
(* number of requests.                                                     *)
(***************************************************************************)
EXTENDS Onboarding, FiniteSetTheorems, TLAPS

AnyMac == Macs \cup Foreign \cup Unknown
Labels == {"idle", "list", "record", "inventory", "prepare", "create", "delete"}
Contexts == [group : {"olg", "ap"}, gateway : Macs \cup {NoMac}, config : Configs]
Statuses == {"none", "200", "forwarded", "400", "error"}

\* What a device runs from the factory carries a key of its own.
LEMMA FactoryKey ==
  ASSUME NEW m \in Macs, NEW c \in FactoryConfigs(m)
  PROVE  c \in Configs /\ c.key.mac = m
<1>1. c.key = [origin |-> "factory", mac |-> m]
  BY DEF FactoryConfigs
<1>2. c.key \in Keys /\ c.key.mac = m
  BY <1>1 DEF Keys
<1>3. c \in [valid : BOOLEAN, static : BOOLEAN, raw : BOOLEAN, keyed : BOOLEAN, key : {c.key}]
  BY <1>1 DEF FactoryConfigs
<1>4. QED
  BY <1>2, <1>3 DEF Configs

\* The operators of ConfigMaker give configurations.
LEMMA ConfigOperators ==
  /\ \A m \in Macs : FactoryConfigs(m) \subseteq Configs
  /\ NoConfig \in Configs
  /\ NoContext \in Contexts
  /\ \A c \in Configs, m \in Macs : BuildGatewayConfig(c, m) \in Configs
  /\ \A c \in Configs : BuildMeshConfig(c) \in Configs
<1>1. \A m \in Macs : FactoryConfigs(m) \subseteq Configs
  BY FactoryKey
<1>2. NoConfig \in Configs /\ NoContext \in Contexts
  BY DEF NoConfig, NoContext, Contexts, Configs, Keys
<1>3. ASSUME NEW c \in Configs, NEW m \in Macs PROVE BuildGatewayConfig(c, m) \in Configs
  BY DEF Configs, Keys, BuildGatewayConfig
<1>4. ASSUME NEW c \in Configs PROVE BuildMeshConfig(c) \in Configs
  BY DEF Configs, BuildMeshConfig
<1>5. QED
  BY <1>1, <1>2, <1>3, <1>4

\* A call is a create of a record of the inventory, or a delete.
LEMMA CallParts ==
  ASSUME NEW call \in Calls
  PROVE  /\ call.op \in {"create", "delete"}
         /\ call.op = "create" => call.mac \in Macs /\ call.record \in Records
  BY DEF Calls

\* The type of the variables that a thread's own step writes.
LocalType ==
  /\ pc \in [Threads -> Labels]
  /\ ctx \in [Threads -> Contexts]
  /\ http \in [Threads -> Statuses]

LEMMA GotoType ==
  ASSUME NEW t \in Threads, NEW label \in Labels, NEW context \in Contexts,
         Goto(t, label, context), LocalType
  PROVE  LocalType'
  BY DEF Goto, LocalType

LEMMA AnswerType ==
  ASSUME NEW t \in Threads, NEW status \in Statuses, Answer(t, status), LocalType
  PROVE  LocalType'
  BY ConfigOperators DEF Answer, LocalType, Labels

\* The service's records stay well typed.
LEMMA EffectType ==
  ASSUME NEW call \in Calls, Effect(call), Devices \subseteq Macs,
         \A m \in Devices : prov[m] \in Records, wereGateways \subseteq Macs
  PROVE  /\ Devices' \subseteq Macs
         /\ \A m \in Devices' : prov'[m] \in Records
         /\ wereGateways' \subseteq Macs
<1>1. CASE call.op = "create"
  <2>1. call.mac \in Macs /\ call.record \in Records
    BY <1>1, CallParts
  <2>2. /\ prov' = [m \in Devices \cup {call.mac} |->
                      IF m = call.mac THEN call.record ELSE prov[m]]
        /\ wereGateways' = wereGateways \cup {m \in {call.mac} : call.record.group = "olg"}
    BY <1>1 DEF Effect
  <2>3. QED
    BY <2>1, <2>2 DEF Devices
<1>2. CASE call.op = "delete"
  <2>1. prov' = [m \in Devices \ {call.mac} |-> prov[m]] /\ wereGateways' = wereGateways
    BY <1>2 DEF Effect
  <2>2. QED
    BY <2>1 DEF Devices
<1>3. QED
  BY <1>1, <1>2, CallParts

-----------------------------------------------------------------------------
(* Type correctness.                                                       *)

\* OnboardTypeOK is not inductive: that only devices of the inventory which
\* nobody else has reach "prepare" is known in two parts, from two calls.
ControlInv ==
  \A t \in Threads :
    /\ pc[t] # "idle" => req[t].mac \in AnyMac
    /\ pc[t] = "inventory" => req[t].mac \notin Foreign

PreparedInv ==
  \A t \in Threads : pc[t] \in {"prepare", "create"} =>
    req[t].mac \in Macs /\ (ctx[t].group = "ap" => ctx[t].gateway # NoMac)

ServiceType ==
  /\ Devices \subseteq Macs /\ \A m \in Devices : prov[m] \in Records
  /\ live \in [Macs -> Configs]
  /\ late \subseteq Calls
  /\ wereGateways \subseteq Macs

BookType ==
  /\ started \in 0 .. MaxRequests
  /\ req \in [Threads -> Requests \cup [kind : {"add"}, mac : {NoMac}]]
  /\ alone \in [Threads -> BOOLEAN]
  /\ raced \in BOOLEAN

\* OnboardTypeOK in parts, with ControlInv.
TypeInv == ServiceType /\ LocalType /\ BookType /\ PreparedInv /\ ControlInv

LEMMA TypeInvImplies == TypeInv => OnboardTypeOK
  BY DEF TypeInv, OnboardTypeOK, ServiceType, LocalType, BookType, PreparedInv, Labels,
         Contexts, Statuses

LEMMA InitTypeInv == Init => TypeInv
<1> SUFFICES ASSUME Init PROVE TypeInv
  OBVIOUS
<1>1. ServiceType
  <2>1. /\ live \in [Macs -> UNION {FactoryConfigs(m) : m \in Macs}]
        /\ \A m \in Macs : live[m] \in FactoryConfigs(m)
    BY DEF Init
  <2>2. live \in [Macs -> Configs]
    BY <2>1, ConfigOperators
  <2>3. QED
    BY <2>2 DEF Init, ServiceType, Devices
<1>2. LocalType
  BY ConfigOperators DEF Init, LocalType, Labels, Statuses
<1>3. BookType
  <2>1. [kind |-> "add", mac |-> NoMac] \in [kind : {"add"}, mac : {NoMac}]
    OBVIOUS
  <2>2. started \in 0 .. MaxRequests
    BY OnboardingAssumption DEF Init
  <2>3. QED
    BY <2>1, <2>2 DEF Init, BookType
<1>4. QED
  BY <1>1, <1>2, <1>3 DEF TypeInv, ControlInv, PreparedInv, Init

\* A step by which a thread only moves on: nothing but its own control point,
\* context and answer changes.
Moves(t) ==
  /\ UNCHANGED <<service, late, started, req, raced, wereGateways>>
  /\ Acts(t)

\* Where a thread may go, and what it must know when it gets there.
MoveTo(t, label, context) ==
  /\ label \in Labels \ {"idle"} /\ context \in Contexts
  /\ Goto(t, label, context)
  /\ label = "inventory" => req[t].mac \notin Foreign
  /\ label \in {"prepare", "create"} =>
       req[t].mac \in Macs /\ (context.group = "ap" => context.gateway # NoMac)

LEMMA MoveKeepsType ==
  ASSUME TypeInv, NEW t \in Threads, Moves(t), pc[t] # "idle",
         \/ \E status \in Statuses : Answer(t, status)
         \/ \E label, context : MoveTo(t, label, context)
  PROVE  TypeInv'
<1> USE DEF TypeInv
<1>1. ServiceType' /\ BookType'
  <2>1. ServiceType /\ BookType
    OBVIOUS
  <2>2. alone' \in [Threads -> BOOLEAN]
    BY <2>1 DEF Moves, Acts, BookType
  <2>3. QED
    BY <2>1, <2>2 DEF Moves, service, ServiceType, BookType, Devices
<1>2. LocalType /\ PreparedInv /\ req' = req
  BY DEF Moves
<1>3. CASE \E status \in Statuses : Answer(t, status)
  <2>1. PICK status \in Statuses : Answer(t, status)
    BY <1>3
  <2>2. LocalType'
    BY <1>2, <2>1, AnswerType
  <2>3. ControlInv' /\ PreparedInv'
    BY <1>2, <2>1 DEF ControlInv, PreparedInv, Answer, LocalType
  <2>4. QED
    BY <1>1, <2>2, <2>3
<1>4. CASE \E label, context : MoveTo(t, label, context)
  <2>1. PICK label, context : MoveTo(t, label, context)
    BY <1>4
  <2>2. LocalType'
    BY <1>2, <2>1, GotoType DEF MoveTo
  <2>3. ControlInv' /\ PreparedInv'
    BY <1>2, <2>1 DEF ControlInv, PreparedInv, MoveTo, Goto, LocalType
  <2>4. QED
    BY <1>1, <2>2, <2>3
<1>5. QED
  BY <1>3, <1>4

\* The last call of a request, carried out or not.
LEMMA LastCallKeepsType ==
  ASSUME TypeInv, NEW t \in Threads, NEW call \in Calls,
         NEW successes \in SUBSET {"200", "forwarded"}, LastCall(t, call, successes)
  PROVE  TypeInv'
<1> USE DEF TypeInv
<1>1. ServiceType /\ BookType /\ LocalType /\ PreparedInv
  OBVIOUS
<1>2. ServiceType'
  <2>1. CASE Effect(call) /\ UNCHANGED <<late, raced>>
    BY <1>1, <2>1, EffectType DEF LastCall, ServiceType
  <2>2. CASE late' \in {late, late \cup {call}} /\ UNCHANGED <<prov, wereGateways>>
    BY <1>1, <2>2 DEF LastCall, ServiceType, Devices
  <2>3. QED
    BY <2>1, <2>2 DEF LastCall
<1>3. BookType'
  <2>1. raced' \in BOOLEAN /\ alone' \in [Threads -> BOOLEAN]
    BY <1>1 DEF LastCall, Acts, BookType
  <2>2. QED
    BY <1>1, <2>1 DEF LastCall, BookType
<1>4. PICK status \in Statuses : Answer(t, status)
  BY DEF LastCall, Statuses
<1>5. LocalType'
  BY <1>1, <1>4, AnswerType
<1>6. ControlInv' /\ PreparedInv'
  BY <1>1, <1>4 DEF ControlInv, PreparedInv, Answer, LocalType, LastCall
<1>7. QED
  BY <1>2, <1>3, <1>5, <1>6

\* A step of the services or of a device, with no thread's state involved.
LEMMA OutsideKeepsType ==
  ASSUME TypeInv, ServiceType', Disturbed,
         UNCHANGED <<started, pc, req, ctx, http, raced>>
  PROVE  TypeInv'
<1>1. ServiceType /\ BookType /\ LocalType /\ PreparedInv /\ ControlInv
  BY DEF TypeInv
<1>2. BookType' /\ LocalType'
  BY <1>1 DEF BookType, LocalType, Disturbed
<1>3. PreparedInv' /\ ControlInv'
  BY <1>1 DEF PreparedInv, ControlInv
<1>4. QED
  BY <1>2, <1>3 DEF TypeInv

LEMMA TypeStep == TypeInv /\ [Next]_vars => TypeInv'
<1> SUFFICES ASSUME TypeInv, [Next]_vars PROVE TypeInv'
  OBVIOUS
<1>0. ServiceType /\ BookType /\ LocalType /\ PreparedInv /\ ControlInv
  BY DEF TypeInv
<1>1. ASSUME NEW t \in Threads, NEW r \in Requests, Submit(t, r) PROVE TypeInv'
  <2>1. ServiceType'
    BY <1>0, <1>1 DEF Submit, service, ServiceType, Devices
  <2>2. LocalType'
    BY <1>0, <1>1 DEF Submit, LocalType, Labels, Statuses
  <2>3. BookType'
    <3>1. started' \in 0 .. MaxRequests
      BY <1>0, <1>1, OnboardingAssumption DEF Submit, BookType
    <3>2. req' \in [Threads -> Requests \cup [kind : {"add"}, mac : {NoMac}]]
      BY <1>0, <1>1 DEF Submit, BookType
    <3>3. alone' \in [Threads -> BOOLEAN] /\ raced' \in BOOLEAN
      BY <1>0, <1>1 DEF Submit, BookType
    <3>4. QED
      BY <3>1, <3>2, <3>3 DEF BookType
  <2>4. PreparedInv' /\ ControlInv'
    BY <1>0, <1>1 DEF Submit, PreparedInv, ControlInv, LocalType, BookType, Requests, AnyMac
  <2>5. QED
    BY <2>1, <2>2, <2>3, <2>4 DEF TypeInv
<1>2. ASSUME NEW t \in Threads, FetchSubscriberDevices(t) PROVE TypeInv'
  <2>1. ctx[t] \in Contexts /\ Gateways \subseteq Macs
    BY <1>0 DEF LocalType, ServiceType, Gateways
  <2>2. \/ \E status \in Statuses : Answer(t, status)
        \/ \E label, context : MoveTo(t, label, context)
    <3>1. CASE \E status \in Statuses : Answer(t, status)
      BY <3>1
    <3>2. CASE \E g \in IF Gateways = {} THEN {NoMac} ELSE Gateways :
                 Goto(t, "record",
                      [ctx[t] EXCEPT !.gateway = g,
                                     !.group = IF Devices = {} THEN "olg" ELSE "ap"])
      <4>1. PICK g \in Macs \cup {NoMac} :
              Goto(t, "record",
                   [ctx[t] EXCEPT !.gateway = g,
                                  !.group = IF Devices = {} THEN "olg" ELSE "ap"])
        BY <2>1, <3>2
      <4>2. [ctx[t] EXCEPT !.gateway = g,
                           !.group = IF Devices = {} THEN "olg" ELSE "ap"] \in Contexts
        BY <2>1 DEF Contexts
      <4>3. QED
        BY <4>1, <4>2 DEF MoveTo, Labels
    <3>3. QED
      BY <1>2, <3>1, <3>2 DEF FetchSubscriberDevices, Statuses
  <2>3. QED
    BY <1>2, <2>2, MoveKeepsType DEF FetchSubscriberDevices, Moves
<1>3. ASSUME NEW t \in Threads, IsDeviceAlreadyProvisioned(t) PROVE TypeInv'
  <2>1. \/ \E status \in Statuses : Answer(t, status)
        \/ MoveTo(t, "inventory", ctx[t])
    BY <1>0, <1>3 DEF IsDeviceAlreadyProvisioned, Statuses, MoveTo, Labels, LocalType
  <2>2. QED
    BY <1>3, <2>1, MoveKeepsType DEF IsDeviceAlreadyProvisioned, Moves
<1>4. ASSUME NEW t \in Threads, IsDevicePresentInInventory(t) PROVE TypeInv'
  <2>1. req[t].mac \in AnyMac /\ req[t].mac \notin Foreign
    BY <1>0, <1>4 DEF ControlInv, IsDevicePresentInInventory
  <2>2. ctx[t] \in Contexts
    BY <1>0 DEF LocalType
  <2>3. \/ \E status \in Statuses : Answer(t, status)
        \/ MoveTo(t, "prepare", ctx[t])
    BY <1>4, <2>1, <2>2 DEF IsDevicePresentInInventory, Statuses, MoveTo, Labels,
       AnyMac, Contexts
  <2>4. QED
    BY <1>4, <2>3, MoveKeepsType DEF IsDevicePresentInInventory, Moves
<1>5. ASSUME NEW t \in Threads, NEW source, NEW made \in Configs, pc[t] = "prepare",
             NEW failures \in SUBSET {"error", "forwarded"},
             Prepare(t, source, made, failures)
      PROVE  TypeInv'
  <2>1. req[t].mac \in Macs /\ (ctx[t].group = "ap" => ctx[t].gateway # NoMac)
    BY <1>0, <1>5 DEF PreparedInv
  <2>2. [ctx[t] EXCEPT !.config = made] \in Contexts
        /\ [ctx[t] EXCEPT !.config = made].group = ctx[t].group
        /\ [ctx[t] EXCEPT !.config = made].gateway = ctx[t].gateway
    BY <1>0, <1>5 DEF LocalType, Contexts
  <2>3. \/ \E status \in Statuses : Answer(t, status)
        \/ MoveTo(t, "create", [ctx[t] EXCEPT !.config = made])
    BY <1>5, <2>1, <2>2 DEF Prepare, Statuses, MoveTo, Labels
  <2>4. QED
    BY <1>5, <2>3, MoveKeepsType DEF Prepare, Moves
<1>6. ASSUME NEW t \in Threads, PrepareGatewayConfiguration(t) PROVE TypeInv'
  <2>1. req[t].mac \in Macs /\ pc[t] = "prepare"
    BY <1>0, <1>6 DEF PrepareGatewayConfiguration, PreparedInv
  <2>2. BuildGatewayConfig(live[req[t].mac], req[t].mac) \in Configs
    BY <1>0, <2>1, ConfigOperators DEF ServiceType
  <2>3. QED
    BY <1>5, <1>6, <2>1, <2>2 DEF PrepareGatewayConfiguration
<1>7. ASSUME NEW t \in Threads, PrepareMeshConfiguration(t) PROVE TypeInv'
  <2>1. ctx[t].gateway \in Macs /\ pc[t] = "prepare"
    BY <1>0, <1>7 DEF PrepareMeshConfiguration, PreparedInv, LocalType, Contexts
  <2>2. BuildMeshConfig(live[ctx[t].gateway]) \in Configs
    BY <1>0, <2>1, ConfigOperators DEF ServiceType
  <2>3. QED
    BY <1>5, <1>7, <2>1, <2>2 DEF PrepareMeshConfiguration
<1>8. ASSUME NEW t \in Threads, CreateProvisioningRecord(t) PROVE TypeInv'
  <2>1. req[t].mac \in Macs /\ ctx[t] \in Contexts
    BY <1>0, <1>8 DEF CreateProvisioningRecord, PreparedInv, LocalType
  <2>2. [op |-> "create", mac |-> req[t].mac,
         record |-> [group |-> ctx[t].group, config |-> ctx[t].config]] \in Calls
    BY <2>1 DEF Calls, Contexts, Records
  <2>3. QED
    BY <1>8, <2>2, LastCallKeepsType DEF CreateProvisioningRecord
<1>9. ASSUME NEW t \in Threads, DeleteSubscriberDevice(t) PROVE TypeInv'
  <2>1. [op |-> "delete", mac |-> req[t].mac] \in Calls
    BY <1>0, <1>9 DEF DeleteSubscriberDevice, ControlInv, Calls, AnyMac
  <2>2. QED
    BY <1>9, <2>1, LastCallKeepsType DEF DeleteSubscriberDevice
<1>10. ASSUME NEW call \in late, LateArrival(call) PROVE TypeInv'
  <2>1. call \in Calls
    BY <1>0 DEF ServiceType
  <2>2. ServiceType'
    <3>1. CASE Effect(call)
      BY <1>0, <1>10, <2>1, <3>1, EffectType DEF LateArrival, ServiceType
    <3>2. CASE UNCHANGED <<prov, wereGateways>>
      BY <1>0, <1>10, <3>2 DEF LateArrival, ServiceType, Devices
    <3>3. QED
      BY <1>10, <3>1, <3>2 DEF LateArrival
  <2>3. QED
    BY <1>10, <2>2, OutsideKeepsType DEF LateArrival
<1>11. ASSUME NEW m \in Macs, Provision(m) \/ Reconfigure(m) \/ Factory(m) PROVE TypeInv'
  <2>1. PICK c \in Configs : Runs(m, c)
    <3>1. CASE Provision(m)
      BY <1>0, <3>1 DEF Provision, ServiceType, Records
    <3>2. CASE Reconfigure(m)
      <4>1. PICK raw \in BOOLEAN, chosen \in BOOLEAN :
              Runs(m, [live[m] EXCEPT !.raw = raw,
                         !.key = IF chosen THEN [origin |-> "chosen", mac |-> m] ELSE @])
        BY <3>2 DEF Reconfigure
      <4>2. [live[m] EXCEPT !.raw = raw,
                            !.key = IF chosen THEN [origin |-> "chosen", mac |-> m] ELSE @]
              \in Configs
        BY <1>0 DEF ServiceType, Configs, Keys
      <4>3. QED
        BY <4>1, <4>2
    <3>3. CASE Factory(m)
      BY <3>3, ConfigOperators DEF Factory
    <3>4. QED
      BY <1>11, <3>1, <3>2, <3>3
  <2>2. ServiceType'
    BY <1>0, <2>1 DEF Runs, ServiceType, Devices
  <2>3. QED
    BY <2>1, <2>2, OutsideKeepsType DEF Runs
<1>12. CASE UNCHANGED vars
  BY <1>0, <1>12 DEF vars, service, TypeInv, ServiceType, BookType, LocalType,
     PreparedInv, ControlInv, Devices
<1>13. QED
  BY <1>1, <1>2, <1>3, <1>4, <1>6, <1>7, <1>8, <1>9, <1>10, <1>11, <1>12
  DEF Next, ThreadStep

LEMMA TypeInvHolds == Spec => []TypeInv
  BY InitTypeInv, TypeStep, PTL DEF Spec

\* Every reachable state is well typed; in particular a record is only created
\* for a device of the inventory that nobody else has, and a mesh node is only
\* prepared with a gateway at hand (IsDeviceAlreadyProvisioned,
\* IsDevicePresentInInventory, PrepareMeshConfiguration).
THEOREM OnboardingTypeCorrect == Spec => []OnboardTypeOK
  BY TypeInvHolds, TypeInvImplies, PTL

-----------------------------------------------------------------------------
(* Records are well formed.                                                *)

\* A record of device m with group g and configuration c, when the devices W
\* have been the gateway.
Sound(m, g, c, W) ==
  /\ c.valid
  /\ g = "olg" => c.static /\ c.key.mac = m /\ (c.keyed => c.key.origin = "default")
  /\ g = "ap" => ~c.static /\ ~c.raw /\ c.key.mac \in W

\* RecordsWellFormed is not inductive: a record is made of what a device runs,
\* and lives in a request and perhaps in a late call before it is created.
DevicesSound == \A m \in Devices : Sound(m, prov[m].group, prov[m].config, wereGateways)
GatewaysKnown == Gateways \subseteq wereGateways
\* Only a static configuration is accepted, and a device that runs one has it
\* from the factory or from a gateway's record of its own.
Known(m, c, W) == c.key.mac \in W \cup {m} /\ (c.static => c.key.mac = m)
LiveKnown == \A m \in Macs : Known(m, live[m], wereGateways)
ContextKnown ==
  \A t \in Threads :
    pc[t] \in {"record", "inventory", "prepare", "create"} /\ ctx[t].gateway # NoMac
      => ctx[t].gateway \in wereGateways
PreparedSound ==
  \A t \in Threads :
    pc[t] = "create" => Sound(req[t].mac, ctx[t].group, ctx[t].config, wereGateways)
LateSound ==
  \A call \in late :
    call.op = "create" => Sound(call.mac, call.record.group, call.record.config, wereGateways)

RecordInv ==
  /\ DevicesSound /\ GatewaysKnown /\ LiveKnown
  /\ ContextKnown /\ PreparedSound /\ LateSound

\* What is sound stays so when more devices have been the gateway.
LEMMA SoundGrows ==
  ASSUME NEW m, NEW g, NEW c, NEW W, NEW V, W \subseteq V, Sound(m, g, c, W)
  PROVE  Sound(m, g, c, V)
  BY DEF Sound

\* The service keeps sound records when it is given sound ones.
LEMMA EffectSound ==
  ASSUME TypeInv, DevicesSound, GatewaysKnown, NEW call \in Calls, Effect(call),
         call.op = "create" =>
           Sound(call.mac, call.record.group, call.record.config, wereGateways)
  PROVE  DevicesSound' /\ GatewaysKnown' /\ wereGateways \subseteq wereGateways'
<1>1. CASE call.op = "create"
  <2>1. /\ prov' = [m \in Devices \cup {call.mac} |->
                      IF m = call.mac THEN call.record ELSE prov[m]]
        /\ wereGateways' = wereGateways \cup {m \in {call.mac} : call.record.group = "olg"}
    BY <1>1 DEF Effect
  <2>2. wereGateways \subseteq wereGateways'
    BY <2>1
  <2>3. GatewaysKnown'
    BY <2>1 DEF GatewaysKnown, Gateways, Devices
  <2>4. ASSUME NEW m \in Devices'
        PROVE  Sound(m, prov'[m].group, prov'[m].config, wereGateways')
    <3>1. CASE m = call.mac
      BY <1>1, <2>1, <2>2, <3>1, SoundGrows
    <3>2. CASE m # call.mac
      <4>1. m \in Devices /\ prov'[m] = prov[m]
        BY <2>1, <2>4, <3>2 DEF Devices
      <4>2. QED
        BY <2>2, <4>1, SoundGrows DEF DevicesSound
    <3>3. QED
      BY <3>1, <3>2
  <2>5. QED
    BY <2>2, <2>3, <2>4 DEF DevicesSound
<1>2. CASE call.op = "delete"
  <2>1. prov' = [m \in Devices \ {call.mac} |-> prov[m]] /\ wereGateways' = wereGateways
    BY <1>2 DEF Effect
  <2>2. QED
    BY <2>1 DEF DevicesSound, GatewaysKnown, Gateways, Devices
<1>3. QED
  BY <1>1, <1>2, CallParts

\* More devices having been the gateway disturbs nothing that is not changed.
LEMMA OthersSound ==
  ASSUME RecordInv, wereGateways \subseteq wereGateways'
  PROVE  /\ UNCHANGED live => LiveKnown'
         /\ UNCHANGED <<pc, ctx, req>> => ContextKnown' /\ PreparedSound'
         /\ late' \subseteq late => LateSound'
         /\ UNCHANGED <<prov, wereGateways>> => DevicesSound' /\ GatewaysKnown'
<1>1. ASSUME UNCHANGED live PROVE LiveKnown'
  BY <1>1 DEF RecordInv, LiveKnown, Known
<1>2. ASSUME UNCHANGED <<pc, ctx, req>> PROVE ContextKnown' /\ PreparedSound'
  BY <1>2, SoundGrows DEF RecordInv, ContextKnown, PreparedSound
<1>3. ASSUME late' \subseteq late PROVE LateSound'
  BY <1>3, SoundGrows DEF RecordInv, LateSound
<1>4. ASSUME UNCHANGED <<prov, wereGateways>> PROVE DevicesSound' /\ GatewaysKnown'
  BY <1>4 DEF RecordInv, DevicesSound, GatewaysKnown, Gateways, Devices
<1>5. QED
  BY <1>1, <1>2, <1>3, <1>4

LEMMA InitRecordInv == Init => RecordInv
<1> SUFFICES ASSUME Init PROVE RecordInv
  OBVIOUS
<1>1. \A m \in Macs : live[m] \in FactoryConfigs(m)
  BY DEF Init
<1>2. LiveKnown
  BY <1>1, FactoryKey DEF LiveKnown, Known
<1>3. QED
  BY <1>2 DEF Init, RecordInv, DevicesSound, GatewaysKnown, Gateways, Devices,
     ContextKnown, PreparedSound, LateSound

\* A thread that moves on keeps the invariant if what it takes with it is sound.
LEMMA MoveKeepsRecords ==
  ASSUME RecordInv, LocalType, NEW t \in Threads, Moves(t),
         \/ \E status : Answer(t, status)
         \/ \E label, context :
              /\ Goto(t, label, context)
              /\ context.gateway # NoMac => context.gateway \in wereGateways
              /\ label = "create" =>
                   Sound(req[t].mac, context.group, context.config, wereGateways)
  PROVE  RecordInv'
<1>1. UNCHANGED <<prov, live, late, req, wereGateways>>
  BY DEF Moves, service
<1>2. DevicesSound' /\ GatewaysKnown' /\ LiveKnown' /\ LateSound'
  BY <1>1, OthersSound
<1>3. CASE \E status : Answer(t, status)
  BY <1>1, <1>2, <1>3 DEF RecordInv, ContextKnown, PreparedSound, Answer, LocalType
<1>4. CASE \E label, context :
              /\ Goto(t, label, context)
              /\ context.gateway # NoMac => context.gateway \in wereGateways
              /\ label = "create" =>
                   Sound(req[t].mac, context.group, context.config, wereGateways)
  <2>1. PICK label, context :
              /\ Goto(t, label, context)
              /\ context.gateway # NoMac => context.gateway \in wereGateways
              /\ label = "create" =>
                   Sound(req[t].mac, context.group, context.config, wereGateways)
    BY <1>4
  <2>2. ContextKnown'
    BY <1>1, <2>1 DEF RecordInv, ContextKnown, Goto, LocalType
  <2>3. PreparedSound'
    BY <1>1, <2>1 DEF RecordInv, PreparedSound, Goto, LocalType
  <2>4. QED
    BY <1>2, <2>2, <2>3 DEF RecordInv
<1>5. QED
  BY <1>3, <1>4

LEMMA LastCallKeepsRecords ==
  ASSUME TypeInv, RecordInv, NEW t \in Threads, NEW call \in Calls,
         NEW successes, LastCall(t, call, successes),
         call.op = "create" =>
           Sound(call.mac, call.record.group, call.record.config, wereGateways)
  PROVE  RecordInv'
<1>1. DevicesSound' /\ GatewaysKnown' /\ wereGateways \subseteq wereGateways'
  <2>1. CASE Effect(call)
    BY <2>1, EffectSound DEF RecordInv
  <2>2. CASE UNCHANGED <<prov, wereGateways>>
    BY <2>2, OthersSound
  <2>3. QED
    BY <2>1, <2>2 DEF LastCall
<1>2. LiveKnown'
  BY <1>1, OthersSound DEF LastCall
<1>3. LateSound'
  <2>1. late' \subseteq late \cup {call}
    BY DEF LastCall
  <2>2. QED
    BY <1>1, <2>1, SoundGrows DEF RecordInv, LateSound
<1>4. ContextKnown' /\ PreparedSound'
  <2>1. PICK status : Answer(t, status)
    BY DEF LastCall
  <2>2. LocalType /\ req' = req
    BY DEF TypeInv, LastCall
  <2>3. ASSUME NEW u \in Threads, pc'[u] # "idle"
        PROVE  pc'[u] = pc[u] /\ ctx'[u] = ctx[u]
    BY <2>1, <2>2, <2>3 DEF Answer, LocalType
  <2>4. ContextKnown'
    BY <1>1, <2>3 DEF RecordInv, ContextKnown
  <2>5. PreparedSound'
    BY <1>1, <2>2, <2>3, SoundGrows DEF RecordInv, PreparedSound
  <2>6. QED
    BY <2>4, <2>5
<1>5. QED
  BY <1>1, <1>2, <1>3, <1>4 DEF RecordInv

LEMMA RecordStep == TypeInv /\ RecordInv /\ [Next]_vars => RecordInv'
<1> SUFFICES ASSUME TypeInv, RecordInv, [Next]_vars PROVE RecordInv'
  OBVIOUS
<1>0. ServiceType /\ BookType /\ LocalType /\ PreparedInv /\ ControlInv
  BY DEF TypeInv
<1>1. ASSUME NEW t \in Threads, NEW r \in Requests, Submit(t, r) PROVE RecordInv'
  <2>1. UNCHANGED <<prov, live, late, ctx, wereGateways>>
    BY <1>1 DEF Submit, service
  <2>2. ASSUME NEW u \in Threads, pc'[u] \in {"record", "inventory", "prepare", "create"}
        PROVE  pc'[u] = pc[u] /\ req'[u] = req[u]
    BY <1>0, <1>1, <2>2 DEF Submit, LocalType, BookType
  <2>3. ContextKnown' /\ PreparedSound'
    BY <2>1, <2>2 DEF RecordInv, ContextKnown, PreparedSound
  <2>4. QED
    BY <2>1, <2>3, OthersSound DEF RecordInv
<1>2. ASSUME NEW t \in Threads, FetchSubscriberDevices(t) PROVE RecordInv'
  <2>1. CASE \E status : Answer(t, status)
    BY <1>0, <1>2, <2>1, MoveKeepsRecords DEF FetchSubscriberDevices, Moves
  <2>2. CASE \E g \in IF Gateways = {} THEN {NoMac} ELSE Gateways :
               Goto(t, "record",
                    [ctx[t] EXCEPT !.gateway = g,
                                   !.group = IF Devices = {} THEN "olg" ELSE "ap"])
    <3>1. PICK g \in IF Gateways = {} THEN {NoMac} ELSE Gateways :
               Goto(t, "record",
                    [ctx[t] EXCEPT !.gateway = g,
                                   !.group = IF Devices = {} THEN "olg" ELSE "ap"])
      BY <2>2
    <3>2. g # NoMac => g \in wereGateways
      BY <3>1 DEF RecordInv, GatewaysKnown
    <3>3. [ctx[t] EXCEPT !.gateway = g,
                         !.group = IF Devices = {} THEN "olg" ELSE "ap"].gateway = g
      BY <1>0 DEF LocalType, Contexts
    <3>4. Moves(t)
      BY <1>2 DEF FetchSubscriberDevices, Moves
    <3>5. \E label, context :
              /\ Goto(t, label, context)
              /\ context.gateway # NoMac => context.gateway \in wereGateways
              /\ label = "create" =>
                   Sound(req[t].mac, context.group, context.config, wereGateways)
      <4> DEFINE context == [ctx[t] EXCEPT !.gateway = g,
                               !.group = IF Devices = {} THEN "olg" ELSE "ap"]
      <4>1. Goto(t, "record", context) /\ context.gateway = g
        BY <3>1, <3>3
      <4> HIDE DEF context
      <4>2. "record" # "create"
        OBVIOUS
      <4>3. QED
        BY <3>2, <4>1, <4>2
    <3>6. QED
      BY <1>0, <3>4, <3>5, MoveKeepsRecords
  <2>3. QED
    BY <1>2, <2>1, <2>2 DEF FetchSubscriberDevices
<1>3. ASSUME NEW t \in Threads, IsDeviceAlreadyProvisioned(t) PROVE RecordInv'
  BY <1>0, <1>3, MoveKeepsRecords
  DEF IsDeviceAlreadyProvisioned, Moves, RecordInv, ContextKnown
<1>4. ASSUME NEW t \in Threads, IsDevicePresentInInventory(t) PROVE RecordInv'
  BY <1>0, <1>4, MoveKeepsRecords
  DEF IsDevicePresentInInventory, Moves, RecordInv, ContextKnown
<1>5. ASSUME NEW t \in Threads, NEW source, NEW made, pc[t] = "prepare",
             NEW failures, Prepare(t, source, made, failures),
             ValidateConfig(source) => Sound(req[t].mac, ctx[t].group, made, wereGateways)
      PROVE  RecordInv'
  <2>1. /\ [ctx[t] EXCEPT !.config = made].group = ctx[t].group
        /\ [ctx[t] EXCEPT !.config = made].gateway = ctx[t].gateway
        /\ [ctx[t] EXCEPT !.config = made].config = made
    BY <1>0 DEF LocalType, Contexts
  <2>2. ctx[t].gateway # NoMac => ctx[t].gateway \in wereGateways
    BY <1>5 DEF RecordInv, ContextKnown
  <2>3. CASE \E status : Answer(t, status)
    BY <1>0, <1>5, <2>3, MoveKeepsRecords DEF Prepare, Moves
  <2>4. CASE ValidateConfig(source) /\ Goto(t, "create", [ctx[t] EXCEPT !.config = made])
    BY <1>0, <1>5, <2>1, <2>2, <2>4, MoveKeepsRecords DEF Prepare, Moves
  <2>5. QED
    BY <1>5, <2>3, <2>4 DEF Prepare
<1>6. ASSUME NEW t \in Threads, PrepareGatewayConfiguration(t) PROVE RecordInv'
  <2>1. req[t].mac \in Macs /\ pc[t] = "prepare" /\ ctx[t].group = "olg"
    BY <1>0, <1>6 DEF PrepareGatewayConfiguration, PreparedInv
  <2>2. live[req[t].mac] \in Configs
    BY <1>0, <2>1 DEF ServiceType
  <2>3. ValidateConfig(live[req[t].mac]) =>
          Sound(req[t].mac, ctx[t].group, BuildGatewayConfig(live[req[t].mac], req[t].mac),
                wereGateways)
    BY <2>1, <2>2 DEF ValidateConfig, Sound, BuildGatewayConfig, Configs, Keys,
       RecordInv, LiveKnown, Known
  <2>4. QED
    BY <1>5, <1>6, <2>1, <2>3 DEF PrepareGatewayConfiguration
<1>7. ASSUME NEW t \in Threads, PrepareMeshConfiguration(t) PROVE RecordInv'
  <2>1. ctx[t].gateway \in Macs /\ pc[t] = "prepare" /\ ctx[t].group = "ap"
    BY <1>0, <1>7 DEF PrepareMeshConfiguration, PreparedInv, LocalType, Contexts
  <2>2. live[ctx[t].gateway] \in Configs
    BY <1>0, <2>1 DEF ServiceType
  <2>3. live[ctx[t].gateway].key.mac \in wereGateways
    BY <2>1, OnboardingAssumption DEF RecordInv, LiveKnown, Known, ContextKnown
  <2>4. ValidateConfig(live[ctx[t].gateway]) =>
          Sound(req[t].mac, ctx[t].group, BuildMeshConfig(live[ctx[t].gateway]), wereGateways)
    BY <2>1, <2>2, <2>3 DEF ValidateConfig, Sound, BuildMeshConfig, Configs
  <2>5. QED
    BY <1>5, <1>7, <2>1, <2>4 DEF PrepareMeshConfiguration
<1>8. ASSUME NEW t \in Threads, CreateProvisioningRecord(t) PROVE RecordInv'
  <2> DEFINE call == [op |-> "create", mac |-> req[t].mac,
                      record |-> [group |-> ctx[t].group, config |-> ctx[t].config]]
  <2>1. req[t].mac \in Macs /\ ctx[t] \in Contexts
    BY <1>0, <1>8 DEF CreateProvisioningRecord, PreparedInv, LocalType
  <2>2. call \in Calls
    BY <2>1 DEF Calls, Contexts, Records
  <2>3. Sound(call.mac, call.record.group, call.record.config, wereGateways)
    BY <1>8 DEF CreateProvisioningRecord, RecordInv, PreparedSound
  <2>4. LastCall(t, call, {"200", "forwarded"})
    BY <1>8 DEF CreateProvisioningRecord
  <2> HIDE DEF call
  <2>5. QED
    BY <2>2, <2>3, <2>4, LastCallKeepsRecords
<1>9. ASSUME NEW t \in Threads, DeleteSubscriberDevice(t) PROVE RecordInv'
  <2>1. [op |-> "delete", mac |-> req[t].mac] \in Calls
    BY <1>0, <1>9 DEF DeleteSubscriberDevice, ControlInv, Calls, AnyMac
  <2>2. QED
    BY <1>9, <2>1, LastCallKeepsRecords DEF DeleteSubscriberDevice
<1>10. ASSUME NEW call \in late, LateArrival(call) PROVE RecordInv'
  <2>1. call \in Calls
    BY <1>0 DEF ServiceType
  <2>2. DevicesSound' /\ GatewaysKnown' /\ wereGateways \subseteq wereGateways'
    <3>1. CASE Effect(call)
      BY <2>1, <3>1, EffectSound DEF RecordInv, LateSound
    <3>2. CASE UNCHANGED <<prov, wereGateways>>
      BY <3>2, OthersSound
    <3>3. QED
      BY <1>10, <3>1, <3>2 DEF LateArrival
  <2>3. LiveKnown' /\ ContextKnown' /\ PreparedSound' /\ LateSound'
    BY <1>10, <2>2, OthersSound DEF LateArrival
  <2>4. QED
    BY <2>2, <2>3 DEF RecordInv
<1>11. ASSUME NEW m \in Macs, Provision(m) \/ Reconfigure(m) \/ Factory(m)
       PROVE  RecordInv'
  <2>1. PICK c : Runs(m, c) /\ Known(m, c, wereGateways)
    <3>1. CASE Provision(m)
      <4>1. m \in Devices /\ prov[m] \in Records /\ Runs(m, prov[m].config)
        BY <1>0, <3>1 DEF Provision, ServiceType
      <4>2. Known(m, prov[m].config, wereGateways)
        <5>1. Sound(m, prov[m].group, prov[m].config, wereGateways)
          BY <4>1 DEF RecordInv, DevicesSound
        <5>2. prov[m].group = "olg" \/ prov[m].group = "ap"
          BY <4>1 DEF Records
        <5>3. QED
          BY <5>1, <5>2 DEF Sound, Known
      <4>3. QED
        BY <4>1, <4>2
    <3>2. CASE Reconfigure(m)
      <4>1. PICK raw \in BOOLEAN, chosen \in BOOLEAN :
              Runs(m, [live[m] EXCEPT !.raw = raw,
                         !.key = IF chosen THEN [origin |-> "chosen", mac |-> m] ELSE @])
        BY <3>2 DEF Reconfigure
      <4>2. Known(m, [live[m] EXCEPT !.raw = raw,
                        !.key = IF chosen THEN [origin |-> "chosen", mac |-> m] ELSE @],
                  wereGateways)
        BY <1>0 DEF RecordInv, LiveKnown, Known, ServiceType, Configs
      <4>3. QED
        BY <4>1, <4>2
    <3>3. CASE Factory(m)
      BY <3>3 DEF Factory, FactoryConfigs, Known
    <3>4. QED
      BY <1>11, <3>1, <3>2, <3>3
  <2>2. LiveKnown'
    BY <1>0, <2>1 DEF Runs, RecordInv, LiveKnown, ServiceType
  <2>3. QED
    BY <2>1, <2>2, OthersSound DEF Runs, RecordInv
<1>12. CASE UNCHANGED vars
  BY <1>12, OthersSound DEF vars, service, RecordInv
<1>13. QED
  BY <1>1, <1>2, <1>3, <1>4, <1>6, <1>7, <1>8, <1>9, <1>10, <1>11, <1>12
  DEF Next, ThreadStep

\* Every record is made of an accepted configuration: a gateway's is static
\* with a key of its own MAC, never one of an earlier gateway, and the default
\* one where its SSID has an encryption object; a mesh node's is dynamic,
\* without config-raw and with the key of a device that has been the gateway
\* (ValidateConfig, BuildGatewayConfig, PrepareMeshConfiguration,
\* BuildMeshConfig), whatever races, late calls, provisioning and resets happen
\* on the way.
THEOREM RecordsSound == Spec => []RecordsWellFormed
<1>1. RecordInv => RecordsWellFormed
  BY DEF RecordInv, DevicesSound, Sound, RecordsWellFormed
<1>2. QED
  BY <1>1, TypeInvHolds, InitRecordInv, RecordStep, PTL DEF Spec

-----------------------------------------------------------------------------
(* At most one gateway.                                                    *)

Decided(t) == pc[t] \in {"record", "inventory", "prepare", "create"}

\* OneGatewayUnlessRaced is not inductive: it holds because, without races, the
\* decision that a device is the first stays true until the record is created.
\* Only deletes can come in between, and they leave an empty list empty.
NothingLate == late = {}
OneAdd == \A t, u \in Threads : Adding(t) /\ Adding(u) => t = u
FirstIsFirst == \A t \in Threads : Decided(t) /\ ctx[t].group = "olg" => Devices = {}
OneGateway == \A m, n \in Gateways : m = n

GatewayInv == ~raced => NothingLate /\ OneAdd /\ FirstIsFirst /\ OneGateway

LEMMA InitGatewayInv == Init => GatewayInv
  BY DEF Init, GatewayInv, NothingLate, OneAdd, Adding, FirstIsFirst, Decided, OneGateway,
     Gateways, Devices

\* A thread in the middle of an add moves on; other threads stay where they are.
LEMMA MoveKeepsGateways ==
  ASSUME TypeInv, GatewayInv, NEW t \in Threads, Moves(t), Adding(t),
         \/ \E status : Answer(t, status)
         \/ \E label, context :
              Goto(t, label, context) /\ (context.group = "olg" => Devices = {})
  PROVE  GatewayInv'
<1> SUFFICES ASSUME ~raced' PROVE (NothingLate /\ OneAdd /\ FirstIsFirst /\ OneGateway)'
  BY DEF GatewayInv
<1>1. /\ NothingLate /\ OneAdd /\ FirstIsFirst /\ OneGateway /\ LocalType
      /\ UNCHANGED <<prov, late>>
  BY DEF Moves, service, GatewayInv, TypeInv
<1>2. Devices' = Devices /\ Gateways' = Gateways
  BY <1>1 DEF Devices, Gateways
<1>3. /\ \A u \in Threads \ {t} : pc'[u] = pc[u] /\ ctx'[u] = ctx[u]
      /\ Decided(t)' /\ ctx'[t].group = "olg" => Devices = {}
  <2>1. CASE \E status : Answer(t, status)
    BY <1>1, <2>1 DEF Answer, LocalType, Decided
  <2>2. CASE \E label, context :
              Goto(t, label, context) /\ (context.group = "olg" => Devices = {})
    BY <1>1, <2>2 DEF Goto, LocalType
  <2>3. QED
    BY <2>1, <2>2
<1>4. OneAdd'
  BY <1>1, <1>3 DEF OneAdd, Adding
<1>5. FirstIsFirst'
  BY <1>1, <1>2, <1>3 DEF FirstIsFirst, Decided
<1>6. QED
  BY <1>1, <1>2, <1>4, <1>5 DEF NothingLate, OneGateway

\* Deleting a device leaves no more devices and no more gateways.
LEMMA DeleteKeepsGateways ==
  ASSUME NEW call, call.op = "delete", Effect(call)
  PROVE  Devices' \subseteq Devices /\ Gateways' \subseteq Gateways
<1>1. prov' = [m \in Devices \ {call.mac} |-> prov[m]]
  BY DEF Effect
<1>2. QED
  BY <1>1 DEF Devices, Gateways

LEMMA GatewayStep == TypeInv /\ GatewayInv /\ [Next]_vars => GatewayInv'
<1> SUFFICES ASSUME TypeInv, GatewayInv, [Next]_vars PROVE GatewayInv'
  OBVIOUS
<1>0. ServiceType /\ BookType /\ LocalType /\ PreparedInv
  BY DEF TypeInv
<1>1. ASSUME NEW t \in Threads, NEW r \in Requests, Submit(t, r) PROVE GatewayInv'
  <2> SUFFICES ASSUME ~raced' PROVE (NothingLate /\ OneAdd /\ FirstIsFirst /\ OneGateway)'
    BY DEF GatewayInv
  <2>1. /\ ~raced /\ UNCHANGED <<prov, late, ctx>>
        /\ r.kind = "add" => \A v \in Threads : ~Adding(v)
    BY <1>1 DEF Submit, service
  <2>2. NothingLate /\ OneAdd /\ FirstIsFirst /\ OneGateway
    BY <2>1 DEF GatewayInv
  <2>3. /\ \A u \in Threads \ {t} : pc'[u] = pc[u]
        /\ pc'[t] = IF r.kind = "add" THEN "list" ELSE "delete"
    BY <1>0, <1>1 DEF Submit, LocalType
  <2>4. OneAdd'
    BY <2>1, <2>2, <2>3 DEF OneAdd, Adding
  <2>5. FirstIsFirst' /\ OneGateway'
    BY <2>1, <2>2, <2>3 DEF FirstIsFirst, Decided, OneGateway, Devices, Gateways
  <2>6. QED
    BY <2>1, <2>2, <2>4, <2>5 DEF NothingLate
<1>2. ASSUME NEW t \in Threads, FetchSubscriberDevices(t) PROVE GatewayInv'
  <2>1. Moves(t) /\ Adding(t)
    BY <1>2 DEF FetchSubscriberDevices, Moves, Adding
  <2>2. ASSUME NEW g, Goto(t, "record",
                           [ctx[t] EXCEPT !.gateway = g,
                                          !.group = IF Devices = {} THEN "olg" ELSE "ap"])
        PROVE  GatewayInv'
    <3> DEFINE context == [ctx[t] EXCEPT !.gateway = g,
                             !.group = IF Devices = {} THEN "olg" ELSE "ap"]
    <3>1. Goto(t, "record", context) /\ (context.group = "olg" => Devices = {})
      BY <1>0, <2>2 DEF LocalType, Contexts
    <3> HIDE DEF context
    <3>2. QED
      BY <2>1, <3>1, MoveKeepsGateways
  <2>3. CASE \E status : Answer(t, status)
    BY <2>1, <2>3, MoveKeepsGateways
  <2>4. QED
    BY <1>2, <2>2, <2>3 DEF FetchSubscriberDevices
<1>3. ASSUME NEW t \in Threads, NEW label, NEW context,
             Moves(t), Decided(t), ~raced, Goto(t, label, context),
             context.group = ctx[t].group
      PROVE  GatewayInv'
  <2>1. Adding(t) /\ (context.group = "olg" => Devices = {})
    BY <1>3 DEF GatewayInv, FirstIsFirst, Decided, Adding
  <2>2. QED
    BY <1>3, <2>1, MoveKeepsGateways
<1>4. ASSUME NEW t \in Threads, NEW status, Moves(t), Decided(t), Answer(t, status)
      PROVE  GatewayInv'
  BY <1>4, MoveKeepsGateways DEF Decided, Adding
<1>5. ASSUME NEW t \in Threads, Moves(t), raced PROVE GatewayInv'
  BY <1>5 DEF GatewayInv, Moves
<1>6. ASSUME NEW t \in Threads, IsDeviceAlreadyProvisioned(t) PROVE GatewayInv'
  BY <1>3, <1>4, <1>5, <1>6 DEF IsDeviceAlreadyProvisioned, Moves, Decided
<1>7. ASSUME NEW t \in Threads, IsDevicePresentInInventory(t) PROVE GatewayInv'
  BY <1>3, <1>4, <1>5, <1>7 DEF IsDevicePresentInInventory, Moves, Decided
<1>8. ASSUME NEW t \in Threads, NEW source, NEW made, pc[t] = "prepare",
             NEW failures, Prepare(t, source, made, failures)
      PROVE  GatewayInv'
  <2>1. Moves(t) /\ Decided(t)
    BY <1>8 DEF Prepare, Moves, Decided
  <2>2. [ctx[t] EXCEPT !.config = made].group = ctx[t].group
    BY <1>0 DEF LocalType, Contexts
  <2>3. QED
    BY <1>3, <1>4, <1>5, <1>8, <2>1, <2>2 DEF Prepare
<1>9. ASSUME NEW t \in Threads,
             PrepareGatewayConfiguration(t) \/ PrepareMeshConfiguration(t)
      PROVE  GatewayInv'
  BY <1>8, <1>9 DEF PrepareGatewayConfiguration, PrepareMeshConfiguration
<1>10. ASSUME NEW t \in Threads, CreateProvisioningRecord(t) PROVE GatewayInv'
  <2> SUFFICES ASSUME ~raced' PROVE (NothingLate /\ OneAdd /\ FirstIsFirst /\ OneGateway)'
    BY DEF GatewayInv
  <2> DEFINE call == [op |-> "create", mac |-> req[t].mac,
                      record |-> [group |-> ctx[t].group, config |-> ctx[t].config]]
  <2>1. LastCall(t, call, {"200", "forwarded"}) /\ pc[t] = "create"
    BY <1>10 DEF CreateProvisioningRecord
  <2>2. ~raced /\ late' = late
    <3>1. UNCHANGED <<late, raced>> \/ raced' = (raced \/ late' # late)
      BY <2>1 DEF LastCall
    <3>2. CASE late' = late /\ raced' = raced
      BY <3>2, Zenon
    <3>3. CASE raced' = (raced \/ late' # late)
      BY <3>3, Zenon
    <3>4. QED
      BY <3>1, <3>2, <3>3
  <2>3. NothingLate /\ OneAdd /\ FirstIsFirst /\ OneGateway
    BY <2>2 DEF GatewayInv
  <2>4. /\ \A u \in Threads \ {t} : pc'[u] = pc[u] /\ ctx'[u] = ctx[u]
        /\ pc'[t] = "idle"
    BY <1>0, <2>1 DEF LastCall, Answer, LocalType
  <2>5. \A u \in Threads : ~Adding(u)'
    BY <2>1, <2>3, <2>4 DEF OneAdd, Adding
  <2>6. OneAdd' /\ FirstIsFirst'
    BY <2>5 DEF OneAdd, FirstIsFirst, Decided, Adding
  <2>7. OneGateway'
    <3>1. CASE UNCHANGED prov
      BY <2>3, <3>1 DEF OneGateway, Gateways, Devices
    <3>2. CASE Effect(call)
      <4>1. prov' = [m \in Devices \cup {req[t].mac} |->
                       IF m = req[t].mac
                       THEN [group |-> ctx[t].group, config |-> ctx[t].config] ELSE prov[m]]
        BY <3>2 DEF Effect
      <4>2. CASE ctx[t].group = "olg"
        <5>1. Devices = {}
          BY <2>1, <2>3, <4>2 DEF FirstIsFirst, Decided
        <5>2. Devices' = {req[t].mac}
          BY <4>1, <5>1 DEF Devices
        <5>3. QED
          BY <5>2 DEF OneGateway, Gateways
      <4>3. CASE ctx[t].group # "olg"
        <5>1. Gateways' \subseteq Gateways
          BY <4>1, <4>3 DEF Gateways, Devices
        <5>2. QED
          BY <2>3, <5>1 DEF OneGateway
      <4>4. QED
        BY <4>2, <4>3
    <3>3. QED
      BY <2>1, <3>1, <3>2 DEF LastCall
  <2>8. QED
    BY <2>2, <2>3, <2>6, <2>7 DEF NothingLate
<1>11. ASSUME NEW t \in Threads, DeleteSubscriberDevice(t) PROVE GatewayInv'
  <2> SUFFICES ASSUME ~raced' PROVE (NothingLate /\ OneAdd /\ FirstIsFirst /\ OneGateway)'
    BY DEF GatewayInv
  <2> DEFINE call == [op |-> "delete", mac |-> req[t].mac]
  <2>1. LastCall(t, call, {"200"}) /\ call.op = "delete"
    BY <1>11 DEF DeleteSubscriberDevice
  <2> HIDE DEF call
  <2>2. ~raced /\ late' = late
    <3>1. UNCHANGED <<late, raced>> \/ raced' = (raced \/ late' # late)
      BY <2>1 DEF LastCall
    <3>2. CASE late' = late /\ raced' = raced
      BY <3>2, Zenon
    <3>3. CASE raced' = (raced \/ late' # late)
      BY <3>3, Zenon
    <3>4. QED
      BY <3>1, <3>2, <3>3
  <2>3. NothingLate /\ OneAdd /\ FirstIsFirst /\ OneGateway
    BY <2>2 DEF GatewayInv
  <2>4. /\ \A u \in Threads \ {t} : pc'[u] = pc[u] /\ ctx'[u] = ctx[u]
        /\ pc'[t] = "idle"
    BY <1>0, <2>1 DEF LastCall, Answer, LocalType
  <2>5. Devices' \subseteq Devices /\ Gateways' \subseteq Gateways
    <3>1. CASE UNCHANGED prov
      BY <3>1 DEF Devices, Gateways
    <3>2. CASE Effect(call)
      BY <2>1, <3>2, DeleteKeepsGateways
    <3>3. QED
      BY <2>1, <3>1, <3>2 DEF LastCall
  <2>6. OneAdd' /\ FirstIsFirst'
    BY <2>3, <2>4, <2>5 DEF OneAdd, Adding, FirstIsFirst, Decided
  <2>7. QED
    BY <2>2, <2>3, <2>5, <2>6 DEF NothingLate, OneGateway
<1>12. ASSUME NEW call \in late, LateArrival(call) PROVE GatewayInv'
  BY <1>12 DEF LateArrival, GatewayInv, NothingLate
<1>13. ASSUME UNCHANGED <<prov, late, pc, ctx, raced>> PROVE GatewayInv'
  BY <1>13 DEF GatewayInv, NothingLate, OneAdd, Adding, FirstIsFirst, Decided, OneGateway,
     Gateways, Devices
<1>14. ASSUME NEW m \in Macs, Provision(m) \/ Reconfigure(m) \/ Factory(m)
       PROVE  GatewayInv'
  BY <1>13, <1>14 DEF Provision, Reconfigure, Factory, Runs
<1>15. CASE UNCHANGED vars
  BY <1>13, <1>15 DEF vars, service
<1>16. QED
  BY <1>1, <1>2, <1>6, <1>7, <1>9, <1>10, <1>11, <1>12, <1>14, <1>15 DEF Next, ThreadStep

\* As long as adds do not overlap and no create or delete times out, a
\* subscriber has at most one gateway, although InitializeSubscriberDevice
\* decides from a list that is read several calls before the record is created
\* and deletes, failures and reconfigurations may come in between.
THEOREM OneGatewayTheorem == Spec => []OneGatewayUnlessRaced
<1>1. GatewayInv => OneGatewayUnlessRaced
  <2> SUFFICES ASSUME OneGateway PROVE Cardinality(Gateways) <= 1
    BY DEF GatewayInv, OneGatewayUnlessRaced
  <2>1. CASE Gateways = {}
    BY <2>1, FS_EmptySet
  <2>2. CASE Gateways # {}
    <3>1. PICK g : g \in Gateways
      BY <2>2
    <3>2. Gateways = {g}
      BY <3>1 DEF OneGateway
    <3>3. Cardinality({g}) = 1
      BY FS_Singleton
    <3>4. QED
      BY <3>2, <3>3
  <2>3. QED
    BY <2>1, <2>2
<1>2. QED
  BY <1>1, TypeInvHolds, InitGatewayInv, GatewayStep, PTL DEF Spec

-----------------------------------------------------------------------------
(* A success that nobody disturbed.                                        *)

\* SoloOnboarding speaks of the answer; while the thread is alone, what it
\* decided from the list and prepared from a running configuration stays true
\* up to the call that creates the record.
Outcome(t) ==
  LET m == req[t].mac IN
  /\ req[t].kind = "delete" => m \notin Devices
  /\ req[t].kind = "add" =>
       /\ m \in Devices
       /\ (prov[m].group = "olg") <=> (Devices = {m})
       /\ prov[m].group = "ap" => \E g \in Gateways : prov[m].config.key = live[g].key

StillDecided(t) ==
  Decided(t) =>
    /\ req[t].mac \notin Devices
    /\ ctx[t].group = "olg" => Devices = {}
    /\ ctx[t].group = "ap" => Devices # {} /\ ctx[t].gateway \in Gateways \cup {NoMac}

StillPrepared(t) ==
  pc[t] = "create" /\ ctx[t].group = "ap" => ctx[t].config.key = live[ctx[t].gateway].key

KindKnown(t) == /\ pc[t] = "list" \/ Decided(t) => req[t].kind = "add"
                /\ pc[t] = "delete" => req[t].kind = "delete"

Undisturbed(t) ==
  /\ KindKnown(t) /\ StillDecided(t) /\ StillPrepared(t)
  /\ pc[t] = "idle" /\ http[t] = "200" => Outcome(t)

SoloInv == \A t \in Threads : alone[t] => Undisturbed(t)

LEMMA InitSoloInv == Init => SoloInv
  BY DEF Init, SoloInv

\* After a step of thread t, only t can be alone, and only if it was before.
LEMMA ActorAlone ==
  ASSUME NEW t \in Threads, Acts(t), alone[t] => Undisturbed(t)'
  PROVE  SoloInv'
  BY DEF Acts, SoloInv

\* A request that ends without success has nothing to show.
LEMMA UnsuccessfulAnswer ==
  ASSUME LocalType, NEW t \in Threads, Acts(t), NEW status, status # "200",
         Answer(t, status)
  PROVE  SoloInv'
<1>1. pc'[t] = "idle" /\ http'[t] # "200"
  BY DEF Answer, LocalType
<1>2. Undisturbed(t)'
  BY <1>1 DEF Undisturbed, KindKnown, StillDecided, StillPrepared, Decided
<1>3. QED
  BY <1>2, ActorAlone

\* An add that moves on takes what it decided with it.
LEMMA DecisionCarried ==
  ASSUME LocalType, SoloInv, NEW t \in Threads, Moves(t), Decided(t),
         NEW label \in {"inventory", "prepare", "create"}, NEW context,
         Goto(t, label, context),
         context.group = ctx[t].group /\ context.gateway = ctx[t].gateway,
         label = "create" /\ context.group = "ap" =>
           context.config.key = live[ctx[t].gateway].key
  PROVE  SoloInv'
<1>1. /\ pc'[t] = label /\ ctx'[t] = context
      /\ UNCHANGED <<prov, live, req>> /\ Acts(t)
  BY DEF Goto, Moves, service, LocalType
<1>2. ASSUME alone[t] PROVE Undisturbed(t)'
  <2>1. KindKnown(t) /\ StillDecided(t)
    BY <1>2 DEF SoloInv, Undisturbed
  <2>2. KindKnown(t)' /\ StillDecided(t)'
    BY <1>1, <2>1 DEF KindKnown, StillDecided, Decided, Gateways, Devices
  <2>3. StillPrepared(t)'
    BY <1>1 DEF StillPrepared
  <2>4. QED
    BY <1>1, <2>2, <2>3 DEF Undisturbed
<1>3. QED
  BY <1>1, <1>2, ActorAlone

LEMMA SoloStep == TypeInv /\ SoloInv /\ [Next]_vars => SoloInv'
<1> SUFFICES ASSUME TypeInv, SoloInv, [Next]_vars PROVE SoloInv'
  OBVIOUS
<1>0. ServiceType /\ BookType /\ LocalType /\ PreparedInv /\ ControlInv
  BY DEF TypeInv
<1>1. ASSUME NEW t \in Threads, NEW r \in Requests, Submit(t, r) PROVE SoloInv'
  <2>1. \A u \in Threads \ {t} : ~alone'[u]
    BY <1>1 DEF Submit
  <2>2. /\ pc'[t] = IF r.kind = "add" THEN "list" ELSE "delete"
        /\ req'[t] = r /\ r.kind \in {"add", "delete"}
    BY <1>0, <1>1 DEF Submit, LocalType, BookType, Requests
  <2>3. Undisturbed(t)'
    BY <2>2 DEF Undisturbed, KindKnown, StillDecided, StillPrepared, Decided
  <2>4. QED
    BY <2>1, <2>3 DEF SoloInv
<1>2. ASSUME NEW t \in Threads, FetchSubscriberDevices(t) PROVE SoloInv'
  <2>1. Moves(t) /\ Acts(t) /\ pc[t] = "list"
    BY <1>2 DEF FetchSubscriberDevices, Moves
  <2>2. CASE \E status \in {"error", "400"} : Answer(t, status)
    BY <1>0, <2>1, <2>2, UnsuccessfulAnswer
  <2>3. ASSUME req[t].mac \notin Devices,
               NEW g \in IF Gateways = {} THEN {NoMac} ELSE Gateways,
               Goto(t, "record",
                    [ctx[t] EXCEPT !.gateway = g,
                                   !.group = IF Devices = {} THEN "olg" ELSE "ap"])
        PROVE  SoloInv'
    <3>1. /\ pc'[t] = "record" /\ ctx'[t].gateway = g
          /\ ctx'[t].group = IF Devices = {} THEN "olg" ELSE "ap"
      BY <1>0, <2>3 DEF Goto, LocalType, Contexts
    <3>2. UNCHANGED <<prov, live, req>>
      BY <2>1 DEF Moves, service
    <3>3. ASSUME alone[t] PROVE Undisturbed(t)'
      <4>1. req[t].kind = "add"
        BY <2>1, <3>3 DEF SoloInv, Undisturbed, KindKnown
      <4>2. StillDecided(t)'
        BY <2>3, <3>1, <3>2 DEF StillDecided, Devices, Gateways
      <4>3. QED
        BY <3>1, <3>2, <4>1, <4>2 DEF Undisturbed, KindKnown, StillPrepared
    <3>4. QED
      BY <2>1, <3>3, ActorAlone
  <2>4. QED
    BY <1>2, <2>2, <2>3 DEF FetchSubscriberDevices
<1>3. ASSUME NEW t \in Threads, IsDeviceAlreadyProvisioned(t) PROVE SoloInv'
  <2>1. Moves(t) /\ Acts(t) /\ Decided(t)
    BY <1>3 DEF IsDeviceAlreadyProvisioned, Moves, Decided
  <2>2. CASE \E status \in {"error", "400", "forwarded"} : Answer(t, status)
    BY <1>0, <2>1, <2>2, UnsuccessfulAnswer
  <2>3. CASE Goto(t, "inventory", ctx[t])
    BY <1>0, <2>1, <2>3, DecisionCarried
  <2>4. QED
    BY <1>3, <2>2, <2>3 DEF IsDeviceAlreadyProvisioned
<1>4. ASSUME NEW t \in Threads, IsDevicePresentInInventory(t) PROVE SoloInv'
  <2>1. Moves(t) /\ Acts(t) /\ Decided(t)
    BY <1>4 DEF IsDevicePresentInInventory, Moves, Decided
  <2>2. CASE \E status \in {"error", "400"} : Answer(t, status)
    BY <1>0, <2>1, <2>2, UnsuccessfulAnswer
  <2>3. CASE Goto(t, "prepare", ctx[t])
    BY <1>0, <2>1, <2>3, DecisionCarried
  <2>4. QED
    BY <1>4, <2>2, <2>3 DEF IsDevicePresentInInventory
<1>5. ASSUME NEW t \in Threads, NEW source, NEW made, pc[t] = "prepare",
             NEW failures, "200" \notin failures, Prepare(t, source, made, failures),
             ctx[t].group = "ap" => made.key = live[ctx[t].gateway].key
      PROVE  SoloInv'
  <2>1. Moves(t) /\ Acts(t) /\ Decided(t)
    BY <1>5 DEF Prepare, Moves, Decided
  <2>2. CASE \E status \in failures : Answer(t, status)
    BY <1>0, <1>5, <2>1, <2>2, UnsuccessfulAnswer
  <2>3. CASE Goto(t, "create", [ctx[t] EXCEPT !.config = made])
    <3> DEFINE context == [ctx[t] EXCEPT !.config = made]
    <3>1. /\ context.group = ctx[t].group /\ context.gateway = ctx[t].gateway
          /\ context.config = made
      BY <1>0 DEF LocalType, Contexts
    <3>2. Goto(t, "create", context)
      BY <2>3
    <3> HIDE DEF context
    <3>3. QED
      BY <1>0, <1>5, <2>1, <3>1, <3>2, DecisionCarried
  <2>4. QED
    BY <1>5, <2>2, <2>3 DEF Prepare
<1>6. ASSUME NEW t \in Threads, PrepareGatewayConfiguration(t) PROVE SoloInv'
  BY <1>5, <1>6 DEF PrepareGatewayConfiguration
<1>7. ASSUME NEW t \in Threads, PrepareMeshConfiguration(t) PROVE SoloInv'
  <2>1. ctx[t].gateway \in Macs
    BY <1>0, <1>7 DEF PrepareMeshConfiguration, PreparedInv, LocalType, Contexts
  <2>2. BuildMeshConfig(live[ctx[t].gateway]).key = live[ctx[t].gateway].key
    BY <1>0, <2>1 DEF ServiceType, BuildMeshConfig, Configs
  <2>3. QED
    BY <1>5, <1>7, <2>2 DEF PrepareMeshConfiguration
<1>8. ASSUME NEW t \in Threads, CreateProvisioningRecord(t) PROVE SoloInv'
  <2> DEFINE record == [group |-> ctx[t].group, config |-> ctx[t].config]
             m == req[t].mac
  <2>1. Acts(t) /\ pc[t] = "create"
    BY <1>8 DEF CreateProvisioningRecord, LastCall
  <2>2. CASE \E status \in {"error", "forwarded"} : Answer(t, status)
    BY <1>0, <2>1, <2>2, UnsuccessfulAnswer
  <2>3. CASE Effect([op |-> "create", mac |-> m, record |-> record]) /\ Answer(t, "200")
    <3>1. /\ prov' = [n \in Devices \cup {m} |-> IF n = m THEN record ELSE prov[n]]
          /\ Devices' = Devices \cup {m}
      BY <2>3 DEF Effect, Devices
    <3>2. pc'[t] = "idle" /\ UNCHANGED <<live, req>>
      BY <1>0, <1>8, <2>3 DEF CreateProvisioningRecord, LastCall, Answer, LocalType
    <3>3. prov'[m].group = ctx[t].group /\ prov'[m].config = ctx[t].config
      BY <3>1
    <3>4. ASSUME alone[t] PROVE Outcome(t)'
      <4>1. /\ req[t].kind = "add" /\ m \notin Devices
            /\ ctx[t].group = "olg" => Devices = {}
            /\ ctx[t].group = "ap" =>
                 /\ Devices # {} /\ ctx[t].gateway \in Gateways \cup {NoMac}
                 /\ ctx[t].config.key = live[ctx[t].gateway].key
        BY <2>1, <3>4
        DEF SoloInv, Undisturbed, KindKnown, StillDecided, StillPrepared, Decided
      <4>2. ctx[t].group \in {"olg", "ap"} /\ (ctx[t].group = "ap" => ctx[t].gateway # NoMac)
        BY <1>0, <2>1 DEF LocalType, Contexts, PreparedInv
      <4>3. (prov'[m].group = "olg") <=> (Devices' = {m})
        BY <3>1, <3>3, <4>1, <4>2
      <4>4. ASSUME ctx[t].group = "ap"
            PROVE  \E g \in Gateways' : prov'[m].config.key = live'[g].key
        <5>1. ctx[t].gateway \in Gateways'
          BY <3>1, <4>1, <4>2, <4>4 DEF Gateways, Devices
        <5>2. QED
          BY <3>2, <3>3, <4>1, <4>4, <5>1
      <4>5. QED
        BY <3>1, <3>2, <3>3, <4>1, <4>3, <4>4 DEF Outcome
    <3>5. alone[t] => Undisturbed(t)'
      BY <3>2, <3>4 DEF Undisturbed, KindKnown, StillDecided, StillPrepared, Decided
    <3>6. QED
      BY <2>1, <3>5, ActorAlone
  <2>4. QED
    BY <1>8, <2>2, <2>3 DEF CreateProvisioningRecord, LastCall
<1>9. ASSUME NEW t \in Threads, DeleteSubscriberDevice(t) PROVE SoloInv'
  <2>1. Acts(t) /\ pc[t] = "delete"
    BY <1>9 DEF DeleteSubscriberDevice, LastCall
  <2>2. CASE Answer(t, "error")
    BY <1>0, <2>1, <2>2, UnsuccessfulAnswer
  <2>3. CASE Effect([op |-> "delete", mac |-> req[t].mac]) /\ Answer(t, "200")
    <3>1. Devices' = Devices \ {req[t].mac}
      BY <2>3 DEF Effect, Devices
    <3>2. pc'[t] = "idle" /\ UNCHANGED req
      BY <1>0, <1>9, <2>3 DEF DeleteSubscriberDevice, LastCall, Answer, LocalType
    <3>3. ASSUME alone[t] PROVE Outcome(t)'
      <4>1. req[t].kind = "delete"
        BY <2>1, <3>3 DEF SoloInv, Undisturbed, KindKnown
      <4>2. QED
        BY <3>1, <3>2, <4>1 DEF Outcome
    <3>4. alone[t] => Undisturbed(t)'
      BY <3>2, <3>3 DEF Undisturbed, KindKnown, StillDecided, StillPrepared, Decided
    <3>5. QED
      BY <2>1, <3>4, ActorAlone
  <2>4. QED
    BY <1>9, <2>2, <2>3 DEF DeleteSubscriberDevice, LastCall
<1>10. ASSUME Disturbed PROVE SoloInv'
  BY <1>10 DEF Disturbed, SoloInv
<1>11. ASSUME NEW call \in late, LateArrival(call) PROVE SoloInv'
  BY <1>10, <1>11 DEF LateArrival
<1>12. ASSUME NEW m \in Macs, Provision(m) \/ Reconfigure(m) \/ Factory(m)
       PROVE  SoloInv'
  BY <1>10, <1>12 DEF Provision, Reconfigure, Factory, Runs
<1>13. CASE UNCHANGED vars
  BY <1>13 DEF vars, service, SoloInv, Undisturbed, KindKnown, StillDecided, StillPrepared,
     Decided, Outcome, Devices, Gateways
<1>14. QED
  BY <1>1, <1>2, <1>3, <1>4, <1>6, <1>7, <1>8, <1>9, <1>11, <1>12, <1>13
  DEF Next, ThreadStep

\* Whatever was left before, an OK() that nobody disturbed has its effect (a
\* forwarded 200 may have none): an added device is the gateway if and only if
\* it is the only device, a mesh node has the key that a gateway runs, a deleted
\* device is gone (DoPost, DoDelete, InitializeSubscriberDevice,
\* PrepareMeshConfiguration).
THEOREM SoloTheorem == Spec => []SoloOnboarding
<1>1. TypeInv /\ SoloInv => SoloOnboarding
  <2>1. TypeInv => \A t \in Threads : req[t].kind \in {"add", "delete"}
    BY DEF TypeInv, BookType, Requests
  <2>2. QED
    BY <2>1 DEF SoloInv, Undisturbed, Outcome, SoloOnboarding
<1>2. QED
  BY <1>1, TypeInvHolds, InitSoloInv, SoloStep, PTL DEF Spec
===========================================================================
