---------------------------- MODULE Onboarding ----------------------------
(***************************************************************************)
(* POST and DELETE /subscriber/devices/{mac}                               *)
(* (RESTAPI_subscriber_devices_handler.cpp, ConfigMaker.cpp).  The first   *)
(* device of a subscriber becomes its gateway (group "olg") with a default *)
(* SSID and key made from its MAC, every later one a mesh node ("ap") with *)
(* the gateway's running configuration.  Which of the two is decided from  *)
(* a list read at the beginning, and carried out calls later.              *)
(*                                                                         *)
(* A configuration is whether ValidateConfig accepts it, the addressing of *)
(* its interfaces, whether it has a config-raw section, and one of its     *)
(* SSID entries: its key (which stands for SSID and password) and whether  *)
(* it is keyed, that is, has the encryption object without which neither   *)
(* BuildGatewayConfig nor ApplySsidOverrides touches an entry.  One        *)
(* downstream call is one step; a create or delete that times out here may *)
(* be carried out later.                                                   *)
(***************************************************************************)
EXTENDS Naturals, FiniteSets

CONSTANTS
  Threads,     \* request-handling threads
  Macs,        \* devices in the inventory that nobody else has
  Foreign,     \* devices of another subscriber
  Unknown,     \* devices that are not in the inventory
  NoMac,       \* no device
  MaxRequests, \* bound on the number of requests
  MaxLate      \* bound on the calls that timed out and may still arrive

ASSUME OnboardingAssumption ==
  /\ Macs \cap Foreign = {} /\ Macs \cap Unknown = {} /\ Foreign \cap Unknown = {}
  /\ NoMac \notin Macs
  /\ MaxRequests \in Nat /\ MaxLate \in Nat

Keys == [origin : {"factory", "default", "chosen"}, mac : Macs \cup {NoMac}]
Configs == [valid : BOOLEAN, static : BOOLEAN, raw : BOOLEAN, keyed : BOOLEAN, key : Keys]
Records == [group : {"olg", "ap"}, config : Configs]

VARIABLES
  prov,      \* the subscriber's devices in the provisioning service
  live,      \* the configuration that every device runs
  late,      \* calls that timed out here and may still be carried out
  started,   \* number of requests so far (bound)
  pc, req,   \* per thread: control point and request [kind, mac]
  ctx,       \* per thread: the AddDeviceContext, [group, gateway, config]
  http,      \* per thread: status answered; "forwarded" is a downstream 200 that
             \*   an error path passes on (to the client a 200 like any other)
  alone,     \* history: nobody else has acted since the thread started
  raced,     \* history: two adds have overlapped or a call has timed out
  wereGateways \* history: the devices that have been the gateway

service == <<prov, live>>
vars == <<service, late, started, pc, req, ctx, http, alone, raced, wereGateways>>

Devices == DOMAIN prov
Gateways == {m \in Devices : prov[m].group = "olg"}

\* What a device may run when it comes from the factory or is reset to it.
FactoryConfigs(m) ==
  [valid : BOOLEAN, static : {TRUE}, raw : {FALSE}, keyed : BOOLEAN,
   key : {[origin |-> "factory", mac |-> m]}]

NoConfig == [valid |-> FALSE, static |-> TRUE, raw |-> FALSE, keyed |-> FALSE,
             key |-> [origin |-> "factory", mac |-> NoMac]]

-----------------------------------------------------------------------------
(* ConfigMaker.                                                            *)

\* Mutant: any addressing is accepted.
ValidateConfigAnyAddressing(c) == c.valid

ValidateConfig(c) == c.valid /\ c.static

\* The device's own configuration with the default SSID and key; an entry
\* without an encryption object is skipped.
BuildGatewayConfig(c, m) ==
  [c EXCEPT !.key = IF c.keyed THEN [origin |-> "default", mac |-> m] ELSE c.key]

\* The gateway's configuration with dynamic addressing and without rules.
BuildMeshConfig(c) == [c EXCEPT !.static = FALSE, !.raw = FALSE]

-----------------------------------------------------------------------------
(* The provisioning service, as far as the portal uses it: a serial number *)
(* has at most one record.                                                 *)

Accepts(call) == (call.op = "create") <=> (call.mac \notin Devices)

Effect(call) ==
  \/ /\ call.op = "create"
     /\ prov' = [m \in Devices \cup {call.mac} |->
                   IF m = call.mac THEN call.record ELSE prov[m]]
     /\ wereGateways' = wereGateways \cup
                           {m \in {call.mac} : call.record.group = "olg"}
  \/ /\ call.op = "delete"
     /\ prov' = [m \in Devices \ {call.mac} |-> prov[m]]
     /\ UNCHANGED wereGateways

-----------------------------------------------------------------------------
(* The portal.                                                             *)

Acts(t) == alone' = [u \in Threads |-> u = t /\ alone[t]]

NoContext == [group |-> "ap", gateway |-> NoMac, config |-> NoConfig]

Goto(t, label, context) ==
  /\ pc' = [pc EXCEPT ![t] = label]
  /\ ctx' = [ctx EXCEPT ![t] = context]
  /\ UNCHANGED http

Answer(t, status) ==
  /\ pc' = [pc EXCEPT ![t] = "idle"]
  /\ ctx' = [ctx EXCEPT ![t] = NoContext]
  /\ http' = [http EXCEPT ![t] = status]

Adding(t) == pc[t] \in {"list", "record", "inventory", "prepare", "create"}

\* A request arrives with a well-formed MAC.
Submit(t, r) ==
  /\ pc[t] = "idle"
  /\ started < MaxRequests
  /\ started' = started + 1
  /\ req' = [req EXCEPT ![t] = r]
  /\ pc' = [pc EXCEPT ![t] = IF r.kind = "add" THEN "list" ELSE "delete"]
  /\ http' = [http EXCEPT ![t] = "none"]
  /\ alone' = [u \in Threads |-> u = t /\ \A v \in Threads : pc[v] = "idle"]
  /\ raced' = (raced \/ (r.kind = "add" /\ \E v \in Threads : Adding(v)))
  /\ UNCHANGED <<service, late, ctx, wereGateways>>

\* Mutant: the first device is recognised by the absence of a gateway.
FetchSubscriberDevicesByGateway(t) ==
  /\ pc[t] = "list"
  /\ Acts(t)
  /\ req[t].mac \notin Devices
  /\ \E g \in IF Gateways = {} THEN {NoMac} ELSE Gateways :
       Goto(t, "record", [ctx[t] EXCEPT !.gateway = g,
                                        !.group = IF g = NoMac THEN "olg" ELSE "ap"])
  /\ UNCHANGED <<service, late, started, req, raced, wereGateways>>

\* Mutant: off by one in the size of the list.
FetchSubscriberDevicesOffByOne(t) ==
  /\ pc[t] = "list"
  /\ Acts(t)
  /\ req[t].mac \notin Devices
  /\ \E g \in IF Gateways = {} THEN {NoMac} ELSE Gateways :
       Goto(t, "record",
            [ctx[t] EXCEPT !.gateway = g,
                           !.group = IF Cardinality(Devices) <= 1 THEN "olg" ELSE "ap"])
  /\ UNCHANGED <<service, late, started, req, raced, wereGateways>>

\* The list of devices decides the group, and which gateway a mesh node gets
\* its configuration from (the first in the list, in the service's order).
FetchSubscriberDevices(t) ==
  /\ pc[t] = "list"
  /\ Acts(t)
  /\ \/ Answer(t, "error")
     \/ req[t].mac \in Devices /\ Answer(t, "400")
     \/ /\ req[t].mac \notin Devices
        /\ \E g \in IF Gateways = {} THEN {NoMac} ELSE Gateways :
             Goto(t, "record",
                  [ctx[t] EXCEPT !.gateway = g,
                                 !.group = IF Devices = {} THEN "olg" ELSE "ap"])
  /\ UNCHANGED <<service, late, started, req, raced, wereGateways>>

\* Mutant: only the subscriber's own devices are looked at.
IsDeviceAlreadyProvisionedOwn(t) ==
  /\ pc[t] = "record"
  /\ Acts(t)
  /\ IF req[t].mac \in Devices THEN Answer(t, "400") ELSE Goto(t, "inventory", ctx[t])
  /\ UNCHANGED <<service, late, started, req, raced, wereGateways>>

\* No subscriber may have a record of the device.  A record that cannot be
\* read is an error whose status, 200, is forwarded.
IsDeviceAlreadyProvisioned(t) ==
  /\ pc[t] = "record"
  /\ Acts(t)
  /\ \/ Answer(t, "error")
     \/ /\ req[t].mac \in Devices \cup Foreign
        /\ \E status \in {"400", "forwarded"} : Answer(t, status)
     \/ req[t].mac \notin Devices \cup Foreign /\ Goto(t, "inventory", ctx[t])
  /\ UNCHANGED <<service, late, started, req, raced, wereGateways>>

\* The device must be in the inventory; a failed call counts as "not there".
\* A mesh node without a gateway is an error.
IsDevicePresentInInventory(t) ==
  /\ pc[t] = "inventory"
  /\ Acts(t)
  /\ \/ Answer(t, "400")
     \/ /\ req[t].mac \notin Unknown
        /\ IF ctx[t].group = "ap" /\ ctx[t].gateway = NoMac
           THEN Answer(t, "error") ELSE Goto(t, "prepare", ctx[t])
  /\ UNCHANGED <<service, late, started, req, raced, wereGateways>>

\* A configuration that ValidateConfig refuses, or cannot be read, is an error.
Prepare(t, source, made, failures) ==
  /\ Acts(t)
  /\ \/ \E status \in failures : Answer(t, status)
     \/ ValidateConfig(source) /\ Goto(t, "create", [ctx[t] EXCEPT !.config = made])
  /\ UNCHANGED <<service, late, started, req, raced, wereGateways>>

\* The running configuration of the device itself becomes the gateway's
\* record.  The status of a failed GetConfig is forwarded, also when it is the
\* 200 of an answer without a configuration.
PrepareGatewayConfiguration(t) ==
  /\ pc[t] = "prepare" /\ ctx[t].group = "olg"
  /\ LET own == live[req[t].mac]
     IN  Prepare(t, own, BuildGatewayConfig(own, req[t].mac), {"error", "forwarded"})

\* The running configuration of the gateway becomes the mesh node's record.
PrepareMeshConfiguration(t) ==
  /\ pc[t] = "prepare" /\ ctx[t].group = "ap"
  /\ LET main == live[ctx[t].gateway] IN Prepare(t, main, BuildMeshConfig(main), {"error"})

\* The call that ends a request: carried out, or refused, or timed out.
LastCall(t, call, successes) ==
  /\ Acts(t)
  /\ \/ /\ Accepts(call)
        /\ Effect(call)
        /\ \E status \in successes : Answer(t, status)
        /\ UNCHANGED <<late, raced>>
     \/ /\ late' \in {late, late \cup {call}} /\ Cardinality(late') <= MaxLate
        /\ raced' = (raced \/ late' # late)
        /\ Answer(t, "error")
        /\ UNCHANGED <<prov, wereGateways>>
  /\ UNCHANGED <<live, started, req>>

\* When the answer to a create that was carried out cannot be read, its status
\* is forwarded.
CreateProvisioningRecord(t) ==
  /\ pc[t] = "create"
  /\ LastCall(t, [op |-> "create", mac |-> req[t].mac,
                  record |-> [group |-> ctx[t].group, config |-> ctx[t].config]],
              {"200", "forwarded"})

DeleteSubscriberDevice(t) ==
  /\ pc[t] = "delete"
  /\ LastCall(t, [op |-> "delete", mac |-> req[t].mac], {"200"})

-----------------------------------------------------------------------------
(* Around the portal.                                                      *)

Disturbed == alone' = [u \in Threads |-> FALSE]

LateArrival(call) ==
  /\ late' = late \ {call}
  /\ Disturbed
  /\ IF Accepts(call) THEN Effect(call) ELSE UNCHANGED <<prov, wereGateways>>
  /\ UNCHANGED <<live, started, pc, req, ctx, http, raced>>

Runs(m, c) ==
  /\ live' = [live EXCEPT ![m] = c]
  /\ live[m] # c
  /\ Disturbed
  /\ UNCHANGED <<prov, late, started, pc, req, ctx, http, raced, wereGateways>>

\* The provisioning service brings a device to its record.
Provision(m) ==
  /\ m \in Devices
  /\ Runs(m, prov[m].config)

\* A configure request gives the gateway rules, or another SSID and password,
\* which an entry without an encryption object refuses.
Reconfigure(m) ==
  /\ m \in Gateways
  /\ \E raw, chosen \in BOOLEAN :
       /\ chosen => live[m].keyed
       /\ Runs(m, [live[m] EXCEPT !.raw = raw,
                     !.key = IF chosen THEN [origin |-> "chosen", mac |-> m] ELSE @])

\* The factory command of the action handler.
Factory(m) == \E c \in FactoryConfigs(m) : Runs(m, c)

Init ==
  /\ prov = [m \in {} |-> NoMac]
  /\ live \in [Macs -> UNION {FactoryConfigs(m) : m \in Macs}]
  /\ \A m \in Macs : live[m] \in FactoryConfigs(m)
  /\ late = {}
  /\ started = 0
  /\ pc = [t \in Threads |-> "idle"]
  /\ req = [t \in Threads |-> [kind |-> "add", mac |-> NoMac]]
  /\ ctx = [t \in Threads |-> NoContext]
  /\ http = [t \in Threads |-> "none"]
  /\ alone = [t \in Threads |-> FALSE]
  /\ raced = FALSE
  /\ wereGateways = {}

Requests == [kind : {"add", "delete"}, mac : Macs \cup Foreign \cup Unknown]

ThreadStep(t) ==
  \/ FetchSubscriberDevices(t)
  \/ IsDeviceAlreadyProvisioned(t)
  \/ IsDevicePresentInInventory(t)
  \/ PrepareGatewayConfiguration(t)
  \/ PrepareMeshConfiguration(t)
  \/ CreateProvisioningRecord(t)
  \/ DeleteSubscriberDevice(t)

Next ==
  \/ \E t \in Threads : (\E r \in Requests : Submit(t, r)) \/ ThreadStep(t)
  \/ \E call \in late : LateArrival(call)
  \/ \E m \in Macs : Provision(m) \/ Reconfigure(m) \/ Factory(m)

Spec == Init /\ [][Next]_vars

-----------------------------------------------------------------------------
(* Properties.                                                             *)

Calls == [op : {"create"}, mac : Macs, record : Records]
           \cup [op : {"delete"}, mac : Macs \cup Foreign \cup Unknown]

\* Type correctness; in particular a record is only ever created for a device
\* of the inventory that nobody else has, and a mesh node's configuration is
\* only prepared with a gateway at hand.
OnboardTypeOK ==
  /\ Devices \subseteq Macs /\ \A m \in Devices : prov[m] \in Records
  /\ live \in [Macs -> Configs]
  /\ late \subseteq Calls
  /\ started \in 0 .. MaxRequests
  /\ pc \in [Threads -> {"idle", "list", "record", "inventory", "prepare", "create",
                         "delete"}]
  /\ req \in [Threads -> Requests \cup [kind : {"add"}, mac : {NoMac}]]
  /\ ctx \in [Threads -> [group : {"olg", "ap"}, gateway : Macs \cup {NoMac},
                         config : Configs]]
  /\ http \in [Threads -> {"none", "200", "forwarded", "400", "error"}]
  /\ alone \in [Threads -> BOOLEAN]
  /\ raced \in BOOLEAN
  /\ wereGateways \subseteq Macs
  /\ \A t \in Threads : pc[t] \in {"prepare", "create"} =>
       req[t].mac \in Macs /\ (ctx[t].group = "ap" => ctx[t].gateway # NoMac)

\* The subscriber gets a second gateway only if two adds overlapped or a call
\* timed out: deletes, failures, provisioning and reconfiguration, at any
\* point of an add, never bring one about (InitializeSubscriberDevice decides
\* from a list that is read three calls before the record is created).
OneGatewayUnlessRaced == ~raced => Cardinality(Gateways) <= 1

\* Every record is made of a configuration that ValidateConfig accepts: a
\* gateway's keeps static addressing and carries a key of its own MAC, never
\* one it got as a mesh node of an earlier gateway, and the default one wherever
\* there is an encryption object to hold it; a mesh node's is dynamic, without
\* config-raw, and carries a key of a device that has been the gateway, never
\* one of its own or of another mesh node (BuildGatewayConfig,
\* PrepareMeshConfiguration, BuildMeshConfig).
RecordsWellFormed ==
  \A m \in Devices :
    LET c == prov[m].config IN
    /\ c.valid
    /\ prov[m].group = "olg" =>
         c.static /\ c.key.mac = m /\ (c.keyed => c.key.origin = "default")
    /\ prov[m].group = "ap" =>
         ~c.static /\ ~c.raw /\ c.key.mac \in wereGateways

\* An OK() that nobody disturbed has its effect, whatever was left before:
\* an added device is the gateway if and only if it is the only device, a mesh
\* node has the key its gateway runs, and a deleted device is gone.  (A 200
\* that an error path forwards is no OK(): the device may not have been added.)
SoloOnboarding ==
  \A t \in Threads :
    LET m == req[t].mac IN
    pc[t] = "idle" /\ http[t] = "200" /\ alone[t] =>
      IF req[t].kind = "delete" THEN m \notin Devices
      ELSE /\ m \in Devices
           /\ (prov[m].group = "olg") <=> (Devices = {m})
           /\ prov[m].group = "ap" =>
                \E g \in Gateways : prov[m].config.key = live[g].key
===========================================================================
