----------------------------- MODULE ConfigSync -----------------------------
(***************************************************************************)
(* How the user portal keeps three stores in step for one subscriber:      *)
(* the parental-control service (the rules), the gateway's configuration   *)
(* held by the controller, and the configuration of each mesh device.      *)
(*                                                                         *)
(* Request threads run POST /action?action=configure                       *)
(* (SDK_gw.cpp SetConfig) and the parental-control mutation handlers       *)
(* (HandleParentalControlMutationResult, ApplyConfigRaw) concurrently.     *)
(* The portal holds no lock and no state of its own: every downstream HTTP *)
(* call is one atomic step, and everything the thread computes between two *)
(* calls belongs to the step of the call before it.                        *)
(*                                                                         *)
(* Abstractions.  A configuration is the three sections the code writes    *)
(* (AP SSID, config-raw, IPv4 addressing) and the shape of its SSID        *)
(* entries; a rule is a name; config-raw is the set of the rules it holds. *)
(* Statuses 400 and 403 are the portal's own rejections; every failure of  *)
(* a downstream call, whatever its status, is "error".  A call that times  *)
(* out is answered 504 by OpenAPIRequests.cpp while the request itself may *)
(* still reach the service at any later time, or never.                    *)
(***************************************************************************)
EXTENDS Naturals, Sequences

CONSTANTS
  Threads,       \* request-handling threads of the REST server
  Ssids,         \* AP SSID settings (name and key)
  Macs,          \* clients; a client-access rule is named by its MAC
  GroupRules,    \* rules that come from groups and schedules
  MeshDevices,   \* the subscriber's devices other than the gateway
  NoSsid,        \* the request has no "ssid" member
  BadSsid,       \* the "ssid" member fails validation
  NoRaw,         \* the configuration has no "config-raw" section
  Jobs,          \* the requests that clients send
  InitialShapes, \* shapes the gateway's configuration may have
  MaxRequests    \* bound on the number of requests

Rules == Macs \cup GroupRules
RawSections == {NoRaw} \cup SUBSET Rules

\* What the SSID entries of a configuration look like to ApplySsidOverrides:
\* at least one AP entry, mesh entries only, none at all, or an AP entry
\* without an encryption object.
Shapes == {"ap", "meshOnly", "noSsids", "noKey"}

Configs == [shape : Shapes, ssid : Ssids, raw : RawSections,
            ipv4 : {"static", "dynamic"}]

ClientEntries == [mac : Macs, access : {"deny", "allow"}, valid : BOOLEAN]

Configures == [kind : {"configure"}, ssid : Ssids \cup {NoSsid, BadSsid},
               hasClient : BOOLEAN, client : Seq(ClientEntries)]

\* A parental-control mutation handler, by what it passes to the helpers they
\* share: the SDK call's idea of success ("create" wants a JSON object back,
\* "deleteRaw" one with config-raw, "deleteAny" nothing unparsable), whether
\* the owner must be known beforehand, whether config-raw is required, and
\* whether the answer's times are converted for the client.
Handler(sdk, operator, raw, normalise) ==
  [sdk |-> sdk, requireOperatorId |-> operator, configRawRequired |-> raw,
   normalise |-> normalise]

GroupDevicesPost == Handler("create", TRUE, TRUE, FALSE)
GroupDevicesV2Post == Handler("create", TRUE, TRUE, FALSE)
GroupDevicesDelete == Handler("deleteRaw", TRUE, TRUE, FALSE)
GroupSchedulesPost == Handler("create", TRUE, TRUE, FALSE)
GroupSchedulesPut == Handler("create", TRUE, TRUE, FALSE)
GroupSchedulesDelete == Handler("deleteRaw", TRUE, TRUE, FALSE)
GroupsDelete == Handler("deleteAny", FALSE, FALSE, FALSE)
SchedulesPut == Handler("create", FALSE, FALSE, TRUE)
SchedulesDelete == Handler("deleteAny", FALSE, FALSE, FALSE)

Handlers == {GroupDevicesPost, GroupDevicesV2Post, GroupDevicesDelete,
             GroupSchedulesPost, GroupSchedulesPut, GroupSchedulesDelete,
             GroupsDelete, SchedulesPut, SchedulesDelete}

Mutations == [kind : {"mutate"}, handler : Handlers, rule : GroupRules,
              op : {"add", "del"}, valid : BOOLEAN]

ASSUME ConstantsAssumption ==
  /\ \A R \in SUBSET Rules : NoRaw # R
  /\ NoSsid \notin Ssids /\ BadSsid \notin Ssids /\ NoSsid # BadSsid
  /\ Ssids # {}
  /\ Jobs # {} /\ Jobs \subseteq Configures \cup Mutations
  /\ InitialShapes \subseteq Shapes
  /\ MaxRequests \in Nat

VARIABLES
  pcRules,      \* rules held by the parental-control service (external)
  gw,           \* the gateway's configuration in the controller (external)
  mesh,         \* each mesh device's configuration there (external)
  late,         \* calls that timed out here and may still arrive there
  hasOperator,  \* the subscriber's UserInfo has an owner
  started,      \* number of requests so far (bound)
  pc, job,      \* per thread: control point and request
  orig, cfg,    \* per thread: configuration as fetched, and as edited
  todo,         \* per thread: client entries still to be sent
  snap,         \* per thread: config-raw of the last answer, if any
  meshTodo,     \* per thread: mesh devices still to be configured
  http, done,   \* per thread: status answered; did every step succeed
  alone,        \* history: nobody else has acted since the thread started
  touched,      \* history: the request has sent a change downstream
  gwSsids,      \* history: every SSID the gateway has had
  issued        \* history: every rule set the service has held

stores == <<pcRules, gw, mesh, late>>
history == <<gwSsids, issued>>
locals == <<job, orig, cfg, todo, snap, meshTodo>>
vars == <<stores, hasOperator, started, pc, locals, http, done, alone,
          touched, history>>

-----------------------------------------------------------------------------
(* Pure steps of the code.                                                 *)

\* Body["ssid"] checks first, then the fetched configuration's SSID entries.
SsidStatus(c, s) ==
  CASE s = NoSsid -> "200"
    [] s = BadSsid -> "400"
    [] s \in Ssids /\ c.shape \in {"noSsids", "noKey"} -> "error"
    [] OTHER -> "200"

\* Mutant: writes whatever the body holds, validated or not.
ApplySsidOverridesUnchecked(c, s) ==
  IF c.shape = "ap" THEN [c EXCEPT !.ssid = s] ELSE c

\* Every AP entry gets the new name and key; mesh entries are skipped.
ApplySsidOverrides(c, s) ==
  IF s \in Ssids /\ c.shape = "ap" THEN [c EXCEPT !.ssid = s] ELSE c

\* Pass 1 of ApplyClientAccessChanges: local validation of every entry.
ClientStatus(j) ==
  IF /\ j.hasClient
     /\ \/ j.client = <<>>
        \/ \E i \in DOMAIN j.client : ~j.client[i].valid
  THEN "400" ELSE "200"

\* Mutant: merges the snapshot into the fetched section.
SetRawSectionMerging(c, s) ==
  [c EXCEPT !.raw = IF s = {} \/ s = NoRaw THEN NoRaw
                    ELSE s \cup (IF @ = NoRaw THEN {} ELSE @)]

\* Both writers replace the config-raw section as a whole.
ReplaceRaw(c, s) == [c EXCEPT !.raw = s]

\* The end of ApplyClientAccessChanges: an absent, null, malformed or empty
\* snapshot removes the section.
SetRawSection(c, s) == ReplaceRaw(c, IF s = {} THEN NoRaw ELSE s)

\* Mutant: forgets to strip config-raw.
BuildMeshConfigKeepingRaw(c) == [c EXCEPT !.ipv4 = "dynamic"]

\* ConfigMaker::BuildMeshConfig works on a copy of the gateway's configuration.
BuildMeshConfig(c) == [c EXCEPT !.raw = NoRaw, !.ipv4 = "dynamic"]

\* The parental-control service adds or removes one rule (external).
PcChange(rules, op, r) == IF op = "add" THEN rules \cup {r} ELSE rules \ {r}

\* What a 200 answer of the service can look like: a well-formed config-raw,
\* a null one, none, a malformed one, a body that is not JSON, or no body.
Answers == {"raw", "null", "missing", "malformed", "unparsable", "empty"}

\* When the SDK call counts a 200 answer as success.
SdkSuccess(call, a) ==
  CASE call = "create" -> a \notin {"unparsable", "empty"}
    [] call = "deleteRaw" -> a \in {"raw", "null", "malformed"}
    [] call = "deleteAny" -> a # "unparsable"

\* ExtractConfigRawSnapshot fails: an invalid payload is answered 500.
InvalidPayload(h, a) ==
  \/ a = "malformed"
  \/ h.configRawRequired /\ a \in {"missing", "unparsable", "empty"}

-----------------------------------------------------------------------------
(* Steps of a thread.                                                      *)

\* Every step of t ends the solitude of the other threads.
Acts(t) == alone' = [u \in Threads |-> u = t /\ alone[t]]

\* Thread t moves on to its next call.
Goto(t, label) ==
  /\ pc' = [pc EXCEPT ![t] = label]
  /\ UNCHANGED <<http, done>>

\* Thread t answers the client; ok tells whether every step succeeded.
Answer(t, status, ok) ==
  /\ pc' = [pc EXCEPT ![t] = "idle"]
  /\ http' = [http EXCEPT ![t] = status]
  /\ done' = [done EXCEPT ![t] = ok]

Sends(t) == touched' = [touched EXCEPT ![t] = TRUE]

\* Mutant: reports a configuration without changes as a bad request.
PushIfChangedRejecting(t, old, new) ==
  IF new = old THEN Answer(t, "400", FALSE) ELSE Goto(t, "configure")

\* SetConfig pushes the edited configuration only if it differs from the
\* fetched one.
PushIfChanged(t, old, new) ==
  IF new = old THEN Answer(t, "200", TRUE) ELSE Goto(t, "configure")

\* A client's request reaches thread t.  A configure request starts with the
\* device lookup; a mutation handler first checks its preconditions and
\* validates path and body.
Submit(t, j) ==
  /\ pc[t] = "idle"
  /\ started < MaxRequests
  /\ started' = started + 1
  /\ job' = [job EXCEPT ![t] = j]
  /\ snap' = [snap EXCEPT ![t] = NoRaw]
  /\ alone' = [u \in Threads |-> u = t /\ \A v \in Threads : pc[v] = "idle"]
  /\ touched' = [touched EXCEPT ![t] = FALSE]
  /\ LET refused == /\ j.kind = "mutate"
                    /\ j.handler.requireOperatorId
                    /\ ~hasOperator
         invalid == j.kind = "mutate" /\ ~j.valid
     IN  /\ pc' = [pc EXCEPT ![t] =
                     IF refused \/ invalid THEN "idle"
                     ELSE IF j.kind = "configure" THEN "lookup" ELSE "mutate"]
         /\ http' = [http EXCEPT ![t] = IF refused THEN "403"
                                       ELSE IF invalid THEN "400" ELSE "none"]
         /\ done' = [done EXCEPT ![t] = FALSE]
  /\ UNCHANGED <<stores, hasOperator, orig, cfg, todo, meshTodo, history>>

\* FetchSubscriberDevices and FindGatewaySerial of the action handler.
LookupDevices(t) ==
  /\ pc[t] = "lookup"
  /\ Acts(t)
  /\ \/ Goto(t, "get")
     \/ \E status \in {"400", "error"} : Answer(t, status, FALSE)
  /\ UNCHANGED <<stores, hasOperator, started, locals, touched, history>>

\* Mutant: compares with the edited copy and so sees no change of the rules.
FetchConfigAliased(t) ==
  LET j == job[t]
      c == ApplySsidOverrides(gw, j.ssid)
  IN  /\ pc[t] = "get"
      /\ Acts(t)
      /\ orig' = [orig EXCEPT ![t] = gw]
      /\ cfg' = [cfg EXCEPT ![t] = c]
      /\ todo' = [todo EXCEPT ![t] = j.client]
      /\ CASE SsidStatus(gw, j.ssid) # "200" ->
                Answer(t, SsidStatus(gw, j.ssid), FALSE)
           [] SsidStatus(gw, j.ssid) = "200" /\ ClientStatus(j) # "200" ->
                Answer(t, ClientStatus(j), FALSE)
           [] OTHER ->
                IF j.hasClient THEN Goto(t, "client")
                               ELSE PushIfChanged(t, c, c)
      /\ UNCHANGED <<stores, hasOperator, started, job, snap, meshTodo,
                     touched, history>>

\* SetConfig fetches the gateway's configuration, then edits its own copy
\* and validates the client entries before anything is sent.
FetchConfig(t) ==
  LET j == job[t]
      c == ApplySsidOverrides(gw, j.ssid)
  IN  /\ pc[t] = "get"
      /\ Acts(t)
      /\ orig' = [orig EXCEPT ![t] = gw]
      /\ cfg' = [cfg EXCEPT ![t] = c]
      /\ todo' = [todo EXCEPT ![t] = j.client]
      /\ CASE SsidStatus(gw, j.ssid) # "200" ->
                Answer(t, SsidStatus(gw, j.ssid), FALSE)
           [] SsidStatus(gw, j.ssid) = "200" /\ ClientStatus(j) # "200" ->
                Answer(t, ClientStatus(j), FALSE)
           [] OTHER ->
                IF j.hasClient THEN Goto(t, "client")
                               ELSE PushIfChanged(t, gw, c)
      /\ UNCHANGED <<stores, hasOperator, started, job, snap, meshTodo,
                     touched, history>>

\* GetConfig fails: the controller's status is forwarded, and that status is
\* 200 when the answer merely lacks "configuration"; a configuration that is
\* not an object is answered 400.
FetchConfigFails(t) ==
  /\ pc[t] = "get"
  /\ Acts(t)
  /\ \E status \in {"error", "200", "400"} : Answer(t, status, FALSE)
  /\ UNCHANGED <<stores, hasOperator, started, locals, touched, history>>

\* Pass 2 of ApplyClientAccessChanges, one entry: the service applies the
\* change and answers 200.
ClientCall(t, a) ==
  LET e == Head(todo[t])
      rules == PcChange(pcRules, IF e.access = "deny" THEN "add" ELSE "del",
                        e.mac)
      s == IF a = "raw" THEN rules ELSE NoRaw
      c == SetRawSection(cfg[t], s)
      last == Len(todo[t]) = 1
      call == IF e.access = "deny" THEN "create" ELSE "deleteRaw"
  IN  /\ pc[t] = "client"
      /\ Acts(t)
      /\ Sends(t)
      /\ pcRules' = rules
      /\ issued' = issued \cup {rules}
      /\ snap' = [snap EXCEPT ![t] = s]
      /\ IF ~SdkSuccess(call, a)
         THEN /\ Answer(t, "200", FALSE)
              /\ UNCHANGED <<todo, cfg>>
         ELSE IF last
         THEN /\ PushIfChanged(t, orig[t], c)
              /\ cfg' = [cfg EXCEPT ![t] = c]
              /\ UNCHANGED todo
         ELSE /\ Goto(t, "client")
              /\ todo' = [todo EXCEPT ![t] = Tail(todo[t])]
              /\ UNCHANGED cfg
      /\ UNCHANGED <<gw, mesh, late, hasOperator, started, job, orig, meshTodo,
                     gwSsids>>

\* The service refuses the entry, or the call times out: SetConfig stops.
ClientCallFails(t) ==
  LET e == Head(todo[t])
      call == [to |-> "pc", op |-> IF e.access = "deny" THEN "add" ELSE "del",
               rule |-> e.mac]
  IN  /\ pc[t] = "client"
      /\ Acts(t)
      /\ Sends(t)
      /\ late' \in {late, late \cup {call}}
      /\ Answer(t, "error", FALSE)
      /\ UNCHANGED <<pcRules, gw, mesh, hasOperator, started, locals, history>>

\* The controller accepts the gateway's new configuration.  Only an SSID
\* change with more than one device goes on to the mesh devices.
ConfigureGateway(t) ==
  /\ pc[t] = "configure"
  /\ Acts(t)
  /\ Sends(t)
  /\ gw' = cfg[t]
  /\ gwSsids' = gwSsids \cup {cfg[t].ssid}
  /\ meshTodo' = [meshTodo EXCEPT ![t] = MeshDevices]
  /\ IF job[t].ssid = NoSsid \/ MeshDevices = {}
     THEN Answer(t, "200", TRUE)
     ELSE Goto(t, "mesh")
  /\ UNCHANGED <<pcRules, mesh, late, hasOperator, started, job, orig, cfg,
                 todo, snap, issued>>

\* Mutant: after the last device the request starts over with the gateway.
ConfigureMeshRestarting(t, d) ==
  /\ pc[t] = "mesh"
  /\ d \in meshTodo[t]
  /\ Acts(t)
  /\ Sends(t)
  /\ mesh' = [mesh EXCEPT ![d] = BuildMeshConfig(cfg[t])]
  /\ meshTodo' = [meshTodo EXCEPT ![t] = @ \ {d}]
  /\ Goto(t, IF meshTodo[t] = {d} THEN "configure" ELSE "mesh")
  /\ UNCHANGED <<pcRules, gw, late, hasOperator, started, job, orig, cfg, todo,
                 snap, history>>

\* The mesh devices are configured one after the other, in list order.
ConfigureMesh(t, d) ==
  /\ pc[t] = "mesh"
  /\ d \in meshTodo[t]
  /\ Acts(t)
  /\ Sends(t)
  /\ mesh' = [mesh EXCEPT ![d] = BuildMeshConfig(cfg[t])]
  /\ meshTodo' = [meshTodo EXCEPT ![t] = @ \ {d}]
  /\ IF meshTodo[t] = {d} THEN Answer(t, "200", TRUE) ELSE Goto(t, "mesh")
  /\ UNCHANGED <<pcRules, gw, late, hasOperator, started, job, orig, cfg, todo,
                 snap, history>>

\* Mutant: a gateway that could not be configured does not stop the mesh.
ConfigureFailsContinuing(t) ==
  /\ pc[t] \in {"configure", "mesh", "rawConfigure"}
  /\ Acts(t)
  /\ Sends(t)
  /\ meshTodo' = [meshTodo EXCEPT ![t] = MeshDevices]
  /\ IF pc[t] = "configure" THEN Goto(t, "mesh") ELSE Answer(t, "error", FALSE)
  /\ UNCHANGED <<stores, hasOperator, started, job, orig, cfg, todo, snap,
                 history>>

\* The controller refuses a configuration, or the call times out.
ConfigureFails(t) ==
  LET calls == CASE pc[t] \in {"configure", "rawConfigure"} ->
                      {[to |-> "gw", cfg |-> cfg[t]]}
                 [] OTHER ->
                      {[to |-> "mesh", dev |-> d, cfg |-> BuildMeshConfig(cfg[t])] :
                         d \in meshTodo[t]}
  IN  /\ pc[t] \in {"configure", "mesh", "rawConfigure"}
      /\ Acts(t)
      /\ Sends(t)
      /\ late' \in {late} \cup {late \cup {call} : call \in calls}
      /\ Answer(t, "error", FALSE)
      /\ UNCHANGED <<pcRules, gw, mesh, hasOperator, started, locals, history>>

\* A mutation handler's last step.  The schedule handler converts the times
\* of the answer to local time, and answers 500 if that fails.
Finish(t) ==
  \/ Answer(t, "200", TRUE)
  \/ job[t].handler.normalise /\ Answer(t, "error", TRUE)

\* A mutation handler's call: the service applies the change, answers 200,
\* and the handler decides whether the gateway must follow.
Mutate(t, a) ==
  LET j == job[t]
      rules == PcChange(pcRules, j.op, j.rule)
  IN  /\ pc[t] = "mutate"
      /\ Acts(t)
      /\ Sends(t)
      /\ pcRules' = rules
      /\ issued' = issued \cup {rules}
      /\ snap' = [snap EXCEPT ![t] = IF a = "raw" THEN rules ELSE NoRaw]
      /\ CASE ~SdkSuccess(j.handler.sdk, a) -> Answer(t, "200", FALSE)
           [] SdkSuccess(j.handler.sdk, a) /\ InvalidPayload(j.handler, a) ->
                Answer(t, "error", FALSE)
           [] SdkSuccess(j.handler.sdk, a) /\ a = "raw" ->
                IF hasOperator THEN Goto(t, "rawLookup")
                               ELSE Answer(t, "403", FALSE)
           [] OTHER -> Finish(t)
      /\ UNCHANGED <<gw, mesh, late, hasOperator, started, job, orig, cfg, todo,
                     meshTodo, gwSsids>>

\* The service refuses the change, or the call times out.
MutateFails(t) ==
  LET call == [to |-> "pc", op |-> job[t].op, rule |-> job[t].rule]
  IN  /\ pc[t] = "mutate"
      /\ Acts(t)
      /\ Sends(t)
      /\ late' \in {late, late \cup {call}}
      /\ Answer(t, "error", FALSE)
      /\ UNCHANGED <<pcRules, gw, mesh, hasOperator, started, locals, history>>

\* ApplyConfigRaw resolves the gateway's serial number ...
RawLookup(t) ==
  /\ pc[t] = "rawLookup"
  /\ Acts(t)
  /\ \/ Goto(t, "rawGet")
     \/ Answer(t, "error", FALSE)
  /\ UNCHANGED <<stores, hasOperator, started, locals, touched, history>>

\* Mutant: keeps rules that the gateway still has.
RawFetchMerging(t) ==
  /\ pc[t] = "rawGet"
  /\ Acts(t)
  /\ cfg' = [cfg EXCEPT ![t] = [gw EXCEPT !.raw =
                                   IF @ = NoRaw THEN snap[t] ELSE @ \cup snap[t]]]
  /\ orig' = [orig EXCEPT ![t] = gw]
  /\ Goto(t, "rawConfigure")
  /\ UNCHANGED <<stores, hasOperator, started, job, todo, snap, meshTodo,
                 touched, history>>

\* ... fetches its configuration and replaces the whole config-raw section ...
RawFetch(t) ==
  /\ pc[t] = "rawGet"
  /\ Acts(t)
  /\ \/ /\ cfg' = [cfg EXCEPT ![t] = ReplaceRaw(gw, snap[t])]
        /\ orig' = [orig EXCEPT ![t] = gw]
        /\ Goto(t, "rawConfigure")
     \/ /\ Answer(t, "error", FALSE)
        /\ UNCHANGED <<cfg, orig>>
  /\ UNCHANGED <<stores, hasOperator, started, job, todo, snap, meshTodo,
                 touched, history>>

\* ... and sends it back.
RawConfigure(t) ==
  /\ pc[t] = "rawConfigure"
  /\ Acts(t)
  /\ Sends(t)
  /\ gw' = cfg[t]
  /\ gwSsids' = gwSsids \cup {cfg[t].ssid}
  /\ Finish(t)
  /\ UNCHANGED <<pcRules, mesh, late, hasOperator, started, locals, issued>>

\* A call that timed out here reaches its service after all.
LateArrival(call) ==
  /\ call \in late
  /\ late' = late \ {call}
  /\ alone' = [u \in Threads |-> FALSE]
  /\ pcRules' = IF call.to = "pc" THEN PcChange(pcRules, call.op, call.rule)
                                  ELSE pcRules
  /\ gw' = IF call.to = "gw" THEN call.cfg ELSE gw
  /\ mesh' = IF call.to = "mesh" THEN [mesh EXCEPT ![call.dev] = call.cfg]
                                 ELSE mesh
  /\ gwSsids' = gwSsids \cup {gw'.ssid}
  /\ issued' = issued \cup {pcRules'}
  /\ UNCHANGED <<hasOperator, started, pc, locals, http, done, touched>>

-----------------------------------------------------------------------------
Init ==
  \E shape \in InitialShapes, s \in Ssids :
    LET c == [shape |-> shape, ssid |-> s, raw |-> NoRaw, ipv4 |-> "static"]
    IN  /\ pcRules = {}
        /\ gw = c
        /\ mesh = [d \in MeshDevices |-> BuildMeshConfig(c)]
        /\ late = {}
        /\ hasOperator \in BOOLEAN
        /\ started = 0
        /\ pc = [t \in Threads |-> "idle"]
        /\ job = [t \in Threads |-> CHOOSE j \in Jobs : TRUE]
        /\ orig = [t \in Threads |-> c]
        /\ cfg = [t \in Threads |-> c]
        /\ todo = [t \in Threads |-> <<>>]
        /\ snap = [t \in Threads |-> NoRaw]
        /\ meshTodo = [t \in Threads |-> {}]
        /\ http = [t \in Threads |-> "none"]
        /\ done = [t \in Threads |-> FALSE]
        /\ alone = [t \in Threads |-> FALSE]
        /\ touched = [t \in Threads |-> FALSE]
        /\ gwSsids = {s}
        /\ issued = {{}}

ThreadStep(t) ==
  \/ LookupDevices(t)
  \/ FetchConfig(t)
  \/ FetchConfigFails(t)
  \/ \E a \in Answers : ClientCall(t, a)
  \/ ClientCallFails(t)
  \/ ConfigureGateway(t)
  \/ \E d \in MeshDevices : ConfigureMesh(t, d)
  \/ ConfigureFails(t)
  \/ \E a \in Answers : Mutate(t, a)
  \/ MutateFails(t)
  \/ RawLookup(t)
  \/ RawFetch(t)
  \/ RawConfigure(t)

Next ==
  \/ \E t \in Threads, j \in Jobs : Submit(t, j)
  \/ \E t \in Threads : ThreadStep(t)
  \/ \E call \in late : LateArrival(call)

\* Every downstream call ends, with an answer or at its timeout, so a thread
\* with a request keeps moving.  Clients and late calls owe nobody a step.
Fairness == \A t \in Threads : WF_vars(ThreadStep(t))

Spec == Init /\ [][Next]_vars /\ Fairness

-----------------------------------------------------------------------------
(* Properties.                                                             *)

Labels == {"idle", "lookup", "get", "client", "configure", "mesh", "mutate",
           "rawLookup", "rawGet", "rawConfigure"}

LateCalls == [to : {"pc"}, op : {"add", "del"}, rule : Rules]
               \cup [to : {"gw"}, cfg : Configs]
               \cup [to : {"mesh"}, dev : MeshDevices, cfg : Configs]

\* Type correctness of every store and of every thread's working state
\* (SetConfig's and ApplyConfigRaw's locals).
TypeOK ==
  /\ pcRules \in SUBSET Rules
  /\ gw \in Configs
  /\ mesh \in [MeshDevices -> Configs]
  /\ late \subseteq LateCalls
  /\ hasOperator \in BOOLEAN
  /\ started \in 0 .. MaxRequests
  /\ pc \in [Threads -> Labels]
  /\ job \in [Threads -> Jobs]
  /\ orig \in [Threads -> Configs]
  /\ cfg \in [Threads -> Configs]
  /\ todo \in [Threads -> Seq(ClientEntries)]
  /\ snap \in [Threads -> RawSections]
  /\ meshTodo \in [Threads -> SUBSET MeshDevices]
  /\ http \in [Threads -> {"none", "200", "400", "403", "error"}]
  /\ done \in [Threads -> BOOLEAN]
  /\ alone \in [Threads -> BOOLEAN]
  /\ touched \in [Threads -> BOOLEAN]
  /\ gwSsids \subseteq Ssids
  /\ issued \subseteq SUBSET Rules

\* Parental-control rules stay on the gateway and mesh addressing stays off it:
\* no interleaving of requests, failures and late calls gives a mesh device a
\* config-raw section or the gateway the dynamic addressing that
\* BuildMeshConfig writes for mesh devices.
GatewayOnlySections ==
  /\ gw.ipv4 = "static"
  /\ \A d \in MeshDevices : mesh[d].raw = NoRaw

\* A mesh device never runs an SSID that the gateway has not had: SetConfig
\* configures the mesh only after the controller accepted the same SSID for
\* the gateway, and stops when it did not.
MeshSsidFromGateway == \A d \in MeshDevices : mesh[d].ssid \in gwSsids

\* The gateway's config-raw is always one complete rule set that the
\* parental-control service really held at some time, never a mixture: both
\* SetConfig and ApplyConfigRaw replace the section as a whole.
RawFromService == gw.raw # NoRaw => gw.raw \in issued

\* A request that the portal itself rejects with 400 has changed nothing
\* downstream: SSID validation and pass 1 of ApplyClientAccessChanges come
\* before the first call that changes anything.
RejectedUntouched == \A t \in Threads : http[t] = "400" => ~touched[t]

ActiveRules(c) == IF c.raw = NoRaw THEN {} ELSE c.raw

Succeeded(t) == pc[t] = "idle" /\ http[t] = "200" /\ done[t]

\* Recovery of the rules: whatever earlier failures, lost updates and late
\* calls left behind, a successful request that obtained a config-raw snapshot
\* and met no other activity leaves the gateway enforcing exactly the
\* service's rules.
SoloSyncsRules ==
  \A t \in Threads :
    Succeeded(t) /\ alone[t] /\ snap[t] # NoRaw => ActiveRules(gw) = pcRules

ChangesSsid(t) == job[t].kind = "configure" /\ job[t].ssid \in Ssids

\* Likewise for an SSID change on a gateway with AP entries: it is on the
\* gateway, and if SetConfig had anything to push then every mesh device runs
\* the mesh form of the gateway's configuration.
SoloSyncsSsid ==
  \A t \in Threads :
    Succeeded(t) /\ alone[t] /\ ChangesSsid(t) /\ gw.shape = "ap" =>
      /\ gw.ssid = job[t].ssid
      /\ cfg[t] # orig[t] => \A d \in MeshDevices : mesh[d] = BuildMeshConfig(gw)

\* What the API promises of action=configure: a 200 answer means the action
\* was carried out, so SetConfig has returned true.
OkMeansCompleted ==
  \A t \in Threads :
    pc[t] = "idle" /\ job[t].kind = "configure" /\ http[t] = "200" => done[t]

\* Step 6 of SetConfig as its comment states it: an SSID change that succeeds
\* leaves the mesh devices with the gateway's SSID.
SsidOkReachesMesh ==
  \A t \in Threads :
    Succeeded(t) /\ alone[t] /\ ChangesSsid(t) /\ gw.shape = "ap" =>
      \A d \in MeshDevices : mesh[d].ssid = gw.ssid

\* Client access as ApplyClientAccessChanges reports it: the section is cleared
\* when no rules remain, so a success leaves the gateway with the service's
\* rules.
ClientOkKeepsRules ==
  \A t \in Threads :
    Succeeded(t) /\ alone[t] /\ job[t].kind = "configure" /\ job[t].hasClient =>
      ActiveRules(gw) = pcRules

\* Every request is answered: no sequence of downstream answers, errors and
\* timeouts keeps a handler going for ever.
EveryRequestAnswered == \A t \in Threads : pc[t] # "idle" ~> pc[t] = "idle"
=============================================================================
