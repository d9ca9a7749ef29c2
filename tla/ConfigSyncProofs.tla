-------------------------- MODULE ConfigSyncProofs --------------------------
(***************************************************************************)
(* Proofs about ConfigSync, for any sets of threads, SSIDs, clients,       *)
(* rules, mesh devices and requests.                                       *)
(***************************************************************************)
EXTENDS ConfigSync, SequenceTheorems, TLAPS

\* Editing a configuration gives a configuration.
LEMMA ConfigOperators ==
  ASSUME NEW c \in Configs
  PROVE  /\ \A s : ApplySsidOverrides(c, s) \in Configs
         /\ \A r \in RawSections : SetRawSection(c, r) \in Configs
         /\ \A r \in RawSections : ReplaceRaw(c, r) \in Configs
         /\ BuildMeshConfig(c) \in Configs
  BY ConstantsAssumption DEF ApplySsidOverrides, SetRawSection,
     ReplaceRaw, BuildMeshConfig, Configs, RawSections

\* The service's change of one rule gives a rule set.
LEMMA RuleOperators ==
  ASSUME NEW rules \in SUBSET Rules, NEW op, NEW r \in Rules
  PROVE  PcChange(rules, op, r) \in SUBSET Rules
  BY DEF PcChange

\* The statuses that the local checks can give.
LEMMA Statuses ==
  /\ \A c, s : SsidStatus(c, s) \in {"200", "400", "error"}
  /\ \A j : ClientStatus(j) \in {"200", "400"}
  BY DEF SsidStatus, ClientStatus

\* A configure request's parts, and a mutation's.
LEMMA JobParts ==
  ASSUME NEW j \in Jobs
  PROVE  /\ j.kind = "configure" => j \in Configures
         /\ j.kind # "configure" => j \in Mutations
  BY ConstantsAssumption DEF Configures, Mutations

\* Removing the head of a list of two or more leaves something.
LEMMA TailNotEmpty ==
  ASSUME NEW S, NEW q \in Seq(S), q # <<>>, Len(q) # 1
  PROVE  Tail(q) # <<>>
<1>1. Len(Tail(q)) = Len(q) - 1 /\ Len(q) \in Nat /\ Len(q) # 0
  BY HeadTailProperties, EmptySeq
<1>2. Len(Tail(q)) # 0
  BY <1>1
<1>3. QED
  BY <1>2, EmptySeq

\* The next control point and the answer of a step are well typed.
LEMMA GotoType ==
  ASSUME NEW t \in Threads, NEW label \in Labels, Goto(t, label),
         pc \in [Threads -> Labels],
         http \in [Threads -> {"none", "200", "400", "403", "error"}],
         done \in [Threads -> BOOLEAN]
  PROVE  /\ pc' \in [Threads -> Labels]
         /\ http' \in [Threads -> {"none", "200", "400", "403", "error"}]
         /\ done' \in [Threads -> BOOLEAN]
  BY DEF Goto

LEMMA AnswerType ==
  ASSUME NEW t \in Threads,
         NEW status \in {"200", "400", "403", "error"}, NEW ok \in BOOLEAN,
         Answer(t, status, ok),
         pc \in [Threads -> Labels],
         http \in [Threads -> {"none", "200", "400", "403", "error"}],
         done \in [Threads -> BOOLEAN]
  PROVE  /\ pc' \in [Threads -> Labels]
         /\ http' \in [Threads -> {"none", "200", "400", "403", "error"}]
         /\ done' \in [Threads -> BOOLEAN]
  BY DEF Answer, Labels
-----------------------------------------------------------------------------
(* Type correctness.                                                       *)

ConfigureLabels == {"lookup", "get", "client", "configure", "mesh"}
MutateLabels == {"mutate", "rawLookup", "rawGet", "rawConfigure"}

\* TypeOK is not inductive: a thread reads the parts of its request that
\* belong to the request's kind, and the head of a list it must know not to be
\* empty.  The control point determines both.
ControlInv ==
  \A t \in Threads :
    /\ pc[t] \in ConfigureLabels => job[t].kind = "configure"
    /\ pc[t] \in MutateLabels => job[t].kind = "mutate"
    /\ pc[t] = "client" => todo[t] # <<>>

TypeInv == TypeOK /\ ControlInv

LEMMA InitTypeInv == Init => TypeInv
<1> SUFFICES ASSUME Init PROVE TypeInv
  OBVIOUS
<1>1. PICK shape \in InitialShapes, s \in Ssids :
        LET c == [shape |-> shape, ssid |-> s, raw |-> NoRaw, ipv4 |-> "static"]
        IN  /\ gw = c
            /\ mesh = [d \in MeshDevices |-> BuildMeshConfig(c)]
            /\ orig = [t \in Threads |-> c]
            /\ cfg = [t \in Threads |-> c]
            /\ gwSsids = {s}
  BY DEF Init
<1>2. /\ gw \in Configs
      /\ mesh \in [MeshDevices -> Configs]
      /\ orig \in [Threads -> Configs]
      /\ cfg \in [Threads -> Configs]
      /\ gwSsids \subseteq Ssids
  BY <1>1, ConstantsAssumption DEF Configs, RawSections, BuildMeshConfig
<1>3. job \in [Threads -> Jobs]
  BY ConstantsAssumption DEF Init
<1>4. TypeOK
  BY <1>2, <1>3, ConstantsAssumption DEF Init, TypeOK, Labels, RawSections
<1>5. QED
  BY <1>4 DEF TypeInv, ControlInv, Init, ConfigureLabels, MutateLabels

\* Every step keeps TypeOK.
LEMMA TypeStep == TypeInv /\ [Next]_vars => TypeOK'
<1> SUFFICES ASSUME TypeOK, ControlInv, [Next]_vars PROVE TypeOK'
  BY DEF TypeInv
<1> USE DEF stores, history, locals
<1>1. ASSUME NEW t \in Threads, NEW j \in Jobs, Submit(t, j) PROVE TypeOK'
  BY <1>1, ConstantsAssumption DEF TypeOK, Submit, Labels, RawSections
<1>2. ASSUME NEW t \in Threads, LookupDevices(t) PROVE TypeOK'
  BY <1>2 DEF TypeOK, LookupDevices, Acts, Goto, Answer, Labels
<1>3. ASSUME NEW t \in Threads, FetchConfig(t) PROVE TypeOK'
  <2>1. job[t] \in Jobs /\ gw \in Configs
    BY <1>3 DEF TypeOK
  <2>2. gw \in Configs /\ ApplySsidOverrides(gw, job[t].ssid) \in Configs
    BY <2>1, ConfigOperators
  <2>3. pc' \in [Threads -> Labels]
        /\ http' \in [Threads -> {"none", "200", "400", "403", "error"}]
        /\ done' \in [Threads -> BOOLEAN]
    <3>1. \/ \E label \in Labels : Goto(t, label)
          \/ \E status \in {"200", "400", "403", "error"}, ok \in BOOLEAN :
               Answer(t, status, ok)
      BY <1>3, Statuses DEF FetchConfig, PushIfChanged, Labels
    <3>2. QED
      BY <3>1, GotoType, AnswerType DEF TypeOK
  <2>4. job[t].client \in Seq(ClientEntries)
    <3>1. job[t].kind = "configure"
      BY <1>3 DEF FetchConfig, ControlInv, ConfigureLabels
    <3>2. QED
      BY <2>1, <3>1, JobParts DEF Configures
  <2>5. QED
    BY <1>3, <2>2, <2>3, <2>4 DEF TypeOK, FetchConfig, Acts
<1>4. ASSUME NEW t \in Threads, FetchConfigFails(t) PROVE TypeOK'
  BY <1>4 DEF TypeOK, FetchConfigFails, Acts, Answer, Labels
<1>5. ASSUME NEW t \in Threads, NEW a \in Answers, ClientCall(t, a) PROVE TypeOK'
  <2> DEFINE e == Head(todo[t])
             rules == PcChange(pcRules, IF e.access = "deny" THEN "add" ELSE "del",
                               e.mac)
             s == IF a = "raw" THEN rules ELSE NoRaw
  <2>1. todo[t] \in Seq(ClientEntries) /\ todo[t] # <<>>
    BY <1>5 DEF ClientCall, TypeOK, ControlInv
  <2>2. e \in ClientEntries /\ Tail(todo[t]) \in Seq(ClientEntries)
    BY <2>1
  <2>3. e.mac \in Rules
    BY <2>2 DEF ClientEntries, Rules
  <2>4. rules \in SUBSET Rules /\ s \in RawSections
    BY <2>3, RuleOperators DEF TypeOK, RawSections
  <2>5. SetRawSection(cfg[t], s) \in Configs
    BY <2>4, ConfigOperators DEF TypeOK
  <2>6. \/ \E label \in Labels : Goto(t, label)
        \/ \E status \in {"200", "400", "403", "error"}, ok \in BOOLEAN :
             Answer(t, status, ok)
    BY <1>5 DEF ClientCall, PushIfChanged, Labels
  <2>7. /\ pc' \in [Threads -> Labels]
        /\ http' \in [Threads -> {"none", "200", "400", "403", "error"}]
        /\ done' \in [Threads -> BOOLEAN]
    BY <2>6, GotoType, AnswerType DEF TypeOK
  <2>8. /\ pcRules' = rules
        /\ issued' = issued \cup {rules}
        /\ snap' = [snap EXCEPT ![t] = s]
        /\ \/ cfg' = [cfg EXCEPT ![t] = SetRawSection(cfg[t], s)]
           \/ cfg' = cfg
        /\ \/ todo' = [todo EXCEPT ![t] = Tail(todo[t])]
           \/ todo' = todo
        /\ Acts(t)
        /\ Sends(t)
        /\ UNCHANGED <<gw, mesh, late, hasOperator, started, job, orig,
                       meshTodo, gwSsids>>
    BY <1>5 DEF ClientCall
  <2> HIDE DEF e, rules, s
  <2>9. QED
    BY <2>2, <2>4, <2>5, <2>7, <2>8 DEF TypeOK, Acts, Sends
<1>6. ASSUME NEW t \in Threads, ClientCallFails(t) PROVE TypeOK'
  <2> DEFINE e == Head(todo[t])
             call == [to |-> "pc",
                      op |-> IF e.access = "deny" THEN "add" ELSE "del",
                      rule |-> e.mac]
  <2>1. todo[t] \in Seq(ClientEntries) /\ todo[t] # <<>>
    BY <1>6 DEF ClientCallFails, TypeOK, ControlInv
  <2>2. e \in ClientEntries
    BY <2>1
  <2>3. call \in LateCalls
    BY <2>2 DEF ClientEntries, Rules, LateCalls
  <2>4. late' \subseteq LateCalls
    BY <1>6, <2>3 DEF ClientCallFails, TypeOK
  <2>5. QED
    BY <1>6, <2>4 DEF TypeOK, ClientCallFails, Acts, Sends, Answer, Labels
<1>7. ASSUME NEW t \in Threads, ConfigureGateway(t) PROVE TypeOK'
  <2>1. cfg[t] \in Configs /\ cfg[t].ssid \in Ssids
    BY DEF TypeOK, Configs
  <2>2. \/ Goto(t, "mesh")
        \/ Answer(t, "200", TRUE)
    BY <1>7 DEF ConfigureGateway
  <2>3. /\ pc' \in [Threads -> Labels]
        /\ http' \in [Threads -> {"none", "200", "400", "403", "error"}]
        /\ done' \in [Threads -> BOOLEAN]
    BY <2>2, GotoType, AnswerType DEF TypeOK, Labels
  <2>4. QED
    BY <1>7, <2>1, <2>3 DEF TypeOK, ConfigureGateway, Acts, Sends
<1>8. ASSUME NEW t \in Threads, NEW d \in MeshDevices, ConfigureMesh(t, d)
      PROVE  TypeOK'
  BY <1>8, ConfigOperators DEF TypeOK, ConfigureMesh, Acts, Sends, Goto, Answer, Labels
<1>9. ASSUME NEW t \in Threads, ConfigureFails(t) PROVE TypeOK'
  <2>1. cfg[t] \in Configs /\ BuildMeshConfig(cfg[t]) \in Configs
    BY ConfigOperators DEF TypeOK
  <2>2. late' \subseteq LateCalls
    <3>1. CASE pc[t] \in {"configure", "rawConfigure"}
      <4>1. late' \in {late, late \cup {[to |-> "gw", cfg |-> cfg[t]]}}
        BY <1>9, <3>1 DEF ConfigureFails
      <4>2. [to |-> "gw", cfg |-> cfg[t]] \in LateCalls
        BY <2>1 DEF LateCalls
      <4>3. QED
        BY <4>1, <4>2 DEF TypeOK
    <3>2. CASE pc[t] \notin {"configure", "rawConfigure"}
      <4>1. \/ late' = late
            \/ \E d \in meshTodo[t] :
                 late' = late \cup {[to |-> "mesh", dev |-> d,
                                    cfg |-> BuildMeshConfig(cfg[t])]}
        BY <1>9, <3>2 DEF ConfigureFails
      <4>2. \A d \in meshTodo[t] :
              [to |-> "mesh", dev |-> d, cfg |-> BuildMeshConfig(cfg[t])]
                \in LateCalls
        BY <2>1 DEF LateCalls, TypeOK
      <4>3. QED
        BY <4>1, <4>2 DEF TypeOK
    <3>3. QED
      BY <3>1, <3>2
  <2>3. QED
    BY <1>9, <2>2 DEF TypeOK, ConfigureFails, Acts, Sends, Answer, Labels
<1>10. ASSUME NEW t \in Threads, NEW a \in Answers, Mutate(t, a) PROVE TypeOK'
  <2> DEFINE rules == PcChange(pcRules, job[t].op, job[t].rule)
  <2>1. job[t] \in Mutations
    BY <1>10, JobParts DEF Mutate, TypeOK, ControlInv, MutateLabels
  <2>2. job[t].rule \in Rules
    BY <2>1 DEF Mutations, Rules
  <2>3. rules \in SUBSET Rules
    BY <2>2, RuleOperators DEF TypeOK
  <2>4. \/ \E label \in Labels : Goto(t, label)
        \/ \E status \in {"200", "400", "403", "error"}, ok \in BOOLEAN :
             Answer(t, status, ok)
    BY <1>10 DEF Mutate, Finish, Labels
  <2>5. /\ pc' \in [Threads -> Labels]
        /\ http' \in [Threads -> {"none", "200", "400", "403", "error"}]
        /\ done' \in [Threads -> BOOLEAN]
    BY <2>4, GotoType, AnswerType DEF TypeOK
  <2>6. /\ pcRules' = rules
        /\ issued' = issued \cup {rules}
        /\ snap' = [snap EXCEPT ![t] = IF a = "raw" THEN rules ELSE NoRaw]
        /\ Acts(t)
        /\ Sends(t)
        /\ UNCHANGED <<gw, mesh, late, hasOperator, started, job, orig, cfg,
                       todo, meshTodo, gwSsids>>
    BY <1>10 DEF Mutate
  <2> HIDE DEF rules
  <2>7. QED
    BY <2>3, <2>5, <2>6 DEF TypeOK, Acts, Sends, RawSections
<1>11. ASSUME NEW t \in Threads, MutateFails(t) PROVE TypeOK'
  <2>1. job[t] \in Mutations
    BY <1>11, JobParts DEF MutateFails, TypeOK, ControlInv, MutateLabels
  <2>2. [to |-> "pc", op |-> job[t].op, rule |-> job[t].rule] \in LateCalls
    BY <2>1 DEF Mutations, Rules, LateCalls
  <2>3. late' \subseteq LateCalls
    BY <1>11, <2>2 DEF MutateFails, TypeOK
  <2>4. QED
    BY <1>11, <2>3 DEF TypeOK, MutateFails, Acts, Sends, Answer, Labels
<1>12. ASSUME NEW t \in Threads, RawLookup(t) PROVE TypeOK'
  BY <1>12 DEF TypeOK, RawLookup, Acts, Goto, Answer, Labels
<1>13. ASSUME NEW t \in Threads, RawFetch(t) PROVE TypeOK'
  <2>1. gw \in Configs /\ snap[t] \in RawSections
    BY DEF TypeOK
  <2>2. ReplaceRaw(gw, snap[t]) \in Configs
    BY <2>1, ConfigOperators
  <2>3. \/ Goto(t, "rawConfigure")
        \/ Answer(t, "error", FALSE)
    BY <1>13 DEF RawFetch
  <2>4. /\ pc' \in [Threads -> Labels]
        /\ http' \in [Threads -> {"none", "200", "400", "403", "error"}]
        /\ done' \in [Threads -> BOOLEAN]
    BY <2>3, GotoType, AnswerType DEF TypeOK, Labels
  <2>5. cfg' \in [Threads -> Configs] /\ orig' \in [Threads -> Configs]
    BY <1>13, <2>1, <2>2 DEF RawFetch, TypeOK
  <2>6. UNCHANGED <<stores, hasOperator, started, job, todo, snap, meshTodo,
                    touched, history>>
    BY <1>13 DEF RawFetch
  <2>7. alone' \in [Threads -> BOOLEAN]
    BY <1>13 DEF RawFetch, Acts, TypeOK
  <2>8. QED
    BY <2>4, <2>5, <2>6, <2>7 DEF TypeOK
<1>14. ASSUME NEW t \in Threads, RawConfigure(t) PROVE TypeOK'
  <2>1. cfg[t] \in Configs /\ cfg[t].ssid \in Ssids
    BY DEF TypeOK, Configs
  <2>2. \/ Answer(t, "200", TRUE)
        \/ Answer(t, "error", TRUE)
    BY <1>14 DEF RawConfigure, Finish
  <2>3. /\ pc' \in [Threads -> Labels]
        /\ http' \in [Threads -> {"none", "200", "400", "403", "error"}]
        /\ done' \in [Threads -> BOOLEAN]
    BY <2>2, AnswerType DEF TypeOK
  <2>4. QED
    BY <1>14, <2>1, <2>3 DEF TypeOK, RawConfigure, Acts, Sends
<1>15. ASSUME NEW call \in late, LateArrival(call) PROVE TypeOK'
  <2>1. call \in LateCalls
    BY DEF TypeOK
  <2>2. pcRules' \in SUBSET Rules
    <3>1. CASE call.to = "pc"
      <4>1. call.rule \in Rules
        BY <2>1, <3>1 DEF LateCalls
      <4>2. QED
        BY <1>15, <3>1, <4>1, RuleOperators DEF TypeOK, LateArrival
    <3>2. QED
      BY <1>15, <3>1 DEF TypeOK, LateArrival
  <2>3. gw' \in Configs
    BY <1>15, <2>1 DEF TypeOK, LateArrival, LateCalls
  <2>4. mesh' \in [MeshDevices -> Configs]
    BY <1>15, <2>1 DEF TypeOK, LateArrival, LateCalls
  <2>5. gwSsids' \subseteq Ssids
    BY <1>15, <2>3 DEF TypeOK, LateArrival, Configs
  <2>6. QED
    BY <1>15, <2>2, <2>3, <2>4, <2>5 DEF TypeOK, LateArrival
<1>16. CASE UNCHANGED vars
  BY <1>16 DEF vars, TypeOK
<1>17. QED
  BY <1>1, <1>2, <1>3, <1>4, <1>5, <1>6, <1>7, <1>8, <1>9, <1>10, <1>11,
     <1>12, <1>13, <1>14, <1>15, <1>16 DEF Next, ThreadStep

\* Every step keeps the relation of control point, request and client list.
LEMMA ControlStep == TypeInv /\ [Next]_vars => ControlInv'
<1> SUFFICES ASSUME TypeOK, ControlInv, [Next]_vars PROVE ControlInv'
  BY DEF TypeInv
<1> USE DEF stores, history, locals
<1> USE DEF ControlInv, TypeOK, ConfigureLabels, MutateLabels
<1>1. ASSUME NEW t \in Threads, NEW j \in Jobs, Submit(t, j) PROVE ControlInv'
  <2>1. j.kind \in {"configure", "mutate"}
    BY ConstantsAssumption DEF Configures, Mutations
  <2>2. QED
    BY <1>1, <2>1 DEF Submit
<1>2. ASSUME NEW t \in Threads, LookupDevices(t) PROVE ControlInv'
  BY <1>2 DEF LookupDevices, Goto, Answer
<1>3. ASSUME NEW t \in Threads, FetchConfig(t) PROVE ControlInv'
  <2>1. job[t].kind = "configure" /\ job' = job
    BY <1>3 DEF FetchConfig
  <2>2. todo' = [todo EXCEPT ![t] = job[t].client]
    BY <1>3 DEF FetchConfig
  <2>3. \/ \E status, ok : Answer(t, status, ok)
        \/ Goto(t, "configure")
        \/ Goto(t, "client") /\ job[t].client # <<>>
    BY <1>3, Statuses DEF FetchConfig, PushIfChanged, ClientStatus
  <2>4. QED
    BY <2>1, <2>2, <2>3 DEF Goto, Answer
<1>4. ASSUME NEW t \in Threads, FetchConfigFails(t) PROVE ControlInv'
  BY <1>4 DEF FetchConfigFails, Answer
<1>5. ASSUME NEW t \in Threads, NEW a \in Answers, ClientCall(t, a)
      PROVE  ControlInv'
  <2>1. pc[t] = "client" /\ job[t].kind = "configure" /\ job' = job
    BY <1>5 DEF ClientCall
  <2>2. todo[t] \in Seq(ClientEntries) /\ todo[t] # <<>>
    BY <2>1
  <2>3. \/ \E status, ok : Answer(t, status, ok) /\ todo' = todo
        \/ Goto(t, "configure") /\ todo' = todo
        \/ /\ Goto(t, "client")
           /\ Len(todo[t]) # 1
           /\ todo' = [todo EXCEPT ![t] = Tail(todo[t])]
    BY <1>5 DEF ClientCall, PushIfChanged
  <2>4. Len(todo[t]) # 1 => Tail(todo[t]) # <<>>
    BY <2>2, TailNotEmpty
  <2>5. QED
    BY <2>1, <2>3, <2>4 DEF Goto, Answer
<1>6. ASSUME NEW t \in Threads, ClientCallFails(t) PROVE ControlInv'
  BY <1>6 DEF ClientCallFails, Answer
<1>7. ASSUME NEW t \in Threads, ConfigureGateway(t) PROVE ControlInv'
  BY <1>7 DEF ConfigureGateway, Goto, Answer
<1>8. ASSUME NEW t \in Threads, NEW d \in MeshDevices, ConfigureMesh(t, d)
      PROVE  ControlInv'
  BY <1>8 DEF ConfigureMesh, Goto, Answer
<1>9. ASSUME NEW t \in Threads, ConfigureFails(t) PROVE ControlInv'
  BY <1>9 DEF ConfigureFails, Answer
<1>10. ASSUME NEW t \in Threads, NEW a \in Answers, Mutate(t, a)
       PROVE  ControlInv'
  <2>1. pc[t] = "mutate" /\ job[t].kind = "mutate" /\ job' = job /\ todo' = todo
    BY <1>10 DEF Mutate
  <2>2. \/ \E status, ok : Answer(t, status, ok)
        \/ Goto(t, "rawLookup")
    BY <1>10 DEF Mutate, Finish
  <2>3. QED
    BY <2>1, <2>2 DEF Goto, Answer
<1>11. ASSUME NEW t \in Threads, MutateFails(t) PROVE ControlInv'
  BY <1>11 DEF MutateFails, Answer
<1>12. ASSUME NEW t \in Threads, RawLookup(t) PROVE ControlInv'
  BY <1>12 DEF RawLookup, Goto, Answer
<1>13. ASSUME NEW t \in Threads, RawFetch(t) PROVE ControlInv'
  BY <1>13 DEF RawFetch, Goto, Answer
<1>14. ASSUME NEW t \in Threads, RawConfigure(t) PROVE ControlInv'
  BY <1>14 DEF RawConfigure, Finish, Answer
<1>15. ASSUME NEW call \in late, LateArrival(call) PROVE ControlInv'
  BY <1>15 DEF LateArrival
<1>16. CASE UNCHANGED vars
  BY <1>16 DEF vars
<1>17. QED
  BY <1>1, <1>2, <1>3, <1>4, <1>5, <1>6, <1>7, <1>8, <1>9, <1>10, <1>11,
     <1>12, <1>13, <1>14, <1>15, <1>16 DEF Next, ThreadStep

LEMMA TypeInvariant == Spec => []TypeInv
<1>1. TypeInv /\ [Next]_vars => TypeInv'
  BY TypeStep, ControlStep DEF TypeInv
<1>2. QED
  BY InitTypeInv, <1>1, PTL DEF Spec

\* SetConfig, ApplyConfigRaw and the mutation handlers keep every store and
\* every thread's working state well typed.
THEOREM TypeCorrect == Spec => []TypeOK
<1>1. TypeInv => TypeOK
  BY DEF TypeInv
<1>2. QED
  BY TypeInvariant, <1>1, PTL
-----------------------------------------------------------------------------
(* What the steps do to the configurations.                                *)

\* The sections that editing a configuration leaves alone, and the ones it
\* sets.
LEMMA ConfigSections ==
  ASSUME NEW c \in Configs
  PROVE  /\ \A s : ApplySsidOverrides(c, s).ipv4 = c.ipv4
         /\ \A s : ApplySsidOverrides(c, s).raw = c.raw
         /\ \A r : ReplaceRaw(c, r).ipv4 = c.ipv4
         /\ \A r : ReplaceRaw(c, r).ssid = c.ssid
         /\ \A r : ReplaceRaw(c, r).raw = r
         /\ \A r : SetRawSection(c, r).ipv4 = c.ipv4
         /\ \A r : SetRawSection(c, r).ssid = c.ssid
         /\ \A r : SetRawSection(c, r).raw \in {NoRaw, r}
         /\ BuildMeshConfig(c).raw = NoRaw
         /\ BuildMeshConfig(c).ssid = c.ssid
  BY DEF Configs, ApplySsidOverrides, ReplaceRaw, SetRawSection, BuildMeshConfig

\* The ways in which the working copy of a thread, the service's rules and the
\* snapshot can change together.
Edits(t) ==
  \/ UNCHANGED <<cfg, pcRules, issued, snap>>
  \/ /\ \E s : cfg' = [cfg EXCEPT ![t] = ApplySsidOverrides(gw, s)]
     /\ UNCHANGED <<pcRules, issued, snap>>
  \/ /\ cfg' = [cfg EXCEPT ![t] = ReplaceRaw(gw, snap[t])]
     /\ UNCHANGED <<pcRules, issued, snap>>
  \/ \E rules :
       /\ pcRules' = rules
       /\ issued' = issued \cup {rules}
       /\ \E s \in {rules, NoRaw} :
            /\ snap' = [snap EXCEPT ![t] = s]
            /\ cfg' \in {cfg, [cfg EXCEPT ![t] = SetRawSection(cfg[t], s)]}

\* The ways in which the stored configurations can change, with the control
\* point that goes with them.
Pushes(t) ==
  \/ UNCHANGED <<gw, mesh, late, gwSsids>>
  \/ /\ gw' = cfg[t]
     /\ gwSsids' = gwSsids \cup {cfg[t].ssid}
     /\ UNCHANGED <<mesh, late, cfg>>
  \/ /\ pc[t] = "mesh"
     /\ \E d \in MeshDevices :
          mesh' = [mesh EXCEPT ![d] = BuildMeshConfig(cfg[t])]
     /\ UNCHANGED <<gw, late, gwSsids, cfg>>
  \/ /\ UNCHANGED <<gw, mesh, gwSsids, cfg>>
     /\ \E call :
          /\ late' = late \cup {call}
          /\ \/ call.to = "pc"
             \/ call.to = "gw" /\ call.cfg = cfg[t]
             \/ /\ pc[t] = "mesh"
                /\ call.to = "mesh"
                /\ call.cfg = BuildMeshConfig(cfg[t])

\* Only a thread that has just configured the gateway goes on to the mesh.
Moves(t) ==
  /\ pc' = [pc EXCEPT ![t] = pc'[t]]
  /\ pc'[t] = "mesh" => \/ gw' = cfg[t] /\ gwSsids' = gwSsids \cup {cfg[t].ssid}
                        \/ pc[t] = "mesh"
  /\ pc'[t] = "mesh" => cfg' = cfg

\* Every step of a thread has these effects.
LEMMA ThreadEffects ==
  ASSUME TypeInv, NEW t \in Threads,
         \/ \E j \in Jobs : Submit(t, j)
         \/ ThreadStep(t)
  PROVE  /\ Pushes(t)
         /\ Moves(t)
         /\ \/ Edits(t)
            \/ snap' = [snap EXCEPT ![t] = NoRaw] /\ UNCHANGED <<cfg, pcRules, issued>>
<1> USE DEF stores, history, locals
<1> USE DEF TypeInv, TypeOK
<1>1. ASSUME NEW j \in Jobs, Submit(t, j)
      PROVE  /\ Pushes(t) /\ Moves(t)
             /\ snap' = [snap EXCEPT ![t] = NoRaw]
             /\ UNCHANGED <<cfg, pcRules, issued>>
  BY <1>1 DEF Submit, Edits, Pushes, Moves
<1>2. ASSUME LookupDevices(t)
      PROVE  Pushes(t) /\ Moves(t) /\ Edits(t)
  BY <1>2 DEF LookupDevices, Edits, Pushes, Moves, Goto, Answer
<1>3. ASSUME FetchConfig(t)
      PROVE  Pushes(t) /\ Moves(t) /\ Edits(t)
  BY <1>3 DEF FetchConfig, Edits, Pushes, Moves, Goto, Answer, PushIfChanged
<1>4. ASSUME FetchConfigFails(t)
      PROVE  Pushes(t) /\ Moves(t) /\ Edits(t)
  BY <1>4 DEF FetchConfigFails, Edits, Pushes, Moves, Answer
<1>5. ASSUME NEW a \in Answers, ClientCall(t, a)
      PROVE  Pushes(t) /\ Moves(t) /\ Edits(t)
  <2> DEFINE e == Head(todo[t])
             rules == PcChange(pcRules, IF e.access = "deny" THEN "add" ELSE "del",
                               e.mac)
             s == IF a = "raw" THEN rules ELSE NoRaw
  <2>1. /\ pcRules' = rules
        /\ issued' = issued \cup {rules}
        /\ snap' = [snap EXCEPT ![t] = s]
        /\ cfg' \in {cfg, [cfg EXCEPT ![t] = SetRawSection(cfg[t], s)]}
        /\ UNCHANGED <<gw, mesh, late, gwSsids>>
    BY <1>5 DEF ClientCall
  <2>2. s \in {rules, NoRaw}
    OBVIOUS
  <2>3. \/ \E status, ok : Answer(t, status, ok)
        \/ Goto(t, "configure")
        \/ Goto(t, "client")
    BY <1>5 DEF ClientCall, PushIfChanged
  <2> HIDE DEF e, rules, s
  <2>4. Edits(t)
    BY <2>1, <2>2 DEF Edits
  <2>5. Pushes(t) /\ Moves(t)
    BY <2>1, <2>3 DEF Pushes, Moves, Goto, Answer
  <2>6. QED
    BY <2>4, <2>5
<1>6. ASSUME ClientCallFails(t)
      PROVE  Pushes(t) /\ Moves(t) /\ Edits(t)
  <2>1. PICK call : call.to = "pc" /\ late' \in {late, late \cup {call}}
    BY <1>6 DEF ClientCallFails
  <2>2. UNCHANGED <<pcRules, gw, mesh, locals, history>> /\ Answer(t, "error", FALSE)
    BY <1>6 DEF ClientCallFails
  <2>3. QED
    BY <2>1, <2>2 DEF Edits, Pushes, Moves, Answer
<1>7. ASSUME ConfigureGateway(t)
      PROVE  Pushes(t) /\ Moves(t) /\ Edits(t)
  BY <1>7 DEF ConfigureGateway, Edits, Pushes, Moves, Goto, Answer
<1>8. ASSUME NEW d \in MeshDevices, ConfigureMesh(t, d)
      PROVE  Pushes(t) /\ Moves(t) /\ Edits(t)
  BY <1>8 DEF ConfigureMesh, Edits, Pushes, Moves, Goto, Answer
<1>9. ASSUME ConfigureFails(t)
      PROVE  Pushes(t) /\ Moves(t) /\ Edits(t)
  <2>1. /\ UNCHANGED <<pcRules, gw, mesh, locals, history>>
        /\ Answer(t, "error", FALSE)
    BY <1>9 DEF ConfigureFails
  <2>2. \/ late' = late
        \/ \E call : /\ late' = late \cup {call}
                     /\ \/ call.to = "gw" /\ call.cfg = cfg[t]
                        \/ /\ pc[t] = "mesh"
                           /\ call.to = "mesh"
                           /\ call.cfg = BuildMeshConfig(cfg[t])
    <3>1. CASE pc[t] \in {"configure", "rawConfigure"}
      <4>1. late' \in {late, late \cup {[to |-> "gw", cfg |-> cfg[t]]}}
        BY <1>9, <3>1 DEF ConfigureFails
      <4> DEFINE call == [to |-> "gw", cfg |-> cfg[t]]
      <4>2. call.to = "gw" /\ call.cfg = cfg[t]
        OBVIOUS
      <4>3. late' \in {late, late \cup {call}}
        BY <4>1
      <4> HIDE DEF call
      <4>4. QED
        BY <4>2, <4>3
    <3>2. CASE pc[t] \notin {"configure", "rawConfigure"}
      <4>1. pc[t] = "mesh"
        BY <1>9, <3>2 DEF ConfigureFails
      <4> DEFINE call(d) == [to |-> "mesh", dev |-> d,
                             cfg |-> BuildMeshConfig(cfg[t])]
      <4>2. late' = late \/ \E d \in meshTodo[t] : late' = late \cup {call(d)}
        BY <1>9, <3>2 DEF ConfigureFails
      <4>3. \A d : call(d).to = "mesh" /\ call(d).cfg = BuildMeshConfig(cfg[t])
        OBVIOUS
      <4> HIDE DEF call
      <4>4. QED
        BY <4>1, <4>2, <4>3
    <3>3. QED
      BY <3>1, <3>2
  <2>3. Pushes(t)
    BY <2>1, <2>2 DEF Pushes
  <2>4. Edits(t) /\ Moves(t)
    BY <2>1 DEF Edits, Moves, Answer
  <2>5. QED
    BY <2>3, <2>4
<1>10. ASSUME NEW a \in Answers, Mutate(t, a)
      PROVE  Pushes(t) /\ Moves(t) /\ Edits(t)
  <2> DEFINE rules == PcChange(pcRules, job[t].op, job[t].rule)
             s == IF a = "raw" THEN rules ELSE NoRaw
  <2>1. /\ pcRules' = rules
        /\ issued' = issued \cup {rules}
        /\ snap' = [snap EXCEPT ![t] = s]
        /\ UNCHANGED <<gw, mesh, late, gwSsids, cfg>>
    BY <1>10 DEF Mutate
  <2>2. s \in {rules, NoRaw}
    OBVIOUS
  <2>3. \/ \E status, ok : Answer(t, status, ok)
        \/ Goto(t, "rawLookup")
    BY <1>10 DEF Mutate, Finish
  <2> HIDE DEF rules, s
  <2>4. Edits(t)
    BY <2>1, <2>2 DEF Edits
  <2>5. Pushes(t) /\ Moves(t)
    BY <2>1, <2>3 DEF Pushes, Moves, Goto, Answer
  <2>6. QED
    BY <2>4, <2>5
<1>11. ASSUME MutateFails(t)
      PROVE  Pushes(t) /\ Moves(t) /\ Edits(t)
  <2>1. PICK call : call.to = "pc" /\ late' \in {late, late \cup {call}}
    BY <1>11 DEF MutateFails
  <2>2. UNCHANGED <<pcRules, gw, mesh, locals, history>> /\ Answer(t, "error", FALSE)
    BY <1>11 DEF MutateFails
  <2>3. QED
    BY <2>1, <2>2 DEF Edits, Pushes, Moves, Answer
<1>12. ASSUME RawLookup(t)
      PROVE  Pushes(t) /\ Moves(t) /\ Edits(t)
  BY <1>12 DEF RawLookup, Edits, Pushes, Moves, Goto, Answer
<1>13. ASSUME RawFetch(t)
      PROVE  Pushes(t) /\ Moves(t) /\ Edits(t)
  BY <1>13 DEF RawFetch, Edits, Pushes, Moves, Goto, Answer
<1>14. ASSUME RawConfigure(t)
      PROVE  Pushes(t) /\ Moves(t) /\ Edits(t)
  BY <1>14 DEF RawConfigure, Edits, Pushes, Moves, Finish, Answer
<1>15. QED
  BY <1>1, <1>2, <1>3, <1>4, <1>5, <1>6, <1>7, <1>8, <1>9, <1>10, <1>11,
     <1>12, <1>13, <1>14 DEF ThreadStep

-----------------------------------------------------------------------------
(* Sections that belong to one kind of device only.                        *)

\* A late call or a working copy may reach a store, so they must already have
\* the right sections.
SectionInv ==
  /\ GatewayOnlySections
  /\ \A t \in Threads : cfg[t].ipv4 = "static"
  /\ \A call \in late : /\ call.to = "gw" => call.cfg.ipv4 = "static"
                        /\ call.to = "mesh" => call.cfg.raw = NoRaw

\* No interleaving of SetConfig, ApplyConfigRaw, failures and late calls puts
\* config-raw on a mesh device or mesh addressing on the gateway.
THEOREM SectionsSeparate == Spec => []GatewayOnlySections
<1>1. Init => SectionInv
  <2> SUFFICES ASSUME Init PROVE SectionInv
    OBVIOUS
  <2>1. PICK shape \in InitialShapes, s \in Ssids :
          LET c == [shape |-> shape, ssid |-> s, raw |-> NoRaw, ipv4 |-> "static"]
          IN  /\ gw = c
              /\ mesh = [d \in MeshDevices |-> BuildMeshConfig(c)]
              /\ cfg = [t \in Threads |-> c]
    BY DEF Init
  <2>2. QED
    BY <2>1 DEF Init, SectionInv, GatewayOnlySections, BuildMeshConfig
<1>2. TypeInv /\ SectionInv /\ [Next]_vars => SectionInv'
  <2> SUFFICES ASSUME TypeInv, SectionInv, [Next]_vars PROVE SectionInv'
    OBVIOUS
  <2> USE DEF SectionInv, GatewayOnlySections
  <2>1. ASSUME NEW t \in Threads,
               (\E j \in Jobs : Submit(t, j)) \/ ThreadStep(t)
        PROVE  SectionInv'
    <3>1. gw \in Configs /\ cfg \in [Threads -> Configs]
          /\ mesh \in [MeshDevices -> Configs]
      BY DEF TypeInv, TypeOK
    <3>2. \A u \in Threads : cfg'[u].ipv4 = "static"
      BY <2>1, <3>1, ThreadEffects, ConfigSections DEF Edits
    <3>3. /\ gw'.ipv4 = "static"
          /\ \A d \in MeshDevices : mesh'[d].raw = NoRaw
          /\ \A call \in late' : /\ call.to = "gw" => call.cfg.ipv4 = "static"
                                 /\ call.to = "mesh" => call.cfg.raw = NoRaw
      BY <2>1, <3>1, ThreadEffects, ConfigSections DEF Pushes
    <3>4. QED
      BY <3>2, <3>3
  <2>2. ASSUME NEW call \in late, LateArrival(call) PROVE SectionInv'
    BY <2>2 DEF LateArrival, TypeInv, TypeOK, locals
  <2>3. CASE UNCHANGED vars
    BY <2>3 DEF vars, stores, locals
  <2>4. QED
    BY <2>1, <2>2, <2>3 DEF Next
<1>3. QED
  BY <1>1, <1>2, TypeInvariant, PTL DEF Spec, SectionInv

-----------------------------------------------------------------------------
(* Mesh devices follow the gateway's SSID.                                 *)

\* A thread in its mesh loop, and a late mesh call, carry an SSID that the
\* gateway has already had.
MeshInv ==
  /\ gw.ssid \in gwSsids
  /\ MeshSsidFromGateway
  /\ \A t \in Threads : pc[t] = "mesh" => cfg[t].ssid \in gwSsids
  /\ \A call \in late : call.to = "mesh" => call.cfg.ssid \in gwSsids

\* A mesh device never runs an SSID that the gateway has not had.
THEOREM MeshFollowsGateway == Spec => []MeshSsidFromGateway
<1>1. Init => MeshInv
  <2> SUFFICES ASSUME Init PROVE MeshInv
    OBVIOUS
  <2>1. PICK shape \in InitialShapes, s \in Ssids :
          LET c == [shape |-> shape, ssid |-> s, raw |-> NoRaw, ipv4 |-> "static"]
          IN  /\ gw = c
              /\ mesh = [d \in MeshDevices |-> BuildMeshConfig(c)]
              /\ gwSsids = {s}
    BY DEF Init
  <2>2. QED
    BY <2>1 DEF Init, MeshInv, MeshSsidFromGateway, BuildMeshConfig
<1>2. TypeInv /\ MeshInv /\ [Next]_vars => MeshInv'
  <2> SUFFICES ASSUME TypeInv, MeshInv, [Next]_vars PROVE MeshInv'
    OBVIOUS
  <2> USE DEF MeshInv, MeshSsidFromGateway
  <2>1. ASSUME NEW t \in Threads,
               (\E j \in Jobs : Submit(t, j)) \/ ThreadStep(t)
        PROVE  MeshInv'
    <3>1. gw \in Configs /\ cfg \in [Threads -> Configs]
          /\ mesh \in [MeshDevices -> Configs] /\ pc \in [Threads -> Labels]
      BY DEF TypeInv, TypeOK
    <3>2. Pushes(t) /\ Moves(t)
      BY <2>1, ThreadEffects
    <3>3. gwSsids \subseteq gwSsids'
      BY <3>2 DEF Pushes
    <3>4. gw'.ssid \in gwSsids' /\ \A d \in MeshDevices : mesh'[d].ssid \in gwSsids'
      BY <3>1, <3>2, ConfigSections DEF Pushes
    <3>5. \A call \in late' : call.to = "mesh" => call.cfg.ssid \in gwSsids'
      BY <3>1, <3>2, <3>3, ConfigSections DEF Pushes
    <3>6. \A u \in Threads : pc'[u] = "mesh" => cfg'[u].ssid \in gwSsids'
      <4>1. ASSUME NEW u \in Threads, u # t PROVE cfg'[u] = cfg[u] /\ pc'[u] = pc[u]
        BY <2>1, <3>1, <3>2, <4>1, ThreadEffects DEF Edits, Moves
      <4>2. pc'[t] = "mesh" => cfg'[t].ssid \in gwSsids'
        BY <3>2, <3>3 DEF Moves
      <4>3. QED
        BY <3>3, <4>1, <4>2
    <3>7. QED
      BY <3>4, <3>5, <3>6
  <2>2. ASSUME NEW call \in late, LateArrival(call) PROVE MeshInv'
    BY <2>2 DEF LateArrival, TypeInv, TypeOK, locals
  <2>3. CASE UNCHANGED vars
    BY <2>3 DEF vars, stores, locals, history
  <2>4. QED
    BY <2>1, <2>2, <2>3 DEF Next
<1>3. QED
  BY <1>1, <1>2, TypeInvariant, PTL DEF Spec, MeshInv

-----------------------------------------------------------------------------
(* The gateway's rules are a rule set of the service.                      *)

Issued(raw) == raw # NoRaw => raw \in issued

\* Snapshots, working copies and late calls hold rule sets that were issued.
RawInv ==
  /\ pcRules \in issued
  /\ Issued(gw.raw)
  /\ \A t \in Threads : Issued(snap[t]) /\ Issued(cfg[t].raw)
  /\ \A call \in late : call.to = "gw" => Issued(call.cfg.raw)

\* The gateway's config-raw is never a mixture of two rule sets.
THEOREM RawIsIssued == Spec => []RawFromService
<1>1. Init => RawInv
  <2> SUFFICES ASSUME Init PROVE RawInv
    OBVIOUS
  <2>1. PICK shape \in InitialShapes, s \in Ssids :
          LET c == [shape |-> shape, ssid |-> s, raw |-> NoRaw, ipv4 |-> "static"]
          IN  gw = c /\ cfg = [t \in Threads |-> c]
    BY DEF Init
  <2>2. QED
    BY <2>1 DEF Init, RawInv, Issued
<1>2. TypeInv /\ RawInv /\ [Next]_vars => RawInv'
  <2> SUFFICES ASSUME TypeInv, RawInv, [Next]_vars PROVE RawInv'
    OBVIOUS
  <2> USE DEF RawInv, Issued
  <2>1. ASSUME NEW t \in Threads,
               (\E j \in Jobs : Submit(t, j)) \/ ThreadStep(t)
        PROVE  RawInv'
    <3>1. gw \in Configs /\ cfg \in [Threads -> Configs]
          /\ snap \in [Threads -> RawSections]
      BY DEF TypeInv, TypeOK
    <3>2. issued \subseteq issued' /\ pcRules' \in issued'
      BY <2>1, ThreadEffects DEF Edits
    <3>3. \A u \in Threads : /\ snap'[u] # NoRaw => snap'[u] \in issued'
                             /\ cfg'[u].raw # NoRaw => cfg'[u].raw \in issued'
      BY <2>1, <3>1, <3>2, ThreadEffects, ConfigSections DEF Edits
    <3>4. /\ gw'.raw # NoRaw => gw'.raw \in issued'
          /\ \A call \in late' :
               call.to = "gw" /\ call.cfg.raw # NoRaw => call.cfg.raw \in issued'
      BY <2>1, <3>2, <3>1, ThreadEffects DEF Pushes
    <3>5. QED
      BY <3>2, <3>3, <3>4
  <2>2. ASSUME NEW call \in late, LateArrival(call) PROVE RawInv'
    BY <2>2 DEF LateArrival, locals
  <2>3. CASE UNCHANGED vars
    BY <2>3 DEF vars, stores, locals, history
  <2>4. QED
    BY <2>1, <2>2, <2>3 DEF Next
<1>3. RawInv => RawFromService
  BY DEF RawInv, Issued, RawFromService
<1>4. QED
  BY <1>1, <1>2, <1>3, TypeInvariant, PTL DEF Spec

-----------------------------------------------------------------------------
(* Rejected requests change nothing.                                       *)

\* Until its configuration is fetched a configure request has sent nothing,
\* and a request in progress has no answer yet.
RejectInv ==
  \A t \in Threads :
    /\ http[t] = "400" => ~touched[t]
    /\ pc[t] \in {"lookup", "get"} => ~touched[t]
    /\ pc[t] # "idle" => http[t] = "none"

\* A request that the portal rejects with 400 has changed nothing downstream.
THEOREM RejectionIsClean == Spec => []RejectedUntouched
<1>1. Init => RejectInv
  BY DEF Init, RejectInv
<1>2. TypeInv /\ RejectInv /\ [Next]_vars => RejectInv'
  <2> SUFFICES ASSUME TypeOK, RejectInv, [Next]_vars PROVE RejectInv'
    BY DEF TypeInv
  <2> USE DEF RejectInv, TypeOK, locals
  <2>1. ASSUME NEW t \in Threads, NEW j \in Jobs, Submit(t, j)
        PROVE  RejectInv'
    BY <2>1 DEF Submit
  <2>2. ASSUME NEW t \in Threads, LookupDevices(t)
        PROVE  RejectInv'
    BY <2>2 DEF LookupDevices, Goto, Answer
  <2>3. ASSUME NEW t \in Threads, FetchConfig(t)
        PROVE  RejectInv'
    BY <2>3, Statuses DEF FetchConfig, Goto, Answer, PushIfChanged, Finish
  <2>4. ASSUME NEW t \in Threads, FetchConfigFails(t)
        PROVE  RejectInv'
    BY <2>4 DEF FetchConfigFails, Answer
  <2>5. ASSUME NEW t \in Threads, NEW a \in Answers, ClientCall(t, a)
        PROVE  RejectInv'
    BY <2>5 DEF ClientCall, Goto, Answer, PushIfChanged, Finish, Sends
  <2>6. ASSUME NEW t \in Threads, ClientCallFails(t)
        PROVE  RejectInv'
    BY <2>6 DEF ClientCallFails, Answer, Sends
  <2>7. ASSUME NEW t \in Threads, ConfigureGateway(t)
        PROVE  RejectInv'
    BY <2>7 DEF ConfigureGateway, Goto, Answer, Sends
  <2>8. ASSUME NEW t \in Threads, NEW d \in MeshDevices, ConfigureMesh(t, d)
        PROVE  RejectInv'
    BY <2>8 DEF ConfigureMesh, Goto, Answer, Sends
  <2>9. ASSUME NEW t \in Threads, ConfigureFails(t)
        PROVE  RejectInv'
    BY <2>9 DEF ConfigureFails, Goto, Answer, PushIfChanged, Finish, Sends
  <2>10. ASSUME NEW t \in Threads, NEW a \in Answers, Mutate(t, a)
        PROVE  RejectInv'
    BY <2>10 DEF Mutate, Goto, Answer, PushIfChanged, Finish, Sends
  <2>11. ASSUME NEW t \in Threads, MutateFails(t)
        PROVE  RejectInv'
    BY <2>11 DEF MutateFails, Answer, Sends
  <2>12. ASSUME NEW t \in Threads, RawLookup(t)
        PROVE  RejectInv'
    BY <2>12 DEF RawLookup, Goto, Answer
  <2>13. ASSUME NEW t \in Threads, RawFetch(t)
        PROVE  RejectInv'
    BY <2>13 DEF RawFetch, Goto, Answer, PushIfChanged, Finish
  <2>14. ASSUME NEW t \in Threads, RawConfigure(t)
        PROVE  RejectInv'
    BY <2>14 DEF RawConfigure, Finish, Answer, Sends
  <2>15. ASSUME NEW call \in late, LateArrival(call)
        PROVE  RejectInv'
    BY <2>15 DEF LateArrival
  <2>16. CASE UNCHANGED vars
    BY <2>16 DEF vars
  <2>17. QED
    BY <2>1, <2>2, <2>3, <2>4, <2>5, <2>6, <2>7, <2>8, <2>9, <2>10, <2>11,
       <2>12, <2>13, <2>14, <2>15, <2>16 DEF Next, ThreadStep
<1>3. RejectInv => RejectedUntouched
  BY DEF RejectInv, RejectedUntouched
<1>4. QED
  BY <1>1, <1>2, <1>3, TypeInvariant, PTL DEF Spec

-----------------------------------------------------------------------------
(* A success that nobody disturbed brings the stores together.             *)

\* While a thread is alone, the configuration it fetched is the gateway's and
\* the snapshot it got is what the service holds, call after call.
SyncedRules(t, c) == snap[t] # NoRaw => ActiveRules(c) = pcRules
WishedSsid(t, c) == c.shape = "ap" /\ job[t].ssid \in Ssids => c.ssid = job[t].ssid

Fetched(t) ==
  /\ pc[t] \in {"lookup", "get"} => snap[t] = NoRaw
  /\ pc[t] \in {"client", "configure"} =>
       orig[t] = gw /\ cfg[t].shape = gw.shape /\ WishedSsid(t, cfg[t])
  /\ pc[t] = "configure" => SyncedRules(t, cfg[t])

Spread(t) ==
  pc[t] = "mesh" =>
    /\ gw = cfg[t] /\ WishedSsid(t, gw) /\ SyncedRules(t, gw)
    /\ \A d \in MeshDevices \ meshTodo[t] : mesh[d] = BuildMeshConfig(gw)

RawInHand(t) ==
  /\ pc[t] \in {"rawLookup", "rawGet"} => snap[t] = pcRules
  /\ pc[t] = "rawConfigure" => cfg[t].raw = pcRules

Synced(t) ==
  Succeeded(t) =>
    /\ SyncedRules(t, gw)
    /\ job[t].kind = "configure" =>
         /\ WishedSsid(t, gw)
         /\ job[t].ssid \in Ssids /\ gw.shape = "ap" /\ cfg[t] # orig[t] =>
              \A d \in MeshDevices : mesh[d] = BuildMeshConfig(gw)

Undisturbed(t) == Fetched(t) /\ Spread(t) /\ RawInHand(t) /\ Synced(t)

SoloInv == \A t \in Threads : alone[t] => Undisturbed(t)

LEMMA InitSoloInv == Init => SoloInv
  BY DEF Init, SoloInv

\* After a step of thread t, only t can be alone, and only if it was before.
LEMMA ActorAlone ==
  ASSUME NEW t \in Threads, Acts(t), alone[t] => Undisturbed(t)'
  PROVE  SoloInv'
  BY DEF Acts, SoloInv

\* An answer that is no success owes nothing.
LEMMA UnsuccessfulAnswer ==
  ASSUME TypeOK, NEW t \in Threads, Acts(t), NEW status, NEW ok,
         Answer(t, status, ok), status # "200" \/ ok = FALSE
  PROVE  SoloInv'
<1>1. pc'[t] = "idle" /\ (http'[t] # "200" \/ ~done'[t])
  BY DEF Answer, TypeOK
<1>2. Undisturbed(t)'
  BY <1>1 DEF Undisturbed, Fetched, Spread, RawInHand, Synced, Succeeded
<1>3. QED
  BY <1>2, ActorAlone

\* What the sections written by the two writers enforce.
LEMMA RulesOfSection ==
  ASSUME NEW c \in Configs, NEW rules \in SUBSET Rules
  PROVE  /\ ActiveRules(SetRawSection(c, rules)) = rules
         /\ \A d \in Configs : d.raw = rules => ActiveRules(d) = rules
         /\ \A s : SetRawSection(c, s).shape = c.shape /\ SetRawSection(c, s).ssid = c.ssid
  BY ConstantsAssumption DEF ActiveRules, SetRawSection, ReplaceRaw, Configs

\* An edited copy carries the SSID that was asked for.
LEMMA SsidOfCopy ==
  ASSUME NEW c \in Configs, NEW s
  PROVE  /\ ApplySsidOverrides(c, s).shape = c.shape
         /\ c.shape = "ap" /\ s \in Ssids => ApplySsidOverrides(c, s).ssid = s
  BY DEF ApplySsidOverrides, Configs

\* The end of SetConfig's local part: the copy c of the gateway's configuration
\* goes out, or equals it already.
LEMMA PushKeeps ==
  ASSUME TypeOK, NEW t \in Threads, NEW c, job[t].kind = "configure",
         PushIfChanged(t, gw, c), cfg'[t] = c, orig'[t] = gw, UNCHANGED <<gw, job>>,
         c.shape = gw.shape, WishedSsid(t, c),
         snap'[t] # NoRaw => ActiveRules(c) = pcRules'
  PROVE  Undisturbed(t)'
<1>1. CASE c = gw
  <2>1. pc'[t] = "idle"
    BY <1>1 DEF PushIfChanged, Answer, TypeOK
  <2>2. Synced(t)'
    BY <1>1 DEF Synced, SyncedRules, WishedSsid, Succeeded
  <2>3. QED
    BY <2>1, <2>2 DEF Undisturbed, Fetched, Spread, RawInHand
<1>2. CASE c # gw
  <2>1. pc'[t] = "configure"
    BY <1>2 DEF PushIfChanged, Goto, TypeOK
  <2>2. Fetched(t)'
    BY <2>1 DEF Fetched, SyncedRules, WishedSsid
  <2>3. QED
    BY <2>1, <2>2 DEF Undisturbed, Spread, RawInHand, Synced, Succeeded
<1>3. QED
  BY <1>1, <1>2

LEMMA SoloStep == TypeInv /\ SoloInv /\ [Next]_vars => SoloInv'
<1> SUFFICES ASSUME TypeOK, ControlInv, SoloInv, [Next]_vars PROVE SoloInv'
  BY DEF TypeInv
<1> USE DEF stores, history, locals
<1>0. /\ gw \in Configs /\ cfg \in [Threads -> Configs] /\ orig \in [Threads -> Configs]
      /\ pcRules \in SUBSET Rules /\ snap \in [Threads -> RawSections]
      /\ pc \in [Threads -> Labels] /\ job \in [Threads -> Jobs]
      /\ mesh \in [MeshDevices -> Configs] /\ meshTodo \in [Threads -> SUBSET MeshDevices]
  BY DEF TypeOK
<1>1. ASSUME NEW t \in Threads, NEW j \in Jobs, Submit(t, j) PROVE SoloInv'
  <2>1. \A u \in Threads \ {t} : ~alone'[u]
    BY <1>1 DEF Submit
  <2>2. /\ pc'[t] \in {"idle", "lookup", "mutate"} /\ snap'[t] = NoRaw
        /\ http'[t] # "200"
    BY <1>1, <1>0 DEF Submit, TypeOK
  <2>3. Undisturbed(t)'
    BY <2>2 DEF Undisturbed, Fetched, Spread, RawInHand, Synced, Succeeded
  <2>4. QED
    BY <2>1, <2>3 DEF SoloInv
<1>2. ASSUME NEW t \in Threads, LookupDevices(t) PROVE SoloInv'
  <2>1. Acts(t) /\ pc[t] = "lookup" /\ UNCHANGED snap
    BY <1>2 DEF LookupDevices
  <2>2. CASE \E status \in {"400", "error"} : Answer(t, status, FALSE)
    BY <2>1, <2>2, UnsuccessfulAnswer
  <2>3. CASE Goto(t, "get")
    <3>1. pc'[t] = "get"
      BY <1>0, <2>3 DEF Goto
    <3>2. alone[t] => Undisturbed(t)'
      BY <2>1, <3>1
      DEF SoloInv, Undisturbed, Fetched, Spread, RawInHand, Synced, Succeeded
    <3>3. QED
      BY <2>1, <3>2, ActorAlone
  <2>4. QED
    BY <1>2, <2>2, <2>3 DEF LookupDevices
<1>3. ASSUME NEW t \in Threads, FetchConfig(t) PROVE SoloInv'
  <2> DEFINE c == ApplySsidOverrides(gw, job[t].ssid)
  <2>1. /\ Acts(t) /\ pc[t] = "get" /\ UNCHANGED <<gw, job, snap, pcRules>>
        /\ cfg'[t] = c /\ orig'[t] = gw
    BY <1>0, <1>3 DEF FetchConfig
  <2>2. \/ \E status : status # "200" /\ Answer(t, status, FALSE)
        \/ Goto(t, "client")
        \/ PushIfChanged(t, gw, c)
    BY <1>3 DEF FetchConfig
  <2>3. c.shape = gw.shape /\ WishedSsid(t, c)
    BY <1>0, SsidOfCopy DEF WishedSsid
  <2>4. job[t].kind = "configure" /\ (alone[t] => snap[t] = NoRaw)
    BY <2>1 DEF ControlInv, ConfigureLabels, SoloInv, Undisturbed, Fetched
  <2> HIDE DEF c
  <2>5. CASE \E status : status # "200" /\ Answer(t, status, FALSE)
    BY <2>1, <2>5, UnsuccessfulAnswer
  <2>6. CASE Goto(t, "client")
    <3>1. pc'[t] = "client"
      BY <1>0, <2>6 DEF Goto
    <3>2. Fetched(t)'
      BY <2>1, <2>3, <3>1 DEF Fetched, WishedSsid
    <3>3. Undisturbed(t)'
      BY <3>1, <3>2 DEF Undisturbed, Spread, RawInHand, Synced, Succeeded
    <3>4. QED
      BY <2>1, <3>3, ActorAlone
  <2>7. CASE PushIfChanged(t, gw, c)
    <3>1. alone[t] => Undisturbed(t)'
      BY <2>1, <2>3, <2>4, <2>7, PushKeeps
    <3>2. QED
      BY <2>1, <3>1, ActorAlone
  <2>8. QED
    BY <2>2, <2>5, <2>6, <2>7
<1>4. ASSUME NEW t \in Threads, NEW status, Acts(t), Answer(t, status, FALSE)
      PROVE  SoloInv'
  BY <1>4, UnsuccessfulAnswer
<1>5. ASSUME NEW t \in Threads,
             \/ FetchConfigFails(t) \/ ClientCallFails(t)
             \/ ConfigureFails(t) \/ MutateFails(t)
      PROVE  SoloInv'
  BY <1>4, <1>5 DEF FetchConfigFails, ClientCallFails, ConfigureFails, MutateFails
<1>6. ASSUME NEW t \in Threads, NEW a \in Answers, ClientCall(t, a) PROVE SoloInv'
  <2> DEFINE e == Head(todo[t])
             rules == PcChange(pcRules, IF e.access = "deny" THEN "add" ELSE "del", e.mac)
             s == IF a = "raw" THEN rules ELSE NoRaw
             c == SetRawSection(cfg[t], s)
  <2>1. /\ Acts(t) /\ pc[t] = "client" /\ UNCHANGED <<gw, job, orig>>
        /\ pcRules' = rules /\ snap'[t] = s
    BY <1>0, <1>6 DEF ClientCall
  <2>2. \/ Answer(t, "200", FALSE)
        \/ PushIfChanged(t, orig[t], c) /\ cfg' = [cfg EXCEPT ![t] = c]
        \/ Goto(t, "client") /\ UNCHANGED cfg
    BY <1>6 DEF ClientCall
  <2>3. job[t].kind = "configure" /\ todo[t] # <<>> /\ todo[t] \in Seq(ClientEntries)
    BY <2>1 DEF ControlInv, ConfigureLabels, TypeOK
  <2>4. e \in ClientEntries
    BY <2>3
  <2>5. rules \in SUBSET Rules
    BY <1>0, <2>4, RuleOperators DEF Rules, ClientEntries
  <2>6. /\ c.shape = cfg[t].shape /\ c.ssid = cfg[t].ssid
        /\ s # NoRaw => ActiveRules(c) = rules
    BY <1>0, <2>5, RulesOfSection
  <2> HIDE DEF e, rules, s, c
  <2>7. ASSUME alone[t]
        PROVE  orig[t] = gw /\ cfg[t].shape = gw.shape /\ WishedSsid(t, cfg[t])
    BY <2>1, <2>7 DEF SoloInv, Undisturbed, Fetched
  <2>8. CASE Answer(t, "200", FALSE)
    BY <1>4, <2>1, <2>8
  <2>9. CASE PushIfChanged(t, orig[t], c) /\ cfg' = [cfg EXCEPT ![t] = c]
    <3>1. ASSUME alone[t] PROVE Undisturbed(t)'
      <4>1. /\ PushIfChanged(t, gw, c) /\ cfg'[t] = c /\ orig'[t] = gw
            /\ c.shape = gw.shape /\ WishedSsid(t, c)
        BY <1>0, <2>1, <2>6, <2>7, <2>9, <3>1 DEF WishedSsid
      <4>2. QED
        BY <2>1, <2>3, <2>6, <4>1, PushKeeps
    <3>2. QED
      BY <2>1, <3>1, ActorAlone
  <2>10. CASE Goto(t, "client") /\ UNCHANGED cfg
    <3>1. pc'[t] = "client"
      BY <1>0, <2>10 DEF Goto
    <3>2. ASSUME alone[t] PROVE Undisturbed(t)'
      BY <2>1, <2>7, <2>10, <3>1, <3>2
      DEF Undisturbed, Fetched, WishedSsid, Spread, RawInHand, Synced, Succeeded
    <3>3. QED
      BY <2>1, <3>2, ActorAlone
  <2>11. QED
    BY <2>2, <2>8, <2>9, <2>10
<1>7. ASSUME NEW t \in Threads, ConfigureGateway(t) PROVE SoloInv'
  <2>1. /\ Acts(t) /\ pc[t] = "configure" /\ gw' = cfg[t] /\ meshTodo'[t] = MeshDevices
        /\ UNCHANGED <<pcRules, mesh, job, orig, cfg, snap>>
    BY <1>0, <1>7 DEF ConfigureGateway
  <2>2. pc'[t] = "mesh" \/ (pc'[t] = "idle" /\ (job[t].ssid = NoSsid \/ MeshDevices = {}))
    BY <1>0, <1>7 DEF ConfigureGateway, Answer, Goto
  <2>3. ASSUME alone[t] PROVE Undisturbed(t)'
    <3>1. WishedSsid(t, cfg[t]) /\ SyncedRules(t, cfg[t])
      BY <2>1, <2>3 DEF SoloInv, Undisturbed, Fetched
    <3>2. (WishedSsid(t, gw) /\ SyncedRules(t, gw))'
      BY <2>1, <3>1 DEF WishedSsid, SyncedRules
    <3>3. Spread(t)' /\ Synced(t)'
      BY <2>1, <2>2, <3>2, ConstantsAssumption DEF Spread, Synced, Succeeded
    <3>4. QED
      BY <2>2, <3>3 DEF Undisturbed, Fetched, RawInHand
  <2>4. QED
    BY <2>1, <2>3, ActorAlone
<1>8. ASSUME NEW t \in Threads, NEW d \in MeshDevices, ConfigureMesh(t, d) PROVE SoloInv'
  <2>1. /\ Acts(t) /\ pc[t] = "mesh" /\ d \in meshTodo[t]
        /\ mesh' = [mesh EXCEPT ![d] = BuildMeshConfig(cfg[t])]
        /\ meshTodo'[t] = meshTodo[t] \ {d}
        /\ UNCHANGED <<pcRules, gw, job, orig, cfg, snap>>
    BY <1>0, <1>8 DEF ConfigureMesh
  <2>2. pc'[t] = "mesh" \/ (pc'[t] = "idle" /\ meshTodo[t] = {d})
    BY <1>0, <1>8 DEF ConfigureMesh, Answer, Goto
  <2>3. ASSUME alone[t] PROVE Undisturbed(t)'
    <3>1. Spread(t)
      BY <2>3 DEF SoloInv, Undisturbed
    <3>2. (gw = cfg[t] /\ WishedSsid(t, gw) /\ SyncedRules(t, gw))'
      BY <2>1, <3>1 DEF Spread, WishedSsid, SyncedRules
    <3>3. \A n \in MeshDevices \ meshTodo'[t] : mesh'[n] = BuildMeshConfig(gw')
      BY <1>0, <2>1, <3>1 DEF Spread
    <3>4. Spread(t)' /\ Synced(t)'
      BY <2>1, <2>2, <3>2, <3>3 DEF Spread, Synced, Succeeded
    <3>5. QED
      BY <2>2, <3>4 DEF Undisturbed, Fetched, RawInHand
  <2>4. QED
    BY <2>1, <2>3, ActorAlone
<1>9. ASSUME NEW t \in Threads, job[t].kind = "mutate", Acts(t), Finish(t), UNCHANGED job,
             alone[t] => SyncedRules(t, gw)'
      PROVE  SoloInv'
  <2>1. CASE Answer(t, "200", TRUE)
    <3>1. pc'[t] = "idle"
      BY <1>0, <2>1 DEF Answer
    <3>2. alone[t] => Undisturbed(t)'
      BY <1>9, <3>1 DEF Undisturbed, Fetched, Spread, RawInHand, Synced
    <3>3. QED
      BY <1>9, <3>2, ActorAlone
  <2>2. CASE Answer(t, "error", TRUE)
    BY <1>9, <2>2, UnsuccessfulAnswer
  <2>3. QED
    BY <1>9, <2>1, <2>2 DEF Finish
<1>10. ASSUME NEW t \in Threads, NEW a \in Answers, Mutate(t, a) PROVE SoloInv'
  <2>1. /\ Acts(t) /\ pc[t] = "mutate" /\ UNCHANGED <<gw, job>>
        /\ snap'[t] = IF a = "raw" THEN pcRules' ELSE NoRaw
    BY <1>0, <1>10 DEF Mutate
  <2>2. job[t].kind = "mutate"
    BY <2>1 DEF ControlInv, MutateLabels
  <2>3. \/ \E status : Answer(t, status, FALSE)
        \/ a = "raw" /\ Goto(t, "rawLookup")
        \/ a # "raw" /\ Finish(t)
    BY <1>10 DEF Mutate
  <2>4. CASE a = "raw" /\ Goto(t, "rawLookup")
    <3>1. pc'[t] = "rawLookup"
      BY <1>0, <2>4 DEF Goto
    <3>2. Undisturbed(t)'
      BY <2>1, <2>4, <3>1 DEF Undisturbed, Fetched, Spread, RawInHand, Synced, Succeeded
    <3>3. QED
      BY <2>1, <3>2, ActorAlone
  <2>5. CASE a # "raw" /\ Finish(t)
    BY <1>9, <2>1, <2>2, <2>5 DEF SyncedRules
  <2>6. QED
    BY <1>4, <2>1, <2>3, <2>4, <2>5
<1>11. ASSUME NEW t \in Threads, RawLookup(t) PROVE SoloInv'
  <2>1. Acts(t) /\ pc[t] = "rawLookup" /\ UNCHANGED <<snap, pcRules>>
    BY <1>11 DEF RawLookup
  <2>2. CASE Goto(t, "rawGet")
    <3>1. pc'[t] = "rawGet"
      BY <1>0, <2>2 DEF Goto
    <3>2. alone[t] => Undisturbed(t)'
      BY <2>1, <3>1
      DEF SoloInv, Undisturbed, Fetched, Spread, RawInHand, Synced, Succeeded
    <3>3. QED
      BY <2>1, <3>2, ActorAlone
  <2>3. QED
    BY <1>4, <1>11, <2>1, <2>2 DEF RawLookup
<1>12. ASSUME NEW t \in Threads, RawFetch(t) PROVE SoloInv'
  <2>1. Acts(t) /\ pc[t] = "rawGet" /\ UNCHANGED <<pcRules, snap>>
    BY <1>12 DEF RawFetch
  <2>2. CASE cfg' = [cfg EXCEPT ![t] = ReplaceRaw(gw, snap[t])] /\ Goto(t, "rawConfigure")
    <3>1. pc'[t] = "rawConfigure" /\ cfg'[t].raw = snap[t]
      BY <1>0, <2>2, ConfigSections DEF Goto
    <3>2. alone[t] => Undisturbed(t)'
      BY <2>1, <3>1
      DEF SoloInv, Undisturbed, Fetched, Spread, RawInHand, Synced, Succeeded
    <3>3. QED
      BY <2>1, <3>2, ActorAlone
  <2>3. QED
    BY <1>4, <1>12, <2>1, <2>2 DEF RawFetch
<1>13. ASSUME NEW t \in Threads, RawConfigure(t) PROVE SoloInv'
  <2>1. /\ Acts(t) /\ pc[t] = "rawConfigure" /\ Finish(t) /\ gw' = cfg[t]
        /\ UNCHANGED <<pcRules, job>>
    BY <1>13 DEF RawConfigure
  <2>2. job[t].kind = "mutate"
    BY <2>1 DEF ControlInv, MutateLabels
  <2>3. ASSUME alone[t] PROVE SyncedRules(t, gw)'
    <3>1. cfg[t].raw = pcRules
      BY <2>1, <2>3 DEF SoloInv, Undisturbed, RawInHand
    <3>2. QED
      BY <1>0, <2>1, <3>1, RulesOfSection DEF SyncedRules
  <2>4. QED
    BY <1>9, <2>1, <2>2, <2>3
<1>14. ASSUME NEW call \in late, LateArrival(call) PROVE SoloInv'
  BY <1>14 DEF LateArrival, SoloInv
<1>15. CASE UNCHANGED vars
  BY <1>15 DEF vars, SoloInv, Undisturbed, Fetched, Spread, RawInHand, Synced, Succeeded,
     SyncedRules, WishedSsid
<1>16. QED
  BY <1>1, <1>2, <1>3, <1>5, <1>6, <1>7, <1>8, <1>10, <1>11, <1>12, <1>13, <1>14, <1>15
  DEF Next, ThreadStep

LEMMA SoloInvariant == Spec => []SoloInv
  BY TypeInvariant, InitSoloInv, SoloStep, PTL DEF Spec

\* Recovery of the rules: after any history of lost updates, failures and late
\* calls, one undisturbed success with a config-raw snapshot leaves the gateway
\* enforcing exactly the service's rules (SetConfig, ApplyConfigRaw).
THEOREM SoloRulesTheorem == Spec => []SoloSyncsRules
<1>1. SoloInv => SoloSyncsRules
  BY DEF SoloInv, Undisturbed, Synced, SyncedRules, SoloSyncsRules
<1>2. QED
  BY <1>1, SoloInvariant, PTL

\* Likewise for the SSID: one undisturbed change is on the gateway, and when
\* SetConfig had anything to push, on every mesh device.
THEOREM SoloSsidTheorem == Spec => []SoloSyncsSsid
<1>1. SoloInv => SoloSyncsSsid
  BY DEF SoloInv, Undisturbed, Synced, WishedSsid, SoloSyncsSsid, ChangesSsid
<1>2. QED
  BY <1>1, SoloInvariant, PTL
=============================================================================
