---------------------------- MODULE ObjectClasses ----------------------------
(* All the classes of REST objects, by name space and name.                *)
EXTENDS ProvObjects, SecurityObjects, GWObjects, SubObjects, PeerObjects

AllMembers ==
  [Prov |-> ProvMembers, Sec |-> SecMembers, GW |-> GWMembers, Sub |-> SubMembers,
   Analytics |-> AnalyticsMembers, FMS |-> FMSMembers, Cert |-> CertMembers,
   OWLS |-> OWLSMembers]

AllCodecs ==
  [Prov |-> ProvCodecs, Sec |-> SecCodecs, GW |-> GWCodecs, Sub |-> SubCodecs,
   Analytics |-> AnalyticsCodecs, FMS |-> FMSCodecs, Cert |-> CertCodecs,
   OWLS |-> OWLSCodecs]

\* Members by kind, turned into the kind of each member.
KindsIn(t) == DOMAIN t \ {"raw"}
KindOfEach(t) ==
  [m \in UNION {t[k] : k \in KindsIn(t)} |-> CHOOSE k \in KindsIn(t) : m \in t[k]] @@ <<>>

ObjectClass(s, c) ==
  LET t == AllMembers[s][c]
  IN AllCodecs[s][c] @@
       [name |-> <<s, c>>,
        kinds |-> KindOfEach(t),
        raw |-> IF "raw" \in DOMAIN t THEN t["raw"] ELSE {}]

AllClasses == UNION {{ObjectClass(s, c) : c \in DOMAIN AllCodecs[s]} : s \in DOMAIN AllCodecs}
=============================================================================
