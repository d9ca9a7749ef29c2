---------------------------- MODULE MCConfigSync ----------------------------
(* Small instances of ConfigSync for TLC.                                  *)
EXTENDS ConfigSync, TLC

CONSTANTS s1, s2, m1, g1

Entry(m, access, valid) == [mac |-> m, access |-> access, valid |-> valid]

Configure(s, list) ==
  [kind |-> "configure", ssid |-> s, hasClient |-> list # <<>>, client |-> list]

Mutation(h, op, valid) ==
  [kind |-> "mutate", handler |-> h, rule |-> g1, op |-> op, valid |-> valid]

MCMutations ==
  { Mutation(GroupDevicesPost, "add", TRUE),
    Mutation(SchedulesPut, "add", TRUE),
    Mutation(GroupSchedulesDelete, "del", TRUE),
    Mutation(GroupsDelete, "del", TRUE),
    Mutation(SchedulesDelete, "del", FALSE) }

\* An SSID change, a block, an unblock followed by a block, both at once, and
\* the rejected forms.
MCConfigures ==
  { Configure(s2, <<>>),
    Configure(BadSsid, <<Entry(m1, "deny", TRUE)>>),
    Configure(NoSsid, <<Entry(m1, "deny", TRUE)>>),
    Configure(NoSsid, <<Entry(m1, "allow", TRUE), Entry(m1, "deny", TRUE)>>),
    Configure(s2, <<Entry(m1, "deny", TRUE), Entry(m1, "allow", FALSE)>>),
    [kind |-> "configure", ssid |-> s2, hasClient |-> TRUE, client |-> <<>>] }

RecoveryJobs ==
  { Configure(s2, <<>>), Configure(NoSsid, <<Entry(m1, "deny", TRUE)>>),
    Configure(s1, <<Entry(m1, "allow", TRUE)>>),
    Mutation(GroupDevicesPost, "add", TRUE) }

ThreadSymmetry == Permutations(Threads)

MCJobs == MCConfigures \cup MCMutations
=============================================================================
