------------------------ MODULE MCSubscriberLocation ------------------------
(* Small instances of SubscriberLocation for TLC.                          *)
EXTENDS SubscriberLocation, TLC

\* Threads, identifiers and timezones are only ever compared for equality.
LocationSymmetry ==
  Permutations(Threads) \cup Permutations(LocationIds) \cup Permutations(Zones)
=============================================================================
