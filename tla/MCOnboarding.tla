--------------------------- MODULE MCOnboarding ---------------------------
(* Small instances of Onboarding for TLC.                                  *)
EXTENDS Onboarding, TLC

CONSTANT MaxRacing   \* bound on the requests after which nothing races

\* Threads and devices are only ever compared for equality.
OnboardingSymmetry == Permutations(Threads) \cup Permutations(Macs)

\* Requests for devices that cannot be had end without an effect: two requests
\* show what they meet.
Ordinary == \A t \in Threads : req[t].mac \in Macs \cup {NoMac}

\* One thread has served all requests, and no call was lost.
Sequential == ~raced /\ \E t \in Threads : \A u \in Threads \ {t} : req[u].mac = NoMac

\* The first MaxRacing requests race and time out as they like; longer runs are
\* followed only if they are sequential.
BoundedRuns ==
  /\ started <= 2 \/ Ordinary
  /\ started <= MaxRacing \/ Sequential
===========================================================================
