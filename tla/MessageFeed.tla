---------------------------- MODULE MessageFeed ----------------------------
(***************************************************************************)
(* What KafkaManager promises to a poster of messages: they go out in the  *)
(* order they were posted, each at most once; one that cannot be sent is   *)
(* skipped, and what is pending when the feed closes is not sent.          *)
(***************************************************************************)
EXTENDS Sequences

CONSTANT Messages

VARIABLES
  pending,     \* posted and not yet sent or skipped
  delivered,   \* what went out
  open

feedVars == <<pending, delivered, open>>

FeedInit == pending = <<>> /\ delivered = <<>> /\ open = TRUE

Post(m) ==
  /\ pending' = Append(pending, m)
  /\ UNCHANGED <<delivered, open>>

Deliver ==
  /\ open /\ pending # <<>>
  /\ delivered' = Append(delivered, Head(pending))
  /\ pending' = Tail(pending)
  /\ UNCHANGED open

Skip ==
  /\ open /\ pending # <<>>
  /\ pending' = Tail(pending)
  /\ UNCHANGED <<delivered, open>>

\* The message in hand may be given up.
Close ==
  /\ open
  /\ open' = FALSE
  /\ pending' = pending \/ (pending # <<>> /\ pending' = Tail(pending))
  /\ UNCHANGED delivered

FeedNext == (\E m \in Messages : Post(m)) \/ Deliver \/ Skip \/ Close

FeedSpec == FeedInit /\ [][FeedNext]_feedVars
=============================================================================
