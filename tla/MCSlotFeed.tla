----------------------------- MODULE MCSlotFeed -----------------------------
(***************************************************************************)
(* Fair instances of PairStore and SlotFeed for TLC.  A behaviour is one   *)
(* of the store or one of the feed: which of them is started first.  The   *)
(* fairness of the other asks for nothing then, since no step of it that   *)
(* is fair is enabled before its start.                                    *)
(***************************************************************************)
EXTENDS MCPairStore, SlotFeed

MCLiveNext ==
  \/ feedPc = "idle" /\ PairNext /\ UNCHANGED feedVars
  \/ PairInit /\ FeedNext /\ UNCHANGED storeVars

MCLiveSpec ==
  /\ PairInit /\ FeedInit /\ [][MCLiveNext]_<<storeVars, feedVars>>
  /\ PairFairness /\ FeedFairness
=============================================================================
