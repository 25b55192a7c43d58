--------------------------- MODULE MCBehaviorTree ---------------------------
(***************************************************************************)
(* The tree navigate_to_pose_w_replanning_and_recovery.xml, down to the    *)
(* nodes that BehaviorTree models.  Left out are the two selectors at the  *)
(* head of the pipeline, and the Sequence, Fallback and ReactiveFallback   *)
(* with their conditions around RecoveryActions; a Sequence of a condition *)
(* and a clearing, or of two clearings, is one leaf.                       *)
(***************************************************************************)
EXTENDS BehaviorTree

NavigateChildren ==
  [NavigateRecovery |-> <<"NavigateWithReplanning", "RecoveryActions">>,
   NavigateWithReplanning |-> <<"RateController", "FollowPath">>,
   RateController |-> <<"ComputePathToPose">>,
   ComputePathToPose |-> <<"ComputePath", "ClearGlobalCostmap">>,
   FollowPath |-> <<"Follow", "ClearLocalCostmap">>,
   RecoveryActions |-> <<"ClearingActions", "Spin", "Wait", "BackUp">>,
   ComputePath |-> <<>>, ClearGlobalCostmap |-> <<>>,
   Follow |-> <<>>, ClearLocalCostmap |-> <<>>,
   ClearingActions |-> <<>>, Spin |-> <<>>, Wait |-> <<>>, BackUp |-> <<>>]

NavigateNodes == DOMAIN NavigateChildren

NavigateKind ==
  [n \in NavigateNodes |->
     CASE n \in {"NavigateRecovery", "ComputePathToPose", "FollowPath"} -> "recovery"
       [] n = "NavigateWithReplanning" -> "pipeline"
       [] n = "RateController" -> "rate"
       [] n = "RecoveryActions" -> "robin"
       [] OTHER -> "leaf"]

NavigateRetries == [NavigateRecovery |-> 2, ComputePathToPose |-> 1, FollowPath |-> 1]
NavigateRoot == "NavigateRecovery"

=============================================================================
