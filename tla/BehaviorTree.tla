---------------------------- MODULE BehaviorTree ----------------------------
(***************************************************************************)
(* nav2_behavior_tree: the engine that runs a behavior tree for one goal   *)
(* after the other, and the control nodes of nav2: RecoveryNode,           *)
(* PipelineSequence, RoundRobin and the RateController decorator.  A tick  *)
(* goes down the tree and a status comes back up; a step is what a node    *)
(* does between two calls.  Leaves are any actions: they return any status *)
(* and may throw, and a precondition may skip them.  executeTick, haltNode *)
(* and resetStatus are those of BehaviorTree.CPP 4.                        *)
(***************************************************************************)
EXTENDS Naturals, Sequences, SequencesExt, FiniteSets

CONSTANTS
  Node, Root,
  Children,                \* per node, the sequence of its children
  Kind,                    \* per node
  number_of_retries_       \* per recovery node

Kinds == {"recovery", "pipeline", "robin", "rate", "leaf"}
OfKind(k) == {n \in Node : Kind[n] = k}

VARIABLES
  status,                  \* status() of each node
  at,                      \* the node whose tick() runs, or "engine"
  ret,                     \* what a child has returned to it, or "none"
  running,                 \* BehaviorTreeEngine::run is in its loop
  index,                   \* current_child_idx_, last_child_ticked_
  count,                   \* retry_count_, num_failed_children_
  first_time_,
  i, skipped,              \* locals of the tick() of a node
  recoveries,              \* history: of this activation, up to one too many
  passed,                  \* history: children that have let the tick pass
  unlucky                  \* history: recovery nodes whose recovery was skipped

locals == <<i, skipped>>
history == <<recoveries, passed, unlucky>>
members == <<index, count, first_time_>>
vars == <<status, at, ret, running, members, locals, history>>

Below(n) == Range(Children[n])
Parent(n) == IF n = Root THEN "engine" ELSE CHOOSE p \in Node : n \in Below(p)

(* A node and all nodes above it.                                          *)
Path ==
  [n \in Node |-> {m \in Node : \A S \in SUBSET Node :
      n \in S /\ (\A x \in S \ {Root} : Parent(x) \in S) => m \in S}]

ASSUME TreeAssumption ==
  /\ Root \in Node /\ "engine" \notin Node
  /\ Kind \in [Node -> Kinds]
  /\ Children \in [Node -> Seq(Node \ {Root})]
  /\ \A n \in OfKind("recovery") : Len(Children[n]) = 2
  /\ \A n \in OfKind("rate") : Len(Children[n]) = 1
  /\ \A n \in OfKind("pipeline") \cup OfKind("robin") : Len(Children[n]) > 0
  /\ \A n \in OfKind("leaf") : Children[n] = <<>>
  /\ \A n \in Node \ {Root} : \E p \in Node : n \in Below(p)
  /\ \A p, q \in Node : \A j \in DOMAIN Children[p], k \in DOMAIN Children[q] :
       Children[p][j] = Children[q][k] => p = q /\ j = k
  /\ \A n \in Node : Root \in Path[n]
  /\ number_of_retries_ \in [OfKind("recovery") -> Nat]

Init ==
  /\ status = [n \in Node |-> "IDLE"]
  /\ at = "engine" /\ ret = "none" /\ running = FALSE
  /\ index = [n \in Node |-> 0] /\ count = [n \in Node |-> 0]
  /\ first_time_ = [n \in OfKind("rate") |-> FALSE]
  /\ i = [n \in Node |-> 0] /\ skipped = [n \in Node |-> 0]
  /\ recoveries = [n \in Node |-> 0] /\ passed = [n \in Node |-> {}]
  /\ unlucky = {}

-----------------------------------------------------------------------------
(* Halting.  Nodes that are reset are first halted if they are running,    *)
(* and a halted node resets its children.                                  *)

Halting(S) ==
  {d \in Node : \E c \in Path[d] \cap S :
                  \A a \in Path[d] : c \in Path[a] => status[a] = "RUNNING"}

Reset(S) ==
  LET H == Halting(S) IN
  [d \in Node |-> IF d \in S \/ Parent(d) \in H THEN "IDLE" ELSE status[d]]

(* halt() of the control nodes also clears their members.                  *)
Cleared(f, S) == [n \in Node |-> IF n \in S THEN 0 ELSE f[n]]

-----------------------------------------------------------------------------
(* Calls and returns.  A skipped node keeps its status.                    *)

Call(c) == at' = c /\ ret' = "none"

Return(n, st, s) ==
  /\ at' = Parent(n) /\ ret' = s
  /\ status' = IF s = "SKIPPED" THEN st ELSE [st EXCEPT ![n] = s]

Entered(n) == at = n /\ ret = "none"
Returned(n, s) == at = n /\ ret = s

ForgetRetries(n, s) ==
  /\ Return(n, [Reset(Below(n)) EXCEPT ![n] = "IDLE"], s)
  /\ index' = Cleared(index, Halting(Below(n)) \cup {n})
  /\ count' = Cleared(count, Halting(Below(n)))

(* halt(); return s                                                        *)
HaltAndReturn(n, s) ==
  /\ Return(n, [Reset(Below(n)) EXCEPT ![n] = "IDLE"], s)
  /\ index' = Cleared(index, Halting(Below(n)) \cup {n})
  /\ count' = Cleared(count, Halting(Below(n)) \cup {n})

Starting(n) == status[n] # "RUNNING"
Fresh(n) ==
  /\ recoveries' = [recoveries EXCEPT ![n] = IF Starting(n) THEN 0 ELSE @]
  /\ passed' = [passed EXCEPT ![n] = IF Starting(n) THEN {} ELSE @]
  /\ UNCHANGED unlucky

-----------------------------------------------------------------------------
(* RecoveryNode: the children are 0, what is to succeed, and 1, what helps *)
(* it to.                                                                  *)

RecoveryTick(n) ==
  /\ Entered(n)
  /\ Fresh(n)
  /\ IF count[n] <= number_of_retries_[n]
     THEN /\ Call(Children[n][index[n] + 1])
          /\ status' = [status EXCEPT ![n] = "RUNNING"]
          /\ UNCHANGED <<index, count>>
     ELSE HaltAndReturn(n, "FAILURE")
  /\ UNCHANGED <<running, first_time_, locals>>

RecoveryDone(n) ==
  /\ \E s \in {"SUCCESS", "SKIPPED"} :
       index[n] = 0 /\ Returned(n, s) /\ HaltAndReturn(n, s)
  /\ UNCHANGED <<running, first_time_, locals, history>>

RecoveryRunning(n) ==
  /\ Returned(n, "RUNNING")
  /\ Return(n, status, "RUNNING")
  /\ UNCHANGED <<running, members, locals, history>>

MayRetry(n) == count[n] < number_of_retries_[n]

StartRecovery(n) ==
  /\ index[n] = 0 /\ Returned(n, "FAILURE") /\ MayRetry(n)
  /\ status' = Reset({Children[n][1]})
  /\ index' = [Cleared(index, Halting({Children[n][1]})) EXCEPT ![n] = 1]
  /\ count' = Cleared(count, Halting({Children[n][1]}))
  /\ Call(Children[n][2])
  /\ UNCHANGED <<running, first_time_, locals, history>>

GiveUp(n) ==
  /\ Returned(n, "FAILURE") /\ (index[n] = 1 \/ ~MayRetry(n))
  /\ HaltAndReturn(n, "FAILURE")
  /\ UNCHANGED <<running, first_time_, locals, history>>

(* No recovery is possible: the index is reset, and only the index.        *)
RecoverySkipped(n) ==
  /\ index[n] = 1 /\ Returned(n, "SKIPPED")
  /\ Return(n, Reset({Children[n][2]}), "FAILURE")
  /\ index' = [Cleared(index, Halting({Children[n][2]})) EXCEPT ![n] = 0]
  /\ count' = Cleared(count, Halting({Children[n][2]}))
  /\ unlucky' = unlucky \cup {n}
  /\ UNCHANGED <<running, first_time_, locals, recoveries, passed>>

Helped(n, retries) ==
  /\ index[n] = 1 /\ Returned(n, "SUCCESS")
  /\ status' = Reset({Children[n][2]})
  /\ index' = [Cleared(index, Halting({Children[n][2]})) EXCEPT ![n] = 0]
  /\ count' = [Cleared(count, Halting({Children[n][2]})) EXCEPT ![n] = retries]
  /\ Call(Children[n][1])
  /\ recoveries' = [recoveries EXCEPT ![n] =
                      IF @ > number_of_retries_[n] THEN @ ELSE @ + 1]
  /\ UNCHANGED <<running, first_time_, locals, passed, unlucky>>

RecoveryUncounted(n) == Helped(n, count[n])
RecoverySucceeded(n) == Helped(n, count[n] + 1)

Recovery(n) ==
  \/ RecoveryTick(n) \/ RecoveryDone(n) \/ RecoveryRunning(n)
  \/ StartRecovery(n) \/ GiveUp(n) \/ RecoverySkipped(n) \/ RecoverySucceeded(n)

-----------------------------------------------------------------------------
(* PipelineSequence: all children up to last_child_ticked_ are ticked      *)
(* again, and a running one does not stop the tick before that.            *)

PipelineTick(n) ==
  /\ Entered(n)
  /\ Call(Children[n][1])
  /\ Fresh(n)
  /\ UNCHANGED <<status, running, members, locals>>

PipelineKeepsLast(n, s) ==
  /\ Return(n, Reset(Below(n)), s)
  /\ index' = Cleared(index, Halting(Below(n)))
  /\ count' = Cleared(count, Halting(Below(n)))

PipelineLeavesChildren(n, s) ==
  /\ Return(n, status, s)
  /\ index' = [index EXCEPT ![n] = 0]
  /\ UNCHANGED count

(* haltChildren(), last_child_ticked_ = 0, return s                        *)
PipelineEnds(n, s) ==
  /\ Return(n, Reset(Below(n)), s)
  /\ index' = Cleared(index, Halting(Below(n)) \cup {n})
  /\ count' = Cleared(count, Halting(Below(n)))

ForgetLocals(n) ==
  i' = [i EXCEPT ![n] = 0] /\ skipped' = [skipped EXCEPT ![n] = 0]

PipelineFails(n) ==
  /\ Returned(n, "FAILURE")
  /\ PipelineEnds(n, "FAILURE")
  /\ ForgetLocals(n)
  /\ UNCHANGED <<running, first_time_, history>>

PipelineRunning(n) ==
  /\ Returned(n, "RUNNING") /\ i[n] >= index[n]
  /\ index' = [index EXCEPT ![n] = i[n]]
  /\ Return(n, status, "RUNNING")
  /\ ForgetLocals(n)
  /\ UNCHANGED <<running, count, first_time_, history>>

Passes(n) ==
  \/ Returned(n, "SUCCESS") \/ Returned(n, "SKIPPED")
  \/ Returned(n, "RUNNING") /\ i[n] < index[n]
Skips(n) == skipped[n] + IF ret = "SKIPPED" THEN 1 ELSE 0
Mark(n) ==
  passed' = [passed EXCEPT ![n] = IF ret = "RUNNING" THEN @ ELSE @ \cup {i[n] + 1}]

PipelineGoesOn(n) ==
  /\ Passes(n) /\ i[n] + 1 < Len(Children[n])
  /\ i' = [i EXCEPT ![n] = @ + 1]
  /\ skipped' = [skipped EXCEPT ![n] = Skips(n)]
  /\ Call(Children[n][i[n] + 2])
  /\ Mark(n)
  /\ UNCHANGED <<status, running, members, recoveries, unlucky>>

PipelineDone(n) ==
  /\ Passes(n) /\ i[n] + 1 = Len(Children[n])
  /\ PipelineEnds(n, IF Skips(n) = Len(Children[n]) THEN "SKIPPED" ELSE "SUCCESS")
  /\ ForgetLocals(n)
  /\ UNCHANGED <<running, first_time_, history>>

Pipeline(n) ==
  \/ PipelineTick(n) \/ PipelineFails(n) \/ PipelineRunning(n)
  \/ PipelineGoesOn(n) \/ PipelineDone(n)

-----------------------------------------------------------------------------
(* RoundRobin: after a success the next activation starts behind it.       *)

RobinTick(n) ==
  /\ Entered(n)
  /\ Fresh(n)
  /\ IF count[n] < Len(Children[n])
     THEN /\ Call(Children[n][index[n] + 1])
          /\ status' = [status EXCEPT ![n] = "RUNNING"]
          /\ UNCHANGED <<index, count>>
     ELSE HaltAndReturn(n, "FAILURE")
  /\ UNCHANGED <<running, first_time_, locals>>

RobinRunning(n) ==
  /\ Returned(n, "RUNNING")
  /\ Return(n, status, "RUNNING")
  /\ ForgetLocals(n)
  /\ UNCHANGED <<running, members, history>>

Following(n) == (index[n] + 1) % Len(Children[n])

KeepStatuses(n) ==
  /\ Returned(n, "SUCCESS")
  /\ Return(n, status, "SUCCESS")
  /\ index' = [index EXCEPT ![n] = Following(n)]
  /\ count' = [count EXCEPT ![n] = 0]
  /\ ForgetLocals(n)
  /\ UNCHANGED <<running, first_time_, history>>

KeepFailures(n) ==
  /\ Returned(n, "SUCCESS")
  /\ Return(n, Reset(Below(n)), "SUCCESS")
  /\ index' = [Cleared(index, Halting(Below(n))) EXCEPT ![n] = Following(n)]
  /\ count' = Cleared(count, Halting(Below(n)))
  /\ ForgetLocals(n)
  /\ UNCHANGED <<running, first_time_, history>>

RobinSucceeds(n) ==
  /\ Returned(n, "SUCCESS")
  /\ Return(n, Reset(Below(n)), "SUCCESS")
  /\ index' = [Cleared(index, Halting(Below(n))) EXCEPT ![n] = Following(n)]
  /\ count' = Cleared(count, Halting(Below(n)) \cup {n})
  /\ ForgetLocals(n)
  /\ UNCHANGED <<running, first_time_, history>>

Failures(n) == count[n] + IF ret = "FAILURE" THEN 1 ELSE 0
OutOfChildren(n) == Failures(n) + Skips(n) >= Len(Children[n])

RobinTriesNext(n) ==
  /\ ret \in {"FAILURE", "SKIPPED"} /\ at = n /\ ~OutOfChildren(n)
  /\ index' = [index EXCEPT ![n] = Following(n)]
  /\ count' = [count EXCEPT ![n] = Failures(n)]
  /\ skipped' = [skipped EXCEPT ![n] = Skips(n)]
  /\ passed' = [passed EXCEPT ![n] = @ \cup {index[n] + 1}]
  /\ Call(Children[n][Following(n) + 1])
  /\ UNCHANGED <<status, running, first_time_, i, recoveries, unlucky>>

RobinFails(n) ==
  /\ ret \in {"FAILURE", "SKIPPED"} /\ at = n /\ OutOfChildren(n)
  /\ HaltAndReturn(n, IF Skips(n) = Len(Children[n]) THEN "SKIPPED" ELSE "FAILURE")
  /\ passed' = [passed EXCEPT ![n] = @ \cup {index[n] + 1}]
  /\ ForgetLocals(n)
  /\ UNCHANGED <<running, first_time_, recoveries, unlucky>>

Robin(n) ==
  \/ RobinTick(n) \/ RobinRunning(n) \/ RobinSucceeds(n)
  \/ RobinTriesNext(n) \/ RobinFails(n)

-----------------------------------------------------------------------------
(* RateController.  Any time may have passed since start_.                 *)

Active(n) == status[n] # "IDLE"       \* BT::isStatusActive

RateTick(n) ==
  /\ Entered(n)
  /\ \E elapsed \in BOOLEAN :
       LET first == first_time_[n] \/ ~Active(n)
           due == first \/ status[Children[n][1]] = "RUNNING" \/ elapsed
       IN /\ first_time_' = [first_time_ EXCEPT ![n] = first /\ ~due]
          /\ IF due THEN /\ Call(Children[n][1])
                         /\ status' = [status EXCEPT ![n] = "RUNNING"]
                    ELSE Return(n, status, "RUNNING")
  /\ UNCHANGED <<running, index, count, locals, history>>

(* A decorator resets a child that has finished.                           *)
RateReturns(n) ==
  /\ at = n /\ ret # "none"
  /\ LET c == Children[n][1] IN
     Return(n, [status EXCEPT ![c] = IF @ = "RUNNING" THEN @ ELSE "IDLE"], ret)
  /\ UNCHANGED <<running, members, locals, history>>

Rate(n) == RateTick(n) \/ RateReturns(n)

-----------------------------------------------------------------------------
(* A leaf is skipped by a precondition, when it is idle, or when it runs,  *)
(* and is then halted.                                                     *)
LeafTick(n) ==
  /\ Entered(n)
  /\ \/ \E s \in {"SUCCESS", "FAILURE", "RUNNING"} : Return(n, status, s)
     \/ /\ status[n] \in {"IDLE", "RUNNING"}
        /\ Return(n, [status EXCEPT ![n] = "IDLE"], "SKIPPED")
  /\ UNCHANGED <<running, members, locals, history>>

LeafThrows(n) ==
  /\ Entered(n)
  /\ at' = "engine" /\ ret' = "EXCEPTION"
  /\ i' = [m \in Node |-> 0] /\ skipped' = [m \in Node |-> 0]
  /\ UNCHANGED <<status, running, members, history>>

Leaf(n) == LeafTick(n) \/ LeafThrows(n)

-----------------------------------------------------------------------------
(* BehaviorTreeEngine::run, for one goal after the other.  haltTree halts  *)
(* every node.                                                             *)

haltTree ==
  /\ status' = [n \in Node |-> "IDLE"]
  /\ index' = [n \in Node |-> 0] /\ count' = [n \in Node |-> 0]

NewGoal ==
  /\ at = "engine" /\ ~running
  /\ running' = TRUE /\ ret' = "RUNNING"
  /\ UNCHANGED <<status, at, members, locals, history>>

TickOnce ==
  /\ at = "engine" /\ running /\ ret = "RUNNING"
  /\ Call(Root)
  /\ UNCHANGED <<status, running, members, locals, history>>

(* The loop ends, by a cancellation or with the status of the tree, and    *)
(* executeCallback halts all actions.                                      *)
RunEnds ==
  /\ at = "engine" /\ running
  /\ haltTree
  /\ running' = FALSE /\ ret' = "none"
  /\ unlucky' = {}
  /\ UNCHANGED <<at, first_time_, locals, recoveries, passed>>

-----------------------------------------------------------------------------
Step ==
  \/ \E n \in OfKind("recovery") : Recovery(n)
  \/ \E n \in OfKind("pipeline") : Pipeline(n)
  \/ \E n \in OfKind("robin") : Robin(n)
  \/ \E n \in OfKind("rate") : Rate(n)
  \/ \E n \in OfKind("leaf") : Leaf(n)

Next == NewGoal \/ TickOnce \/ RunEnds \/ Step

Spec == Init /\ [][Next]_vars

(* A tick goes on: every leaf returns.                                     *)
FairSpec == Spec /\ WF_vars(Step)

-----------------------------------------------------------------------------
(* A node is halted only through running parents: between two ticks        *)
(* nothing runs below a node that does not, so that no action is left      *)
(* running when the tree ends, and a halt reaches every action             *)
(* (bt_action_server_impl.hpp:299-301, pipeline_sequence.cpp:36-82).       *)
NothingRunsAlone ==
  at = "engine" /\ ret # "EXCEPTION"
    => \A n \in Node \ {Root} : status[n] = "RUNNING" => status[Parent(n)] = "RUNNING"

(* A pipeline ticks a child only when all children before it have          *)
(* succeeded or been skipped in the same activation: no path is followed   *)
(* that was planned before the last failure or halt                        *)
(* (pipeline_sequence.cpp:36-82).                                          *)
PipelineInOrder ==
  \A p \in OfKind("pipeline") : \A k \in 1 .. Len(Children[p]) :
    at = Children[p][k] => 1 .. (k - 1) \subseteq passed[p]

(* An activation of a recovery node makes at most number_of_retries_       *)
(* recoveries, and gives up on its first child only after that many,       *)
(* unless a skipped recovery has left the count of an earlier activation   *)
(* behind (recovery_node.cpp:42, 63-75, 83-100, 121-126).                  *)
RetriesExact ==
  [][\A n \in OfKind("recovery") :
       /\ recoveries'[n] <= number_of_retries_[n]
       /\ n \notin unlucky /\ index[n] = 0 /\ Returned(n, "FAILURE") /\ at' = Parent(n)
            => recoveries[n] = number_of_retries_[n]]_vars

(* RoundRobin fails only when each of its children has failed or been      *)
(* skipped in this activation, wherever it started                         *)
(* (round_robin_node.cpp:41-83).                                           *)
RobinTriesAll ==
  [][\A n \in OfKind("robin") :
       at = n /\ at' = Parent(n) /\ ret' = "FAILURE"
         => passed'[n] = 1 .. Len(Children[n])]_vars

(* An action is ticked when it is idle or running, not with the outcome of *)
(* an earlier activation: BtActionNode would send no goal then, or use a   *)
(* handle that it does not have.  The exception is a RoundRobin that comes *)
(* round to a child that failed because another one was skipped            *)
(* (round_robin_node.cpp:41-77, bt_action_node.hpp:193).                   *)
TickedFresh ==
  \A n \in OfKind("leaf") : Entered(n) =>
    \/ status[n] \in {"IDLE", "RUNNING"}
    \/ Kind[Parent(n)] = "robin" /\ index[Parent(n)] + 1 \in passed[Parent(n)]

(* Whatever the leaves return, every tick of the tree comes to its end:    *)
(* recoveries inside one tick do not go on forever                         *)
(* (recovery_node.cpp:42-114, round_robin_node.cpp:41-77).                 *)
TickReturns == at # "engine" ~> at = "engine"

=============================================================================
