---------------------------- MODULE ActionGoals -----------------------------
(***************************************************************************)
(* What a client of a nav2 action server may rely on: a goal is rejected,  *)
(* or accepted and then given at most one result, and it only succeeds     *)
(* when no older goal is left without its result. Goals are numbered in    *)
(* the order in which the server takes them up; goals that are given up    *)
(* get their results together. Nothing says that a result comes.           *)
(***************************************************************************)
EXTENDS Naturals

CONSTANT MaxGoals          \* bound: goals of one behaviour

Goal == 1 .. MaxGoals

VARIABLE status            \* per goal

Unfinished == {g \in Goal : status[g] \in {"executing", "canceling"}}

Init == status = [g \in Goal |-> "unknown"]

Decide(g, answer) ==
  /\ status[g] = "unknown"
  /\ \A h \in Goal : h < g => status[h] # "unknown"
  /\ status' = [status EXCEPT ![g] = answer]

Accept(g) == Decide(g, "executing")
Reject(g) == Decide(g, "rejected")

Cancel(g) ==
  /\ status[g] = "executing"
  /\ status' = [status EXCEPT ![g] = "canceling"]

Succeed(g) ==
  /\ g \in Unfinished
  /\ \A h \in Unfinished : h >= g
  /\ status' = [status EXCEPT ![g] = "succeeded"]

GiveUp(S) ==
  /\ S \subseteq Unfinished
  /\ \E r \in [S -> {"aborted", "canceled"}] :
       /\ \A g \in S : r[g] = "canceled" => status[g] = "canceling"
       /\ status' = [g \in Goal |-> IF g \in S THEN r[g] ELSE status[g]]

Next ==
  \/ \E g \in Goal : Accept(g) \/ Reject(g) \/ Cancel(g) \/ Succeed(g)
  \/ \E S \in SUBSET Unfinished : GiveUp(S)

Spec == Init /\ [][Next]_status

=============================================================================
