------------------------- MODULE BtActionNodeProofs -------------------------
(***************************************************************************)
(* Theorems about BtActionNode for every number of goals and every order   *)
(* in which ticks, halts, the answers of the server and its steps happen.  *)
(***************************************************************************)
EXTENDS BtActionNode, TLAPS

(* The inductive invariant.  First the values of the variables.            *)
Statuses == {"unknown", "rejected", "executing", "canceling", "succeeded",
             "aborted", "canceled"}

TypeInv ==
  /\ status \in [Goal -> Statuses]
  /\ node \in {"IDLE", "RUNNING", "SUCCESS", "FAILURE", "CRASHED"}
  /\ at \in {"out", "await", "awaitUpdate", "loop", "spin", "haltSpin", "canceling"}
  /\ goal_handle_ \in 0 .. MaxGoals /\ future_goal_handle_ \in 0 .. MaxGoals
  /\ goal_result_available_ \in BOOLEAN /\ goal_updated_ \in BOOLEAN
  /\ result_ \in 0 .. MaxGoals
  /\ sent \in 0 .. MaxGoals
  /\ acked \subseteq Goal /\ delivered \subseteq Goal
  /\ known \in [Goal -> Statuses]
  /\ cancels \subseteq Goal /\ abandoned \subseteq Goal

(* What the places of tick() and halt() stand for.                         *)
PlaceInv ==
  /\ node # "CRASHED"
  /\ at # "out" => node = "RUNNING"
  /\ at \in {"await", "awaitUpdate"} => future_goal_handle_ # None
  /\ at \in {"loop", "spin"} => future_goal_handle_ = None
  /\ at \in {"haltSpin", "canceling"} => goal_handle_ # None
  /\ at = "canceling" => goal_handle_ \in cancels

(* A running node waits for the acknowledgement of its last goal, or has   *)
(* the handle of that goal; a result that it holds is that goal's.         *)
LastGoalInv ==
  /\ future_goal_handle_ # None => future_goal_handle_ = sent
  /\ node = "RUNNING" =>
       /\ sent # 0
       /\ future_goal_handle_ = None => goal_handle_ = sent
       /\ goal_result_available_
            => future_goal_handle_ = None /\ result_ = sent /\ Finished(sent)

(* A handle belongs to an acknowledged goal, and shows it executing as     *)
(* long as it does execute.                                                *)
HandleInv ==
  /\ goal_handle_ # None => goal_handle_ \in acked
  /\ \A g \in acked : /\ status[g] # "unknown"
                      /\ status[g] = "executing" => known[g] = "executing"

(* The last goal of a node that does not run is over, or its cancellation  *)
(* asked for, unless its acknowledgement is awaited or was given up.       *)
RestInv ==
  /\ node # "RUNNING" /\ sent # 0
  /\ future_goal_handle_ = None /\ sent \notin abandoned
  => status[sent] \notin {"unknown", "executing"} \/ sent \in cancels

NodeInv == PlaceInv /\ LastGoalInv /\ HandleInv /\ RestInv

-----------------------------------------------------------------------------
LEMMA NodeInit == Init => TypeInv /\ NodeInv
<1> SUFFICES ASSUME Init PROVE TypeInv /\ NodeInv
  OBVIOUS
<1>1. TypeInv
  <2>1. status \in [Goal -> Statuses] /\ known \in [Goal -> Statuses]
    BY DEF Init, Server!Init, Server!Goal, Goal, Statuses
  <2>2. goal_result_available_ \in BOOLEAN /\ goal_updated_ \in BOOLEAN
    BY DEF Init
  <2> QED BY <2>1, <2>2, NodeAssumption DEF Init, TypeInv, None
<1>2. NodeInv
  BY DEF Init, NodeInv, PlaceInv, LastGoalInv, HandleInv, RestInv, None
<1> QED BY <1>1, <1>2

(* What one step of the server does to a goal.                             *)
Unended == {"executing", "canceling"}
Ended == {"succeeded", "aborted", "canceled"}

StatusMoves(g) ==
  \/ status'[g] = status[g]
  \/ g <= sent /\ status[g] = "unknown" /\ status'[g] \in {"executing", "rejected"}
  \/ status[g] \in Unended /\ status'[g] \in {"canceling"} \cup Ended

ServerStep ==
  \E g \in Goal : ServerTakesUp(g) \/ ServerCancels(g) \/ ServerEnds(g)

LEMMA ServerMoves ==
  ASSUME TypeInv, ServerStep
  PROVE  /\ status' \in [Goal -> Statuses]
         /\ \A h \in Goal : StatusMoves(h)
         /\ UNCHANGED <<node, at, handleVars, resultVars, goal_updated_, sent,
                        networkVars, cancels, abandoned>>
<1>1. PICK g \in Goal : ServerTakesUp(g) \/ ServerCancels(g) \/ ServerEnds(g)
  BY DEF ServerStep
<1>2. CASE ServerTakesUp(g)
  <2>1. PICK answer \in {"executing", "rejected"} :
          status[g] = "unknown" /\ status' = [status EXCEPT ![g] = answer]
    BY <1>2 DEF ServerTakesUp, Server!Accept, Server!Reject, Server!Decide
  <2> QED BY <1>2, <2>1 DEF ServerTakesUp, StatusMoves, TypeInv, Statuses
<1>3. CASE ServerCancels(g)
  BY <1>3 DEF ServerCancels, Server!Cancel, StatusMoves, TypeInv, Statuses, Unended
<1>4. CASE Server!Succeed(g)
  BY <1>1, <1>2, <1>3, <1>4
  DEF ServerEnds, Server!Succeed, Server!Unfinished, StatusMoves, TypeInv, Statuses,
      Unended, Ended
<1>5. CASE Server!GiveUp({g})
  <2>1. g \in Server!Unfinished
    BY <1>5 DEF Server!GiveUp
  <2>2. PICK r \in [{g} -> {"aborted", "canceled"}] :
          status' = [h \in Goal |-> IF h \in {g} THEN r[h] ELSE status[h]]
    BY <1>5 DEF Server!GiveUp, Server!Goal, Goal
  <2>3. r[g] \in {"aborted", "canceled"} /\ status[g] \in Unended
    BY <2>1 DEF Server!Unfinished, Unended
  <2>4. status' \in [Goal -> Statuses] /\ \A h \in Goal : StatusMoves(h)
    BY <2>2, <2>3 DEF TypeInv, Statuses, StatusMoves, Ended
  <2> QED BY <1>1, <1>2, <1>3, <2>4 DEF ServerEnds
<1> QED BY <1>1, <1>2, <1>3, <1>4, <1>5 DEF ServerEnds

LEMMA ServerKeeps ==
  ASSUME TypeInv, NodeInv, ServerStep
  PROVE  TypeInv' /\ NodeInv'
<1> USE DEF handleVars, resultVars, networkVars
<1>1. /\ status' \in [Goal -> Statuses]
      /\ \A h \in Goal : StatusMoves(h)
      /\ UNCHANGED <<node, at, handleVars, resultVars, goal_updated_, sent,
                     networkVars, cancels, abandoned>>
  BY ServerMoves
<1>2. TypeInv'
  BY <1>1 DEF TypeInv
<1>3. PlaceInv'
  BY <1>1 DEF NodeInv, PlaceInv
<1>4. sent # 0 => sent \in Goal
  BY NodeAssumption DEF TypeInv, Goal
<1>5. LastGoalInv'
  BY <1>1, <1>4 DEF NodeInv, LastGoalInv, Finished, StatusMoves, Unended
<1>6. HandleInv'
  BY <1>1 DEF NodeInv, HandleInv, TypeInv, StatusMoves, Unended, Ended
<1>7. RestInv'
  BY <1>1, <1>4 DEF NodeInv, RestInv, StatusMoves, Unended, Ended
<1> QED BY <1>2, <1>3, <1>5, <1>6, <1>7 DEF NodeInv

-----------------------------------------------------------------------------
(* The answers.  An acknowledgement or a status changes what a handle      *)
(* shows; a result is taken only when it is that of the handle.            *)
LEMMA DeliveriesKeep ==
  ASSUME TypeInv, NodeInv, NEW g \in Goal,
         DeliverAck(g) \/ DeliverStatus(g) \/ DeliverResult(g)
  PROVE  TypeInv' /\ NodeInv'
<1> USE DEF handleVars, resultVars, networkVars
<1>1. CASE DeliverAck(g)
  <2>1. TypeInv'
    BY <1>1 DEF DeliverAck, TypeInv, Statuses
  <2>2. PlaceInv' /\ LastGoalInv' /\ RestInv'
    BY <1>1 DEF DeliverAck, NodeInv, PlaceInv, LastGoalInv, RestInv, Finished
  <2>3. HandleInv'
    BY <1>1 DEF DeliverAck, NodeInv, HandleInv, TypeInv
  <2> QED BY <2>1, <2>2, <2>3 DEF NodeInv
<1>2. CASE DeliverStatus(g)
  <2>1. TypeInv'
    BY <1>2 DEF DeliverStatus, TypeInv
  <2>2. PlaceInv' /\ LastGoalInv' /\ RestInv'
    BY <1>2 DEF DeliverStatus, NodeInv, PlaceInv, LastGoalInv, RestInv, Finished
  <2>3. HandleInv'
    BY <1>2 DEF DeliverStatus, NodeInv, HandleInv, TypeInv
  <2> QED BY <2>1, <2>2, <2>3 DEF NodeInv
<1>3. CASE DeliverResult(g)
  <2>1. future_goal_handle_ = None => goal_handle_ # None
    <3>1. at # "out" /\ (at \in {"await", "awaitUpdate"} => future_goal_handle_ # None)
      BY <1>3 DEF DeliverResult, Spinning, NodeInv, PlaceInv
    <3> QED BY <3>1 DEF NodeInv, PlaceInv, LastGoalInv, None
  <2>2. /\ UNCHANGED <<status, node, at, handleVars, goal_updated_, sent, acked, cancels,
                       abandoned>>
        /\ known' = [known EXCEPT ![g] = status[g]]
        /\ delivered' = delivered \cup {g}
    BY <1>3, <2>1 DEF DeliverResult, UseResult
  <2>3. \/ UNCHANGED resultVars
        \/ /\ future_goal_handle_ = None /\ goal_handle_ = g /\ Finished(g)
           /\ goal_result_available_' = TRUE /\ result_' = g
    BY <1>3 DEF DeliverResult, UseResult
  <2>4. TypeInv'
    BY <2>2, <2>3 DEF TypeInv, Goal
  <2>5. PlaceInv' /\ RestInv'
    BY <2>2 DEF NodeInv, PlaceInv, RestInv
  <2>6. LastGoalInv'
    BY <2>2, <2>3 DEF NodeInv, LastGoalInv, Finished
  <2>7. HandleInv'
    BY <2>2 DEF NodeInv, HandleInv, TypeInv
  <2> QED BY <2>4, <2>5, <2>6, <2>7 DEF NodeInv
<1> QED BY <1>1, <1>2, <1>3

-----------------------------------------------------------------------------
LEMMA TickKeeps ==
  ASSUME TypeInv, NodeInv, Tick
  PROVE  TypeInv' /\ NodeInv'
<1> USE DEF handleVars, resultVars, networkVars, Leave
<1>0. sent # 0 => sent \in Goal
  BY NodeAssumption DEF TypeInv, Goal
<1>1. CASE FirstTick
  <2>1. /\ sent < MaxGoals /\ sent' = sent + 1 /\ future_goal_handle_' = sent + 1
        /\ goal_result_available_' = FALSE /\ result_' = None
        /\ node' = "RUNNING" /\ at' = "await"
        /\ UNCHANGED <<status, goal_handle_, goal_updated_, networkVars, cancels, abandoned>>
    BY <1>1 DEF FirstTick, send_new_goal
  <2>2. TypeInv'
    <3>1. sent + 1 \in 0 .. MaxGoals /\ None \in 0 .. MaxGoals
      BY <2>1, NodeAssumption DEF TypeInv, None
    <3>2. goal_result_available_' \in BOOLEAN
      BY <2>1
    <3> QED BY <2>1, <3>1, <3>2 DEF TypeInv
  <2>3. sent + 1 # 0
    BY DEF TypeInv
  <2>4. NodeInv'
    BY <2>1, <2>3 DEF NodeInv, PlaceInv, LastGoalInv, HandleInv, RestInv, None
  <2> QED BY <2>2, <2>4
<1>2. CASE TickWithoutGoal
  <2>1. TypeInv'
    BY <1>2, NodeAssumption DEF TickWithoutGoal, TypeInv, None
  <2>2. PlaceInv' /\ LastGoalInv' /\ HandleInv'
    BY <1>2 DEF TickWithoutGoal, NodeInv, PlaceInv, LastGoalInv, HandleInv
  <2>3. RestInv'
    BY <1>2 DEF TickWithoutGoal, NodeInv, RestInv
  <2> QED BY <2>1, <2>2, <2>3 DEF NodeInv
<1>3. CASE NextTick
  <2>1. TypeInv'
    BY <1>3 DEF NextTick, TypeInv
  <2>2. NodeInv'
    BY <1>3 DEF NextTick, NodeInv, PlaceInv, LastGoalInv, HandleInv, RestInv, Finished
  <2> QED BY <2>1, <2>2
<1>4. CASE Acknowledged
  <2>1. node = "RUNNING" /\ future_goal_handle_ = sent /\ future_goal_handle_ \in acked
    BY <1>4 DEF Acknowledged, NodeInv, PlaceInv, LastGoalInv
  <2>2. ~goal_result_available_
    BY <1>0, <1>4, <2>1 DEF Acknowledged, NodeInv, PlaceInv, LastGoalInv
  <2>3. TypeInv'
    BY <1>4, NodeAssumption DEF Acknowledged, TypeInv, None
  <2>4. PlaceInv'
    BY <1>4, <2>1 DEF Acknowledged, NodeInv, PlaceInv
  <2>5. LastGoalInv'
    BY <1>4, <2>1, <2>2 DEF Acknowledged, NodeInv, LastGoalInv
  <2>6. HandleInv' /\ RestInv'
    BY <1>4, <2>1 DEF Acknowledged, NodeInv, HandleInv, RestInv
  <2> QED BY <2>3, <2>4, <2>5, <2>6 DEF NodeInv
<1>5. CASE Rejected
  <2>1. future_goal_handle_ = sent /\ status[sent] = "rejected"
    BY <1>5 DEF Rejected, NodeInv, PlaceInv, LastGoalInv
  <2>2. TypeInv'
    BY <1>5, NodeAssumption DEF Rejected, TypeInv, None
  <2>3. PlaceInv' /\ LastGoalInv' /\ HandleInv'
    BY <1>5 DEF Rejected, NodeInv, PlaceInv, LastGoalInv, HandleInv
  <2>4. RestInv'
    BY <1>5, <2>1 DEF Rejected, RestInv
  <2> QED BY <2>2, <2>3, <2>4 DEF NodeInv
<1>6. CASE StillWaiting
  <2>1. node = "RUNNING"
    BY <1>6 DEF StillWaiting, NodeInv, PlaceInv
  <2>2. TypeInv'
    BY <1>6 DEF StillWaiting, TypeInv
  <2>3. NodeInv'
    BY <1>6, <2>1
    DEF StillWaiting, NodeInv, PlaceInv, LastGoalInv, HandleInv, RestInv, Finished
  <2> QED BY <2>2, <2>3
<1>7. CASE TimedOut
  <2>1. future_goal_handle_ = sent /\ future_goal_handle_ \in Goal
    BY <1>0, <1>7 DEF TimedOut, NodeInv, PlaceInv, LastGoalInv, None
  <2>2. TypeInv'
    BY <1>7, <2>1, NodeAssumption DEF TimedOut, TypeInv, None
  <2>3. PlaceInv' /\ LastGoalInv' /\ HandleInv'
    BY <1>7 DEF TimedOut, NodeInv, PlaceInv, LastGoalInv, HandleInv
  <2>4. RestInv'
    BY <1>7, <2>1 DEF TimedOut, RestInv
  <2> QED BY <2>2, <2>3, <2>4 DEF NodeInv
<1>8. CASE Wait
  <2>1. /\ at = "loop" /\ node = "RUNNING" /\ future_goal_handle_ = None
        /\ goal_handle_ = sent /\ sent # 0
    BY <1>8 DEF Wait, NodeInv, PlaceInv, LastGoalInv
  <2>2. /\ node' = node /\ goal_updated_' \in BOOLEAN
        /\ UNCHANGED <<status, goal_handle_, result_, networkVars, cancels, abandoned>>
    BY <1>8, <2>1 DEF Wait, None
  <2>3. \/ /\ sent < MaxGoals /\ sent' = sent + 1 /\ future_goal_handle_' = sent + 1
           /\ goal_result_available_' = FALSE /\ at' = "awaitUpdate"
        \/ /\ at' = "spin"
           /\ UNCHANGED <<future_goal_handle_, sent, goal_result_available_>>
    BY <1>8 DEF Wait, send_new_goal
  <2>4. TypeInv'
    <3>1. sent < MaxGoals => sent + 1 \in 0 .. MaxGoals
      BY NodeAssumption DEF TypeInv
    <3>2. goal_result_available_' \in BOOLEAN
      BY <2>3 DEF TypeInv
    <3>3. sent' \in 0 .. MaxGoals /\ future_goal_handle_' \in 0 .. MaxGoals
      BY <2>3, <3>1 DEF TypeInv
    <3>4. at' \in {"awaitUpdate", "spin"}
      BY <2>3
    <3> QED BY <2>2, <3>2, <3>3, <3>4 DEF TypeInv
  <2>5. sent + 1 # 0
    BY DEF TypeInv
  <2>6. PlaceInv'
    BY <2>1, <2>2, <2>3, <2>5 DEF NodeInv, PlaceInv, None
  <2>7. LastGoalInv'
    BY <2>1, <2>2, <2>3, <2>5 DEF NodeInv, LastGoalInv, Finished, None
  <2>8. HandleInv' /\ RestInv'
    BY <2>1, <2>2 DEF NodeInv, HandleInv, RestInv
  <2> QED BY <2>4, <2>6, <2>7, <2>8 DEF NodeInv
<1>9. CASE NoResultYet
  <2>1. node = "RUNNING"
    BY <1>9 DEF NoResultYet, NodeInv, PlaceInv
  <2>2. TypeInv'
    BY <1>9 DEF NoResultYet, TypeInv
  <2>3. NodeInv'
    BY <1>9, <2>1
    DEF NoResultYet, NodeInv, PlaceInv, LastGoalInv, HandleInv, RestInv, Finished
  <2> QED BY <2>2, <2>3
<1>10. CASE ResultArrived
  <2>1. Finished(sent) /\ future_goal_handle_ = None
    BY <1>10 DEF ResultArrived, NodeInv, PlaceInv, LastGoalInv
  <2>2. TypeInv'
    BY <1>10, NodeAssumption DEF ResultArrived, TypeInv, None
  <2>3. PlaceInv' /\ LastGoalInv' /\ HandleInv'
    BY <1>10, <2>1 DEF ResultArrived, NodeInv, PlaceInv, LastGoalInv, HandleInv
  <2>4. RestInv'
    BY <1>10, <2>1 DEF ResultArrived, RestInv, Finished
  <2> QED BY <2>2, <2>3, <2>4 DEF NodeInv
<1> QED
  BY <1>1, <1>2, <1>3, <1>4, <1>5, <1>6, <1>7, <1>8, <1>9, <1>10 DEF Tick

LEMMA HaltKeeps ==
  ASSUME TypeInv, NodeInv, Halt
  PROVE  TypeInv' /\ NodeInv'
<1> USE DEF handleVars, resultVars, networkVars, Leave
<1>0. sent # 0 => sent \in Goal
  BY NodeAssumption DEF TypeInv, Goal
<1>1. CASE HaltNothing
  <2>1. future_goal_handle_ = None => node # "RUNNING"
    BY <1>1 DEF HaltNothing, NodeInv, LastGoalInv, None
  <2>2. TypeInv'
    BY <1>1 DEF HaltNothing, TypeInv
  <2>3. PlaceInv' /\ LastGoalInv' /\ HandleInv'
    BY <1>1 DEF HaltNothing, NodeInv, PlaceInv, LastGoalInv, HandleInv
  <2>4. RestInv'
    BY <1>1, <2>1 DEF HaltNothing, NodeInv, RestInv
  <2> QED BY <2>2, <2>3, <2>4 DEF NodeInv
<1>2. CASE HaltRunning
  <2>1. TypeInv'
    BY <1>2 DEF HaltRunning, TypeInv
  <2>2. NodeInv'
    BY <1>2 DEF HaltRunning, NodeInv, PlaceInv, LastGoalInv, HandleInv, RestInv, Finished
  <2> QED BY <2>1, <2>2
<1>3. CASE CancelGoal
  <2>1. node = "RUNNING" /\ goal_handle_ \in Goal
    BY <1>3, NodeAssumption DEF CancelGoal, NodeInv, PlaceInv, TypeInv, Goal, None
  <2>2. TypeInv'
    BY <1>3, <2>1 DEF CancelGoal, TypeInv
  <2>3. NodeInv'
    BY <1>3, <2>1
    DEF CancelGoal, NodeInv, PlaceInv, LastGoalInv, HandleInv, RestInv, Finished
  <2> QED BY <2>2, <2>3
<1>4. CASE NothingToCancel
  <2>1. /\ goal_handle_ \in acked /\ status[goal_handle_] \notin {"unknown", "executing"}
        /\ future_goal_handle_ = None => goal_handle_ = sent
    BY <1>4 DEF NothingToCancel, NodeInv, PlaceInv, LastGoalInv, HandleInv
  <2>2. TypeInv'
    BY <1>4 DEF NothingToCancel, TypeInv
  <2>3. PlaceInv' /\ LastGoalInv' /\ HandleInv'
    BY <1>4 DEF NothingToCancel, NodeInv, PlaceInv, LastGoalInv, HandleInv
  <2>4. RestInv'
    BY <1>4, <2>1 DEF NothingToCancel, RestInv
  <2> QED BY <2>2, <2>3, <2>4 DEF NodeInv
<1>5. CASE HaltReturns
  <2>1. /\ goal_handle_ \in cancels
        /\ future_goal_handle_ = None => goal_handle_ = sent
    BY <1>5 DEF HaltReturns, NodeInv, PlaceInv, LastGoalInv
  <2>2. TypeInv'
    BY <1>5 DEF HaltReturns, TypeInv
  <2>3. PlaceInv' /\ LastGoalInv' /\ HandleInv'
    BY <1>5 DEF HaltReturns, NodeInv, PlaceInv, LastGoalInv, HandleInv
  <2>4. RestInv'
    BY <1>5, <2>1 DEF HaltReturns, RestInv
  <2> QED BY <2>2, <2>3, <2>4 DEF NodeInv
<1> QED BY <1>1, <1>2, <1>3, <1>4, <1>5 DEF Halt

-----------------------------------------------------------------------------
LEMMA NodeSound == Spec => [](TypeInv /\ NodeInv)
<1>1. TypeInv /\ NodeInv /\ [Next]_vars => (TypeInv /\ NodeInv)'
  <2> SUFFICES ASSUME TypeInv, NodeInv, [Next]_vars PROVE TypeInv' /\ NodeInv'
    OBVIOUS
  <2>1. CASE Next
    BY <2>1, TickKeeps, HaltKeeps, DeliveriesKeep, ServerKeeps DEF Next, ServerStep
  <2>2. CASE UNCHANGED vars
    BY <2>2
    DEF vars, handleVars, resultVars, networkVars, TypeInv, NodeInv, PlaceInv, LastGoalInv,
        HandleInv, RestInv, Finished
  <2> QED BY <2>1, <2>2
<1> QED BY <1>1, NodeInit, PTL DEF Spec

(* goal_handle_ is not null where the result callback and the loop of      *)
(* tick() use it without a check, however late the results of older goals  *)
(* come (bt_action_node.hpp:247, 383).                                     *)
THEOREM HandleThere == Spec => []HandleNeverNull
<1>1. NodeInv => HandleNeverNull
  BY DEF NodeInv, PlaceInv, HandleNeverNull
<1> QED BY <1>1, NodeSound, PTL

(* What ends a tick is the result of the last goal sent, never that of a   *)
(* goal from before an update, a timeout or a halt                         *)
(* (bt_action_node.hpp:370-387).                                           *)
THEOREM ResultOfLastGoal == Spec => []ResultIsOfLastGoal
<1>1. NodeInv => ResultIsOfLastGoal
  BY DEF NodeInv, PlaceInv, LastGoalInv, ResultIsOfLastGoal
<1> QED BY <1>1, NodeSound, PTL

(* halt() leaves no acknowledged goal running behind the tree without      *)
(* having asked for its cancellation (bt_action_node.hpp:310-362).         *)
THEOREM HaltLeavesNothing == Spec => []HaltCancels
<1>1. NodeInv => HaltCancels
  BY DEF NodeInv, RestInv, HaltCancels
<1> QED BY <1>1, NodeSound, PTL

=============================================================================
