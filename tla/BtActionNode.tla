---------------------------- MODULE BtActionNode ----------------------------
(***************************************************************************)
(* nav2_behavior_tree::BtActionNode: the behavior tree's side of an action *)
(* of a nav2 server.  The tree's thread ticks and halts the node, and only *)
(* inside these calls, while it spins the node's own executor, do the      *)
(* answers of the server reach it: so a tick or a halt is a row of steps,  *)
(* and answers are delivered between them, in any order and as late as the *)
(* network likes.  The server is any that keeps the promise of ActionGoals *)
(* (SimpleActionServer does).  The parent resets a finished node before it *)
(* ticks it again (BehaviorTree!TickedFresh).                              *)
(***************************************************************************)
EXTENDS Naturals

CONSTANT MaxGoals          \* bound: goals that the node sends

ASSUME NodeAssumption == MaxGoals \in Nat \ {0}

Goal == 1 .. MaxGoals
None == 0                  \* nullptr

VARIABLES
  status,                  \* the server's goals (ActionGoals)
  node,                    \* status() of the tree node
  at,                      \* where tick() or halt() is, or "out"
  goal_handle_,
  future_goal_handle_,     \* the goal whose acknowledgement is awaited
  goal_result_available_, goal_updated_,
  result_,                 \* the goal that result_ belongs to
  sent,                    \* goals sent so far
  acked,                   \* goals whose acknowledgement has arrived
  delivered,               \* goals whose result has arrived
  known,                   \* per goal, the status that its handle shows
  cancels,                 \* goals that the node has asked to cancel
  abandoned                \* history: goals whose acknowledgement timed out

handleVars == <<goal_handle_, future_goal_handle_>>
resultVars == <<goal_result_available_, result_>>
networkVars == <<acked, delivered, known>>
vars == <<status, node, at, handleVars, resultVars, goal_updated_, sent,
          networkVars, cancels, abandoned>>

Server == INSTANCE ActionGoals WITH MaxGoals <- MaxGoals, status <- status

Finished(g) == status[g] \in {"succeeded", "aborted", "canceled"}

Init ==
  /\ Server!Init
  /\ node = "IDLE" /\ at = "out"
  /\ goal_handle_ = None /\ future_goal_handle_ = None
  /\ goal_result_available_ = FALSE /\ result_ = None
  /\ goal_updated_ = FALSE
  /\ sent = 0
  /\ acked = {} /\ delivered = {}
  /\ known = [g \in Goal |-> "unknown"]
  /\ cancels = {} /\ abandoned = {}

-----------------------------------------------------------------------------
(* What the executor delivers while it is spun.                            *)

Spinning ==
  \/ at \in {"await", "awaitUpdate"} /\ future_goal_handle_ \notin acked
  \/ at \in {"spin", "haltSpin", "canceling"}

(* The client then asks for the goal's result.                             *)
DeliverAck(g) ==
  /\ Spinning
  /\ g <= sent /\ g \notin acked /\ status[g] # "unknown"
  /\ acked' = acked \cup {g}
  /\ known' = [known EXCEPT ![g] = IF status[g] = "rejected" THEN @ ELSE "executing"]
  /\ UNCHANGED <<status, node, at, handleVars, resultVars, goal_updated_, sent,
                 delivered, cancels, abandoned>>

DeliverStatus(g) ==
  /\ Spinning
  /\ g \in acked /\ status[g] # "rejected" /\ known[g] # status[g]
  /\ known' = [known EXCEPT ![g] = status[g]]
  /\ UNCHANGED <<status, node, at, handleVars, resultVars, goal_updated_, sent,
                 acked, delivered, cancels, abandoned>>

(* The result callback.                                                    *)
UseResultOfAnyGoal(g) ==
  IF future_goal_handle_ # None
  THEN UNCHANGED <<node, resultVars>>
  ELSE /\ goal_result_available_' = TRUE
       /\ result_' = g
       /\ UNCHANGED node

UseResultAnyTime(g) ==
  /\ node' = IF goal_handle_ = None THEN "CRASHED" ELSE node
  /\ IF goal_handle_ = g
     THEN goal_result_available_' = TRUE /\ result_' = g
     ELSE UNCHANGED resultVars

UseResult(g) ==
  IF future_goal_handle_ # None
  THEN UNCHANGED <<node, resultVars>>
  ELSE /\ node' = IF goal_handle_ = None THEN "CRASHED" ELSE node
       /\ IF goal_handle_ = g
          THEN goal_result_available_' = TRUE /\ result_' = g
          ELSE UNCHANGED resultVars

DeliverResult(g) ==
  /\ Spinning
  /\ g \in acked \ delivered /\ Finished(g)
  /\ delivered' = delivered \cup {g}
  /\ known' = [known EXCEPT ![g] = status[g]]
  /\ UseResult(g)
  /\ UNCHANGED <<status, at, handleVars, goal_updated_, sent, acked, cancels,
                 abandoned>>

-----------------------------------------------------------------------------
(* tick().                                                                 *)

Leave(s) == node' = s /\ at' = "out"

send_new_goal ==
  /\ sent < MaxGoals
  /\ sent' = sent + 1
  /\ future_goal_handle_' = sent + 1
  /\ goal_result_available_' = FALSE

FirstTick ==
  /\ at = "out" /\ node = "IDLE"
  /\ send_new_goal
  /\ result_' = None
  /\ node' = "RUNNING" /\ at' = "await"
  /\ UNCHANGED <<status, goal_handle_, goal_updated_, networkVars, cancels,
                 abandoned>>

(* on_tick() decides not to send a goal.                                   *)
TickWithoutGoal ==
  /\ at = "out" /\ node = "IDLE"
  /\ result_' = None
  /\ Leave("FAILURE")
  /\ UNCHANGED <<status, handleVars, goal_result_available_, goal_updated_, sent,
                 networkVars, cancels, abandoned>>

NextTick ==
  /\ at = "out" /\ node = "RUNNING"
  /\ at' = IF future_goal_handle_ # None THEN "await" ELSE "loop"
  /\ UNCHANGED <<status, node, handleVars, resultVars, goal_updated_, sent,
                 networkVars, cancels, abandoned>>

KeepFuture ==
  /\ at \in {"await", "awaitUpdate"}
  /\ future_goal_handle_ \in acked /\ status[future_goal_handle_] # "rejected"
  /\ goal_handle_' = future_goal_handle_
  /\ at' = IF at = "await" THEN "loop" ELSE "spin"
  /\ UNCHANGED <<status, node, future_goal_handle_, resultVars, goal_updated_,
                 sent, networkVars, cancels, abandoned>>

Acknowledged ==
  /\ at \in {"await", "awaitUpdate"}
  /\ future_goal_handle_ \in acked /\ status[future_goal_handle_] # "rejected"
  /\ goal_handle_' = future_goal_handle_
  /\ future_goal_handle_' = None
  /\ at' = IF at = "await" THEN "loop" ELSE "spin"
  /\ UNCHANGED <<status, node, resultVars, goal_updated_, sent, networkVars,
                 cancels, abandoned>>

Rejected ==
  /\ at \in {"await", "awaitUpdate"}
  /\ future_goal_handle_ \in acked /\ status[future_goal_handle_] = "rejected"
  /\ goal_handle_' = None
  /\ future_goal_handle_' = None
  /\ Leave("FAILURE")
  /\ UNCHANGED <<status, resultVars, goal_updated_, sent, networkVars, cancels,
                 abandoned>>

StillWaiting ==
  /\ at \in {"await", "awaitUpdate"}
  /\ future_goal_handle_ \notin acked
  /\ Leave("RUNNING")
  /\ UNCHANGED <<status, handleVars, resultVars, goal_updated_, sent, networkVars,
                 cancels, abandoned>>

(* server_timeout_ has passed.                                             *)
TimedOut ==
  /\ at \in {"await", "awaitUpdate"}
  /\ future_goal_handle_ \notin acked
  /\ future_goal_handle_' = None
  /\ abandoned' = abandoned \cup {future_goal_handle_}
  /\ Leave("FAILURE")
  /\ UNCHANGED <<status, goal_handle_, resultVars, goal_updated_, sent,
                 networkVars, cancels>>

(* on_wait_for_result() may ask for an update of the goal, which waits     *)
(* until the goal is executing.                                            *)
Resend(update) ==
  /\ update /\ sent < MaxGoals
  /\ goal_handle_ # None /\ known[goal_handle_] = "executing"

Wait ==
  /\ at = "loop" /\ ~goal_result_available_
  /\ node' = IF goal_handle_ = None THEN "CRASHED" ELSE node
  /\ \E update \in {goal_updated_, TRUE} :
       /\ goal_updated_' = (update /\ ~Resend(update))
       /\ IF Resend(update)
          THEN send_new_goal /\ at' = "awaitUpdate"
          ELSE /\ at' = "spin"
               /\ UNCHANGED <<future_goal_handle_, sent, goal_result_available_>>
  /\ UNCHANGED <<status, goal_handle_, result_, networkVars, cancels, abandoned>>

NoResultYet ==
  /\ at = "spin" /\ ~goal_result_available_
  /\ node # "CRASHED"
  /\ Leave("RUNNING")
  /\ UNCHANGED <<status, handleVars, resultVars, goal_updated_, sent, networkVars,
                 cancels, abandoned>>

(* on_success and on_cancelled give SUCCESS, on_aborted gives FAILURE.     *)
ResultArrived ==
  /\ at \in {"loop", "spin"} /\ goal_result_available_
  /\ Leave(IF status[result_] = "aborted" THEN "FAILURE" ELSE "SUCCESS")
  /\ goal_handle_' = None
  /\ UNCHANGED <<status, future_goal_handle_, resultVars, goal_updated_, sent,
                 networkVars, cancels, abandoned>>

-----------------------------------------------------------------------------
(* halt(): cancels the goal of a running node, if its handle is there and  *)
(* shows it executing, and waits for the result, but not forever.          *)

HaltNothing ==
  /\ at = "out" /\ node # "CRASHED"
  /\ ~(node = "RUNNING" /\ goal_handle_ # None)
  /\ Leave("IDLE")
  /\ UNCHANGED <<status, handleVars, resultVars, goal_updated_, sent, networkVars,
                 cancels, abandoned>>

HaltWithoutCancel ==
  /\ at = "out" /\ node = "RUNNING" /\ goal_handle_ # None
  /\ Leave("IDLE")
  /\ UNCHANGED <<status, handleVars, resultVars, goal_updated_, sent, networkVars,
                 cancels, abandoned>>

HaltRunning ==
  /\ at = "out" /\ node = "RUNNING" /\ goal_handle_ # None
  /\ at' = "haltSpin"
  /\ UNCHANGED <<status, node, handleVars, resultVars, goal_updated_, sent,
                 networkVars, cancels, abandoned>>

CancelGoal ==
  /\ at = "haltSpin" /\ node # "CRASHED"
  /\ known[goal_handle_] = "executing"
  /\ cancels' = cancels \cup {goal_handle_}
  /\ at' = "canceling"
  /\ UNCHANGED <<status, node, handleVars, resultVars, goal_updated_, sent,
                 networkVars, abandoned>>

NothingToCancel ==
  /\ at = "haltSpin" /\ node # "CRASHED"
  /\ known[goal_handle_] # "executing"
  /\ Leave("IDLE")
  /\ UNCHANGED <<status, handleVars, resultVars, goal_updated_, sent, networkVars,
                 cancels, abandoned>>

HaltReturns ==
  /\ at = "canceling" /\ node # "CRASHED"
  /\ Leave("IDLE")
  /\ UNCHANGED <<status, handleVars, resultVars, goal_updated_, sent, networkVars,
                 cancels, abandoned>>

-----------------------------------------------------------------------------
(* The server takes up goals, cancels those it is asked to, and ends them. *)
ServerTakesUp(g) ==
  /\ g <= sent
  /\ Server!Accept(g) \/ Server!Reject(g)
  /\ UNCHANGED <<node, at, handleVars, resultVars, goal_updated_, sent,
                 networkVars, cancels, abandoned>>

ServerCancels(g) ==
  /\ g \in cancels
  /\ Server!Cancel(g)
  /\ UNCHANGED <<node, at, handleVars, resultVars, goal_updated_, sent,
                 networkVars, cancels, abandoned>>

ServerEnds(g) ==
  /\ Server!Succeed(g) \/ Server!GiveUp({g})
  /\ UNCHANGED <<node, at, handleVars, resultVars, goal_updated_, sent,
                 networkVars, cancels, abandoned>>

-----------------------------------------------------------------------------
Tick ==
  \/ FirstTick \/ TickWithoutGoal \/ NextTick
  \/ Acknowledged \/ Rejected \/ StillWaiting \/ TimedOut
  \/ Wait \/ NoResultYet \/ ResultArrived

Halt == HaltNothing \/ HaltRunning \/ CancelGoal \/ NothingToCancel \/ HaltReturns

Next ==
  \/ Tick \/ Halt
  \/ \E g \in Goal :
       \/ DeliverAck(g) \/ DeliverStatus(g) \/ DeliverResult(g)
       \/ ServerTakesUp(g) \/ ServerCancels(g) \/ ServerEnds(g)

Spec == Init /\ [][Next]_vars

(* The tree ticks a running node again and again and its calls return;     *)
(* what has arrived is delivered when the executor is spun often enough,   *)
(* and the clock reaches server_timeout_.                                  *)
FairSpec ==
  /\ Spec
  /\ WF_vars(NextTick \/ Acknowledged \/ Rejected \/ StillWaiting \/ Wait
             \/ NoResultYet \/ ResultArrived
             \/ CancelGoal \/ NothingToCancel \/ HaltReturns)
  /\ SF_vars(TimedOut)
  /\ SF_vars(\E g \in Goal : DeliverResult(g))

-----------------------------------------------------------------------------
(* goal_handle_ is used without a check by the result callback, which late *)
(* results of older goals call too, and by the loop of tick(): it is never *)
(* null there (bt_action_node.hpp:247, 383).                               *)
HandleNeverNull == node # "CRASHED"

(* What ends a tick is the result of the last goal that the node has sent, *)
(* not that of a goal from before an update, a timeout or a halt           *)
(* (bt_action_node.hpp:370-387).                                           *)
ResultIsOfLastGoal ==
  at \in {"loop", "spin"} /\ goal_result_available_ => result_ = sent

(* halt() leaves no goal running behind the tree: once the node is idle,   *)
(* its last goal is not executing or its cancellation has been asked for,  *)
(* unless the goal was never acknowledged in time                          *)
(* (bt_action_node.hpp:310-362).                                           *)
HaltCancels ==
  /\ node = "IDLE" /\ sent # 0
  /\ future_goal_handle_ = None /\ sent \notin abandoned
  => status[sent] # "executing" \/ sent \in cancels

(* A result is not lost: when the server has ended the goal on which a     *)
(* running node waits, the node stops running, or turns to an update of    *)
(* the goal that it sent before it knew (bt_action_node.hpp:216-271).      *)
ResultReachesNode ==
  \A g \in Goal :
    (node = "RUNNING" /\ goal_handle_ = g /\ Finished(g))
      ~> (node # "RUNNING" \/ goal_handle_ # g)

=============================================================================
