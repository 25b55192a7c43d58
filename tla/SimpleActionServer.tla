------------------------- MODULE SimpleActionServer -------------------------
(***************************************************************************)
(* nav2_util::SimpleActionServer: the base of every nav2 task server.      *)
(* Three threads meet on update_mutex_: the action server's own executor   *)
(* (spin_thread_ is true), which runs handle_goal, handle_cancel and       *)
(* handle_accepted; the worker of std::async, which runs work() and in it  *)
(* the server's execute callback; and the node's executor, which calls     *)
(* activate() and deactivate().  A step is what one thread does under the  *)
(* mutex, or between two other accesses to what the threads share.  The    *)
(* execute callback is any program: it makes the public calls in any order *)
(* and then returns or throws.  rclcpp::ok() stays true.                   *)
(***************************************************************************)
EXTENDS Naturals

CONSTANTS
  MaxGoals,                \* bound: goals of one behaviour
  MaxActivations           \* bound: calls of activate()

ASSUME ServerAssumption == MaxGoals \in Nat \ {0} /\ MaxActivations \in Nat \ {0}

Goal == 1 .. MaxGoals      \* goal handles, in the order of their acceptance
NoHandle == 0              \* nullptr

VARIABLES
  server_active_, stop_execution_, preempt_requested_,
  current_handle_, pending_handle_,
  status,                  \* the state of each goal handle (rclcpp_action)
  incoming,                \* accepted by handle_goal, not yet handed over
  worker,                  \* the thread behind execution_future_
  deactivating,            \* deactivate() is waiting for the worker
  activations

flags == <<server_active_, stop_execution_>>
handles == <<preempt_requested_, current_handle_, pending_handle_>>
vars == <<flags, handles, status, incoming, worker, deactivating, activations>>

(* "none": execution_future_ is not valid; "ready": work() has returned;   *)
(* "exiting": it leaves the loop, and the future is not yet ready.         *)
Running == {"loop", "callback", "publishing", "returned", "exiting"}

Init ==
  /\ server_active_ = FALSE /\ stop_execution_ = FALSE
  /\ preempt_requested_ = FALSE
  /\ current_handle_ = NoHandle /\ pending_handle_ = NoHandle
  /\ status = [g \in Goal |-> "unknown"]
  /\ incoming = NoHandle
  /\ worker = "none"
  /\ deactivating = FALSE
  /\ activations = 0

is_active(h) == h # NoHandle /\ status[h] \in {"executing", "canceling"}
is_running == worker \in Running

-----------------------------------------------------------------------------
(* The goal handles.                                                       *)

SwappedResults(st, h) ==
  IF is_active(h)
  THEN [st EXCEPT ![h] = IF st[h] = "canceling" THEN "aborted" ELSE "canceled"]
  ELSE st

Terminated(st, h) ==
  IF is_active(h)
  THEN [st EXCEPT ![h] = IF st[h] = "canceling" THEN "canceled" ELSE "aborted"]
  ELSE st

Released(h) == IF is_active(h) THEN NoHandle ELSE h

TerminateAllKeepsPreempt ==
  /\ status' = Terminated(Terminated(status, current_handle_), pending_handle_)
  /\ current_handle_' = Released(current_handle_)
  /\ pending_handle_' = Released(pending_handle_)
  /\ UNCHANGED preempt_requested_

terminate_all ==
  /\ status' = Terminated(Terminated(status, current_handle_), pending_handle_)
  /\ current_handle_' = Released(current_handle_)
  /\ pending_handle_' = Released(pending_handle_)
  /\ preempt_requested_' = FALSE

terminate_current ==
  /\ status' = Terminated(status, current_handle_)
  /\ current_handle_' = Released(current_handle_)
  /\ UNCHANGED <<pending_handle_, preempt_requested_>>

terminate_pending_goal ==
  /\ is_active(pending_handle_)
  /\ status' = Terminated(status, pending_handle_)
  /\ pending_handle_' = Released(pending_handle_)
  /\ preempt_requested_' = FALSE
  /\ UNCHANGED current_handle_

succeeded_current ==
  /\ is_active(current_handle_)
  /\ status' = [status EXCEPT ![current_handle_] = "succeeded"]
  /\ current_handle_' = NoHandle
  /\ UNCHANGED <<pending_handle_, preempt_requested_>>

(* The previous goal is aborted, also when its client wanted it canceled.  *)
AcceptPending(st, cur) ==
  /\ status' = IF cur # NoHandle /\ cur # pending_handle_
               THEN [st EXCEPT ![cur] = "aborted"] ELSE st
  /\ current_handle_' = pending_handle_
  /\ pending_handle_' = NoHandle
  /\ preempt_requested_' = FALSE

accept_pending_goal ==
  /\ is_active(pending_handle_)
  /\ AcceptPending(status, IF is_active(current_handle_) THEN current_handle_
                                                         ELSE NoHandle)

-----------------------------------------------------------------------------
(* The action server's executor.                                           *)

Arrives(g) ==
  /\ incoming = NoHandle
  /\ status[g] = "unknown" /\ \A h \in 1 .. (g - 1) : status[h] # "unknown"

RejectGoal(g) ==
  /\ Arrives(g)
  /\ ~server_active_
  /\ status' = [status EXCEPT ![g] = "rejected"]
  /\ UNCHANGED <<flags, handles, incoming, worker, deactivating, activations>>

AcceptAndDefer(g) ==
  /\ Arrives(g)
  /\ server_active_
  /\ incoming' = g
  /\ status' = [status EXCEPT ![g] = "accepted"]
  /\ UNCHANGED <<flags, handles, worker, deactivating, activations>>

HandleGoal(g) ==
  /\ Arrives(g)
  /\ server_active_
  /\ incoming' = g
  /\ status' = [status EXCEPT ![g] = "executing"]
  /\ UNCHANGED <<flags, handles, worker, deactivating, activations>>

HandleCancel(g) ==
  /\ incoming = NoHandle
  /\ is_active(g) /\ status[g] = "executing"
  /\ status' = [status EXCEPT ![g] = "canceling"]
  /\ UNCHANGED <<flags, handles, incoming, worker, deactivating, activations>>

ReplaceSilently ==
  /\ is_active(current_handle_) \/ is_running
  /\ pending_handle_' = incoming
  /\ preempt_requested_' = TRUE
  /\ UNCHANGED <<status, current_handle_, worker>>

DropCurrentToo ==
  /\ is_active(current_handle_) \/ is_running
  /\ status' = Terminated(Terminated(status, pending_handle_), current_handle_)
  /\ pending_handle_' = incoming
  /\ preempt_requested_' = TRUE
  /\ current_handle_' = Released(current_handle_)
  /\ UNCHANGED worker

(* A goal that arrives while another one is worked on, or while its worker *)
(* has not quite ended, waits in the pending slot.                         *)
MakePending ==
  /\ is_active(current_handle_) \/ is_running
  /\ status' = Terminated(status, pending_handle_)
  /\ pending_handle_' = incoming
  /\ preempt_requested_' = TRUE
  /\ UNCHANGED <<current_handle_, worker>>

KeepForgotten ==
  /\ ~(is_active(current_handle_) \/ is_running)
  /\ current_handle_' = incoming
  /\ worker' = "loop"
  /\ UNCHANGED <<status, pending_handle_, preempt_requested_>>

MakeCurrent ==
  /\ ~(is_active(current_handle_) \/ is_running)
  /\ status' = Terminated(status, pending_handle_)
  /\ pending_handle_' = Released(pending_handle_)
  /\ preempt_requested_' = (preempt_requested_ /\ ~is_active(pending_handle_))
  /\ current_handle_' = incoming
  /\ worker' = "loop"

HandleAccepted ==
  /\ incoming # NoHandle
  /\ MakePending \/ MakeCurrent
  /\ incoming' = NoHandle
  /\ UNCHANGED <<flags, deactivating, activations>>

-----------------------------------------------------------------------------
(* work(), on the worker.                                                  *)

LoopGuard ==
  /\ worker = "loop"
  /\ worker' = IF ~stop_execution_ /\ is_active(current_handle_)
               THEN "callback" ELSE "exiting"
  /\ UNCHANGED <<flags, handles, status, incoming, deactivating, activations>>

CallbackStep ==
  /\ worker = "callback"
  /\ \/ terminate_all \/ terminate_current \/ terminate_pending_goal
     \/ succeeded_current \/ accept_pending_goal
  /\ UNCHANGED <<flags, worker, incoming, deactivating, activations>>

(* publish_feedback checks the current handle, and then uses it, without   *)
(* the mutex.                                                              *)
StartFeedback ==
  /\ worker = "callback" /\ is_active(current_handle_)
  /\ worker' = "publishing"
  /\ UNCHANGED <<flags, handles, status, incoming, deactivating, activations>>

PublishFeedback ==
  /\ worker = "publishing"
  /\ worker' = "callback"
  /\ UNCHANGED <<flags, handles, status, incoming, deactivating, activations>>

CallbackReturns ==
  /\ worker = "callback"
  /\ worker' = "returned"
  /\ UNCHANGED <<flags, handles, status, incoming, deactivating, activations>>

CallbackThrows ==
  /\ worker = "callback"
  /\ terminate_all
  /\ worker' = "exiting"
  /\ UNCHANGED <<flags, incoming, deactivating, activations>>

(* After the callback, under the mutex: stop, take the pending goal, or    *)
(* leave the loop.                                                         *)
StopWork ==
  /\ stop_execution_
  /\ terminate_all
  /\ worker' = "exiting"

TakePending ==
  /\ ~stop_execution_ /\ is_active(pending_handle_)
  /\ AcceptPending(Terminated(status, current_handle_), NoHandle)
  /\ worker' = "loop"

LeaveCurrent ==
  /\ ~stop_execution_ /\ ~is_active(pending_handle_)
  /\ worker' = "exiting"
  /\ UNCHANGED <<status, handles>>

DoneWork ==
  /\ ~stop_execution_ /\ ~is_active(pending_handle_)
  /\ terminate_current
  /\ worker' = "exiting"

AfterCallback ==
  /\ worker = "returned"
  /\ StopWork \/ TakePending \/ DoneWork
  /\ UNCHANGED <<flags, incoming, deactivating, activations>>

WorkerReady ==
  /\ worker = "exiting"
  /\ worker' = "ready"
  /\ UNCHANGED <<flags, handles, status, incoming, deactivating, activations>>

-----------------------------------------------------------------------------
(* The node's executor.                                                    *)

Activate ==
  /\ ~server_active_ /\ ~deactivating
  /\ activations < MaxActivations
  /\ activations' = activations + 1
  /\ server_active_' = TRUE /\ stop_execution_' = FALSE
  /\ UNCHANGED <<handles, status, incoming, worker, deactivating>>

Deactivate ==
  /\ server_active_ /\ ~deactivating
  /\ server_active_' = FALSE /\ stop_execution_' = TRUE
  /\ deactivating' = TRUE
  /\ UNCHANGED <<handles, status, incoming, worker, activations>>

(* server_timeout_ has passed and the worker still runs.                   *)
MissedDeadline ==
  /\ deactivating /\ is_running
  /\ terminate_all
  /\ UNCHANGED <<flags, incoming, worker, deactivating, activations>>

ReturnAtOnce ==
  /\ deactivating
  /\ deactivating' = FALSE
  /\ UNCHANGED <<flags, handles, status, incoming, worker, activations>>

AwaitInvalidFuture ==
  /\ deactivating /\ worker = "ready"
  /\ deactivating' = FALSE
  /\ UNCHANGED <<flags, handles, status, incoming, worker, activations>>

Deactivated ==
  /\ deactivating /\ ~is_running
  /\ deactivating' = FALSE
  /\ UNCHANGED <<flags, handles, status, incoming, worker, activations>>

-----------------------------------------------------------------------------
Next ==
  \/ \E g \in Goal : HandleGoal(g) \/ RejectGoal(g) \/ HandleCancel(g)
  \/ HandleAccepted
  \/ LoopGuard \/ CallbackStep \/ StartFeedback \/ PublishFeedback
  \/ CallbackReturns \/ CallbackThrows \/ AfterCallback \/ WorkerReady
  \/ Activate \/ Deactivate \/ MissedDeadline \/ Deactivated

Spec == Init /\ [][Next]_vars

(* The threads run, and the execute callback, whatever it does, returns in *)
(* the end.                                                                *)
FairSpec ==
  /\ Spec
  /\ WF_vars(HandleAccepted)
  /\ WF_vars(LoopGuard) /\ WF_vars(PublishFeedback)
  /\ WF_vars(AfterCallback) /\ WF_vars(WorkerReady)
  /\ SF_vars(CallbackReturns \/ CallbackThrows)
  /\ WF_vars(Deactivated)

-----------------------------------------------------------------------------
(* Every variable has its type.                                            *)
TypeOK ==
  /\ server_active_ \in BOOLEAN /\ stop_execution_ \in BOOLEAN
  /\ preempt_requested_ \in BOOLEAN
  /\ current_handle_ \in Goal \cup {NoHandle}
  /\ pending_handle_ \in Goal \cup {NoHandle}
  /\ incoming \in Goal \cup {NoHandle}
  /\ status \in [Goal -> {"unknown", "rejected", "executing", "canceling",
                          "succeeded", "aborted", "canceled"}]
  /\ worker \in Running \cup {"none", "ready"}
  /\ deactivating \in BOOLEAN
  /\ activations \in 0 .. MaxActivations

(* No handle is dropped while its goal waits for a result, and no handle   *)
(* is kept whose goal has one: the goals without a result are exactly      *)
(* those in the two slots and the one on its way to handle_accepted        *)
(* (simple_action_server.hpp:200-234, 363-402, 474-511).                   *)
ActiveIsHeld ==
  {g \in Goal : is_active(g)}
    = {current_handle_, pending_handle_, incoming} \ {NoHandle}

(* The slots keep the order of arrival: what waits is newer than what is   *)
(* worked on (simple_action_server.hpp:205-227).                           *)
OldestFirst ==
  /\ pending_handle_ # NoHandle => current_handle_ < pending_handle_
  /\ incoming # NoHandle => pending_handle_ < incoming

(* Whoever waits in the pending slot has been announced to the execute     *)
(* callback: is_preempt_requested() is true exactly then, through every    *)
(* cancel, deadline and hand-over (simple_action_server.hpp:215, 221, 377, *)
(* 399, 481).                                                              *)
PreemptAnnounced == preempt_requested_ <=> pending_handle_ # NoHandle

(* Once deactivate() has returned no execute callback runs, until the      *)
(* server is activated again, although a goal accepted just before may     *)
(* start a worker afterwards (simple_action_server.hpp:294-326).           *)
QuietWhenInactive ==
  ~server_active_ /\ ~deactivating
    => worker \notin {"callback", "publishing", "returned"}

(* The goal that publish_feedback has just found active is there when it   *)
(* uses it, unless deactivate() has run out of patience meanwhile          *)
(* (simple_action_server.hpp:517-525).                                     *)
FeedbackHasGoal ==
  worker = "publishing" /\ ~deactivating => current_handle_ # NoHandle

(* The server gives no goal a second result, none to a goal that it has    *)
(* not accepted, and success only in the order of arrival (ActionGoals).   *)
(* It may leave a goal without one: a goal that is handed over after       *)
(* deactivate() becomes the current one and its worker ends at once        *)
(* (simple_action_server.hpp:205-241).                                     *)
Goals == INSTANCE ActionGoals WITH MaxGoals <- MaxGoals, status <- status
GoalsSpec == Goals!Spec

(* A goal in the hands of the execute callback gets its result, and so     *)
(* does one that waits behind it, unless the server is deactivated         *)
(* (simple_action_server.hpp:239-279).                                     *)
CallbackServes ==
  \A g \in Goal :
    /\ (worker = "callback" /\ current_handle_ = g) ~> ~is_active(g)
    /\ (worker = "callback" /\ pending_handle_ = g)
         ~> (~is_active(g) \/ ~server_active_)

(* deactivate() returns (simple_action_server.hpp:315-323).                *)
DeactivateReturns == deactivating ~> ~deactivating

=============================================================================
