---------------------- MODULE SimpleActionServerProofs ----------------------
(***************************************************************************)
(* Theorems about SimpleActionServer for every number of goals and         *)
(* activations: its safety invariants, and that it implements ActionGoals. *)
(***************************************************************************)
EXTENDS SimpleActionServer, TLAPS

(* Goals get their first status in the order of their numbers, so the one  *)
(* on its way to handle_accepted is newer than both slots; and only an     *)
(* activated server has a worker or a goal, so a server that is not active *)
(* has been told to stop.                                                  *)
Numbered ==
  /\ \A g, h \in Goal : h < g /\ status[g] # "unknown" => status[h] # "unknown"
  /\ incoming # NoHandle => current_handle_ < incoming

StopIsSet ==
  ~server_active_ => stop_execution_ \/ (worker = "none" /\ incoming = NoHandle)

(* The slots: the inductive core of the invariants about goals.            *)
SlotInv == ActiveIsHeld /\ OldestFirst /\ PreemptAnnounced /\ Numbered

-----------------------------------------------------------------------------
LEMMA GoalFacts == Goal \subseteq Nat /\ NoHandle \notin Goal /\ NoHandle = 0
  BY ServerAssumption DEF Goal, NoHandle

(* A goal without a result is in one of the three places.                  *)
LEMMA HeldFacts ==
  ASSUME TypeOK, SlotInv
  PROVE  /\ \A g \in Goal : is_active(g)
              <=> g \in {current_handle_, pending_handle_, incoming}
         /\ current_handle_ # NoHandle => is_active(current_handle_)
         /\ pending_handle_ # NoHandle => is_active(pending_handle_)
         /\ incoming # NoHandle => is_active(incoming)
<1>1. {g \in Goal : is_active(g)}
        = {current_handle_, pending_handle_, incoming} \ {NoHandle}
  BY DEF SlotInv, ActiveIsHeld
<1> QED BY <1>1, GoalFacts DEF TypeOK

(* So every handle in a slot is active, and releasing it empties the slot. *)
LEMMA ReleasedFacts ==
  ASSUME TypeOK, SlotInv
  PROVE  Released(current_handle_) = NoHandle /\ Released(pending_handle_) = NoHandle
  BY HeldFacts DEF Released, is_active

(* The effect of ending the goals in S: they have results, the others keep *)
(* their state.                                                            *)
GoalStatus ==
  {"unknown", "rejected", "executing", "canceling", "succeeded", "aborted", "canceled"}

Ended(S) ==
  /\ status' \in [Goal -> GoalStatus]
  /\ \A g \in S : status'[g] \in {"succeeded", "aborted", "canceled"}
  /\ \A g \in Goal \ S : status'[g] = status[g]

(* Ending goals of the slots and taking them out of the slots, or moving   *)
(* the pending goal up, keeps the invariant.                               *)
LEMMA EndingKeeps ==
  ASSUME TypeOK, SlotInv, NEW S \in SUBSET Goal, Ended(S),
         incoming' = incoming, incoming \notin S,
         \/ /\ current_handle_' = current_handle_ /\ pending_handle_' = NoHandle
            /\ S = {pending_handle_} \ {NoHandle}
            /\ preempt_requested_' = FALSE
         \/ /\ current_handle_' = NoHandle /\ pending_handle_' = pending_handle_
            /\ S = {current_handle_} \ {NoHandle}
            /\ preempt_requested_' = preempt_requested_
         \/ /\ current_handle_' = NoHandle /\ pending_handle_' = NoHandle
            /\ S = {current_handle_, pending_handle_} \ {NoHandle}
            /\ preempt_requested_' = FALSE
         \/ /\ current_handle_' = pending_handle_ /\ pending_handle_' = NoHandle
            /\ S = {current_handle_} \ {NoHandle}
            /\ preempt_requested_' = FALSE
  PROVE  SlotInv'
<1>1. \A g \in Goal : is_active(g)' <=> is_active(g) /\ g \notin S
  BY GoalFacts DEF is_active, Ended
<1>2. (\A g \in Goal : is_active(g)
              <=> g \in {current_handle_, pending_handle_, incoming})
  BY HeldFacts
<1>3. current_handle_ \in Nat /\ pending_handle_ \in Nat /\ incoming \in Nat
  BY GoalFacts DEF TypeOK
<1>4. /\ pending_handle_ # NoHandle => current_handle_ < pending_handle_
      /\ incoming # NoHandle => pending_handle_ < incoming
      /\ incoming # NoHandle => current_handle_ < incoming
  BY DEF SlotInv, OldestFirst, Numbered
<1>5. \A g \in Goal : g \in {current_handle_', pending_handle_', incoming'}
                        <=> g \in {current_handle_, pending_handle_, incoming} /\ g \notin S
  BY <1>3, <1>4, GoalFacts
<1>6. ActiveIsHeld'
  <2>1. {current_handle_', pending_handle_', incoming'} \ {NoHandle} \subseteq Goal
    BY DEF TypeOK
  <2>2. \A g \in Goal : is_active(g)' <=> g \in {current_handle_', pending_handle_', incoming'}
    BY <1>1, <1>2, <1>5
  <2> QED BY <2>1, <2>2, GoalFacts DEF ActiveIsHeld
<1>7. OldestFirst' /\ PreemptAnnounced'
  BY <1>3, <1>4, GoalFacts DEF OldestFirst, PreemptAnnounced, SlotInv
<1>8. Numbered'
  <2>1. \A g \in Goal : status[g] = "unknown" <=> status'[g] = "unknown"
    BY <1>2, <1>5, GoalFacts DEF Ended, is_active
  <2> QED BY <2>1, <1>3, <1>4, GoalFacts DEF Numbered, SlotInv
<1> QED BY <1>6, <1>7, <1>8 DEF SlotInv

(* Each operation on the slots ends some of their goals in that way.       *)
LEMMA SlotOperations ==
  ASSUME TypeOK, SlotInv, incoming' = incoming,
         \/ terminate_all \/ terminate_current \/ terminate_pending_goal
         \/ succeeded_current \/ accept_pending_goal
         \/ TakePending
  PROVE  /\ SlotInv'
         /\ status' \in [Goal -> GoalStatus]
         /\ current_handle_' \in Goal \cup {NoHandle}
         /\ pending_handle_' \in Goal \cup {NoHandle}
         /\ preempt_requested_' \in BOOLEAN
<1> DEFINE cur == {current_handle_} \ {NoHandle}
           pend == {pending_handle_} \ {NoHandle}
<1>1. /\ status \in [Goal -> GoalStatus]
      /\ cur \in SUBSET Goal /\ pend \in SUBSET Goal
      /\ current_handle_ \in Goal \cup {NoHandle}
      /\ pending_handle_ \in Goal \cup {NoHandle}
      /\ preempt_requested_ \in BOOLEAN
      /\ (cur \cap pend) = {}
  BY GoalFacts DEF TypeOK, GoalStatus, SlotInv, OldestFirst
<1>2. incoming \notin cur \cup pend
  BY GoalFacts DEF TypeOK, SlotInv, OldestFirst, Numbered
<1>3. /\ current_handle_ # NoHandle <=> is_active(current_handle_)
      /\ pending_handle_ # NoHandle <=> is_active(pending_handle_)
      /\ ~is_active(NoHandle)
  BY HeldFacts DEF is_active
<1>4. Released(current_handle_) = NoHandle /\ Released(pending_handle_) = NoHandle
  BY ReleasedFacts
<1> USE DEF Ended, GoalStatus
<1>5. CASE terminate_all
  <2>1. Ended(cur \cup pend)
    BY <1>1, <1>3, <1>5, GoalFacts DEF terminate_all, Terminated
  <2> DEFINE both == cur \cup pend
  <2>2. /\ both \in SUBSET Goal /\ incoming \notin both
        /\ both = {current_handle_, pending_handle_} \ {NoHandle}
    BY <1>1, <1>2
  <2>3. /\ current_handle_' = NoHandle /\ pending_handle_' = NoHandle
        /\ preempt_requested_' = FALSE
    BY <1>4, <1>5 DEF terminate_all
  <2>4. Ended(both) /\ status' \in [Goal -> GoalStatus]
    BY <2>1
  <2> HIDE DEF both, Ended
  <2>5. SlotInv'
    BY <2>2, <2>3, <2>4, EndingKeeps
  <2> QED BY <2>3, <2>4, <2>5
<1>6. CASE terminate_current
  <2>1. Ended(cur)
    BY <1>1, <1>3, <1>6, GoalFacts DEF terminate_current, Terminated
  <2> QED BY <1>1, <1>2, <1>4, <1>6, <2>1, EndingKeeps DEF terminate_current
<1>7. CASE terminate_pending_goal
  <2>1. Ended(pend)
    BY <1>1, <1>3, <1>7, GoalFacts DEF terminate_pending_goal, Terminated
  <2> QED BY <1>1, <1>2, <1>4, <1>7, <2>1, EndingKeeps DEF terminate_pending_goal
<1>8. CASE succeeded_current
  <2>1. Ended(cur)
    BY <1>1, <1>3, <1>8, GoalFacts DEF succeeded_current
  <2> QED BY <1>1, <1>2, <1>8, <2>1, EndingKeeps DEF succeeded_current
<1>9. CASE accept_pending_goal
  <2>1. Ended(cur)
    BY <1>1, <1>3, <1>9, GoalFacts DEF accept_pending_goal, AcceptPending
  <2> QED BY <1>1, <1>2, <1>9, <2>1, EndingKeeps DEF accept_pending_goal, AcceptPending
<1>10. CASE TakePending
  <2>1. Ended(cur)
    BY <1>1, <1>3, <1>10, GoalFacts DEF TakePending, AcceptPending, Terminated
  <2> QED BY <1>1, <1>2, <1>10, <2>1, EndingKeeps DEF TakePending, AcceptPending
<1> QED BY <1>5, <1>6, <1>7, <1>8, <1>9, <1>10

LEMMA InitInv == Init => TypeOK /\ SlotInv /\ StopIsSet
<1> SUFFICES ASSUME Init PROVE TypeOK /\ SlotInv /\ StopIsSet
  OBVIOUS
<1>1. TypeOK
  <2>1. activations \in 0 .. MaxActivations
    BY ServerAssumption DEF Init
  <2>2. status \in [Goal -> {"unknown", "rejected", "executing", "canceling",
                            "succeeded", "aborted", "canceled"}]
    BY DEF Init
  <2> QED BY <2>1, <2>2 DEF Init, TypeOK
<1>2. SlotInv
  <2>1. \A g \in Goal : status[g] = "unknown"
    BY DEF Init
  <2>2. \A g \in Goal : ~is_active(g)
    BY <2>1 DEF is_active
  <2>3. ActiveIsHeld
    BY <2>2 DEF ActiveIsHeld, Init
  <2> QED BY <2>1, <2>3 DEF Init, SlotInv, OldestFirst, PreemptAnnounced, Numbered
<1>3. StopIsSet
  BY DEF Init, StopIsSet
<1> QED BY <1>1, <1>2, <1>3

(* A goal whose first status is set keeps the invariant: it is newer than  *)
(* all that are held.                                                      *)
LEMMA ArrivalKeeps ==
  ASSUME TypeOK, SlotInv, NEW g \in Goal, HandleGoal(g) \/ RejectGoal(g)
  PROVE  SlotInv'
<1>1. /\ incoming = NoHandle
      /\ status[g] = "unknown"
      /\ \A h \in Goal : h < g => status[h] # "unknown"
  BY GoalFacts, ServerAssumption DEF HandleGoal, RejectGoal, Arrives, Goal
<1>2. UNCHANGED handles
  BY DEF HandleGoal, RejectGoal
<1>3. /\ current_handle_ \in Nat /\ pending_handle_ \in Nat
      /\ g \in Nat /\ g # NoHandle
  BY GoalFacts DEF TypeOK
<1>4. current_handle_ < g /\ pending_handle_ < g
  <2>1. ASSUME NEW h \in {current_handle_, pending_handle_} PROVE h < g
    <3>1. CASE h = NoHandle
      BY <3>1, <1>3, GoalFacts
    <3>2. CASE h # NoHandle
      <4>1. h \in Goal /\ status[h] # "unknown"
        BY <3>2, HeldFacts DEF TypeOK, is_active
      <4> QED BY <4>1, <1>1, <1>3, GoalFacts DEF SlotInv, Numbered
    <3> QED BY <3>1, <3>2
  <2> QED BY <2>1
<1>5. PICK s \in {"executing", "rejected"} :
        /\ status' = [status EXCEPT ![g] = s]
        /\ incoming' = IF s = "executing" THEN g ELSE NoHandle
  BY <1>1 DEF HandleGoal, RejectGoal
<1>6. status \in [Goal -> GoalStatus]
  BY DEF TypeOK, GoalStatus
<1>7. \A h \in Goal : is_active(h)' <=> is_active(h) \/ h = incoming'
  BY <1>1, <1>3, <1>5, <1>6, GoalFacts DEF is_active
<1>8. \A h \in Goal : is_active(h) <=> h \in {current_handle_, pending_handle_}
  BY HeldFacts, <1>1, GoalFacts
<1>9. ActiveIsHeld'
  <2>1. {current_handle_', pending_handle_', incoming'} \ {NoHandle} \subseteq Goal
    BY <1>2, <1>5 DEF TypeOK, handles
  <2> QED BY <2>1, <1>2, <1>7, <1>8, GoalFacts DEF ActiveIsHeld, handles
<1>10. OldestFirst' /\ PreemptAnnounced'
  BY <1>2, <1>4, <1>5 DEF OldestFirst, PreemptAnnounced, SlotInv, handles
<1>11. Numbered'
  <2>1. \A h \in Goal : status'[h] = IF h = g THEN s ELSE status[h]
    BY <1>5, <1>6
  <2>2. \A h, k \in Goal : k < h /\ status'[h] # "unknown" => status'[k] # "unknown"
    BY <2>1, <1>1 DEF SlotInv, Numbered
  <2> QED BY <2>2, <1>2, <1>4, <1>5 DEF Numbered, handles
<1> QED BY <1>9, <1>10, <1>11 DEF SlotInv

(* handle_accepted moves the newest goal into a slot and ends the pending  *)
(* one that it displaces.                                                  *)
LEMMA AcceptedKeeps ==
  ASSUME TypeOK, SlotInv, HandleAccepted
  PROVE  /\ SlotInv'
         /\ status' \in [Goal -> GoalStatus]
<1>1. /\ incoming \in Goal /\ incoming' = NoHandle
      /\ status \in [Goal -> GoalStatus]
      /\ pending_handle_ \in Goal \cup {NoHandle}
      /\ current_handle_ \in Nat /\ pending_handle_ \in Nat /\ incoming \in Nat
  BY GoalFacts DEF HandleAccepted, TypeOK, GoalStatus
<1>2. /\ current_handle_ < incoming /\ pending_handle_ < incoming
      /\ pending_handle_ # NoHandle => current_handle_ < pending_handle_
  BY <1>1, GoalFacts DEF SlotInv, OldestFirst, Numbered
<1>3. /\ \A g \in Goal : is_active(g)
              <=> g \in {current_handle_, pending_handle_, incoming}
      /\ current_handle_ # NoHandle <=> is_active(current_handle_)
      /\ pending_handle_ # NoHandle <=> is_active(pending_handle_)
  BY HeldFacts DEF is_active
<1>4. /\ status' = Terminated(status, pending_handle_)
      /\ \/ /\ current_handle_' = current_handle_ /\ pending_handle_' = incoming
            /\ preempt_requested_' = TRUE
         \/ /\ current_handle_' = incoming /\ pending_handle_' = NoHandle
            /\ preempt_requested_' = FALSE
            /\ current_handle_ = NoHandle
  <2>1. CASE MakePending
    BY <2>1 DEF MakePending
  <2>2. CASE MakeCurrent
    <3>1. preempt_requested_ = is_active(pending_handle_)
      BY <1>3 DEF SlotInv, PreemptAnnounced, TypeOK, is_active
    <3> QED BY <2>2, <3>1, <1>3, ReleasedFacts DEF MakeCurrent, TypeOK
  <2> QED BY <2>1, <2>2 DEF HandleAccepted
<1>5. Ended({pending_handle_} \ {NoHandle})
  BY <1>1, <1>3, <1>4, GoalFacts DEF Ended, Terminated, GoalStatus
<1>6. \A g \in Goal : is_active(g)' <=> is_active(g) /\ g # pending_handle_
  BY <1>5, GoalFacts DEF is_active, Ended
<1>7. ActiveIsHeld'
  <2>1. {current_handle_', pending_handle_', incoming'} \ {NoHandle} \subseteq Goal
    BY <1>1, <1>4 DEF TypeOK
  <2>2. \A g \in Goal : is_active(g)' <=> g \in {current_handle_', pending_handle_', incoming'}
    BY <1>1, <1>2, <1>3, <1>4, <1>6, GoalFacts
  <2> QED BY <2>1, <2>2, GoalFacts DEF ActiveIsHeld
<1>8. OldestFirst' /\ PreemptAnnounced'
  BY <1>1, <1>2, <1>4, GoalFacts DEF OldestFirst, PreemptAnnounced
<1>9. Numbered'
  <2>1. \A g \in Goal : status[g] = "unknown" <=> status'[g] = "unknown"
    BY <1>3, <1>5, GoalFacts DEF Ended, is_active
  <2> QED BY <2>1, <1>1 DEF Numbered, SlotInv
<1> QED BY <1>5, <1>7, <1>8, <1>9 DEF SlotInv, Ended

(* A cancellation leaves a goal active.                                    *)
LEMMA CancelKeeps ==
  ASSUME TypeOK, SlotInv, NEW g \in Goal, HandleCancel(g)
  PROVE  SlotInv'
<1>1. \A h \in Goal : is_active(h)' <=> is_active(h)
  BY GoalFacts DEF HandleCancel, TypeOK, is_active
<1>2. ActiveIsHeld'
  BY <1>1 DEF ActiveIsHeld, SlotInv, HandleCancel, handles
<1>3. \A h \in Goal : status'[h] = "unknown" <=> status[h] = "unknown"
  BY DEF HandleCancel, TypeOK, is_active
<1> QED BY <1>2, <1>3 DEF SlotInv, OldestFirst, PreemptAnnounced, Numbered, HandleCancel, handles

(* Steps that leave the goals and the slots alone.                         *)
LEMMA IdleKeeps ==
  ASSUME SlotInv, UNCHANGED <<handles, status, incoming>>
  PROVE  SlotInv'
<1>1. \A h \in Goal : is_active(h)' <=> is_active(h)
  BY DEF is_active
<1>2. ActiveIsHeld'
  BY <1>1 DEF ActiveIsHeld, SlotInv, handles
<1> QED BY <1>2 DEF SlotInv, OldestFirst, PreemptAnnounced, Numbered, handles

-----------------------------------------------------------------------------
(* Every step keeps the types and the slots.                               *)
LEMMA NextSlots == TypeOK /\ SlotInv /\ [Next]_vars => TypeOK' /\ SlotInv'
<1> SUFFICES ASSUME TypeOK, SlotInv, [Next]_vars PROVE TypeOK' /\ SlotInv'
  OBVIOUS
<1> USE DEF flags, handles
<1>1. ASSUME NEW g \in Goal, HandleGoal(g) PROVE TypeOK' /\ SlotInv'
  BY <1>1, ArrivalKeeps DEF HandleGoal, TypeOK
<1>2. ASSUME NEW g \in Goal, RejectGoal(g) PROVE TypeOK' /\ SlotInv'
  BY <1>2, ArrivalKeeps DEF RejectGoal, TypeOK
<1>3. ASSUME NEW g \in Goal, HandleCancel(g) PROVE TypeOK' /\ SlotInv'
  BY <1>3, CancelKeeps DEF HandleCancel, TypeOK
<1>4. CASE HandleAccepted
  <2>1. SlotInv' /\ status' \in [Goal -> GoalStatus]
    BY <1>4, AcceptedKeeps
  <2>2. /\ current_handle_' \in Goal \cup {NoHandle}
        /\ pending_handle_' \in Goal \cup {NoHandle}
        /\ preempt_requested_' \in BOOLEAN
        /\ worker' \in Running \cup {"none", "ready"}
    <3>1. CASE MakePending
      BY <3>1, <1>4 DEF MakePending, TypeOK
    <3>2. CASE MakeCurrent
      BY <3>2, <1>4 DEF MakeCurrent, TypeOK, Released, Running
    <3> QED BY <1>4, <3>1, <3>2 DEF HandleAccepted
  <2> QED BY <1>4, <2>1, <2>2 DEF HandleAccepted, TypeOK, GoalStatus
<1>5. CASE LoopGuard
  BY <1>5, IdleKeeps DEF LoopGuard, TypeOK, Running
<1>6. CASE CallbackStep
  <2>1. incoming' = incoming
    BY <1>6 DEF CallbackStep
  <2>2. \/ terminate_all \/ terminate_current \/ terminate_pending_goal
        \/ succeeded_current \/ accept_pending_goal
    BY <1>6 DEF CallbackStep
  <2> QED BY <1>6, <2>1, <2>2, SlotOperations DEF CallbackStep, TypeOK, GoalStatus
<1>7. CASE StartFeedback
  BY <1>7, IdleKeeps DEF StartFeedback, TypeOK, Running
<1>8. CASE PublishFeedback
  BY <1>8, IdleKeeps DEF PublishFeedback, TypeOK, Running
<1>9. CASE CallbackReturns
  BY <1>9, IdleKeeps DEF CallbackReturns, TypeOK, Running
<1>10. CASE CallbackThrows
  BY <1>10, SlotOperations DEF CallbackThrows, TypeOK, Running, GoalStatus
<1>11. CASE AfterCallback
  <2>1. /\ incoming' = incoming /\ worker' \in Running
        /\ terminate_all \/ TakePending \/ terminate_current
    BY <1>11 DEF AfterCallback, StopWork, TakePending, DoneWork, Running
  <2> QED BY <1>11, <2>1, SlotOperations DEF AfterCallback, TypeOK, GoalStatus
<1>12. CASE WorkerReady
  BY <1>12, IdleKeeps DEF WorkerReady, TypeOK
<1>13. CASE Activate
  <2>1. activations' \in 0 .. MaxActivations
    BY <1>13, ServerAssumption DEF Activate, TypeOK
  <2> QED BY <1>13, <2>1, IdleKeeps DEF Activate, TypeOK
<1>14. CASE Deactivate
  BY <1>14, IdleKeeps DEF Deactivate, TypeOK
<1>15. CASE MissedDeadline
  BY <1>15, SlotOperations DEF MissedDeadline, TypeOK, GoalStatus
<1>16. CASE Deactivated
  BY <1>16, IdleKeeps DEF Deactivated, TypeOK
<1>17. CASE UNCHANGED vars
  BY <1>17, IdleKeeps DEF vars, TypeOK
<1> QED BY <1>1, <1>2, <1>3, <1>4, <1>5, <1>6, <1>7, <1>8, <1>9, <1>10, <1>11,
           <1>12, <1>13, <1>14, <1>15, <1>16, <1>17 DEF Next

(* The server's variables keep their types for every number of goals and   *)
(* activations (simple_action_server.hpp:535-547).                         *)
THEOREM TypeCorrect == Spec => []TypeOK
<1>1. Init => TypeOK /\ SlotInv
  BY InitInv
<1> QED BY <1>1, NextSlots, PTL DEF Spec

(* The invariant of the slots, and with it the three properties below.     *)
LEMMA SlotsHeld == Spec => [](TypeOK /\ SlotInv)
<1>1. Init => TypeOK /\ SlotInv
  BY InitInv
<1> QED BY <1>1, NextSlots, PTL DEF Spec

(* No accepted goal is forgotten and none is kept after its result: the    *)
(* goals without a result are those in the two slots and the one on its    *)
(* way (simple_action_server.hpp:200-234, 363-402, 474-511).               *)
THEOREM GoalsHeld == Spec => []ActiveIsHeld
<1>1. SlotInv => ActiveIsHeld
  BY DEF SlotInv
<1> QED BY <1>1, SlotsHeld, PTL

(* What waits is newer than what is worked on                              *)
(* (simple_action_server.hpp:205-227).                                     *)
THEOREM OrderOfArrival == Spec => []OldestFirst
<1>1. SlotInv => OldestFirst
  BY DEF SlotInv
<1> QED BY <1>1, SlotsHeld, PTL

(* is_preempt_requested() is true exactly when a goal waits                *)
(* (simple_action_server.hpp:215, 221, 377, 399, 481).                     *)
THEOREM PreemptionAnnounced == Spec => []PreemptAnnounced
<1>1. SlotInv => PreemptAnnounced
  BY DEF SlotInv
<1> QED BY <1>1, SlotsHeld, PTL

-----------------------------------------------------------------------------
(* The threads: a callback runs only on a server that is active or being   *)
(* deactivated, and the goal it publishes about stays.                     *)
ThreadInv == StopIsSet /\ QuietWhenInactive /\ FeedbackHasGoal

LEMMA NextThreads ==
  TypeOK /\ SlotInv /\ ThreadInv /\ [Next]_vars => ThreadInv'
<1> SUFFICES ASSUME TypeOK, SlotInv, ThreadInv, [Next]_vars PROVE ThreadInv'
  OBVIOUS
<1> USE DEF ThreadInv, StopIsSet, QuietWhenInactive, FeedbackHasGoal, flags, handles
<1>1. ASSUME NEW g \in Goal, HandleGoal(g) PROVE ThreadInv'
  BY <1>1 DEF HandleGoal
<1>2. ASSUME NEW g \in Goal, RejectGoal(g) \/ HandleCancel(g) PROVE ThreadInv'
  BY <1>2 DEF RejectGoal, HandleCancel
<1>3. CASE HandleAccepted
  BY <1>3 DEF HandleAccepted, MakePending, MakeCurrent, is_running, Running
<1>4. CASE LoopGuard
  BY <1>4 DEF LoopGuard
<1>5. CASE CallbackStep
  BY <1>5 DEF CallbackStep
<1>6. CASE StartFeedback
  BY <1>6 DEF StartFeedback, is_active
<1>7. CASE PublishFeedback \/ CallbackReturns \/ WorkerReady
  BY <1>7 DEF PublishFeedback, CallbackReturns, WorkerReady
<1>8. CASE CallbackThrows
  BY <1>8 DEF CallbackThrows
<1>9. CASE AfterCallback
  BY <1>9 DEF AfterCallback, StopWork, TakePending, DoneWork
<1>10. CASE Activate \/ Deactivate
  BY <1>10 DEF Activate, Deactivate
<1>11. CASE MissedDeadline
  BY <1>11 DEF MissedDeadline, is_running, Running
<1>12. CASE Deactivated
  BY <1>12 DEF Deactivated, is_running, Running
<1>13. CASE UNCHANGED vars
  BY <1>13 DEF vars
<1> QED BY <1>1, <1>2, <1>3, <1>4, <1>5, <1>6, <1>7, <1>8, <1>9, <1>10, <1>11,
           <1>12, <1>13 DEF Next

LEMMA ThreadsHeld == Spec => []ThreadInv
<1>1. Init => TypeOK /\ SlotInv /\ ThreadInv
  <2>1. Init => QuietWhenInactive /\ FeedbackHasGoal
    BY DEF Init, QuietWhenInactive, FeedbackHasGoal
  <2> QED BY <2>1, InitInv DEF ThreadInv
<1> QED BY <1>1, NextSlots, NextThreads, PTL DEF Spec

(* Once deactivate() has returned no execute callback runs until the next  *)
(* activation (simple_action_server.hpp:294-326).                          *)
THEOREM QuietAfterDeactivate == Spec => []QuietWhenInactive
<1>1. ThreadInv => QuietWhenInactive
  BY DEF ThreadInv
<1> QED BY <1>1, ThreadsHeld, PTL

(* The goal that publish_feedback has found active is there when it is     *)
(* used, although no mutex is held, unless deactivate() has missed its     *)
(* deadline (simple_action_server.hpp:517-525).                            *)
THEOREM FeedbackGoalStays == Spec => []FeedbackHasGoal
<1>1. ThreadInv => FeedbackHasGoal
  BY DEF ThreadInv
<1> QED BY <1>1, ThreadsHeld, PTL

-----------------------------------------------------------------------------
(* Refinement: the goals' states, seen alone, change as ActionGoals says.  *)

(* Goals that are taken back together, each in the way its client asked.   *)
LEMMA GivenUp ==
  ASSUME TypeOK, status' \in [Goal -> GoalStatus],
         \A g \in Goal : status'[g] # status[g] =>
            /\ is_active(g)
            /\ \/ status'[g] = "aborted"
               \/ status'[g] = "canceled" /\ status[g] = "canceling"
  PROVE  Goals!Next
<1> DEFINE S == {g \in Goal : status'[g] # status[g]}
           r == [g \in S |-> status'[g]]
<1>1. S \in SUBSET Goals!Unfinished
  BY DEF Goals!Unfinished, Goals!Goal, Goal, is_active
<1>2. r \in [S -> {"aborted", "canceled"}]
  OBVIOUS
<1>3. \A g \in S : r[g] = "canceled" => status[g] = "canceling"
  OBVIOUS
<1>4. status' = [g \in Goal |-> IF g \in S THEN r[g] ELSE status[g]]
  OBVIOUS
<1>5. Goals!GiveUp(S)
  BY <1>1, <1>2, <1>3, <1>4 DEF Goals!GiveUp, Goals!Goal, Goal
<1> QED BY <1>1, <1>5 DEF Goals!Next

(* Every operation on the slots but success takes goals back.              *)
LEMMA TakesBack ==
  ASSUME TypeOK, SlotInv, incoming' = incoming,
         \/ terminate_all \/ terminate_current \/ terminate_pending_goal
         \/ accept_pending_goal \/ TakePending
  PROVE  Goals!Next
<1>1. status' \in [Goal -> GoalStatus]
  BY SlotOperations
<1>2. status \in [Goal -> GoalStatus]
  BY DEF TypeOK, GoalStatus
<1>3. /\ is_active(current_handle_) => current_handle_ \in Goal
      /\ is_active(pending_handle_) => pending_handle_ \in Goal
  BY DEF TypeOK, is_active
<1>4. ASSUME NEW g \in Goal, status'[g] # status[g]
      PROVE  /\ is_active(g)
             /\ \/ status'[g] = "aborted"
                \/ status'[g] = "canceled" /\ status[g] = "canceling"
  <2>1. CASE terminate_all
    <3>1. ~is_active(current_handle_) \/ current_handle_ # pending_handle_
      BY GoalFacts DEF SlotInv, OldestFirst, TypeOK, is_active
    <3> QED BY <1>2, <1>3, <1>4, <2>1, <3>1 DEF terminate_all, Terminated
  <2>2. CASE terminate_current
    BY <1>2, <1>3, <1>4, <2>2 DEF terminate_current, Terminated
  <2>3. CASE terminate_pending_goal
    BY <1>2, <1>3, <1>4, <2>3 DEF terminate_pending_goal, Terminated
  <2>4. CASE accept_pending_goal
    BY <1>2, <1>3, <1>4, <2>4 DEF accept_pending_goal, AcceptPending
  <2>5. CASE TakePending
    BY <1>2, <1>3, <1>4, <2>5 DEF TakePending, AcceptPending, Terminated
  <2> QED BY <2>1, <2>2, <2>3, <2>4, <2>5
<1> QED BY <1>1, <1>4, GivenUp

(* The current goal succeeds, and no older one is left without a result.   *)
LEMMA OldestSucceeds ==
  ASSUME TypeOK, SlotInv, succeeded_current
  PROVE  Goals!Next
<1>1. current_handle_ \in Goal /\ is_active(current_handle_)
  BY DEF succeeded_current, TypeOK, is_active
<1>2. Goals!Unfinished = {h \in Goal : is_active(h)}
  BY GoalFacts DEF Goals!Unfinished, Goals!Goal, Goal, is_active
<1>3. \A h \in Goal : is_active(h) => h >= current_handle_
  BY <1>1, HeldFacts, GoalFacts DEF SlotInv, OldestFirst, Numbered, TypeOK
<1>4. Goals!Succeed(current_handle_)
  BY <1>1, <1>2, <1>3 DEF Goals!Succeed, succeeded_current
<1> QED BY <1>1, <1>4 DEF Goals!Next, Goals!Goal, Goal

LEMMA NextRefines == TypeOK /\ SlotInv /\ [Next]_vars => [Goals!Next]_status
<1> SUFFICES ASSUME TypeOK, SlotInv, [Next]_vars
             PROVE  Goals!Next \/ UNCHANGED status
  OBVIOUS
<1> USE DEF Goals!Goal, Goal
<1>1. ASSUME NEW g \in Goal, HandleGoal(g) PROVE Goals!Next
  <2>1. Goals!Accept(g)
    BY <1>1, ServerAssumption DEF HandleGoal, Arrives, Goals!Accept, Goals!Decide
  <2> QED BY <2>1 DEF Goals!Next
<1>2. ASSUME NEW g \in Goal, RejectGoal(g) PROVE Goals!Next
  <2>1. Goals!Reject(g)
    BY <1>2, ServerAssumption DEF RejectGoal, Arrives, Goals!Reject, Goals!Decide
  <2> QED BY <2>1 DEF Goals!Next
<1>3. ASSUME NEW g \in Goal, HandleCancel(g) PROVE Goals!Next
  BY <1>3 DEF HandleCancel, Goals!Cancel, Goals!Next
<1>4. CASE HandleAccepted
  <2>1. status' \in [Goal -> GoalStatus]
    BY <1>4, AcceptedKeeps
  <2>2. status' = Terminated(status, pending_handle_)
    BY <1>4 DEF HandleAccepted, MakePending, MakeCurrent
  <2>3. is_active(pending_handle_) => pending_handle_ \in Goal
    BY DEF TypeOK, is_active
  <2>4. \A g \in Goal : status'[g] # status[g] =>
            /\ is_active(g)
            /\ \/ status'[g] = "aborted"
               \/ status'[g] = "canceled" /\ status[g] = "canceling"
    BY <2>2, <2>3 DEF Terminated, TypeOK
  <2> QED BY <2>1, <2>4, GivenUp
<1>5. CASE CallbackStep
  BY <1>5, TakesBack, OldestSucceeds DEF CallbackStep
<1>6. CASE CallbackThrows \/ MissedDeadline
  BY <1>6, TakesBack DEF CallbackThrows, MissedDeadline
<1>7. CASE AfterCallback
  BY <1>7, TakesBack DEF AfterCallback, StopWork, DoneWork
<1>8. CASE \/ LoopGuard \/ StartFeedback \/ PublishFeedback \/ CallbackReturns
           \/ WorkerReady \/ Activate \/ Deactivate \/ Deactivated
           \/ UNCHANGED vars
  BY <1>8 DEF LoopGuard, StartFeedback, PublishFeedback, CallbackReturns,
              WorkerReady, Activate, Deactivate, Deactivated, vars
<1> QED BY <1>1, <1>2, <1>3, <1>4, <1>5, <1>6, <1>7, <1>8 DEF Next

(* A client of the server may rely on ActionGoals: no goal gets a second   *)
(* result, none is finished that was not accepted, and goals succeed only  *)
(* in the order of arrival (simple_action_server.hpp).                     *)
THEOREM ServerRefinesGoals == Spec => GoalsSpec
<1>1. Init => Goals!Init
  BY DEF Init, Goals!Init, Goals!Goal, Goal
<1> QED BY <1>1, NextRefines, SlotsHeld, PTL DEF Spec, GoalsSpec, Goals!Spec

=============================================================================
