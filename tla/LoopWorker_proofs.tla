------------------------- MODULE LoopWorker_proofs -------------------------
(***************************************************************************)
(* Proofs about LoopWorker, for every set of steps and workers and every    *)
(* bound.  First the types, transaction by transaction; then the inductive  *)
(* invariant.                                                               *)
(***************************************************************************)
EXTENDS LoopWorker, TLAPS

-----------------------------------------------------------------------------
(* What the shared operators return.                                        *)

\* Unlocking yields item statuses.
LEMMA UnlockedType ==
    ASSUME NEW its \in [Item -> ItemStatus], NEW ds
    PROVE  Unlocked(its, ds) \in [Item -> ItemStatus]
BY DEF Unlocked, ItemStatus

\* Refreshing yields a goal status.
LEMMA RefreshedType ==
    ASSUME NEW g \in GoalStatus, NEW its, NEW rev
    PROVE  Refreshed(g, its, rev) \in GoalStatus
BY DEF Refreshed, GoalStatus

\* Recovery yields item statuses, attempt statuses and checkpoint phases.
LEMMA RecoveredTypes ==
    ASSUME TypeOK
    PROVE  /\ RecoveredItem \in [Item -> ItemStatus]
           /\ RecoveredAttempt \in [Item -> [Token -> AttemptStatus]]
           /\ RecoveredCheckpoint \in [Item -> [Token -> CheckpointPhase]]
<1>1. RecoveredItem \in [Item -> ItemStatus]
  BY DEF RecoveredItem, TypeOK, ItemStatus
<1>2. RecoveredAttempt \in [Item -> [Token -> AttemptStatus]]
  BY DEF RecoveredAttempt, TypeOK, AttemptStatus
<1>3. RecoveredCheckpoint \in [Item -> [Token -> CheckpointPhase]]
  BY DEF RecoveredCheckpoint, TypeOK, CheckpointPhase
<1> QED BY <1>1, <1>2, <1>3

\* A claim below the bound gets a token.
LEMMA NextToken ==
    ASSUME TypeOK, NEW i \in Item, fence[i] < MaxClaims
    PROVE  fence[i] + 1 \in Token /\ fence[i] + 1 \in 0..MaxClaims
BY BoundAssumption DEF TypeOK, Token

-----------------------------------------------------------------------------
(* Every transaction keeps the types.                                       *)

\* recover_goal_state keeps the types.
LEMMA RecoverType ==
    ASSUME TypeOK, RecoverGoalState
    PROVE  TypeOK'
<1>1. item' \in [Item -> ItemStatus]
  BY RecoveredTypes, UnlockedType DEF RecoverGoalState
<1>2. att' \in [Item -> [Token -> AttemptStatus]] /\ ckpt' \in [Item -> [Token -> CheckpointPhase]]
  BY RecoveredTypes DEF RecoverGoalState
<1>3. goal' \in GoalStatus
  BY RefreshedType DEF RecoverGoalState, TypeOK
<1>4. /\ lease' \in [Item -> {"none", "live", "expired"}]
      /\ due' \in [Item -> BOOLEAN]
  BY DEF RecoverGoalState, TypeOK
<1>5. continues' \in [Item -> 0..MaxContinues]
  BY BoundAssumption DEF RecoverGoalState, TypeOK
<1> QED BY <1>1, <1>2, <1>3, <1>4, <1>5 DEF RecoverGoalState, TypeOK

\* The transactions that change the goal row and nothing of the work.
LEMMA GoalType ==
    ASSUME TypeOK,
           \/ PlanGoal \/ ReviewPlan \/ RejectGoal \/ PauseGoal \/ UnpauseGoal
           \/ ExpireOverdueGoal \/ RecordManualVerification \/ VerifyGoal
           \/ ReserveProviderCall \/ DeadlinePasses
    PROVE  TypeOK'
<1> USE DEF TypeOK, itemVars
<1>1. CASE PlanGoal
  BY <1>1, BoundAssumption DEF PlanGoal, GoalStatus
<1>2. CASE ReviewPlan
  BY <1>2 DEF ReviewPlan
<1>3. CASE RejectGoal \/ PauseGoal \/ UnpauseGoal \/ ExpireOverdueGoal
  BY <1>3 DEF RejectGoal, PauseGoal, UnpauseGoal, ExpireOverdueGoal, GoalStatus
<1>4. CASE RecordManualVerification
  BY <1>4 DEF RecordManualVerification
<1>5. CASE VerifyGoal
  BY <1>5 DEF VerifyGoal, GoalStatus
<1>6. CASE ReserveProviderCall \/ DeadlinePasses
  BY <1>6 DEF ReserveProviderCall, DeadlinePasses
<1> QED BY <1>1, <1>2, <1>3, <1>4, <1>5, <1>6

\* cancel_goal and mark_goal_for_replan keep the types.
LEMMA CloseType ==
    ASSUME TypeOK, CancelGoal \/ MarkGoalForReplan
    PROVE  TypeOK'
<1> USE DEF TypeOK
<1>1. ASSUME NEW kept, NEW to \in ItemStatus, CloseWork(kept, to), goal' \in GoalStatus
      PROVE  TypeOK'
  BY <1>1 DEF CloseWork, AttemptStatus, ItemStatus
<1>2. CASE CancelGoal
  BY <1>1, <1>2 DEF CancelGoal, ItemStatus, GoalStatus
<1>3. CASE MarkGoalForReplan
  BY <1>1, <1>3 DEF MarkGoalForReplan, ItemStatus, GoalStatus
<1> QED BY <1>2, <1>3

\* approve_goal keeps the types.
LEMMA ApproveType ==
    ASSUME TypeOK, ApproveGoal
    PROVE  TypeOK'
<1>1. deps' \in [Item -> SUBSET Item]
  <2>1. ASSUME NEW i \in Item, i[1] = planned, NEW s \in DependsOn[i[2]]
        PROVE  <<planned, s>> \in Item
    BY <2>1, StepAssumption DEF Item
  <2> QED BY <2>1 DEF ApproveGoal, TypeOK
<1>2. item' \in [Item -> ItemStatus]
  BY DEF ApproveGoal, TypeOK, ItemStatus
<1> QED BY <1>1, <1>2 DEF ApproveGoal, TypeOK, GoalStatus

\* What extend_workflow does: it adds one item, on dependencies that exist.
LEMMA Extension ==
    ASSUME ExtendWorkflow
    PROVE  \E s \in Dynamic, to \in {"ready", "pending"}, ds \in SUBSET Item :
               /\ goal \in {"approved", "active", "verifying"}
               /\ s \notin {i[2] : i \in {j \in Item : item[j] \notin {"absent", "canceled"}}}
               /\ deps' = [deps EXCEPT ![<<planned, s>>] = ds]
               /\ item' = [item EXCEPT ![<<planned, s>>] = to]
<1> DEFINE rows == {i \in Item : item[i] # "absent"}
           open == {i \in rows : item[i] # "canceled"}
           ids  == {i[2] : i \in open}
<1>1. PICK s \in Dynamic \ ids :
           /\ \E f \in [DependsOn[s] -> rows] :
                deps' = [deps EXCEPT ![<<planned, s>>] = {f[d] : d \in DependsOn[s]}]
           /\ item' = [item EXCEPT ![<<planned, s>>] =
                          IF DependsOn[s] = {} THEN "ready" ELSE "pending"]
  BY DEF ExtendWorkflow
<1>2. PICK f \in [DependsOn[s] -> rows] :
           deps' = [deps EXCEPT ![<<planned, s>>] = {f[d] : d \in DependsOn[s]}]
  BY <1>1
<1>3. {f[d] : d \in DependsOn[s]} \in SUBSET Item
  BY <1>2
<1>4. (IF DependsOn[s] = {} THEN "ready" ELSE "pending") \in {"ready", "pending"}
  OBVIOUS
<1>5. goal \in {"approved", "active", "verifying"}
  BY DEF ExtendWorkflow
<1>6. open = {j \in Item : item[j] \notin {"absent", "canceled"}}
  OBVIOUS
<1> HIDE DEF rows, open
<1> QED BY <1>1, <1>2, <1>3, <1>4, <1>5, <1>6

\* extend_workflow keeps the types.
LEMMA ExtendType ==
    ASSUME TypeOK, ExtendWorkflow
    PROVE  TypeOK'
<1>1. PICK s \in Dynamic, to \in {"ready", "pending"}, ds \in SUBSET Item :
           /\ deps' = [deps EXCEPT ![<<planned, s>>] = ds]
           /\ item' = [item EXCEPT ![<<planned, s>>] = to]
  BY Extension
<1>2. deps' \in [Item -> SUBSET Item]
  BY <1>1 DEF TypeOK
<1>3. item' \in [Item -> ItemStatus]
  BY <1>1 DEF TypeOK, ItemStatus
<1>4. goal' \in GoalStatus
  BY RefreshedType DEF ExtendWorkflow, TypeOK
<1> QED BY <1>2, <1>3, <1>4 DEF ExtendWorkflow, TypeOK

\* claim_ready_work_item keeps the types.
LEMMA ClaimType ==
    ASSUME TypeOK, NEW i \in Item, ClaimItem(i)
    PROVE  TypeOK'
<1>1. fence[i] + 1 \in Token /\ fence[i] + 1 \in 0..MaxClaims
  BY NextToken DEF ClaimItem, Claimable
<1> QED BY <1>1 DEF ClaimItem, TypeOK, ItemStatus, AttemptStatus, GoalStatus

\* The transactions of a claim's own worker.
LEMMA CheckpointType ==
    ASSUME TypeOK, NEW i \in Item, NEW n \in Token,
           PrepareCheckpoint(i, n) \/ CommitCheckpoint(i, n)
    PROVE  TypeOK'
<1>1. CASE PrepareCheckpoint(i, n)
  <2>1. ckpt' \in [Item -> [Token -> CheckpointPhase]]
    BY <1>1 DEF PrepareCheckpoint, TypeOK, CheckpointPhase
  <2> QED BY <1>1, <2>1 DEF PrepareCheckpoint, TypeOK, goalVars, itemVars
<1>2. CASE CommitCheckpoint(i, n)
  <2>1. ckpt' \in [Item -> [Token -> CheckpointPhase]]
    BY <1>2 DEF CommitCheckpoint, TypeOK, CheckpointPhase
  <2>2. att' \in [Item -> [Token -> AttemptStatus]]
    BY <1>2 DEF CommitCheckpoint, TypeOK, AttemptStatus
  <2> QED BY <1>2, <2>1, <2>2 DEF CommitCheckpoint, TypeOK, goalVars, itemVars
<1> QED BY <1>1, <1>2

\* finish_attempt keeps the types.
LEMMA FinishType ==
    ASSUME TypeOK, NEW i \in Item, NEW n \in Token, FinishAttempt(i, n)
    PROVE  TypeOK'
<1>1. item' \in [Item -> ItemStatus]
  <2>1. [item EXCEPT ![i] = "succeeded"] \in [Item -> ItemStatus]
    BY DEF TypeOK, ItemStatus
  <2> QED BY <2>1, UnlockedType DEF FinishAttempt
<1>2. goal' \in GoalStatus
  BY RefreshedType DEF FinishAttempt, TypeOK
<1>3. ckpt' \in [Item -> [Token -> CheckpointPhase]]
  BY DEF FinishAttempt, TypeOK, CheckpointPhase
<1>4. att' \in [Item -> [Token -> AttemptStatus]]
  BY DEF FinishAttempt, TypeOK, AttemptStatus
<1>5. continues' \in [Item -> 0..MaxContinues]
  BY BoundAssumption DEF FinishAttempt, TypeOK
<1> QED BY <1>1, <1>2, <1>3, <1>4, <1>5 DEF FinishAttempt, TypeOK

\* fail_attempt keeps the types.
LEMMA FailType ==
    ASSUME TypeOK, NEW i \in Item, NEW n \in Token, NEW retryable \in BOOLEAN,
           FailAttempt(i, n, retryable)
    PROVE  TypeOK'
<1>1. goal' \in GoalStatus
  BY RefreshedType DEF FailAttempt, TypeOK
<1>2. item' \in [Item -> ItemStatus]
  BY DEF FailAttempt, TypeOK, ItemStatus
<1>3. due' \in [Item -> BOOLEAN]
  BY DEF FailAttempt, TypeOK
<1> QED BY <1>1, <1>2, <1>3 DEF FailAttempt, TypeOK, AttemptStatus

\* The transactions that void an attempt or record a phase keep the types.
LEMMA VoidType ==
    ASSUME TypeOK, NEW i \in Item, NEW n \in Token,
           \/ BlockWorkItem(i, n) \/ DeferAttempt(i, n) \/ ContinueAttempt(i, n)
           \/ RecordPhaseProgress(i, n)
    PROVE  TypeOK'
<1>1. ASSUME NEW to \in ItemStatus, NEW isDue \in BOOLEAN, VoidAttempt(i, n, to, isDue),
             continues' \in [Item -> 0..MaxContinues]
      PROVE  TypeOK'
  BY <1>1 DEF VoidAttempt, TypeOK, goalVars, AttemptStatus, CheckpointPhase
<1>2. CASE BlockWorkItem(i, n)
  BY <1>1, <1>2 DEF BlockWorkItem, TypeOK, ItemStatus
<1>3. CASE DeferAttempt(i, n)
  BY <1>1, <1>3 DEF DeferAttempt, TypeOK, ItemStatus
<1>4. CASE ContinueAttempt(i, n)
  <2>1. continues' \in [Item -> 0..MaxContinues]
    BY <1>4, BoundAssumption DEF ContinueAttempt, TypeOK
  <2> QED BY <2>1, <1>1, <1>4 DEF ContinueAttempt, ItemStatus
<1>5. CASE RecordPhaseProgress(i, n)
  BY <1>5, BoundAssumption DEF RecordPhaseProgress, TypeOK, goalVars
<1> QED BY <1>2, <1>3, <1>4, <1>5

\* requeue_blocked_items keeps the types.
LEMMA RequeueType ==
    ASSUME TypeOK, NEW known, RequeueBlockedItems(known)
    PROVE  TypeOK'
BY DEF RequeueBlockedItems, TypeOK, goalVars, ItemStatus

\* resolve_waiting_confirmation keeps the types.
LEMMA ResolveType ==
    ASSUME TypeOK, NEW i \in Item, NEW n \in Token,
           NEW verdict \in {"confirmed", "retry", "abandoned"},
           ResolveWaitingConfirmation(i, n, verdict)
    PROVE  TypeOK'
<1>1. item' \in [Item -> ItemStatus]
  <2>1. PICK after \in ItemStatus : item' = Unlocked([item EXCEPT ![i] = after], deps)
    BY DEF ResolveWaitingConfirmation, ItemStatus
  <2>2. [item EXCEPT ![i] = after] \in [Item -> ItemStatus]
    BY DEF TypeOK
  <2> QED BY <2>1, <2>2, UnlockedType
<1>2. goal' \in GoalStatus
  BY RefreshedType DEF ResolveWaitingConfirmation, TypeOK
<1> QED BY <1>1, <1>2
        DEF ResolveWaitingConfirmation, TypeOK, AttemptStatus, CheckpointPhase

\* The passage of time keeps the types.
LEMMA TimeType ==
    ASSUME TypeOK, NEW i \in Item, LeaseExpires(i) \/ WakeTimeReached(i)
    PROVE  TypeOK'
BY DEF LeaseExpires, WakeTimeReached, TypeOK, goalVars

-----------------------------------------------------------------------------
(* The types of the whole system.                                           *)

\* A busy worker's claim is an item and a token.
LEMMA BusyClaim ==
    ASSUME WorkersOK, NEW w \in Worker, pc[w] \in Busy
    PROVE  /\ job[w] \in Claim
           /\ job[w] = <<ItemOf(w), TokenOf(w)>>
           /\ ItemOf(w) \in Item
           /\ TokenOf(w) \in Token
BY DEF WorkersOK, Claim, ItemOf, TokenOf

\* A worker that moves on keeps its claim while it is busy with it.
LEMMA GotoType ==
    ASSUME WorkersOK, NEW w \in Worker, NEW p \in WorkerPc, Goto(w, p),
           p \in Busy => pc[w] \in Busy
    PROVE  WorkersOK'
BY DEF WorkersOK, Goto, WorkerPc, history

\* A step that leaves the workers alone keeps their types.
LEMMA AsideType ==
    ASSUME WorkersOK, UNCHANGED <<workerVars, history>>
    PROVE  WorkersOK'
BY DEF WorkersOK, workerVars, history

\* Every step of a worker keeps the types.
LEMMA WorkerStepType ==
    ASSUME WorkerTypeOK, NEW w \in Worker, WorkerStep(w) \/ Crash(w)
    PROVE  WorkerTypeOK'
<1> USE DEF WorkerTypeOK
<1>a. ASSUME UNCHANGED storeVars PROVE TypeOK'
  BY <1>a DEF TypeOK, storeVars, goalVars, itemVars
<1>b. ASSUME NEW p \in WorkerPc, Goto(w, p), p \in Busy => pc[w] \in Busy PROVE WorkersOK'
  BY <1>b, GotoType
<1>c. ASSUME pc[w] \in Busy PROVE ItemOf(w) \in Item /\ TokenOf(w) \in Token /\ job[w] \in Claim
  BY <1>c, BusyClaim
<1>1. CASE \/ PickGoal(w) \/ ReadReport(w) \/ OutOfSteps(w) \/ RereadReport(w)
           \/ ClaimNothing(w) \/ DropRefusedClaim(w) \/ Crash(w) \/ Restart(w)
  BY <1>1, <1>a, <1>b DEF PickGoal, ReadReport, OutOfSteps, RereadReport, ClaimNothing,
     DropRefusedClaim, Crash, Restart, WorkerPc, Busy
<1>2. CASE \/ ResumeOnPoll(w) \/ ResumeAfterVerify(w) \/ RecoverBeforeClaim(w)
           \/ ResumeAndLeave(w) \/ ResumeAfterClaim(w)
  BY <1>2, <1>b, RecoverType DEF ResumeOnPoll, ResumeAfterVerify, RecoverBeforeClaim,
     ResumeAndLeave, ResumeAfterClaim, WorkerPc, Busy
<1>3. CASE VerifyOnPoll(w)
  BY <1>3, <1>a, <1>b, GoalType DEF VerifyOnPoll, WorkerPc, Busy
<1>4. CASE RequeueOnPoll(w)
  BY <1>4, <1>b, RequeueType DEF RequeueOnPoll, WorkerPc, Busy
<1>5. CASE ClaimReadyWorkItem(w)
  <2>1. PICK i \in Item : ClaimItem(i) /\ job' = [job EXCEPT ![w] = <<i, fence[i] + 1>>]
    BY <1>5 DEF ClaimReadyWorkItem
  <2>2. TypeOK'
    BY <2>1, ClaimType
  <2>3. <<i, fence[i] + 1>> \in Claim
    BY <2>1, NextToken DEF ClaimItem, Claimable, Claim
  <2>4. WorkersOK'
    BY <1>5, <2>1, <2>3 DEF ClaimReadyWorkItem, WorkersOK, WorkerPc, Busy, history
  <2> QED BY <2>2, <2>4
<1>6. CASE FailDisabledWrite(w) \/ FailMismatchedEffect(w) \/ FailHandler(w)
  <2>1. PICK retryable \in BOOLEAN : FailAttempt(ItemOf(w), TokenOf(w), retryable)
    BY <1>6 DEF FailDisabledWrite, FailMismatchedEffect, FailHandler
  <2>2. pc[w] \in Busy /\ Goto(w, "resuming")
    BY <1>6 DEF FailDisabledWrite, FailMismatchedEffect, FailHandler, Busy
  <2>3. TypeOK'
    BY <2>1, <2>2, <1>c, FailType
  <2> QED BY <2>2, <2>3, <1>b DEF WorkerPc, Busy
<1>7. CASE BlockMissingHandler(w)
  BY <1>7, <1>b, <1>c, VoidType DEF BlockMissingHandler, WorkerPc, Busy
<1>8. CASE StartHandler(w)
  BY <1>8, <1>b, <1>c, CheckpointType DEF StartHandler, WorkerPc, Busy
<1>9. CASE SendEffect(w)
  <2>1. sent' \subseteq Claim
    BY <1>9, <1>c DEF SendEffect, WorkersOK, Busy
  <2> QED BY <1>9, <1>a, <2>1 DEF SendEffect, WorkersOK, workerVars
<1>10. CASE ReserveInHandler(w)
  BY <1>10, AsideType, GoalType DEF ReserveInHandler
<1>11. CASE CommitOutcome(w)
  BY <1>11, <1>b, <1>c, CheckpointType DEF CommitOutcome, WorkerPc, Busy
<1>12. CASE FinishClaim(w)
  BY <1>12, <1>b, <1>c, FinishType DEF FinishClaim, WorkerPc, Busy
<1>13. CASE SleepHandler(w)
  BY <1>13, <1>b, <1>c, VoidType DEF SleepHandler, WorkerPc, Busy
<1>14. CASE NextPhase(w)
  BY <1>14, <1>c, AsideType, VoidType DEF NextPhase, Busy
<1> QED
  BY <1>1, <1>2, <1>3, <1>4, <1>5, <1>6, <1>7, <1>8, <1>9, <1>10, <1>11, <1>12, <1>13,
     <1>14 DEF WorkerStep

\* Every step of the operator, the janitor and the clock keeps the types.
LEMMA OthersType ==
    ASSUME WorkerTypeOK,
           \/ Approve \/ ResumeAfterApprove \/ Resolve \/ OperatorStep \/ TimeStep
    PROVE  WorkerTypeOK'
<1> USE DEF WorkerTypeOK
<1>1. CASE Approve
  BY <1>1, ApproveType DEF Approve, WorkersOK, history
<1>2. CASE ResumeAfterApprove
  BY <1>2, RecoverType DEF ResumeAfterApprove, WorkersOK, history
<1>3. CASE Resolve
  <2>1. PICK c \in Claim, verdict \in {"confirmed", "retry", "abandoned"} :
             /\ ResolveWaitingConfirmation(c[1], c[2], verdict)
             /\ retried' = IF verdict = "retry" THEN retried \union {c} ELSE retried
             /\ UNCHANGED <<workerVars, sent>>
    BY <1>3 DEF Resolve
  <2>2. c[1] \in Item /\ c[2] \in Token
    BY DEF Claim
  <2>3. TypeOK'
    BY <2>1, <2>2, ResolveType
  <2> QED BY <2>1, <2>3 DEF WorkersOK, workerVars
<1>4. CASE OperatorStep
  <2>1. WorkersOK'
    BY <1>4, AsideType DEF OperatorStep, Aside
  <2>2. TypeOK'
    BY <1>4, GoalType, CloseType, ExtendType, RecoverType DEF OperatorStep, Aside
  <2> QED BY <2>1, <2>2
<1>5. CASE TimeStep
  <2>1. WorkersOK'
    BY <1>5, AsideType DEF TimeStep, Aside
  <2>2. TypeOK'
    BY <1>5, GoalType, TimeType DEF TimeStep, Aside
  <2> QED BY <2>1, <2>2
<1> QED BY <1>1, <1>2, <1>3, <1>4, <1>5

\* Every reachable state of the loop engine's ledger and of its workers is well typed,
\* for any workflow, any set of workers and any bounds.
THEOREM TypeCorrect == Spec => []WorkerTypeOK
<1>1. Init => WorkerTypeOK
  <2> SUFFICES ASSUME Init PROVE TypeOK /\ WorkersOK
    BY DEF WorkerTypeOK
  <2>1. /\ planned \in 0..MaxRevs /\ approved \in 0..MaxRevs /\ reviewed \in 0..MaxRevs
        /\ fence \in [Item -> 0..MaxClaims]
        /\ continues \in [Item -> 0..MaxContinues]
    BY BoundAssumption DEF Init, StoreInit
  <2>2. goal \in GoalStatus /\ item \in [Item -> ItemStatus]
    BY DEF Init, StoreInit, GoalStatus, ItemStatus
  <2>3. /\ att \in [Item -> [Token -> AttemptStatus]]
        /\ ckpt \in [Item -> [Token -> CheckpointPhase]]
    BY DEF Init, StoreInit, AttemptStatus, CheckpointPhase
  <2>4. TypeOK
    BY <2>1, <2>2, <2>3 DEF Init, StoreInit, TypeOK
  <2>5. WorkersOK
    BY DEF Init, WorkersOK, WorkerPc, Busy
  <2> QED BY <2>4, <2>5
<1>2. WorkerTypeOK /\ [Next]_vars => WorkerTypeOK'
  <2> SUFFICES ASSUME WorkerTypeOK, [Next]_vars PROVE WorkerTypeOK'
    OBVIOUS
  <2>1. CASE Next
    BY <2>1, WorkerStepType, OthersType DEF Next
  <2>2. CASE UNCHANGED vars
    BY <2>2 DEF vars, storeVars, goalVars, itemVars, workerVars, history, WorkerTypeOK,
       TypeOK, WorkersOK
  <2> QED BY <2>1, <2>2
<1> QED BY <1>1, <1>2, PTL DEF Spec
=============================================================================
