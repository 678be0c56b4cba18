----------------------------- MODULE LoopWorker -----------------------------
(***************************************************************************)
(* The workers of src/harness/loop_engine/worker.rs driving one goal        *)
(* through the transactions of LoopStore, beside an operator and the        *)
(* passage of time.  Between two transactions of a worker anything may      *)
(* happen, its own crash included: only the ledger survives.                *)
(*                                                                         *)
(* A worker polls (run_goal_until_idle): it resumes the goal, verifies it   *)
(* or requeues the items its registry can handle, recovers and claims; then *)
(* it processes the claim (process_claim): gates, prepare, the handler, and *)
(* one closing transaction followed by a resume.                            *)
(***************************************************************************)
EXTENDS LoopStore

CONSTANTS
    Worker,           \* worker loops, in one process or several
    Registry,         \* worker -> the steps whose handler its process registered
    ExternalEnabled,  \* workers whose process has external_write_enabled
    Mismatched,       \* worker and step whose handler there has another effect class
    Phased,           \* steps whose handler may sleep or continue in phases
    UsesProvider      \* steps whose handler reserves provider calls

ASSUME WorkerAssumption ==
    /\ Registry \in [Worker -> SUBSET Step]
    /\ ExternalEnabled \subseteq Worker
    /\ Mismatched \subseteq Worker \X Step
    /\ Phased \subseteq Step \ ExternalWrite
    /\ UsesProvider \subseteq Step

VARIABLES
    pc,         \* where each worker is between two transactions
    job,        \* the claim each worker processes
    approving,  \* an approver still has to run the resume that ends approve_goal
    sent,       \* history: the claims under which an external effect was performed
    retried     \* history: the claims an operator resolved with the verdict retry

workerVars == <<pc, job, approving>>
history == <<sent, retried>>
vars == <<storeVars, workerVars, history>>

Claim == Item \X Token
NoClaim == <<>>
Busy == {"claimed", "executing", "committed"}
WorkerPc == {"idle", "picked", "resumed", "stepped", "verify", "verified", "reread",
             "requeue", "requeued", "claiming", "leaving", "resuming", "down"} \union Busy
Dispatchable == {"approved", "active", "verifying"}

\* A worker in the middle of process_claim holds a claim.
WorkersOK ==
    /\ pc \in [Worker -> WorkerPc]
    /\ job \in [Worker -> Claim \union {NoClaim}]
    /\ \A w \in Worker : pc[w] \in Busy => job[w] \in Claim
    /\ approving \in BOOLEAN
    /\ sent \subseteq Claim
    /\ retried \subseteq Claim

\* The ledger's columns and the workers' local state have the values the code knows.
WorkerTypeOK == TypeOK /\ WorkersOK

Init ==
    /\ StoreInit
    /\ pc = [w \in Worker |-> "idle"]
    /\ job = [w \in Worker |-> NoClaim]
    /\ approving = FALSE
    /\ sent = {}
    /\ retried = {}

\* Worker w moves on to p, keeping its claim only while it is busy with it.
Goto(w, p) ==
    /\ pc' = [pc EXCEPT ![w] = p]
    /\ job' = [job EXCEPT ![w] = IF p \in Busy THEN @ ELSE NoClaim]
    /\ UNCHANGED <<approving, history>>

ItemOf(w) == job[w][1]
TokenOf(w) == job[w][2]
StepOf(w) == ItemOf(w)[2]

-----------------------------------------------------------------------------
(* run_goal_until_idle.  The status a worker acts on is the one its report  *)
(* read: by the time of its next transaction the goal may have moved on.    *)

Terminal == {"achieved", "failed", "canceled", "rejected"}

\* Mutant: goals under verification are not listed.
PickUnlessVerifying(w) ==
    /\ pc[w] = "idle"
    /\ goal \in {"approved", "active"}
    /\ clock # "overdue"
    /\ Goto(w, "picked")
    /\ UNCHANGED storeVars

\* The dispatch loop lists the goal (list_dispatchable_goal_ids) ...
PickGoal(w) ==
    /\ pc[w] = "idle"
    /\ goal \in Dispatchable
    /\ clock # "overdue"
    /\ Goto(w, "picked")
    /\ UNCHANGED storeVars

\* ... and starts on it, perhaps much later, by resuming it.
ResumeOnPoll(w) ==
    /\ pc[w] = "picked"
    /\ RecoverGoalState
    /\ Goto(w, "resumed")

\* The report decides: verify the goal, return, or look for work.
ReadReport(w) ==
    /\ pc[w] \in {"resumed", "stepped"}
    /\ Goto(w, IF goal = "verifying" THEN "verify"
               ELSE IF goal \in Terminal THEN "idle" ELSE "requeue")
    /\ UNCHANGED storeVars

\* The step budget of the poll is used up.
OutOfSteps(w) ==
    /\ pc[w] = "stepped"
    /\ Goto(w, "leaving")
    /\ UNCHANGED storeVars

\* verify_goal accepts a goal that is verifying or already achieved.
VerifyOnPoll(w) ==
    /\ pc[w] = "verify"
    /\ \/ VerifyGoal /\ Goto(w, "verified")
       \/ goal = "achieved" /\ Goto(w, "verified") /\ UNCHANGED storeVars
       \/ goal \notin {"verifying", "achieved"} /\ Goto(w, "idle") /\ UNCHANGED storeVars

ResumeAfterVerify(w) ==
    /\ pc[w] = "verified"
    /\ RecoverGoalState
    /\ Goto(w, "reread")

\* After a verification the loop goes on without verifying again.
RereadReport(w) ==
    /\ pc[w] = "reread"
    /\ Goto(w, IF goal \in Terminal THEN "idle" ELSE "requeue")
    /\ UNCHANGED storeVars

\* The transaction does not look at the goal's status.
RequeueOnPoll(w) ==
    /\ pc[w] = "requeue"
    /\ RequeueBlockedItems(Registry[w])
    /\ Goto(w, "requeued")

\* claim_ready_work_item recovers before it selects.
RecoverBeforeClaim(w) ==
    /\ pc[w] = "requeued"
    /\ RecoverGoalState
    /\ Goto(w, "claiming")

\* Any claimable item: claim_goal_work takes the first by ordinal, claim_work_item the
\* step it is asked for.
ClaimReadyWorkItem(w) ==
    /\ pc[w] = "claiming"
    /\ \E i \in Item :
         /\ ClaimItem(i)
         /\ job' = [job EXCEPT ![w] = <<i, fence[i] + 1>>]
    /\ pc' = [pc EXCEPT ![w] = "claimed"]
    /\ UNCHANGED <<approving, history>>

\* No item is claimable, or the goal is not dispatchable any more.
ClaimNothing(w) ==
    /\ pc[w] = "claiming"
    /\ ~\E i \in Item : Claimable(i)
    /\ Goto(w, "leaving")
    /\ UNCHANGED storeVars

\* A poll ends with a resume, whose report is returned.
ResumeAndLeave(w) ==
    /\ pc[w] = "leaving"
    /\ RecoverGoalState
    /\ Goto(w, "idle")

\* The resume_goal that ends the closing transactions; the loop goes round.
ResumeAfterClaim(w) ==
    /\ pc[w] = "resuming"
    /\ RecoverGoalState
    /\ Goto(w, "stepped")

-----------------------------------------------------------------------------
(* process_claim                                                            *)

\* The step is an external write and this process has the gate closed.
FailDisabledWrite(w) ==
    /\ pc[w] = "claimed"
    /\ StepOf(w) \in ExternalWrite /\ w \notin ExternalEnabled
    /\ FailAttempt(ItemOf(w), TokenOf(w), FALSE)
    /\ Goto(w, "resuming")

GateOpen(w) == StepOf(w) \in ExternalWrite => w \in ExternalEnabled

BlockMissingHandler(w) ==
    /\ pc[w] = "claimed"
    /\ GateOpen(w)
    /\ StepOf(w) \notin Registry[w]
    /\ BlockWorkItem(ItemOf(w), TokenOf(w))
    /\ Goto(w, "resuming")

\* The handler registered here does not have the effect class that was approved.
FailMismatchedEffect(w) ==
    /\ pc[w] = "claimed"
    /\ GateOpen(w)
    /\ StepOf(w) \in Registry[w] /\ <<w, StepOf(w)>> \in Mismatched
    /\ FailAttempt(ItemOf(w), TokenOf(w), FALSE)
    /\ Goto(w, "resuming")

StartHandler(w) ==
    /\ pc[w] = "claimed"
    /\ GateOpen(w)
    /\ StepOf(w) \in Registry[w] /\ <<w, StepOf(w)>> \notin Mismatched
    /\ PrepareCheckpoint(ItemOf(w), TokenOf(w))
    /\ Goto(w, "executing")

\* The handler performs its external effect.  Nothing checks the lease here: the
\* heartbeat that loses it only stops renewing.
SendEffect(w) ==
    /\ pc[w] = "executing"
    /\ StepOf(w) \in ExternalWrite
    /\ sent' = sent \union {job[w]}
    /\ UNCHANGED <<storeVars, workerVars, retried>>

ReserveInHandler(w) ==
    /\ pc[w] = "executing"
    /\ StepOf(w) \in UsesProvider
    /\ ReserveProviderCall
    /\ UNCHANGED <<workerVars, history>>

\* The handler finished: commit its outcome.
CommitOutcome(w) ==
    /\ pc[w] = "executing"
    /\ StepOf(w) \in ExternalWrite => job[w] \in sent
    /\ CommitCheckpoint(ItemOf(w), TokenOf(w))
    /\ Goto(w, "committed")

FinishClaim(w) ==
    /\ pc[w] = "committed"
    /\ FinishAttempt(ItemOf(w), TokenOf(w))
    /\ Goto(w, "resuming")

\* A handler error or the attempt deadline is retryable unless the handler says
\* otherwise; an invalid outcome, or a phase past the cap, is not.
FailHandler(w) ==
    /\ pc[w] = "executing"
    /\ \E retryable \in BOOLEAN : FailAttempt(ItemOf(w), TokenOf(w), retryable)
    /\ Goto(w, "resuming")

SleepHandler(w) ==
    /\ pc[w] = "executing"
    /\ StepOf(w) \in Phased
    /\ \/ DeferAttempt(ItemOf(w), TokenOf(w))
       \/ ContinueAttempt(ItemOf(w), TokenOf(w))
    /\ Goto(w, "resuming")

NextPhase(w) ==
    /\ pc[w] = "executing"
    /\ StepOf(w) \in Phased
    /\ RecordPhaseProgress(ItemOf(w), TokenOf(w))
    /\ UNCHANGED <<workerVars, history>>

\* A transaction is refused and the error returned: the worker drops the claim.  Every
\* transaction refuses a claim that is no longer current, and continue_attempt one
\* whose item used up its phases.
DropRefusedClaim(w) ==
    /\ pc[w] \in Busy
    /\ \/ ~ClaimCurrent(ItemOf(w), TokenOf(w))
       \/ /\ pc[w] = "executing" /\ StepOf(w) \in Phased
          /\ continues[ItemOf(w)] = MaxContinues
    /\ Goto(w, "idle")
    /\ UNCHANGED storeVars

\* The process stops between two transactions, and is started again.
Crash(w) ==
    /\ pc[w] \notin {"idle", "down"}
    /\ Goto(w, "down")
    /\ UNCHANGED storeVars

Restart(w) ==
    /\ pc[w] = "down"
    /\ Goto(w, "idle")
    /\ UNCHANGED storeVars

-----------------------------------------------------------------------------
(* The operator, the janitor and time.                                      *)

Approve ==
    /\ ApproveGoal
    /\ approving' = TRUE
    /\ UNCHANGED <<pc, job, history>>

\* approve_goal ends by resuming the goal.
ResumeAfterApprove ==
    /\ approving
    /\ RecoverGoalState
    /\ approving' = FALSE
    /\ UNCHANGED <<pc, job, history>>

Resolve ==
    \E c \in Claim, verdict \in {"confirmed", "retry", "abandoned"} :
        /\ ResolveWaitingConfirmation(c[1], c[2], verdict)
        /\ retried' = IF verdict = "retry" THEN retried \union {c} ELSE retried
        /\ UNCHANGED <<workerVars, sent>>

\* A transaction of the operator, of the janitor or of the clock leaves the workers
\* alone.
Aside(step) == step /\ UNCHANGED <<workerVars, history>>

OperatorStep ==
    \/ Aside(PlanGoal)
    \/ Aside(ReviewPlan)
    \/ Aside(RejectGoal)
    \/ Aside(CancelGoal)
    \/ Aside(MarkGoalForReplan)
    \/ Aside(PauseGoal)
    \/ Aside(UnpauseGoal)
    \/ Aside(RecordManualVerification)
    \/ Aside(VerifyGoal)
    \/ Aside(ExtendWorkflow)
    \/ Aside(RecoverGoalState)  \* POST /resume

TimeStep ==
    \/ \E i \in Item : Aside(LeaseExpires(i))
    \/ \E i \in Item : Aside(WakeTimeReached(i))
    \/ Aside(DeadlinePasses)
    \/ Aside(ExpireOverdueGoal)

WorkerStep(w) ==
    \/ PickGoal(w) \/ ResumeOnPoll(w) \/ ReadReport(w) \/ OutOfSteps(w)
    \/ VerifyOnPoll(w) \/ ResumeAfterVerify(w) \/ RereadReport(w) \/ RequeueOnPoll(w)
    \/ RecoverBeforeClaim(w) \/ ClaimReadyWorkItem(w) \/ ClaimNothing(w)
    \/ ResumeAndLeave(w) \/ ResumeAfterClaim(w)
    \/ FailDisabledWrite(w) \/ FailMismatchedEffect(w) \/ BlockMissingHandler(w)
    \/ StartHandler(w) \/ SendEffect(w) \/ ReserveInHandler(w) \/ CommitOutcome(w)
    \/ FinishClaim(w) \/ FailHandler(w) \/ SleepHandler(w) \/ NextPhase(w)
    \/ DropRefusedClaim(w) \/ Restart(w)

Next ==
    \/ \E w \in Worker : WorkerStep(w) \/ Crash(w)
    \/ Approve
    \/ ResumeAfterApprove
    \/ Resolve
    \/ OperatorStep
    \/ TimeStep

Spec == Init /\ [][Next]_vars

\* Liveness.  The dispatch loop polls for ever and a handler runs under a deadline, so
\* a worker goes on; a lease nobody holds is renewed by nobody, and wake times come;
\* the janitor runs on every dispatch tick.  A process that crashed is started again,
\* and does not crash for ever.
OrphanLeaseExpires ==
    \E i \in Item :
        /\ Aside(LeaseExpires(i))
        /\ \A w \in Worker : job[w] # <<i, fence[i]>>

Fairness ==
    /\ \A w \in Worker : WF_vars(WorkerStep(w))
    /\ WF_vars(OrphanLeaseExpires)
    /\ WF_vars(\E i \in Item : Aside(WakeTimeReached(i)))
    /\ WF_vars(Aside(ExpireOverdueGoal))
    /\ <>[][\A w \in Worker : ~Crash(w)]_vars

LiveSpec == Spec /\ Fairness

-----------------------------------------------------------------------------
(* Safety.                                                                  *)

\* An item runs under exactly one live attempt, the one its current fencing token
\* names; every other attempt of it is closed.
OneLiveAttempt ==
    \A i \in Item :
        /\ \A n \in Token : att[i][n] \in Live => item[i] = "running" /\ fence[i] = n
        /\ item[i] = "running" => fence[i] \in Token /\ att[i][fence[i]] \in Live

\* Once an outcome is committed the item is never claimed again: whatever crashes or
\* resumes follow, the committed checkpoint belongs to the item's last claim, and the
\* item is either about to be reconciled or settled.
CommittedIsNeverReplayed ==
    \A i \in Item, n \in Token :
        ckpt[i][n] \in {"committed", "reconciled"} =>
            /\ fence[i] = n
            /\ item[i] \in {"running", "succeeded", "failed", "canceled"}
            /\ item[i] = "running" => att[i][n] = "committing"

\* A parked item can always be resolved: its last attempt is parked with it and still
\* has the prepared checkpoint the operator rules on.
ParkedIsResolvable ==
    \A i \in Item :
        item[i] = "waiting_confirmation" =>
            /\ fence[i] \in Token
            /\ att[i][fence[i]] = "waiting_confirmation"
            /\ ckpt[i][fence[i]] = "prepared"
            /\ i[2] \in ExternalWrite \union ReplayUnsafe

\* An item that waits to be claimed has attempts left, so the claim query can select
\* it: no path requeues an item the query would skip for ever.
RequeuedIsClaimable ==
    \A i \in Item :
        /\ AttemptCount(i) <= MaxAttempts
        /\ item[i] \in {"pending", "ready", "blocked", "blocked_missing_handler"} =>
               AttemptCount(i) < MaxAttempts

\* No item was ever claimed before all of its dependencies had succeeded.
DependenciesFirst ==
    \A i \in Item : fence[i] > 0 => \A d \in deps[i] : item[d] = "succeeded"

\* A goal under verification, or achieved, has every item of the approved workflow
\* succeeded, each with a reconciled checkpoint to show for it.
VerdictHasEvidence ==
    goal \in {"verifying", "achieved"} =>
        /\ Current(item, approved) # {}
        /\ \A i \in Current(item, approved) :
               item[i] = "succeeded" /\ \E n \in Token : ckpt[i][n] = "reconciled"

\* Work exists only for plan revisions the operator has read, and work of a revision
\* that a later approval superseded is settled.
OnlyReviewedWork ==
    \A i \in Item :
        /\ item[i] # "absent" => i[1] <= reviewed /\ i[1] <= approved
        /\ i[1] < approved => item[i] \in {"absent", "succeeded", "failed", "canceled"}

\* A crash never repeats an external effect: when an item is claimed again after an
\* attempt that performed it, then that attempt's own worker reported a failure or
\* the operator ruled that the effect did not happen.
NoUnaskedResend ==
    \A c \in sent : fence[c[1]] > c[2] => att[c[1]][c[2]] = "failed" \/ c \in retried

\* The statuses an attempt ends with, and what a step leaves of item i's rows.
Closed == {"succeeded", "failed", "abandoned", "void"}
RowsKept(i) ==
    /\ item[i] \in {"succeeded", "failed"} => item'[i] = item[i]
    /\ item[i] = "canceled" => item'[i] \in {"canceled", "failed"}
    /\ fence'[i] >= fence[i]
    /\ \A n \in Token :
        /\ att[i][n] \in Closed => att'[i][n] = att[i][n]
        /\ ckpt[i][n] \in {"reconciled", "voided"} => ckpt'[i][n] = ckpt[i][n]
        /\ ckpt[i][n] = "committed" => ckpt'[i][n] \in {"committed", "reconciled"}

\* Closed attempts, settled checkpoints and settled items never change again; the one
\* exception is cancel_goal, which turns canceled items of older revisions to failed.
LedgerIsAppendOnly == [][\A i \in Item : RowsKept(i)]_vars

\* Phases that were committed stay committed: retries, deferrals, confirmations and
\* crashes resume from them, and only success clears an item's progress.
ProgressSurvives ==
    [][\A i \in Item : continues'[i] < continues[i] => item'[i] = "succeeded"]_vars

\* An achieved goal stays achieved and a replan is the only way out of a rejected or
\* canceled one.
VerdictIsFinal ==
    [][/\ goal = "achieved" => goal' = "achieved"
       /\ goal \in {"rejected", "canceled"} => goal' \in {goal, "replan"}]_vars

-----------------------------------------------------------------------------
(* The inductive invariant behind the ledger's safety: what the transactions *)
(* rely on beyond the properties above.                                      *)

\* A token that was not issued yet has no attempt and no checkpoint.
FreshTokens ==
    \A i \in Item, n \in Token : n > fence[i] => att[i][n] = "none" /\ ckpt[i][n] = "none"

\* An attempt is parked only as the newest one of an item that is parked itself.
ParkedAttempts ==
    \A i \in Item, n \in Token :
        att[i][n] = "waiting_confirmation" => item[i] = "waiting_confirmation" /\ fence[i] = n

\* commit_checkpoint moves the attempt and its checkpoint together.
CommittingIsCommitted ==
    \A i \in Item, n \in Token : att[i][n] = "committing" => ckpt[i][n] = "committed"

\* Items exist for approved plans only; the latest plan is the approved one while work
\* goes on and not yet approved while it is reviewed; canceled items belong to plans
\* that were superseded.
Revisions ==
    /\ approved <= planned
    /\ goal = "review_ready" => approved < planned
    /\ goal \in {"approved", "active", "verifying", "paused", "failed", "achieved"} =>
           approved = planned
    /\ \A i \in Item :
           /\ i[1] > approved => item[i] = "absent"
           /\ item[i] = "absent" => fence[i] = 0
           /\ item[i] = "canceled" => i[1] < planned \/ goal = "replan"

\* No two workers hold the same claim, and until its worker commits, nobody has.
ExclusiveClaims ==
    \A w \in Worker :
        pc[w] \in Busy =>
            /\ TokenOf(w) <= fence[ItemOf(w)]
            /\ pc[w] # "committed" => att[ItemOf(w)][TokenOf(w)] # "committing"
            /\ \A v \in Worker : pc[v] \in Busy /\ v # w => job[v] # job[w]

\* The ledger invariant: what holds between any two transactions of any actors, and
\* what every transaction of the store needs to keep it.
LedgerInvariant ==
    /\ FreshTokens
    /\ OneLiveAttempt
    /\ ParkedIsResolvable
    /\ ParkedAttempts
    /\ CommittedIsNeverReplayed
    /\ CommittingIsCommitted
    /\ Revisions
    /\ ExclusiveClaims

-----------------------------------------------------------------------------
(* Liveness, under LiveSpec.                                                *)

\* Work orphaned by a crash is taken back: an item that runs for no worker stops
\* running while its goal is dispatched.
OrphanIsSettled ==
    \A i \in Item :
        (item[i] = "running" /\ \A w \in Worker : job[w] # <<i, fence[i]>>)
            ~> (item[i] # "running" \/ goal \notin Dispatchable)

\* A dispatched goal never hangs: it reaches a verdict, or an operator has stopped it,
\* or an item waits for the operator's confirmation.
GoalSettles ==
    goal \in {"approved", "active"}
        ~> (goal \notin {"approved", "active"} \/ \E i \in Item : item[i] = "waiting_confirmation")

\* A goal whose acceptance criteria are met does not stay under verification.
VerifiableIsDecided == (goal = "verifying" /\ CriteriaMet) ~> goal # "verifying"

-----------------------------------------------------------------------------
\* What LoopEngine::expire_overdue_goals says: an overdue goal that was failed lands
\* there, and only a replan takes it out again.
ExpiryIsTerminal ==
    [][goal = "failed" /\ clock = "overdue" => goal' \in {"failed", "replan"}]_vars
=============================================================================
