----------------------------- MODULE LoopStore -----------------------------
(***************************************************************************)
(* The durable ledger of one goal of the loop engine, as the transactions  *)
(* of src/harness/loop_engine/store.rs change it: the goal row, its work   *)
(* items, their attempts (one per claim) and the checkpoint of each        *)
(* attempt.  Every operator below that describes a step is one             *)
(* BEGIN IMMEDIATE transaction, so it is atomic here too.                  *)
(*                                                                         *)
(* Wall-clock columns are abstracted to what the code compares them for: a *)
(* lease is live or expired (lease_until < now), a ready item is due or    *)
(* not (next_attempt_at <= now), the goal's budget clock is unset, not     *)
(* started, ticking or overdue.  Time passes by the steps LeaseExpires,    *)
(* WakeTimeReached and DeadlinePasses, in any order.                       *)
(*                                                                         *)
(* An attempt is named by its item and its fencing token: every claim      *)
(* increments the item's token and nothing else does.                      *)
(***************************************************************************)
EXTENDS Naturals, FiniteSets

CONSTANTS
    Step,           \* step ids a workflow of the goal may contain
    DependsOn,      \* step -> the steps its incoming edges come from
    Dynamic,        \* steps that are not planned but appended by extend_workflow
    ExternalWrite,  \* steps whose effect class is external_write
    ReplayUnsafe,   \* steps whose handler declares replay_safe = false
    Required,       \* steps whose artifact an acceptance criterion asks for
    MaxAttempts,    \* retry.max_attempts of every step
    MaxNodes,       \* max_nodes of the approved expansion marker
    MaxContinues,   \* MAX_PHASE_CONTINUES
    MaxRevs,        \* bound: how many plans the goal gets
    MaxClaims       \* bound: how many claims one item gets

\* An outcome the operator attests carries no artifact, so a required artifact is one
\* of a step that never parks.
ASSUME StepAssumption ==
    /\ IsFiniteSet(Step)
    /\ Dynamic \subseteq Step
    /\ ExternalWrite \subseteq Step
    /\ ReplayUnsafe \subseteq Step
    /\ Required \subseteq Step \ (ExternalWrite \union ReplayUnsafe)
    /\ DependsOn \in [Step -> SUBSET Step]

ASSUME BoundAssumption ==
    /\ MaxAttempts \in Nat \ {0}
    /\ MaxNodes \in Nat
    /\ MaxContinues \in Nat
    /\ MaxRevs \in Nat
    /\ MaxClaims \in Nat

Rev  == 1..MaxRevs
Item == Rev \X Step
Token == 1..MaxClaims

VARIABLES
    goal,       \* harness_goals.status
    planned,    \* number of harness_workflows rows: the latest plan's revision
    approved,   \* the highest revision in harness_goal_approvals, 0 if none
    reviewed,   \* the plan revision the operator read last (latest_plan)
    manual,     \* a harness_manual_verifications row exists for the goal's label
    clock,      \* harness_goal_budget_usage: none | idle | ticking | overdue
    deps,       \* harness_work_item_dependencies
    item,       \* harness_work_items.status, "absent" before it is inserted
    lease,      \* lease_token and lease_until: none | live | expired
    fence,      \* harness_work_items.fencing_token
    due,        \* next_attempt_at IS NULL OR next_attempt_at <= now
    continues,  \* continues of progress_json, 0 when it is NULL
    att,        \* item -> token -> harness_attempts.status
    ckpt        \* item -> token -> phase of the attempt's checkpoint

goalVars == <<goal, planned, approved, reviewed, manual, clock>>
itemVars == <<deps, item, lease, fence, due, continues>>
storeVars == <<goalVars, itemVars, att, ckpt>>

GoalStatus == {"proposed", "review_ready", "approved", "active", "verifying",
               "achieved", "rejected", "canceled", "paused", "failed", "replan"}
ItemStatus == {"absent", "pending", "ready", "running", "waiting_confirmation",
               "succeeded", "failed", "blocked", "blocked_missing_handler",
               "canceled"}
AttemptStatus == {"none", "running", "committing", "waiting_confirmation",
                  "succeeded", "failed", "abandoned", "void"}
CheckpointPhase == {"none", "prepared", "committed", "reconciled", "voided"}

Live == {"running", "committing"}
Open == Live \union {"waiting_confirmation"}

\* Every column holds a value that its decoder accepts.
TypeOK ==
    /\ goal \in GoalStatus
    /\ planned \in 0..MaxRevs /\ approved \in 0..MaxRevs /\ reviewed \in 0..MaxRevs
    /\ manual \in BOOLEAN
    /\ clock \in {"none", "idle", "ticking", "overdue"}
    /\ deps \in [Item -> SUBSET Item]
    /\ item \in [Item -> ItemStatus]
    /\ lease \in [Item -> {"none", "live", "expired"}]
    /\ fence \in [Item -> 0..MaxClaims]
    /\ due \in [Item -> BOOLEAN]
    /\ continues \in [Item -> 0..MaxContinues]
    /\ att \in [Item -> [Token -> AttemptStatus]]
    /\ ckpt \in [Item -> [Token -> CheckpointPhase]]

StoreInit ==
    /\ goal = "proposed"
    /\ planned = 0 /\ approved = 0 /\ reviewed = 0
    /\ manual = FALSE
    /\ clock = "none"
    /\ deps = [i \in Item |-> {}]
    /\ item = [i \in Item |-> "absent"]
    /\ lease = [i \in Item |-> "none"]
    /\ fence = [i \in Item |-> 0]
    /\ due = [i \in Item |-> TRUE]
    /\ continues = [i \in Item |-> 0]
    /\ att = [i \in Item |-> [n \in Token |-> "none"]]
    /\ ckpt = [i \in Item |-> [n \in Token |-> "none"]]

-----------------------------------------------------------------------------
(* What several transactions share.                                        *)

\* SELECT COUNT(*) FROM harness_attempts WHERE ... AND status != 'void'
SpentAttempts(i) == {n \in Token : att[i][n] \notin {"none", "void"}}
AttemptCount(i) == Cardinality(SpentAttempts(i))

\* Mutant: recovery does not see that an outcome was committed.
HasCommittedMissed(i) == FALSE

HasCommitted(i) == \E n \in Token : ckpt[i][n] = "committed"

\* Mutant: a predecessor that is still running counts as done.
UnlockedEarly(its, ds) ==
    [i \in Item |-> IF its[i] = "pending" /\ \A d \in ds[i] : its[d] \in {"running", "succeeded"}
                    THEN "ready" ELSE its[i]]

\* unlock_ready_work_tx, on the item statuses `its'.
Unlocked(its, ds) ==
    [i \in Item |-> IF its[i] = "pending" /\ \A d \in ds[i] : its[d] = "succeeded"
                    THEN "ready" ELSE its[i]]

\* refresh_goal_status_tx: the goal status that follows from the item statuses
\* `its' of the workflow approved last.
Current(its, rev) == {i \in Item : i[1] = rev /\ its[i] # "absent"}

\* Mutant: a parked item counts as succeeded.
RefreshedOverParked(g, its, rev) ==
    LET cur == Current(its, rev)
    IN  IF g \notin {"approved", "active", "verifying", "failed"} THEN g
        ELSE IF cur # {} /\ \A i \in cur : its[i] \in {"succeeded", "waiting_confirmation"}
             THEN "verifying"
        ELSE IF \E i \in cur : its[i] = "failed" THEN "failed" ELSE g

\* Mutant: the status the goal has is not looked at.
RefreshedAnyStatus(g, its, rev) ==
    IF \E i \in Current(its, rev) : its[i] = "failed" THEN "failed" ELSE g

Refreshed(g, its, rev) ==
    LET cur == Current(its, rev)
    IN  IF g \notin {"approved", "active", "verifying", "failed"} THEN g
        ELSE IF cur # {} /\ \A i \in cur : its[i] = "succeeded" THEN "verifying"
        ELSE IF \E i \in cur : its[i] = "failed" THEN "failed"
        ELSE IF \E i \in cur : its[i] \in {"running", "succeeded", "waiting_confirmation"}
             THEN "active"
        ELSE g

\* The items that follow i in the dependency graph, directly or not: they are in
\* every set that holds i's dependents and the dependents of its own members.
Downstream(i) ==
    {j \in Item : \A S \in SUBSET Item :
        (\A k \in Item : (i \in deps[k] \/ deps[k] \intersect S # {}) => k \in S)
            => j \in S}

-----------------------------------------------------------------------------
(* recover_goal_state: reconcile every committed checkpoint, then settle    *)
(* the running items whose lease expired, then unlock and refresh.          *)

\* Mutant: only items with a prepared checkpoint are taken back.
StaleIfPrepared(i) ==
    /\ item[i] = "running" /\ lease[i] = "expired" /\ ~HasCommitted(i)
    /\ \E n \in Token : ckpt[i][n] = "prepared"

\* The item runs on an expired lease and no committed outcome settles it first.
Stale(i) == item[i] = "running" /\ lease[i] = "expired" /\ ~HasCommitted(i)

\* Mutant: external writes rely on the handler's replay_safe flag alone.
AmbiguousIfDeclared(i) ==
    /\ i[2] \in ReplayUnsafe \ ExternalWrite
    /\ \E n \in Token : ckpt[i][n] = "prepared" /\ att[i][n] \in Live

\* A prepared checkpoint of a live attempt leaves its effect in doubt.
Ambiguous(i) ==
    /\ i[2] \in ExternalWrite \union ReplayUnsafe
    /\ \E n \in Token : ckpt[i][n] = "prepared" /\ att[i][n] \in Live

Parked(i) == Stale(i) /\ Ambiguous(i)
Exhausted(i) == Stale(i) /\ ~Ambiguous(i) /\ AttemptCount(i) >= MaxAttempts
Retried(i) == Stale(i) /\ ~Ambiguous(i) /\ AttemptCount(i) < MaxAttempts

RecoveredItem ==
    [i \in Item |->
        IF item[i] = "running" /\ HasCommitted(i) THEN "succeeded"
        ELSE IF Parked(i) THEN "waiting_confirmation"
        ELSE IF Exhausted(i) THEN "failed"
        ELSE IF Retried(i) THEN "ready"
        ELSE item[i]]

\* Mutant: the attempt of a requeued item is left as it was.
RecoveredAttemptLeft ==
    [i \in Item |-> [n \in Token |->
        IF att[i][n] \notin Live THEN att[i][n]
        ELSE IF ckpt[i][n] = "committed" THEN "succeeded"
        ELSE IF Parked(i) THEN "waiting_confirmation"
        ELSE IF Exhausted(i) THEN "failed"
        ELSE att[i][n]]]

RecoveredAttempt ==
    [i \in Item |-> [n \in Token |->
        IF att[i][n] \notin Live THEN att[i][n]
        ELSE IF ckpt[i][n] = "committed" THEN "succeeded"
        ELSE IF Parked(i) THEN "waiting_confirmation"
        ELSE IF Exhausted(i) THEN "failed"
        ELSE IF Retried(i) THEN "abandoned"
        ELSE att[i][n]]]

\* Mutant: parking voids the prepared checkpoint as well.
RecoveredCheckpointVoided ==
    [i \in Item |-> [n \in Token |->
        IF ckpt[i][n] = "committed" THEN "reconciled"
        ELSE IF ckpt[i][n] = "prepared" /\ att[i][n] \in Live /\ Stale(i) THEN "voided"
        ELSE ckpt[i][n]]]

RecoveredCheckpoint ==
    [i \in Item |-> [n \in Token |->
        IF ckpt[i][n] = "committed" THEN "reconciled"
        ELSE IF ckpt[i][n] = "prepared" /\ att[i][n] \in Live
                  /\ (Exhausted(i) \/ Retried(i)) THEN "voided"
        ELSE ckpt[i][n]]]

RecoverGoalState ==
    LET settled(i) == item[i] = "running" /\ HasCommitted(i) IN
    /\ item' = Unlocked(RecoveredItem, deps)
    /\ att' = RecoveredAttempt
    /\ ckpt' = RecoveredCheckpoint
    /\ lease' = [i \in Item |-> IF settled(i) \/ Stale(i) THEN "none" ELSE lease[i]]
    /\ due' = [i \in Item |-> IF settled(i) \/ Parked(i) \/ Exhausted(i) THEN TRUE
                              ELSE IF Retried(i) THEN FALSE ELSE due[i]]
    /\ continues' = [i \in Item |-> IF settled(i) THEN 0 ELSE continues[i]]
    /\ goal' = Refreshed(goal, item', approved)
    /\ UNCHANGED <<planned, approved, reviewed, manual, clock, deps, fence>>

-----------------------------------------------------------------------------
(* Goal transactions.                                                      *)

\* plan_goal stores a workflow under the next revision.
PlanGoal ==
    /\ goal \in {"proposed", "replan"}
    /\ planned < MaxRevs
    /\ planned' = planned + 1
    /\ goal' = "review_ready"
    /\ UNCHANGED <<approved, reviewed, manual, clock, itemVars, att, ckpt>>

\* latest_plan: the operator reads the plan, its revision and its hash.
ReviewPlan ==
    /\ planned > 0
    /\ reviewed' = planned
    /\ UNCHANGED <<goal, planned, approved, manual, clock, itemVars, att, ckpt>>

\* Mutant: the approval does not say which plan was reviewed.
ApproveUnreviewed ==
    LET new == {i \in Item : i[1] = planned /\ i[2] \notin Dynamic} IN
    /\ goal = "review_ready"
    /\ approved' = planned /\ goal' = "approved" /\ clock' = "idle"
    /\ item' = [i \in Item |-> IF i \in new THEN "ready" ELSE item[i]]
    /\ UNCHANGED <<planned, reviewed, manual, deps, lease, fence, due, continues, att, ckpt>>

\* approve_goal's transaction: the expected revision and hash must be those of the
\* stored plan; the steps become work items and the budget row is replaced.
ApproveGoal ==
    LET new == {i \in Item : i[1] = planned /\ i[2] \notin Dynamic} IN
    /\ goal = "review_ready"
    /\ reviewed = planned
    /\ approved' = planned
    /\ goal' = "approved"
    /\ clock' = "idle"
    /\ deps' = [i \in Item |-> IF i \in new THEN {<<planned, s>> : s \in DependsOn[i[2]]}
                                           ELSE deps[i]]
    /\ item' = [i \in Item |-> IF i \notin new THEN item[i]
                               ELSE IF DependsOn[i[2]] # {} THEN "pending" ELSE "ready"]
    /\ UNCHANGED <<planned, reviewed, manual, lease, fence, due, continues, att, ckpt>>

RejectGoal ==
    /\ goal \in {"proposed", "review_ready"}
    /\ goal' = "rejected"
    /\ UNCHANGED <<planned, approved, reviewed, manual, clock, itemVars, att, ckpt>>

\* Mutant: the attempts are left open.
CloseItemsOnly(kept, to) ==
    LET closed(i) == item[i] \notin kept \union {"absent"} IN
    /\ item' = [i \in Item |-> IF closed(i) THEN to ELSE item[i]]
    /\ lease' = [i \in Item |-> IF closed(i) THEN "none" ELSE lease[i]]
    /\ due' = [i \in Item |-> IF closed(i) THEN TRUE ELSE due[i]]
    /\ UNCHANGED <<planned, approved, reviewed, manual, clock, deps, fence, continues,
                   att, ckpt>>

\* What cancel_goal and mark_goal_for_replan do to attempts and items: open attempts
\* are abandoned, items outside `kept' get status `to'; checkpoints stay as they are.
CloseWork(kept, to) ==
    LET closed(i) == item[i] \notin kept \union {"absent"} IN
    /\ att' = [i \in Item |-> [n \in Token |->
                  IF att[i][n] \in Open THEN "abandoned" ELSE att[i][n]]]
    /\ item' = [i \in Item |-> IF closed(i) THEN to ELSE item[i]]
    /\ lease' = [i \in Item |-> IF closed(i) THEN "none" ELSE lease[i]]
    /\ due' = [i \in Item |-> IF closed(i) THEN TRUE ELSE due[i]]
    /\ UNCHANGED <<planned, approved, reviewed, manual, clock, deps, fence, continues, ckpt>>

CancelGoal ==
    /\ goal \in {"proposed", "review_ready", "approved", "active", "verifying"}
    /\ CloseWork({"succeeded", "failed"}, "failed")
    /\ goal' = "canceled"

MarkGoalForReplan ==
    /\ goal \in {"failed", "canceled", "rejected"}
    /\ CloseWork({"succeeded", "failed", "canceled"}, "canceled")
    /\ goal' = "replan"

\* set_goal_paused, both ways.
PauseGoal ==
    /\ goal \in {"approved", "active", "verifying"}
    /\ goal' = "paused"
    /\ UNCHANGED <<planned, approved, reviewed, manual, clock, itemVars, att, ckpt>>

UnpauseGoal ==
    /\ goal = "paused"
    /\ goal' = "active"
    /\ UNCHANGED <<planned, approved, reviewed, manual, clock, itemVars, att, ckpt>>

\* expire_overdue_goals fails the goal row and leaves its work as it is.
ExpireOverdueGoal ==
    /\ goal \in {"approved", "active", "verifying"}
    /\ clock = "overdue"
    /\ goal' = "failed"
    /\ UNCHANGED <<planned, approved, reviewed, manual, clock, itemVars, att, ckpt>>

\* record_manual_verification, of the label the acceptance criteria name.
RecordManualVerification ==
    /\ goal \in {"verifying", "achieved"}
    /\ manual' = TRUE
    /\ UNCHANGED <<goal, planned, approved, reviewed, clock, itemVars, att, ckpt>>

\* The acceptance criteria of verify_goal: the manual label, and for every required
\* artifact an outcome of its step among the goal's reconciled checkpoints, of
\* whatever revision.
CriteriaMet ==
    /\ manual
    /\ \A s \in Required :
           \E r \in Rev, n \in Token : ckpt[<<r, s>>][n] = "reconciled"

VerifyGoal ==
    /\ goal = "verifying"
    /\ goal' = IF CriteriaMet THEN "achieved" ELSE goal
    /\ UNCHANGED <<planned, approved, reviewed, manual, clock, itemVars, att, ckpt>>

\* extend_workflow appends one step.  The duplicate, budget and known-step checks read
\* every item of the goal that is not canceled; a dependency is then looked up by step
\* id alone, so with several revisions any row of that step may be the one found.
ExtendWorkflow ==
    LET rows == {i \in Item : item[i] # "absent"}
        open == {i \in rows : item[i] # "canceled"}
        ids  == {i[2] : i \in open}
    IN
    /\ goal \in {"approved", "active", "verifying"}
    /\ Cardinality(open) + 1 <= MaxNodes
    /\ \E s \in Dynamic \ ids :
         LET new == <<planned, s>> IN
         /\ DependsOn[s] \subseteq ids
         /\ \E f \in [DependsOn[s] -> rows] :
              /\ \A d \in DependsOn[s] : f[d][2] = d
              /\ deps' = [deps EXCEPT ![new] = {f[d] : d \in DependsOn[s]}]
         /\ item' = [item EXCEPT ![new] = IF DependsOn[s] = {} THEN "ready" ELSE "pending"]
    /\ goal' = Refreshed(goal, item', approved)
    /\ UNCHANGED <<planned, approved, reviewed, manual, clock, lease, fence, due,
                   continues, att, ckpt>>

-----------------------------------------------------------------------------
(* Claim transactions.  A claim is an item with the fencing token it was    *)
(* issued under.                                                            *)

\* Mutant: work is only handed out until the goal becomes active.
ClaimableIfApproved(i) ==
    goal = "approved" /\ item[i] = "ready" /\ due[i] /\ AttemptCount(i) < MaxAttempts
        /\ fence[i] < MaxClaims

Claimable(i) ==
    /\ goal \in {"approved", "active"}
    /\ item[i] = "ready"
    /\ due[i]
    /\ AttemptCount(i) < MaxAttempts
    /\ fence[i] < MaxClaims

\* The transaction of claim_ready_work_item, for the item it selects.
ClaimItem(i) ==
    /\ Claimable(i)
    /\ item' = [item EXCEPT ![i] = "running"]
    /\ lease' = [lease EXCEPT ![i] = "live"]
    /\ fence' = [fence EXCEPT ![i] = @ + 1]
    /\ att' = [att EXCEPT ![i][fence[i] + 1] = "running"]
    /\ goal' = "active"
    /\ UNCHANGED <<planned, approved, reviewed, manual, clock, deps, due, continues, ckpt>>

\* Mutant: the fencing token and the attempt's own status are not compared.
ClaimCurrentUnfenced(i, n) == item[i] = "running" /\ lease[i] = "live"

\* ensure_claim_current
ClaimCurrent(i, n) ==
    /\ item[i] = "running"
    /\ fence[i] = n
    /\ lease[i] = "live"
    /\ att[i][n] \in Live

PrepareCheckpoint(i, n) ==
    /\ ClaimCurrent(i, n)
    /\ ckpt' = [ckpt EXCEPT ![i][n] = "prepared"]
    /\ UNCHANGED <<goalVars, itemVars, att>>

CommitCheckpoint(i, n) ==
    /\ ClaimCurrent(i, n)
    /\ ckpt[i][n] = "prepared"
    /\ ckpt' = [ckpt EXCEPT ![i][n] = "committed"]
    /\ att' = [att EXCEPT ![i][n] = "committing"]
    /\ UNCHANGED <<goalVars, itemVars>>

\* finish_attempt up to its trailing resume_goal.
FinishAttempt(i, n) ==
    /\ ClaimCurrent(i, n)
    /\ ckpt[i][n] = "committed"
    /\ ckpt' = [ckpt EXCEPT ![i][n] = "reconciled"]
    /\ att' = [att EXCEPT ![i][n] = "succeeded"]
    /\ item' = Unlocked([item EXCEPT ![i] = "succeeded"], deps)
    /\ lease' = [lease EXCEPT ![i] = "none"]
    /\ due' = [due EXCEPT ![i] = TRUE]
    /\ continues' = [continues EXCEPT ![i] = 0]
    /\ goal' = Refreshed(goal, item', approved)
    /\ UNCHANGED <<planned, approved, reviewed, manual, clock, deps, fence>>

\* fail_attempt up to its trailing resume_goal.
FailAttempt(i, n, retryable) ==
    LET retry == retryable /\ AttemptCount(i) < MaxAttempts IN
    /\ ClaimCurrent(i, n)
    /\ att' = [att EXCEPT ![i][n] = "failed"]
    /\ item' = [j \in Item |->
          IF j = i THEN IF retry THEN "ready" ELSE "failed"
          ELSE IF ~retry /\ j \in Downstream(i) /\ item[j] \in {"pending", "ready"}
               THEN "blocked"
          ELSE item[j]]
    /\ lease' = [lease EXCEPT ![i] = "none"]
    /\ due' = [due EXCEPT ![i] = ~retry]
    /\ goal' = Refreshed(goal, item', approved)
    /\ UNCHANGED <<planned, approved, reviewed, manual, clock, deps, fence, continues, ckpt>>

\* Mutant: the attempt is closed as one that counts.
AbandonAttempt(i, n, to, isDue) ==
    /\ ClaimCurrent(i, n)
    /\ ckpt' = [ckpt EXCEPT ![i][n] = IF @ = "prepared" THEN "voided" ELSE @]
    /\ att' = [att EXCEPT ![i][n] = "abandoned"]
    /\ item' = [item EXCEPT ![i] = to]
    /\ lease' = [lease EXCEPT ![i] = "none"]
    /\ due' = [due EXCEPT ![i] = isDue]
    /\ UNCHANGED <<goalVars, deps, fence>>

\* What block_work_item, defer_attempt and continue_attempt share: the attempt does
\* not count against the retry budget and its prepared checkpoint is voided.
VoidAttempt(i, n, to, isDue) ==
    /\ ClaimCurrent(i, n)
    /\ ckpt' = [ckpt EXCEPT ![i][n] = IF @ = "prepared" THEN "voided" ELSE @]
    /\ att' = [att EXCEPT ![i][n] = "void"]
    /\ item' = [item EXCEPT ![i] = to]
    /\ lease' = [lease EXCEPT ![i] = "none"]
    /\ due' = [due EXCEPT ![i] = isDue]
    /\ UNCHANGED <<goalVars, deps, fence>>

BlockWorkItem(i, n) ==
    /\ VoidAttempt(i, n, "blocked_missing_handler", TRUE)
    /\ UNCHANGED continues

\* Mutant: deferring clears the committed phases.
DeferFromScratch(i, n) ==
    /\ VoidAttempt(i, n, "ready", FALSE)
    /\ continues' = [continues EXCEPT ![i] = 0]

DeferAttempt(i, n) ==
    /\ VoidAttempt(i, n, "ready", FALSE)
    /\ UNCHANGED continues

ContinueAttempt(i, n) ==
    /\ continues[i] < MaxContinues
    /\ VoidAttempt(i, n, "ready", FALSE)
    /\ continues' = [continues EXCEPT ![i] = @ + 1]

RecordPhaseProgress(i, n) ==
    /\ ClaimCurrent(i, n)
    /\ continues[i] < MaxContinues
    /\ continues' = [continues EXCEPT ![i] = @ + 1]
    /\ UNCHANGED <<goalVars, deps, item, lease, fence, due, att, ckpt>>

\* requeue_blocked_items, by a process whose registry holds the handlers of `known'.
RequeueBlockedItems(known) ==
    LET back(i) == item[i] = "blocked_missing_handler" /\ i[2] \in known IN
    /\ item' = [i \in Item |-> IF back(i) THEN "ready" ELSE item[i]]
    /\ due' = [i \in Item |-> IF back(i) THEN TRUE ELSE due[i]]
    /\ UNCHANGED <<goalVars, deps, lease, fence, continues, att, ckpt>>

\* reserve_provider_call starts the goal's budget clock.
ReserveProviderCall ==
    /\ clock \in {"idle", "ticking"}
    /\ clock' = "ticking"
    /\ UNCHANGED <<goal, planned, approved, reviewed, manual, itemVars, att, ckpt>>

\* resolve_waiting_confirmation's transaction, on the newest parked attempt.
ResolveWaitingConfirmation(i, n, verdict) ==
    LET after == IF verdict = "confirmed" THEN "succeeded"
                 ELSE IF verdict = "retry" /\ AttemptCount(i) < MaxAttempts THEN "ready"
                 ELSE "failed"
        closing == IF verdict = "confirmed" THEN "succeeded"
                   ELSE IF verdict = "retry" THEN "abandoned" ELSE "failed"
    IN
    /\ item[i] = "waiting_confirmation"
    /\ att[i][n] = "waiting_confirmation"
    /\ \A m \in Token : att[i][m] = "waiting_confirmation" => m <= n
    /\ ckpt[i][n] = "prepared"
    /\ i[2] \in ExternalWrite \union ReplayUnsafe
    /\ ckpt' = [ckpt EXCEPT ![i][n] = IF verdict = "confirmed" THEN "reconciled" ELSE "voided"]
    /\ att' = [att EXCEPT ![i][n] = closing]
    /\ item' = Unlocked([item EXCEPT ![i] = after], deps)
    /\ lease' = [lease EXCEPT ![i] = "none"]
    /\ due' = [due EXCEPT ![i] = TRUE]
    /\ goal' = Refreshed(goal, item', approved)
    /\ UNCHANGED <<planned, approved, reviewed, manual, clock, deps, fence, continues>>

-----------------------------------------------------------------------------
(* The passage of time.                                                     *)

LeaseExpires(i) ==
    /\ lease[i] = "live"
    /\ lease' = [lease EXCEPT ![i] = "expired"]
    /\ UNCHANGED <<goalVars, deps, item, fence, due, continues, att, ckpt>>

WakeTimeReached(i) ==
    /\ ~due[i]
    /\ due' = [due EXCEPT ![i] = TRUE]
    /\ UNCHANGED <<goalVars, deps, item, lease, fence, continues, att, ckpt>>

DeadlinePasses ==
    /\ clock = "ticking"
    /\ clock' = "overdue"
    /\ UNCHANGED <<goal, planned, approved, reviewed, manual, itemVars, att, ckpt>>
=============================================================================
