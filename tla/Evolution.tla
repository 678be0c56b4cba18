----------------------------- MODULE Evolution -----------------------------
(***************************************************************************)
(* The prompt evolution engine of src/harness/evolution.rs over its SQLite  *)
(* store (src/harness/store.rs): candidates, their shadow evaluations, the  *)
(* resumable evaluation cursor, human approval, and the stack of            *)
(* deployments an activation pushes on and a rollback pops from.            *)
(*                                                                         *)
(* Every store call is one transaction and one action; between two calls of *)
(* a handler anything may happen.  The engine keeps a copy of the active    *)
(* policy in memory (EvolutionPolicyRuntime), read by evaluations and       *)
(* approvals and written after the transaction of an activation or a        *)
(* rollback.  A request may be dropped, and the process may stop, between   *)
(* any two of its steps.                                                    *)
(*                                                                         *)
(* Scores and prompts are left out: an evaluation is the candidate, the     *)
(* baseline it was compared with and whether the gate let it pass.          *)
(***************************************************************************)
EXTENDS Integers, Sequences

CONSTANTS
    Candidate,       \* candidate ids
    Operator,        \* concurrent control-plane requests
    NoCandidate,     \* no policy to compare with
    CaseCount,       \* cases of the enabled suite
    MaxEvaluations,  \* bound: evaluations recorded
    MaxDeployments   \* bound: deployments made

ASSUME EvolutionAssumption ==
    /\ NoCandidate \notin Candidate
    /\ CaseCount \in Nat \ {0}
    /\ MaxEvaluations \in Nat
    /\ MaxDeployments \in Nat

VARIABLES
    status,       \* candidate -> status, "absent" before it is created
    evaluations,  \* evolution_evaluations, oldest first
    approval,     \* candidate -> evaluation the approval in force names, 0: none
    cursor,       \* candidate -> its evolution_eval_runs row
    deployments,  \* evolution_deployments, oldest first
    active,       \* active_deployment_id, 0: none
    policy,       \* deployment in the EvolutionPolicyRuntime, 0: none
    evaluator,    \* the evaluation that holds evaluation_lock
    request,      \* operator -> its request
    unsettled     \* history: since the start, a policy write was lost or overtaken

vars == <<status, evaluations, approval, cursor, deployments, active, policy,
          evaluator, request, unsettled>>
deploymentVars == <<deployments, active>>

Status == {"draft", "evaluating", "ready", "rejected", "approved", "failed"}
Baseline == Candidate \union {NoCandidate}

NoCursor == <<>>
NoEvaluation == <<>>
NoRequest == <<>>
-----------------------------------------------------------------------------
(* Rows and lookups.                                                        *)

CanTransition(from, to) ==
    \/ from = "draft" /\ to \in {"evaluating", "rejected", "failed"}
    \/ from = "evaluating" /\ to \in {"ready", "rejected", "failed"}
    \/ from = "ready" /\ to \in {"approved", "rejected", "evaluating"}
    \/ from \in {"rejected", "failed", "approved"} /\ to = "evaluating"

\* transition_candidate updates the row only while it has the expected status.
Transitions(c, from, to) == CanTransition(from, to) /\ status[c] = from

Exists(c) == status[c] # "absent"

\* latest_evaluation: the newest row of the candidate, 0 when it has none.
LatestEvaluation(c) ==
    LET rows == {i \in 1..Len(evaluations) : evaluations[i].candidate = c}
    IN  IF rows = {} THEN 0 ELSE CHOOSE i \in rows : \A j \in rows : j <= i

DeployedCandidate(d) == IF d = 0 THEN NoCandidate ELSE deployments[d].candidate
Live(d) == ~deployments[d].rolledBack

\* store.active_policy: what EvolutionEngine::new loads.
StoredPolicy == IF active # 0 /\ Live(active) THEN active ELSE 0

\* Some other request has committed a pointer change it has yet to cache.
OthersSwapping(o) ==
    \E other \in Operator \ {o} : request[other] # NoRequest /\ request[other].step = "swap"

Init ==
    /\ status = [c \in Candidate |-> "absent"]
    /\ evaluations = <<>>
    /\ approval = [c \in Candidate |-> 0]
    /\ cursor = [c \in Candidate |-> NoCursor]
    /\ deployments = <<>>
    /\ active = 0
    /\ policy = 0
    /\ evaluator = NoEvaluation
    /\ request = [o \in Operator |-> NoRequest]
    /\ unsettled = FALSE
-----------------------------------------------------------------------------
\* An operator's candidate, or a proposal cycle's.
CreateCandidate(c) ==
    /\ ~Exists(c)
    /\ status' = [status EXCEPT ![c] = "draft"]
    /\ UNCHANGED <<evaluations, approval, cursor, deploymentVars, policy, evaluator,
                   request, unsettled>>
-----------------------------------------------------------------------------
(* Evaluation, under evaluation_lock: in one go ("whole"), or one case for   *)
(* each attempt of an evolution_evaluate work item ("stepped").             *)

EvaluationUnchanged == UNCHANGED <<deploymentVars, policy, request, unsettled>>

Evaluating(mode, step) ==
    evaluator # NoEvaluation /\ evaluator.mode = mode /\ evaluator.step = step

\* An evaluation that knows nothing yet but the status it found.
At(mode, step, c, from) ==
    [mode |-> mode, step |-> step, candidate |-> c, from |-> from,
     baseline |-> NoCandidate, index |-> 0, passed |-> FALSE]

StartWhole(c) ==
    /\ evaluator = NoEvaluation
    /\ status[c] \in Status \ {"evaluating"}
    /\ evaluator' = At("whole", "begin", c, status[c])
    /\ UNCHANGED <<status, approval, evaluations, cursor>> /\ EvaluationUnchanged

\* Mutant: a committed cursor is not looked for.
StartStepAfresh(c) ==
    /\ evaluator = NoEvaluation
    /\ Exists(c)
    /\ evaluator' = At("stepped",
                             IF status[c] = "evaluating" THEN "reset" ELSE "baseline",
                             c, status[c])
    /\ UNCHANGED <<status, approval, evaluations, cursor>> /\ EvaluationUnchanged

\* A cursor is resumed whatever the candidate's status; without one, a
\* candidate an earlier evaluation left behind is reset first.
StartStep(c) ==
    /\ evaluator = NoEvaluation
    /\ \/ /\ cursor[c] # NoCursor
          /\ evaluator' = [At("stepped", "case", c, "evaluating") EXCEPT
                             !.baseline = cursor[c].baseline, !.index = cursor[c].index]
       \/ /\ cursor[c] = NoCursor /\ Exists(c)
          /\ evaluator' = At("stepped",
                                   IF status[c] = "evaluating" THEN "reset" ELSE "baseline",
                                   c, status[c])
    /\ UNCHANGED <<status, approval, evaluations, cursor>> /\ EvaluationUnchanged

\* Only the evaluation that holds the lock moves a failed candidate, so reading
\* the row again finds it failed.
ResetStale ==
    /\ Evaluating("stepped", "reset")
    /\ Transitions(evaluator.candidate, "evaluating", "failed")
    /\ status' = [status EXCEPT ![evaluator.candidate] = "failed"]
    /\ evaluator' = [evaluator EXCEPT !.step = "baseline", !.from = "failed"]
    /\ UNCHANGED <<approval, evaluations, cursor>> /\ EvaluationUnchanged

\* The baseline is the policy in memory: read before the candidate is marked
\* when stepping, after it in one go, where the provider calls of all cases
\* follow and change nothing until the evaluation is recorded.
ReadBaseline ==
    /\ evaluator # NoEvaluation /\ evaluator.step = "baseline"
    /\ evaluator' = [evaluator EXCEPT
                       !.baseline = DeployedCandidate(policy),
                       !.step = IF evaluator.mode = "stepped" THEN "begin" ELSE "record"]
    /\ UNCHANGED <<status, approval, evaluations, cursor>> /\ EvaluationUnchanged

\* The candidate is marked; whatever approval it had is void.
BeginEvaluation ==
    /\ evaluator # NoEvaluation /\ evaluator.step = "begin"
    /\ Transitions(evaluator.candidate, evaluator.from, "evaluating")
    /\ status' = [status EXCEPT ![evaluator.candidate] = "evaluating"]
    /\ approval' = [approval EXCEPT ![evaluator.candidate] = 0]
    /\ evaluator' = [evaluator EXCEPT
                       !.step = IF evaluator.mode = "stepped" THEN "open" ELSE "baseline",
                       !.from = "evaluating"]
    /\ UNCHANGED <<evaluations, cursor>> /\ EvaluationUnchanged

OpenCursor ==
    /\ Evaluating("stepped", "open")
    /\ cursor' = [cursor EXCEPT ![evaluator.candidate] =
                    [baseline |-> evaluator.baseline, index |-> 0]]
    /\ evaluator' = [evaluator EXCEPT !.step = "case"]
    /\ UNCHANGED <<status, approval, evaluations>> /\ EvaluationUnchanged

\* One case: its outputs go to the cursor, the last case's to the scorecard.
RunCase ==
    /\ Evaluating("stepped", "case")
    /\ IF evaluator.index + 1 < CaseCount
       THEN /\ cursor' = [cursor EXCEPT ![evaluator.candidate] =
                            [baseline |-> evaluator.baseline, index |-> evaluator.index + 1]]
            /\ evaluator' = NoEvaluation
       ELSE /\ evaluator' = [evaluator EXCEPT !.step = "record"]
            /\ UNCHANGED cursor
    /\ UNCHANGED <<status, approval, evaluations>> /\ EvaluationUnchanged

RecordEvaluation(passed) ==
    /\ evaluator # NoEvaluation /\ evaluator.step = "record"
    /\ Len(evaluations) < MaxEvaluations
    /\ evaluations' = Append(evaluations,
                             [candidate |-> evaluator.candidate,
                              baseline  |-> evaluator.baseline, passed |-> passed])
    /\ evaluator' = [At(evaluator.mode, "settle", evaluator.candidate, "evaluating")
                        EXCEPT !.passed = passed]
    /\ UNCHANGED <<status, approval, cursor>> /\ EvaluationUnchanged

\* Mutant: the candidate becomes ready whatever the gate decided.
SettleReady ==
    /\ evaluator # NoEvaluation /\ evaluator.step = "settle"
    /\ Transitions(evaluator.candidate, "evaluating", "ready")
    /\ status' = [status EXCEPT ![evaluator.candidate] = "ready"]
    /\ evaluator' = IF evaluator.mode = "whole" THEN NoEvaluation
                    ELSE At("stepped", "clear", evaluator.candidate, "evaluating")
    /\ UNCHANGED <<approval, evaluations, cursor>> /\ EvaluationUnchanged

SettleCandidate ==
    /\ evaluator # NoEvaluation /\ evaluator.step = "settle"
    /\ LET next == IF evaluator.passed THEN "ready" ELSE "rejected" IN
       /\ Transitions(evaluator.candidate, "evaluating", next)
       /\ status' = [status EXCEPT ![evaluator.candidate] = next]
    /\ evaluator' = IF evaluator.mode = "whole" THEN NoEvaluation
                    ELSE At("stepped", "clear", evaluator.candidate, "evaluating")
    /\ UNCHANGED <<approval, evaluations, cursor>> /\ EvaluationUnchanged

ClearCursor ==
    /\ Evaluating("stepped", "clear")
    /\ cursor' = [cursor EXCEPT ![evaluator.candidate] = NoCursor]
    /\ evaluator' = NoEvaluation
    /\ UNCHANGED <<status, approval, evaluations>> /\ EvaluationUnchanged

\* An evaluation in one go that fails after it marked the candidate tries to
\* mark it failed and drops the outcome of that.
FailWhole ==
    /\ \E step \in {"baseline", "record", "settle"} : Evaluating("whole", step)
    /\ status' = IF Transitions(evaluator.candidate, "evaluating", "failed")
                 THEN [status EXCEPT ![evaluator.candidate] = "failed"] ELSE status
    /\ evaluator' = NoEvaluation
    /\ UNCHANGED <<approval, evaluations, cursor>> /\ EvaluationUnchanged

\* A refused transition, a failed step or a dropped request: the lock is
\* released and nothing is undone.
LeaveEvaluation ==
    /\ evaluator # NoEvaluation
    /\ evaluator' = NoEvaluation
    /\ UNCHANGED <<status, approval, evaluations, cursor>> /\ EvaluationUnchanged
-----------------------------------------------------------------------------
(* Operator requests.                                                       *)

RequestUnchanged == UNCHANGED <<evaluations, cursor, evaluator>>

AtStep(o, step) == request[o] # NoRequest /\ request[o].step = step

\* approve_candidate reads the newest evaluation, then the policy in memory,
\* then moves the candidate.
ReadApproval(o, c) ==
    /\ request[o] = NoRequest
    /\ LatestEvaluation(c) # 0 /\ evaluations[LatestEvaluation(c)].passed
    /\ request' = [request EXCEPT ![o] = [step |-> "check", candidate |-> c,
                                          evaluation |-> LatestEvaluation(c)]]
    /\ UNCHANGED <<status, approval, deploymentVars, policy, unsettled>> /\ RequestUnchanged

CheckApproval(o) ==
    /\ AtStep(o, "check")
    /\ request' = [request EXCEPT ![o] =
         IF evaluations[request[o].evaluation].baseline = DeployedCandidate(policy)
         THEN [request[o] EXCEPT !.step = "approve"] ELSE NoRequest]
    /\ UNCHANGED <<status, approval, deploymentVars, policy, unsettled>> /\ RequestUnchanged

CommitApproval(o) ==
    /\ AtStep(o, "approve")
    /\ Transitions(request[o].candidate, "ready", "approved")
    /\ status' = [status EXCEPT ![request[o].candidate] = "approved"]
    /\ approval' = [approval EXCEPT ![request[o].candidate] = request[o].evaluation]
    /\ request' = [request EXCEPT ![o] = NoRequest]
    /\ UNCHANGED <<deploymentVars, policy, unsettled>> /\ RequestUnchanged

AbandonEvaluation(c) ==
    /\ Transitions(c, "evaluating", "failed")
    /\ status' = [status EXCEPT ![c] = "failed"]
    /\ UNCHANGED <<approval, deploymentVars, policy, request, unsettled>>
    /\ RequestUnchanged

\* Mutant: the baseline is checked against the policy in memory.
ActivatableOverPolicy(c) ==
    /\ status[c] = "approved"
    /\ LatestEvaluation(c) # 0
    /\ evaluations[LatestEvaluation(c)].passed
    /\ evaluations[LatestEvaluation(c)].baseline = DeployedCandidate(policy)

\* The transaction checks the newest evaluation against the stored pointer.
Activatable(c) ==
    /\ status[c] = "approved"
    /\ LatestEvaluation(c) # 0
    /\ evaluations[LatestEvaluation(c)].passed
    /\ evaluations[LatestEvaluation(c)].baseline = DeployedCandidate(active)

\* Mutant: the deployment to go back to is taken from memory.
ActivateOverPolicy(o, c) ==
    /\ request[o] = NoRequest
    /\ Activatable(c)
    /\ Len(deployments) < MaxDeployments
    /\ deployments' = Append(deployments,
                             [candidate |-> c, previous |-> policy, rolledBack |-> FALSE])
    /\ active' = Len(deployments')
    /\ request' = [request EXCEPT ![o] = [step |-> "swap", deployment |-> active']]
    /\ unsettled' = (unsettled \/ OthersSwapping(o))
    /\ UNCHANGED <<status, approval, policy>> /\ RequestUnchanged

ActivateCandidate(o, c) ==
    /\ request[o] = NoRequest
    /\ Activatable(c)
    /\ Len(deployments) < MaxDeployments
    /\ deployments' = Append(deployments,
                             [candidate |-> c, previous |-> active, rolledBack |-> FALSE])
    /\ active' = Len(deployments')
    /\ request' = [request EXCEPT ![o] = [step |-> "swap", deployment |-> active']]
    /\ unsettled' = (unsettled \/ OthersSwapping(o))
    /\ UNCHANGED <<status, approval, policy>> /\ RequestUnchanged

\* The deployment a rollback restores must not be rolled back itself.
CanRollBack ==
    /\ active # 0 /\ Live(active)
    /\ deployments[active].previous # 0 => Live(deployments[active].previous)

RollbackActive(o) ==
    /\ request[o] = NoRequest
    /\ CanRollBack
    /\ deployments' = [deployments EXCEPT ![active].rolledBack = TRUE]
    /\ active' = deployments[active].previous
    /\ request' = [request EXCEPT ![o] = [step |-> "swap", deployment |-> active']]
    /\ unsettled' = (unsettled \/ OthersSwapping(o))
    /\ UNCHANGED <<status, approval, policy>> /\ RequestUnchanged

\* Mutant: a rollback leaves the policy in memory alone.
SwapUnlessNone(o) ==
    /\ AtStep(o, "swap")
    /\ policy' = IF request[o].deployment = 0 THEN policy ELSE request[o].deployment
    /\ request' = [request EXCEPT ![o] = NoRequest]
    /\ UNCHANGED <<status, approval, deploymentVars, unsettled>> /\ RequestUnchanged

\* policy_runtime.replace, the last step of an activation or a rollback.
SwapPolicy(o) ==
    /\ AtStep(o, "swap")
    /\ policy' = request[o].deployment
    /\ request' = [request EXCEPT ![o] = NoRequest]
    /\ UNCHANGED <<status, approval, deploymentVars, unsettled>> /\ RequestUnchanged

\* A refused transition, or the client went away.
LeaveRequest(o) ==
    /\ request[o] # NoRequest
    /\ request' = [request EXCEPT ![o] = NoRequest]
    /\ unsettled' = (unsettled \/ AtStep(o, "swap"))
    /\ UNCHANGED <<status, approval, deploymentVars, policy>> /\ RequestUnchanged

\* The process stops and starts again: EvolutionEngine::new loads the policy.
Restart ==
    /\ policy' = StoredPolicy
    /\ evaluator' = NoEvaluation
    /\ request' = [o \in Operator |-> NoRequest]
    /\ unsettled' = FALSE
    /\ UNCHANGED <<status, approval, evaluations, cursor, deploymentVars>>
-----------------------------------------------------------------------------
Next ==
    \/ \E c \in Candidate :
         CreateCandidate(c) \/ StartWhole(c) \/ StartStep(c) \/ AbandonEvaluation(c)
    \/ ResetStale \/ ReadBaseline \/ BeginEvaluation \/ OpenCursor
    \/ RunCase
    \/ \E passed \in BOOLEAN : RecordEvaluation(passed)
    \/ SettleCandidate \/ ClearCursor \/ FailWhole \/ LeaveEvaluation
    \/ \E o \in Operator, c \in Candidate : ReadApproval(o, c) \/ ActivateCandidate(o, c)
    \/ \E o \in Operator :
         \/ CheckApproval(o) \/ CommitApproval(o)
         \/ RollbackActive(o) \/ SwapPolicy(o) \/ LeaveRequest(o)
    \/ Restart

Spec == Init /\ [][Next]_vars
-----------------------------------------------------------------------------
(* Properties.                                                              *)

CursorRow == [baseline : Baseline, index : 0..(CaseCount - 1)]
EvaluatorState ==
    [mode : {"whole", "stepped"},
     step : {"reset", "baseline", "begin", "open", "case", "record", "settle", "clear"},
     candidate : Candidate, from : Status, baseline : Baseline,
     index : 0..(CaseCount - 1), passed : BOOLEAN]
RequestState ==
    [step : {"check", "approve"}, candidate : Candidate, evaluation : Nat \ {0}]
        \union [step : {"swap"}, deployment : Nat]

\* Every variable keeps its type: in particular a stored cursor points at a
\* case of its suite (run_evaluation_step's "case index out of range"), and the
\* stored pointer and the policy in memory name deployments there are.
EvolutionTypeOK ==
    /\ status \in [Candidate -> Status \union {"absent"}]
    /\ evaluations \in Seq([candidate : Candidate, baseline : Baseline, passed : BOOLEAN])
    /\ approval \in [Candidate -> 0..Len(evaluations)]
    /\ cursor \in [Candidate -> CursorRow \union {NoCursor}]
    /\ deployments \in Seq([candidate : Candidate, previous : Nat, rolledBack : BOOLEAN])
    /\ active \in 0..Len(deployments)
    /\ policy \in 0..Len(deployments)
    /\ evaluator \in EvaluatorState \union {NoEvaluation}
    /\ request \in [Operator -> RequestState \union {NoRequest}]
    /\ unsettled \in BOOLEAN

\* Whatever activations and rollbacks came before, an active deployment can be
\* rolled back: rollback_active never meets "already rolled back" or "previous
\* evolution deployment is unavailable for rollback".
RollbackIsPossible == active # 0 => CanRollBack

\* d is the newest deployment below n that is not rolled back; 0: there is none.
NewestLive(d, n) ==
    /\ d # 0 => d < n /\ Live(d)
    /\ \A k \in 1..Len(deployments) : d < k /\ k < n => ~Live(k)

\* The deployments not rolled back form a stack: the pointer is its top, and each
\* one's previous_deployment_id is the one under it.
LiveStack ==
    /\ NewestLive(active, Len(deployments) + 1)
    /\ \A d \in 1..Len(deployments) : Live(d) => NewestLive(deployments[d].previous, d)

\* Every deployment of activate_candidate was compared with the policy it
\* replaced and passed the gate, however stale the memory copies were that the
\* evaluation and the approval looked at.
ComparedWithReplaced ==
    \A d \in 1..Len(deployments) : \E i \in 1..Len(evaluations) :
        /\ evaluations[i].candidate = deployments[d].candidate
        /\ evaluations[i].baseline = DeployedCandidate(deployments[d].previous)
        /\ evaluations[i].passed

\* A candidate is ready or approved only with a recorded evaluation that passed,
\* and an approval names one, even where an abandoned or interrupted evaluation
\* goes on and settles the candidate late.
ReadyIsScored ==
    \A c \in Candidate :
        /\ status[c] \in {"ready", "approved"} =>
             \E i \in 1..Len(evaluations) : evaluations[i].candidate = c /\ evaluations[i].passed
        /\ approval[c] # 0 =>
             evaluations[approval[c]].candidate = c /\ evaluations[approval[c]].passed

\* Unless a change of the pointer lost its policy write or was overtaken by
\* another since the process started, the policy the service uses is the stored
\* one whenever no change is on its way (activate_candidate, rollback_active and
\* EvolutionEngine::new).
PolicyFollowsPointer ==
    ~unsettled /\ (\A o \in Operator : ~AtStep(o, "swap")) => policy = active

PreviousIsOlder ==
    \A d \in 1..Len(deployments) : deployments[d].previous < d

RequestsInRange ==
    \A o \in Operator : request[o] # NoRequest =>
        /\ request[o].step = "swap" => request[o].deployment <= Len(deployments)
        /\ request[o].step # "swap" =>
             /\ request[o].evaluation <= Len(evaluations)
             /\ evaluations[request[o].evaluation].candidate = request[o].candidate
             /\ evaluations[request[o].evaluation].passed

SettlesItsScore ==
    evaluator # NoEvaluation /\ evaluator.step = "settle" /\ evaluator.passed =>
        \E i \in 1..Len(evaluations) :
            evaluations[i].candidate = evaluator.candidate /\ evaluations[i].passed

OneSwap ==
    ~unsettled =>
        /\ \A o \in Operator : AtStep(o, "swap") =>
             /\ request[o].deployment = active
             /\ \A other \in Operator : AtStep(other, "swap") => other = o
        /\ (\A o \in Operator : ~AtStep(o, "swap")) => policy = active

CursorIsHeld ==
    evaluator # NoEvaluation /\ evaluator.mode = "stepped" =>
        LET row == cursor[evaluator.candidate] IN
        /\ evaluator.step \in {"reset", "baseline", "begin", "open"} =>
             row = NoCursor /\ evaluator.index = 0
        /\ evaluator.step \in {"case", "record"} =>
             row = [baseline |-> evaluator.baseline, index |-> evaluator.index]
        /\ evaluator.step \in {"settle", "clear"} =>
             /\ row # NoCursor
             /\ \E i \in 1..Len(evaluations) :
                  /\ evaluations[i].candidate = evaluator.candidate
                  /\ evaluations[i].baseline = row.baseline
        /\ evaluator.step = "clear" =>
             status[evaluator.candidate] \in {"ready", "rejected", "approved"}

\* What the other properties rest on: the stack of live deployments, requests
\* that name rows there are, at most one pointer change on its way unless one
\* was overtaken, and a stepped evaluation that agrees with its cursor.
EvolutionInvariant ==
    /\ LiveStack /\ PreviousIsOlder /\ RequestsInRange
    /\ SettlesItsScore /\ OneSwap /\ CursorIsHeld

\* Committed cases survive: until the evaluation they belong to is recorded and
\* its candidate settled, a stored cursor is neither dropped, moved back nor
\* given another baseline, whatever fails in between (run_evaluation_step).
CursorIsKept ==
    [][\A c \in Candidate : cursor[c] # NoCursor =>
         \/ /\ cursor'[c] # NoCursor
            /\ cursor'[c].baseline = cursor[c].baseline
            /\ cursor'[c].index >= cursor[c].index
         \/ /\ status[c] \in {"ready", "rejected", "approved"}
            /\ \E i \in 1..Len(evaluations) :
                 /\ evaluations[i].candidate = c
                 /\ evaluations[i].baseline = cursor[c].baseline]_vars

\* A candidate goes live over the policy its approved evaluation compared it
\* with: docs/self-evolving-harness.md has stale candidates "re-evaluated and
\* re-approved", and approve_candidate writes the evaluation into its event.
StaleIsReapproved ==
    [][\A c \in Candidate :
         Len(deployments') > Len(deployments) /\ deployments'[Len(deployments')].candidate = c =>
            /\ approval[c] # 0
            /\ evaluations[approval[c]].baseline = DeployedCandidate(active)]_vars
=============================================================================
