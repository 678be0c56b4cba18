-------------------------- MODULE Evolution_proofs --------------------------
(***************************************************************************)
(* What the evolution engine guarantees for every set of candidates and of  *)
(* concurrent requests, every suite and every bound.                        *)
(***************************************************************************)
EXTENDS Evolution, SequenceTheorems, WellFoundedInduction, TLAPS

EvaluationRow == [candidate : Candidate, baseline : Baseline, passed : BOOLEAN]
DeploymentRow == [candidate : Candidate, previous : Nat, rolledBack : BOOLEAN]

Scored(c) ==
    \E i \in 1..Len(evaluations) : evaluations[i].candidate = c /\ evaluations[i].passed

\* A set of positive numbers up to n has a greatest element.
LEMMA GreatestExists ==
    ASSUME NEW n \in Nat, NEW rows \in SUBSET (1..n), rows # {}
    PROVE  \E i \in rows : \A j \in rows : j <= i
<1> DEFINE depths == {n - i : i \in rows}
<1>0. \A i \in rows : i \in Nat /\ n - i \in Nat
  OBVIOUS
<1>1. depths \subseteq Nat /\ depths # {}
  BY <1>0
<1>2. PICK x \in depths : \A y \in depths : ~ (<<y, x>> \in OpToRel(<, Nat))
  BY <1>1, WFMin, NatLessThanWellFounded
<1>3. ASSUME NEW y \in depths PROVE x <= y
  <2>1. x \in Nat /\ y \in Nat
    BY <1>1, <1>2
  <2>2. y < x => <<y, x>> \in OpToRel(<, Nat)
    BY <2>1 DEF OpToRel
  <2>3. ~ (y < x)
    BY <1>2, <2>2, Zenon
  <2> QED BY <2>1, <2>3
<1>4. PICK i \in rows : x = n - i
  BY <1>2
<1>5. ASSUME NEW j \in rows PROVE j <= i
  <2>1. n - j \in depths
    OBVIOUS
  <2>2. n - i <= n - j
    BY <1>3, <1>4, <2>1
  <2> QED BY <1>0, <2>2
<1> QED BY <1>5

\* The newest evaluation of a candidate is a row of that candidate.
LEMMA LatestIsARow ==
    ASSUME NEW c \in Candidate, evaluations \in Seq(EvaluationRow), LatestEvaluation(c) # 0
    PROVE  /\ LatestEvaluation(c) \in 1..Len(evaluations)
           /\ evaluations[LatestEvaluation(c)].candidate = c
<1> DEFINE rows == {i \in 1..Len(evaluations) : evaluations[i].candidate = c}
<1>1. rows # {} /\ rows \in SUBSET (1..Len(evaluations)) /\ Len(evaluations) \in Nat
  BY DEF LatestEvaluation
<1>2. LatestEvaluation(c) = CHOOSE i \in rows : \A j \in rows : j <= i
  BY <1>1 DEF LatestEvaluation
<1>3. \E i \in rows : \A j \in rows : j <= i
  BY <1>1, GreatestExists
<1> HIDE DEF rows
<1>4. LatestEvaluation(c) \in rows
  BY <1>2, <1>3, Zenon
<1> QED BY <1>4 DEF rows

Inductive ==
    EvolutionTypeOK /\ EvolutionInvariant /\ ComparedWithReplaced /\ ReadyIsScored

\* The steps of an evaluation.
EvaluationStep ==
    \/ \E c \in Candidate : StartWhole(c) \/ StartStep(c)
    \/ ResetStale \/ ReadBaseline \/ BeginEvaluation \/ OpenCursor \/ RunCase
    \/ \E passed \in BOOLEAN : RecordEvaluation(passed)
    \/ SettleCandidate \/ ClearCursor \/ FailWhole \/ LeaveEvaluation

\* The steps of an operator's request.
RequestStep(o) ==
    \/ \E c \in Candidate : ReadApproval(o, c) \/ ActivateCandidate(o, c)
    \/ CheckApproval(o) \/ CommitApproval(o)
    \/ RollbackActive(o) \/ SwapPolicy(o) \/ LeaveRequest(o)

\* A running evaluation has the fields its steps read.
LEMMA EvaluatorFields ==
    ASSUME EvolutionTypeOK, evaluator # NoEvaluation
    PROVE  evaluator \in EvaluatorState
BY DEF EvolutionTypeOK

\* Every step of an evaluation keeps the types.
LEMMA EvaluationKeepsTypes ==
    ASSUME EvolutionTypeOK, EvaluationStep
    PROVE  EvolutionTypeOK'
<1> USE EvolutionAssumption
<1>1. /\ deployments' = deployments /\ active' = active /\ policy' = policy
      /\ request' = request /\ unsettled' = unsettled
  BY DEF EvaluationStep, StartWhole, StartStep, ResetStale, ReadBaseline, BeginEvaluation,
     OpenCursor, RunCase, RecordEvaluation, SettleCandidate, ClearCursor, FailWhole,
     LeaveEvaluation, EvaluationUnchanged, deploymentVars
<1>2. \A d \in 0..Len(deployments) : DeployedCandidate(d) \in Baseline
  <2> SUFFICES ASSUME NEW d \in 0..Len(deployments), d # 0
               PROVE  deployments[d].candidate \in Candidate
    BY DEF DeployedCandidate, Baseline
  <2>1. d \in 1..Len(deployments) /\ deployments \in Seq(DeploymentRow)
    BY DEF EvolutionTypeOK, DeploymentRow
  <2>2. deployments[d] \in DeploymentRow
    BY <2>1
  <2> QED BY <2>2 DEF DeploymentRow
<1>3. ASSUME NEW c \in Candidate, StartWhole(c) PROVE EvolutionTypeOK'
  BY <1>1, <1>3 DEF StartWhole, EvolutionTypeOK, EvaluatorState, At, Baseline
<1>4. ASSUME NEW c \in Candidate, StartStep(c) PROVE EvolutionTypeOK'
  <2>1. cursor[c] # NoCursor => cursor[c] \in CursorRow
    BY DEF EvolutionTypeOK
  <2>2. evaluator' \in EvaluatorState
    <3>1. CASE cursor[c] # NoCursor
      <4>1. evaluator' = [mode |-> "stepped", step |-> "case", candidate |-> c,
                          from |-> "evaluating", baseline |-> cursor[c].baseline,
                          index |-> cursor[c].index, passed |-> FALSE]
        BY <1>4, <3>1 DEF StartStep, At
      <4> QED BY <2>1, <3>1, <4>1 DEF EvaluatorState, CursorRow, Status
    <3>2. CASE cursor[c] = NoCursor
      <4>1. status[c] \in Status
        BY <1>4, <3>2 DEF StartStep, EvolutionTypeOK, Exists
      <4>2. PICK step \in {"reset", "baseline"} : evaluator' = At("stepped", step, c, status[c])
        BY <1>4, <3>2 DEF StartStep
      <4> QED BY <4>1, <4>2 DEF At, EvaluatorState, Baseline
    <3> QED BY <3>1, <3>2
  <2> QED BY <1>1, <1>4, <2>2 DEF StartStep, EvolutionTypeOK
<1>5. CASE ResetStale
  BY <1>1, <1>5, EvaluatorFields DEF ResetStale, Evaluating, EvolutionTypeOK, EvaluatorState,
     Status
<1>6. CASE ReadBaseline
  BY <1>1, <1>2, <1>6, EvaluatorFields DEF ReadBaseline, EvolutionTypeOK, EvaluatorState
<1>7. CASE BeginEvaluation
  <2>1. evaluator \in EvaluatorState
    BY <1>7, EvaluatorFields DEF BeginEvaluation
  <2>2. evaluator' \in EvaluatorState
    BY <1>7, <2>1 DEF BeginEvaluation, EvaluatorState, Status
  <2>3. evaluator.candidate \in Candidate
    BY <2>1 DEF EvaluatorState
  <2> QED BY <1>1, <1>7, <2>2, <2>3 DEF BeginEvaluation, EvolutionTypeOK, Status
<1>8. CASE OpenCursor
  <2>1. evaluator \in EvaluatorState
    BY <1>8, EvaluatorFields DEF OpenCursor, Evaluating
  <2>2. evaluator' \in EvaluatorState
    BY <1>8, <2>1 DEF OpenCursor, EvaluatorState
  <2>3. [baseline |-> evaluator.baseline, index |-> 0] \in CursorRow
    BY <2>1 DEF CursorRow, EvaluatorState
  <2> QED BY <1>1, <1>8, <2>2, <2>3 DEF OpenCursor, EvolutionTypeOK
<1>9. CASE RunCase
  <2>1. evaluator \in EvaluatorState
    BY <1>9, EvaluatorFields DEF RunCase, Evaluating
  <2>2. CASE evaluator.index + 1 < CaseCount
    <3>1. [baseline |-> evaluator.baseline, index |-> evaluator.index + 1] \in CursorRow
      BY <2>1, <2>2 DEF CursorRow, EvaluatorState
    <3>2. /\ cursor' \in [Candidate -> CursorRow \union {NoCursor}]
          /\ evaluator' = NoEvaluation
      <4>1. /\ cursor' = [cursor EXCEPT ![evaluator.candidate] =
                           [baseline |-> evaluator.baseline, index |-> evaluator.index + 1]]
            /\ evaluator' = NoEvaluation
        BY <1>9, <2>2, Zenon DEF RunCase
      <4>2. cursor \in [Candidate -> CursorRow \union {NoCursor}]
        BY DEF EvolutionTypeOK
      <4> QED BY <3>1, <4>1, <4>2
    <3> QED BY <1>1, <1>9, <3>2 DEF RunCase, EvolutionTypeOK
  <2>3. CASE ~(evaluator.index + 1 < CaseCount)
    <3>1. evaluator' \in EvaluatorState
      BY <1>9, <2>1, <2>3 DEF RunCase, EvaluatorState
    <3> QED BY <1>1, <1>9, <2>3, <3>1 DEF RunCase, EvolutionTypeOK
  <2> QED BY <2>2, <2>3
<1>10. ASSUME NEW passed \in BOOLEAN, RecordEvaluation(passed) PROVE EvolutionTypeOK'
  <2>1. evaluator \in EvaluatorState
    BY <1>10, EvaluatorFields DEF RecordEvaluation
  <2>2. evaluator' \in EvaluatorState
    BY <1>10, <2>1 DEF RecordEvaluation, EvaluatorState, At, Baseline, Status
  <2>3. /\ evaluations' \in Seq(EvaluationRow)
        /\ Len(evaluations') = Len(evaluations) + 1
    BY <1>10, <2>1 DEF RecordEvaluation, EvolutionTypeOK, EvaluatorState, EvaluationRow
  <2> QED BY <1>1, <1>10, <2>2, <2>3 DEF RecordEvaluation, EvolutionTypeOK, EvaluationRow
<1>11. CASE SettleCandidate
  BY <1>1, <1>11, EvaluatorFields DEF SettleCandidate, EvolutionTypeOK, EvaluatorState, At,
     Status, Baseline
<1>12. CASE ClearCursor
  BY <1>1, <1>12, EvaluatorFields DEF ClearCursor, Evaluating, EvolutionTypeOK, EvaluatorState
<1>13. CASE FailWhole
  BY <1>1, <1>13, EvaluatorFields DEF FailWhole, Evaluating, EvolutionTypeOK, EvaluatorState,
     Status
<1>14. CASE LeaveEvaluation
  BY <1>1, <1>14 DEF LeaveEvaluation, EvolutionTypeOK
<1> QED BY <1>3, <1>4, <1>5, <1>6, <1>7, <1>8, <1>9, <1>10, <1>11, <1>12, <1>13, <1>14
       DEF EvaluationStep

\* A request on its way has the fields its steps read.
LEMMA RequestFields ==
    ASSUME EvolutionTypeOK, RequestsInRange, NEW o \in Operator
    PROVE  /\ AtStep(o, "swap") => request[o].deployment \in 0..Len(deployments)
           /\ AtStep(o, "check") \/ AtStep(o, "approve") =>
                /\ request[o].candidate \in Candidate
                /\ request[o].evaluation \in 1..Len(evaluations)
                /\ request[o] \in [step : {"check", "approve"}, candidate : Candidate,
                                   evaluation : Nat \ {0}]
<1>1. request[o] # NoRequest => request[o] \in RequestState
  BY DEF EvolutionTypeOK
<1>2. ASSUME AtStep(o, "swap") PROVE request[o].deployment \in 0..Len(deployments)
  <2>1. request[o].deployment \in Nat
    BY <1>1, <1>2 DEF AtStep, RequestState
  <2>2. request[o].deployment <= Len(deployments)
    BY <1>2 DEF AtStep, RequestsInRange
  <2> QED BY <2>1, <2>2 DEF EvolutionTypeOK
<1>3. ASSUME AtStep(o, "check") \/ AtStep(o, "approve")
      PROVE  /\ request[o].candidate \in Candidate
             /\ request[o].evaluation \in 1..Len(evaluations)
             /\ request[o] \in [step : {"check", "approve"}, candidate : Candidate,
                                evaluation : Nat \ {0}]
  <2>1. request[o] \in [step : {"check", "approve"}, candidate : Candidate,
                        evaluation : Nat \ {0}]
    BY <1>1, <1>3 DEF AtStep, RequestState
  <2>2. request[o].evaluation <= Len(evaluations)
    BY <1>3 DEF AtStep, RequestsInRange
  <2>3. Len(evaluations) \in Nat
    BY DEF EvolutionTypeOK
  <2> QED BY <2>1, <2>2, <2>3
<1> QED BY <1>2, <1>3

\* Every step of a request keeps the types.
LEMMA RequestKeepsTypes ==
    ASSUME EvolutionTypeOK, EvolutionInvariant, NEW o \in Operator, RequestStep(o)
    PROVE  EvolutionTypeOK'
<1>1. RequestsInRange /\ LiveStack /\ PreviousIsOlder
  BY DEF EvolutionInvariant
<1>2. Len(deployments) \in Nat /\ Len(evaluations) \in Nat
  BY DEF EvolutionTypeOK
<1>3. ASSUME NEW c \in Candidate, ReadApproval(o, c) PROVE EvolutionTypeOK'
  <2>0. evaluations \in Seq(EvaluationRow)
    BY DEF EvolutionTypeOK, EvaluationRow
  <2>1. LatestEvaluation(c) \in Nat \ {0}
    BY <1>2, <1>3, <2>0, LatestIsARow DEF ReadApproval
  <2>2. [step |-> "check", candidate |-> c, evaluation |-> LatestEvaluation(c)] \in RequestState
    BY <2>1 DEF RequestState
  <2> QED BY <1>3, <2>2 DEF ReadApproval, RequestUnchanged, deploymentVars, EvolutionTypeOK
<1>4. ASSUME CheckApproval(o) PROVE EvolutionTypeOK'
  <2>1. [request[o] EXCEPT !.step = "approve"] \in RequestState
    BY <1>1, <1>4, RequestFields DEF CheckApproval, RequestState
  <2> QED BY <1>4, <2>1 DEF CheckApproval, RequestUnchanged, deploymentVars, EvolutionTypeOK
<1>5. ASSUME CommitApproval(o) PROVE EvolutionTypeOK'
  BY <1>1, <1>5, RequestFields DEF CommitApproval, RequestUnchanged, deploymentVars,
     EvolutionTypeOK, Status
<1>6. ASSUME NEW c \in Candidate, ActivateCandidate(o, c) PROVE EvolutionTypeOK'
  <2> DEFINE row == [candidate |-> c, previous |-> active, rolledBack |-> FALSE]
  <2>1. row \in DeploymentRow
    BY DEF EvolutionTypeOK, DeploymentRow
  <2>2. deployments' \in Seq(DeploymentRow) /\ Len(deployments') = Len(deployments) + 1
    BY <1>6, <2>1 DEF ActivateCandidate, EvolutionTypeOK, DeploymentRow
  <2>3. active' \in 0..Len(deployments') /\ policy' \in 0..Len(deployments')
    BY <1>2, <1>6, <2>2 DEF ActivateCandidate, EvolutionTypeOK
  <2>4. [step |-> "swap", deployment |-> active'] \in RequestState
    BY <2>3 DEF RequestState
  <2>5. unsettled' \in BOOLEAN
    BY <1>6 DEF ActivateCandidate
  <2> QED BY <1>6, <2>2, <2>3, <2>4, <2>5 DEF ActivateCandidate, RequestUnchanged,
          EvolutionTypeOK, DeploymentRow
<1>7. ASSUME RollbackActive(o) PROVE EvolutionTypeOK'
  <2>1. active \in 1..Len(deployments) /\ deployments \in Seq(DeploymentRow)
    BY <1>2, <1>7 DEF RollbackActive, CanRollBack, EvolutionTypeOK, DeploymentRow
  <2>2. deployments[active] \in DeploymentRow /\ deployments[active].previous < active
    BY <1>1, <2>1 DEF PreviousIsOlder
  <2>3. deployments' \in Seq(DeploymentRow) /\ Len(deployments') = Len(deployments)
    <3> DEFINE row == [deployments[active] EXCEPT !.rolledBack = TRUE]
    <3>1. row \in DeploymentRow
      BY <2>2 DEF DeploymentRow
    <3>2. deployments' = [deployments EXCEPT ![active] = row]
      BY <1>7 DEF RollbackActive
    <3> HIDE DEF row
    <3> QED BY <2>1, <3>1, <3>2, ExceptSeq
  <2>4. active' \in 0..Len(deployments')
    BY <1>2, <1>7, <2>1, <2>2, <2>3 DEF RollbackActive, DeploymentRow
  <2>5. [step |-> "swap", deployment |-> active'] \in RequestState
    BY <2>4 DEF RequestState
  <2>6. unsettled' \in BOOLEAN
    BY <1>7 DEF RollbackActive
  <2> QED BY <1>7, <2>3, <2>4, <2>5, <2>6 DEF RollbackActive, RequestUnchanged,
          EvolutionTypeOK, DeploymentRow
<1>8. ASSUME SwapPolicy(o) PROVE EvolutionTypeOK'
  BY <1>1, <1>8, RequestFields DEF SwapPolicy, RequestUnchanged, deploymentVars, EvolutionTypeOK
<1>9. ASSUME LeaveRequest(o) PROVE EvolutionTypeOK'
  <2>1. unsettled' \in BOOLEAN
    BY <1>9 DEF LeaveRequest
  <2> QED BY <1>9, <2>1 DEF LeaveRequest, RequestUnchanged, deploymentVars, EvolutionTypeOK
<1> QED BY <1>3, <1>4, <1>5, <1>6, <1>7, <1>8, <1>9 DEF RequestStep

\* The kinds of steps there are.
LEMMA StepKinds ==
    ASSUME Next
    PROVE  \/ EvaluationStep
           \/ \E c \in Candidate : CreateCandidate(c) \/ AbandonEvaluation(c)
           \/ \E o \in Operator : RequestStep(o)
           \/ Restart
BY DEF Next, EvaluationStep, RequestStep

\* The types are kept by every step.
LEMMA TypesKept ==
    ASSUME EvolutionTypeOK, EvolutionInvariant, [Next]_vars
    PROVE  EvolutionTypeOK'
<1>1. CASE EvaluationStep
  BY <1>1, EvaluationKeepsTypes
<1>2. ASSUME NEW c \in Candidate, CreateCandidate(c) PROVE EvolutionTypeOK'
  BY <1>2 DEF CreateCandidate, deploymentVars, EvolutionTypeOK, Status
<1>3. ASSUME NEW c \in Candidate, AbandonEvaluation(c) PROVE EvolutionTypeOK'
  BY <1>3 DEF AbandonEvaluation, RequestUnchanged, deploymentVars, EvolutionTypeOK, Status
<1>4. ASSUME NEW o \in Operator, RequestStep(o) PROVE EvolutionTypeOK'
  BY <1>4, RequestKeepsTypes
<1>5. CASE Restart
  <2>1. policy' \in 0..Len(deployments)
    BY <1>5 DEF Restart, StoredPolicy, EvolutionTypeOK
  <2>2. request' \in [Operator -> RequestState \union {NoRequest}]
    BY <1>5 DEF Restart
  <2> QED BY <1>5, <2>1, <2>2 DEF Restart, deploymentVars, EvolutionTypeOK
<1>6. CASE UNCHANGED vars
  BY <1>6 DEF vars, EvolutionTypeOK
<1> QED BY <1>1, <1>2, <1>3, <1>4, <1>5, <1>6, StepKinds
-----------------------------------------------------------------------------
(* What the transactions do to the tables.                                  *)

\* An activation pushes a row.
LEMMA Activation ==
    ASSUME EvolutionTypeOK, NEW o \in Operator, NEW c \in Candidate, ActivateCandidate(o, c)
    PROVE  /\ Len(deployments) \in Nat
           /\ Len(deployments') = Len(deployments) + 1
           /\ \A d \in 1..Len(deployments) : deployments'[d] = deployments[d]
           /\ deployments'[Len(deployments) + 1] =
                [candidate |-> c, previous |-> active, rolledBack |-> FALSE]
           /\ active' = Len(deployments) + 1
<1> DEFINE row == [candidate |-> c, previous |-> active, rolledBack |-> FALSE]
<1>1. row \in DeploymentRow /\ deployments \in Seq(DeploymentRow) /\ Len(deployments) \in Nat
  BY DEF EvolutionTypeOK, DeploymentRow
<1>2. deployments' = Append(deployments, row) /\ active' = Len(deployments')
  BY DEF ActivateCandidate
<1> HIDE DEF row
<1>3. /\ Len(deployments') = Len(deployments) + 1
      /\ \A d \in 1..Len(deployments) : deployments'[d] = deployments[d]
      /\ deployments'[Len(deployments) + 1] = row
  BY <1>1, <1>2, AppendProperties
<1> QED BY <1>1, <1>2, <1>3 DEF row

\* A rollback marks the active row and returns to the one under it.
LEMMA Rollback ==
    ASSUME EvolutionTypeOK, PreviousIsOlder, NEW o \in Operator, RollbackActive(o)
    PROVE  /\ Len(deployments) \in Nat
           /\ Len(deployments') = Len(deployments)
           /\ active \in 1..Len(deployments)
           /\ active' = deployments[active].previous
           /\ active' \in Nat /\ active' < active
           /\ \A d \in 1..Len(deployments) :
                /\ deployments'[d].candidate = deployments[d].candidate
                /\ deployments'[d].previous = deployments[d].previous
                /\ deployments'[d].rolledBack = (d = active \/ deployments[d].rolledBack)
<1>1. /\ active \in 1..Len(deployments) /\ deployments \in Seq(DeploymentRow)
      /\ Len(deployments) \in Nat
  BY DEF RollbackActive, CanRollBack, EvolutionTypeOK, DeploymentRow
<1>2. \A d \in 1..Len(deployments) : deployments[d] \in DeploymentRow
  BY <1>1
<1> DEFINE row == [deployments[active] EXCEPT !.rolledBack = TRUE]
<1>3. row \in DeploymentRow
  BY <1>1, <1>2 DEF DeploymentRow
<1>4. deployments' = [deployments EXCEPT ![active] = row]
  BY DEF RollbackActive
<1>5. /\ row.candidate = deployments[active].candidate
      /\ row.previous = deployments[active].previous
      /\ row.rolledBack = TRUE
  BY <1>1, <1>2 DEF DeploymentRow
<1> HIDE DEF row
<1>6. /\ Len(deployments') = Len(deployments)
      /\ \A d \in 1..Len(deployments) :
            deployments'[d] = IF d = active THEN row ELSE deployments[d]
  BY <1>1, <1>3, <1>4, ExceptSeq
<1>7. ASSUME NEW d \in 1..Len(deployments)
      PROVE  /\ deployments'[d].candidate = deployments[d].candidate
             /\ deployments'[d].previous = deployments[d].previous
             /\ deployments'[d].rolledBack = (d = active \/ deployments[d].rolledBack)
  <2>1. deployments[d].rolledBack \in BOOLEAN
    BY <1>2 DEF DeploymentRow
  <2> QED BY <1>5, <1>6, <2>1
<1>8. active' = deployments[active].previous /\ active' \in Nat /\ active' < active
  BY <1>1, <1>2 DEF RollbackActive, DeploymentRow, PreviousIsOlder
<1> QED BY <1>1, <1>6, <1>7, <1>8

\* A recorded evaluation is pushed on the others.
LEMMA Recording ==
    ASSUME EvolutionTypeOK, NEW passed \in BOOLEAN, RecordEvaluation(passed)
    PROVE  /\ Len(evaluations) \in Nat
           /\ Len(evaluations') = Len(evaluations) + 1
           /\ \A i \in 1..Len(evaluations) : evaluations'[i] = evaluations[i]
           /\ evaluations'[Len(evaluations) + 1] =
                [candidate |-> evaluator.candidate, baseline |-> evaluator.baseline,
                 passed |-> passed]
<1> DEFINE row == [candidate |-> evaluator.candidate, baseline |-> evaluator.baseline,
                   passed |-> passed]
<1>1. row \in EvaluationRow
  BY EvaluatorFields DEF RecordEvaluation, EvaluatorState, EvaluationRow
<1>2. evaluations \in Seq(EvaluationRow) /\ Len(evaluations) \in Nat
  BY DEF EvolutionTypeOK, EvaluationRow
<1>3. evaluations' = Append(evaluations, row)
  BY DEF RecordEvaluation
<1> HIDE DEF row
<1>4. /\ Len(evaluations') = Len(evaluations) + 1
      /\ \A i \in 1..Len(evaluations) : evaluations'[i] = evaluations[i]
      /\ evaluations'[Len(evaluations) + 1] = row
  BY <1>1, <1>2, <1>3, AppendProperties
<1> QED BY <1>2, <1>4 DEF row

\* Steps that are neither an activation nor a rollback leave the deployments.
LEMMA DeploymentsLeft ==
    ASSUME [Next]_vars,
           \A o \in Operator : ~RollbackActive(o) /\ \A c \in Candidate : ~ActivateCandidate(o, c)
    PROVE  deployments' = deployments /\ active' = active
BY DEF Next, vars, deploymentVars, CreateCandidate, StartWhole, StartStep, ResetStale, ReadBaseline,
   BeginEvaluation, OpenCursor, RunCase, RecordEvaluation, SettleCandidate, ClearCursor,
   FailWhole, LeaveEvaluation, EvaluationUnchanged, ReadApproval, CheckApproval,
   CommitApproval, AbandonEvaluation, SwapPolicy, LeaveRequest, Restart

\* Steps that record nothing leave the evaluations.
LEMMA EvaluationsLeft ==
    ASSUME [Next]_vars, \A passed \in BOOLEAN : ~RecordEvaluation(passed)
    PROVE  evaluations' = evaluations
BY DEF Next, vars, CreateCandidate, StartWhole, StartStep, ResetStale, ReadBaseline,
   BeginEvaluation, OpenCursor, RunCase, SettleCandidate, ClearCursor,
   FailWhole, LeaveEvaluation, ReadApproval, CheckApproval, CommitApproval,
   AbandonEvaluation, ActivateCandidate, RollbackActive, SwapPolicy, LeaveRequest, Restart,
   RequestUnchanged

\* Evaluations are only ever added.
LEMMA EvaluationsGrow ==
    ASSUME EvolutionTypeOK, [Next]_vars
    PROVE  /\ Len(evaluations) \in Nat /\ Len(evaluations') \in Nat
           /\ Len(evaluations) <= Len(evaluations')
           /\ \A i \in 1..Len(evaluations) :
                i \in 1..Len(evaluations') /\ evaluations'[i] = evaluations[i]
<1>1. Len(evaluations) \in Nat
  BY DEF EvolutionTypeOK
<1>2. CASE \E passed \in BOOLEAN : RecordEvaluation(passed)
  <2>1. PICK passed \in BOOLEAN : RecordEvaluation(passed)
    BY <1>2
  <2>2. /\ Len(evaluations') = Len(evaluations) + 1
        /\ \A i \in 1..Len(evaluations) : evaluations'[i] = evaluations[i]
    BY <2>1, Recording
  <2> QED BY <1>1, <2>2
<1>3. CASE \A passed \in BOOLEAN : ~RecordEvaluation(passed)
  BY <1>1, <1>3, EvaluationsLeft
<1> QED BY <1>2, <1>3
-----------------------------------------------------------------------------
(* The stack of deployments.                                                *)

\* The live deployments stay a stack.
LEMMA StackKept ==
    ASSUME EvolutionTypeOK, LiveStack, PreviousIsOlder, [Next]_vars
    PROVE  LiveStack' /\ PreviousIsOlder'
<1>1. /\ active \in Nat /\ Len(deployments) \in Nat
      /\ \A d \in 1..Len(deployments) : deployments[d].rolledBack \in BOOLEAN
      /\ \A d \in 1..Len(deployments) : deployments[d].previous \in Nat
  <2>1. deployments \in Seq(DeploymentRow) /\ active \in 0..Len(deployments)
    BY DEF EvolutionTypeOK, DeploymentRow
  <2>2. \A d \in 1..Len(deployments) : deployments[d] \in DeploymentRow
    BY <2>1
  <2> QED BY <2>1, <2>2 DEF DeploymentRow
<1>2. ASSUME NEW o \in Operator, NEW c \in Candidate, ActivateCandidate(o, c)
      PROVE  LiveStack' /\ PreviousIsOlder'
  <2> DEFINE n == Len(deployments)
  <2>1. /\ Len(deployments') = n + 1 /\ active' = n + 1
        /\ \A d \in 1..n : deployments'[d] = deployments[d]
        /\ deployments'[n + 1].previous = active
        /\ deployments'[n + 1].rolledBack = FALSE
    <3>1. deployments'[n + 1] = [candidate |-> c, previous |-> active, rolledBack |-> FALSE]
      BY <1>2, Activation
    <3> QED BY <1>2, <3>1, Activation
  <2>2. active <= n
    BY DEF EvolutionTypeOK
  <2>3. PreviousIsOlder'
    BY <1>1, <2>1, <2>2 DEF PreviousIsOlder
  <2>4. NewestLive(active, Len(deployments) + 1)'
    BY <1>1, <2>1 DEF NewestLive, Live
  <2>5. ASSUME NEW d \in 1..(n + 1), Live(d)'
        PROVE  NewestLive(deployments[d].previous, d)'
    <3>1. CASE d = n + 1
      <4>1. NewestLive(active, n + 1)
        BY DEF LiveStack
      <4>2. deployments'[d].previous = active
        BY <2>1, <3>1
      <4> QED BY <1>1, <2>1, <2>2, <3>1, <4>1, <4>2 DEF NewestLive, Live
    <3>2. CASE d \in 1..n
      <4>0. PICK p \in Nat : p = deployments[d].previous
        BY <1>1, <3>2
      <4>1. p < d /\ deployments'[d] = deployments[d]
        BY <2>1, <3>2, <4>0 DEF PreviousIsOlder
      <4>2. NewestLive(p, d)
        BY <2>5, <3>2, <4>0, <4>1 DEF LiveStack, Live
      <4>3. p # 0 => Live(p)'
        BY <1>1, <2>1, <3>2, <4>1, <4>2 DEF NewestLive, Live
      <4>4. ASSUME NEW k \in 1..(n + 1), p < k, k < d PROVE ~Live(k)'
        BY <1>1, <2>1, <3>2, <4>2, <4>4 DEF NewestLive, Live
      <4>5. deployments'[d].previous = p
        BY <4>0, <4>1
      <4> QED BY <2>1, <4>1, <4>3, <4>4, <4>5 DEF NewestLive, Live
    <3> QED BY <1>1, <3>1, <3>2
  <2> QED BY <2>1, <2>3, <2>4, <2>5 DEF LiveStack
<1>3. ASSUME NEW o \in Operator, RollbackActive(o) PROVE LiveStack' /\ PreviousIsOlder'
  <2> DEFINE n == Len(deployments)
  <2>1. /\ Len(deployments') = n /\ active \in 1..n /\ active' = deployments[active].previous
        /\ active' \in Nat /\ active' < active
        /\ \A d \in 1..n : /\ deployments'[d].previous = deployments[d].previous
                           /\ deployments'[d].rolledBack = (d = active \/ deployments[d].rolledBack)
    BY <1>3, Rollback
  <2>2. PreviousIsOlder'
    BY <1>1, <2>1 DEF PreviousIsOlder
  <2>3. /\ \A k \in 1..n : active < k => ~Live(k)
        /\ Live(active)
    BY <1>1, <2>1 DEF LiveStack, NewestLive
  <2>4. NewestLive(active, Len(deployments) + 1)'
    <3>1. NewestLive(active', active)
      BY <2>1, <2>3 DEF LiveStack
    <3>2. active' # 0 => Live(active)'
      BY <1>1, <2>1, <3>1 DEF NewestLive, Live
    <3>3. ASSUME NEW k \in 1..n, active' < k PROVE ~Live(k)'
      <4>1. k = active => ~Live(k)'
        BY <2>1 DEF Live
      <4>2. active < k => ~Live(k)'
        BY <1>1, <2>1, <2>3 DEF Live
      <4>3. k < active => ~Live(k)'
        BY <1>1, <2>1, <3>1, <3>3 DEF NewestLive, Live
      <4> QED BY <1>1, <4>1, <4>2, <4>3
    <3> QED BY <1>1, <2>1, <3>2, <3>3 DEF NewestLive
  <2>5. ASSUME NEW d \in 1..n, Live(d)' PROVE NewestLive(deployments[d].previous, d)'
    BY <1>1, <2>1, <2>3, <2>5 DEF LiveStack, NewestLive, Live, PreviousIsOlder
  <2> QED BY <2>1, <2>2, <2>4, <2>5 DEF LiveStack
<1>4. CASE \A o \in Operator : ~RollbackActive(o) /\ \A c \in Candidate : ~ActivateCandidate(o, c)
  BY <1>4, DeploymentsLeft DEF LiveStack, PreviousIsOlder, NewestLive, Live
<1> QED BY <1>2, <1>3, <1>4
-----------------------------------------------------------------------------
(* Requests and the rows they name.                                         *)

\* Deployments are only ever added.
LEMMA DeploymentsGrow ==
    ASSUME EvolutionTypeOK, PreviousIsOlder, [Next]_vars
    PROVE  /\ Len(deployments) \in Nat /\ Len(deployments') \in Nat
           /\ Len(deployments) <= Len(deployments')
           /\ \A d \in 1..Len(deployments) :
                /\ d \in 1..Len(deployments')
                /\ deployments'[d].candidate = deployments[d].candidate
                /\ deployments'[d].previous = deployments[d].previous
<1>1. Len(deployments) \in Nat
  BY DEF EvolutionTypeOK
<1>2. ASSUME NEW o \in Operator, NEW c \in Candidate, ActivateCandidate(o, c)
      PROVE  /\ Len(deployments') = Len(deployments) + 1
             /\ \A d \in 1..Len(deployments) : deployments'[d] = deployments[d]
  BY <1>2, Activation
<1>3. ASSUME NEW o \in Operator, RollbackActive(o)
      PROVE  /\ Len(deployments') = Len(deployments)
             /\ \A d \in 1..Len(deployments) :
                  /\ deployments'[d].candidate = deployments[d].candidate
                  /\ deployments'[d].previous = deployments[d].previous
  BY <1>3, Rollback
<1>4. CASE \A o \in Operator : ~RollbackActive(o) /\ \A c \in Candidate : ~ActivateCandidate(o, c)
  BY <1>1, <1>4, DeploymentsLeft
<1> QED BY <1>1, <1>2, <1>3, <1>4

RequestInRange(o) ==
    request[o] # NoRequest =>
        /\ request[o].step = "swap" => request[o].deployment <= Len(deployments)
        /\ request[o].step # "swap" =>
             /\ request[o].evaluation <= Len(evaluations)
             /\ evaluations[request[o].evaluation].candidate = request[o].candidate
             /\ evaluations[request[o].evaluation].passed

\* A step of one request leaves the others alone.
LEMMA OthersLeft ==
    ASSUME EvolutionTypeOK, NEW o \in Operator, RequestStep(o), NEW x \in Operator, x # o
    PROVE  request'[x] = request[x]
BY DEF RequestStep, ReadApproval, ActivateCandidate, CheckApproval, CommitApproval,
   RollbackActive, SwapPolicy, LeaveRequest, EvolutionTypeOK

\* A request that does not move goes on naming rows there are.
LEMMA StillInRange ==
    ASSUME EvolutionTypeOK, RequestsInRange, PreviousIsOlder, [Next]_vars,
           NEW x \in Operator, request'[x] = request[x]
    PROVE  RequestInRange(x)'
<1> SUFFICES ASSUME request[x] # NoRequest PROVE RequestInRange(x)'
  BY DEF RequestInRange
<1>1. request[x] \in RequestState
  BY DEF EvolutionTypeOK
<1>2. CASE request[x].step = "swap"
  <2>1. request[x].deployment \in Nat /\ request[x].deployment <= Len(deployments)
    BY <1>1, <1>2 DEF RequestState, RequestsInRange
  <2>2. request[x].deployment <= Len(deployments')
    BY <2>1, DeploymentsGrow
  <2> QED BY <1>2, <2>2 DEF RequestInRange
<1>3. CASE request[x].step # "swap"
  <2>1. /\ request[x].evaluation \in 1..Len(evaluations)
        /\ evaluations[request[x].evaluation].candidate = request[x].candidate
        /\ evaluations[request[x].evaluation].passed
    <3>1. request[x].evaluation \in Nat \ {0} /\ Len(evaluations) \in Nat
      BY <1>1, <1>3 DEF RequestState, EvolutionTypeOK
    <3> QED BY <1>3, <3>1 DEF RequestsInRange
  <2>2. /\ request[x].evaluation \in 1..Len(evaluations')
        /\ evaluations'[request[x].evaluation] = evaluations[request[x].evaluation]
        /\ Len(evaluations') \in Nat
    BY <2>1, EvaluationsGrow
  <2> QED BY <1>3, <2>1, <2>2 DEF RequestInRange
<1> QED BY <1>2, <1>3

\* Requests keep naming rows there are.
LEMMA RequestsKept ==
    ASSUME EvolutionTypeOK, EvolutionInvariant, [Next]_vars
    PROVE  RequestsInRange'
<1> SUFFICES ASSUME NEW x \in Operator PROVE RequestInRange(x)'
  BY DEF RequestsInRange, RequestInRange
<1>1. RequestsInRange /\ PreviousIsOlder
  BY DEF EvolutionInvariant
<1>2. CASE request'[x] = request[x]
  BY <1>1, <1>2, StillInRange
<1>3. CASE Restart
  BY <1>3 DEF Restart, RequestInRange
<1>4. ASSUME NEW o \in Operator, RequestStep(o), request'[x] # request[x]
      PROVE  RequestInRange(x)'
  <2>1. x = o
    BY <1>4, OthersLeft
  <2>2. ASSUME NEW c \in Candidate, ReadApproval(o, c) PROVE RequestInRange(o)'
    <3>1. evaluations \in Seq(EvaluationRow) /\ Len(evaluations) \in Nat
      BY DEF EvolutionTypeOK, EvaluationRow
    <3>2. /\ LatestEvaluation(c) \in 1..Len(evaluations)
          /\ evaluations[LatestEvaluation(c)].candidate = c
      BY <2>2, <3>1, LatestIsARow DEF ReadApproval
    <3>3. /\ request'[o] = [step |-> "check", candidate |-> c,
                            evaluation |-> LatestEvaluation(c)]
          /\ evaluations[LatestEvaluation(c)].passed
          /\ evaluations' = evaluations
      BY <2>2 DEF ReadApproval, RequestUnchanged, EvolutionTypeOK
    <3> QED BY <3>1, <3>2, <3>3 DEF RequestInRange
  <2>3. ASSUME CheckApproval(o) PROVE RequestInRange(o)'
    <3>1. request[o].step = "check" /\ request[o] # NoRequest /\ evaluations' = evaluations
      BY <2>3 DEF CheckApproval, AtStep, RequestUnchanged
    <3>2. request[o] \in [step : {"check", "approve"}, candidate : Candidate,
                          evaluation : Nat \ {0}]
      BY <1>1, <2>3, RequestFields DEF CheckApproval
    <3>3. \/ request'[o] = NoRequest
          \/ request'[o] = [request[o] EXCEPT !.step = "approve"]
      BY <2>3 DEF CheckApproval, EvolutionTypeOK
    <3>4. /\ request[o].evaluation <= Len(evaluations)
          /\ evaluations[request[o].evaluation].candidate = request[o].candidate
          /\ evaluations[request[o].evaluation].passed
      BY <1>1, <3>1 DEF RequestsInRange
    <3> QED BY <3>1, <3>2, <3>3, <3>4 DEF RequestInRange
  <2>4. ASSUME CommitApproval(o) \/ SwapPolicy(o) \/ LeaveRequest(o) PROVE RequestInRange(o)'
    <3>1. request'[o] = NoRequest
      BY <2>4 DEF CommitApproval, SwapPolicy, LeaveRequest, EvolutionTypeOK
    <3> QED BY <3>1 DEF RequestInRange
  <2>5. ASSUME NEW c \in Candidate, ActivateCandidate(o, c) PROVE RequestInRange(o)'
    <3>1. request'[o] = [step |-> "swap", deployment |-> active']
      BY <2>5 DEF ActivateCandidate, EvolutionTypeOK
    <3>2. active' <= Len(deployments')
      <4>1. /\ Len(deployments) \in Nat /\ Len(deployments') = Len(deployments) + 1
            /\ active' = Len(deployments) + 1
        BY <2>5, Activation
      <4> QED BY <4>1
    <3> QED BY <3>1, <3>2 DEF RequestInRange
  <2>6. ASSUME RollbackActive(o) PROVE RequestInRange(o)'
    <3>1. request'[o] = [step |-> "swap", deployment |-> active']
      BY <2>6 DEF RollbackActive, EvolutionTypeOK
    <3>2. active' <= Len(deployments')
      <4>1. /\ Len(deployments') = Len(deployments) /\ Len(deployments) \in Nat
            /\ active \in 1..Len(deployments) /\ active' \in Nat /\ active' < active
        BY <1>1, <2>6, Rollback
      <4> QED BY <4>1
    <3> QED BY <3>1, <3>2 DEF RequestInRange
  <2> QED BY <1>4, <2>1, <2>2, <2>3, <2>4, <2>5, <2>6 DEF RequestStep
<1>5. CASE \/ EvaluationStep
           \/ \E c \in Candidate : CreateCandidate(c) \/ AbandonEvaluation(c)
           \/ UNCHANGED vars
  <2>1. request' = request
    BY <1>5 DEF vars, EvaluationStep, CreateCandidate, AbandonEvaluation, StartWhole, StartStep,
       ResetStale, ReadBaseline, BeginEvaluation, OpenCursor, RunCase, RecordEvaluation,
       SettleCandidate, ClearCursor, FailWhole, LeaveEvaluation, EvaluationUnchanged
  <2> QED BY <1>1, <2>1, StillInRange
<1> QED BY <1>2, <1>3, <1>4, <1>5, StepKinds
-----------------------------------------------------------------------------
(* Evaluations behind deployments and statuses.                             *)

\* c has an evaluation that compared it with b and passed.
Compared(c, b) ==
    \E i \in 1..Len(evaluations) :
        /\ evaluations[i].candidate = c
        /\ evaluations[i].baseline = b
        /\ evaluations[i].passed

\* c has an evaluation that compared it with b.
Recorded(c, b) ==
    \E i \in 1..Len(evaluations) :
        evaluations[i].candidate = c /\ evaluations[i].baseline = b

\* What evaluations say of a candidate they say for good.
LEMMA EvaluationsStay ==
    ASSUME EvolutionTypeOK, [Next]_vars, NEW c, NEW b
    PROVE  /\ Scored(c) => Scored(c)'
           /\ Compared(c, b) => Compared(c, b)'
           /\ Recorded(c, b) => Recorded(c, b)'
BY EvaluationsGrow DEF Scored, Compared, Recorded

\* Deployments keep the evaluation that compared them with what they replaced.
LEMMA ComparisonKept ==
    ASSUME EvolutionTypeOK, EvolutionInvariant, ComparedWithReplaced, [Next]_vars
    PROVE  ComparedWithReplaced'
<1>1. PreviousIsOlder
  BY DEF EvolutionInvariant
<1>2. Len(deployments) \in Nat /\ deployments \in Seq(DeploymentRow)
  BY DEF EvolutionTypeOK, DeploymentRow
<1>3. ASSUME NEW d \in 1..Len(deployments)
      PROVE  \E i \in 1..Len(evaluations') :
               /\ evaluations'[i].candidate = deployments'[d].candidate
               /\ evaluations'[i].baseline = DeployedCandidate(deployments[d].previous)'
               /\ evaluations'[i].passed
  <2>1. deployments[d].previous \in Nat /\ deployments[d].previous < d
    <3>1. deployments[d] \in DeploymentRow
      BY <1>2
    <3> QED BY <1>1, <3>1 DEF DeploymentRow, PreviousIsOlder
  <2>2. deployments[d].previous # 0 => deployments[d].previous \in 1..Len(deployments)
    BY <1>2, <2>1
  <2>3. /\ deployments'[d].candidate = deployments[d].candidate
        /\ deployments'[d].previous = deployments[d].previous
        /\ deployments[d].previous # 0 =>
             deployments'[deployments[d].previous].candidate
               = deployments[deployments[d].previous].candidate
    BY <1>1, <2>2, DeploymentsGrow
  <2>4. PICK i \in 1..Len(evaluations) :
               /\ evaluations[i].candidate = deployments[d].candidate
               /\ evaluations[i].baseline = DeployedCandidate(deployments[d].previous)
               /\ evaluations[i].passed
    BY DEF ComparedWithReplaced
  <2>5. i \in 1..Len(evaluations') /\ evaluations'[i] = evaluations[i]
    BY EvaluationsGrow
  <2>6. DeployedCandidate(deployments[d].previous)' = DeployedCandidate(deployments[d].previous)
    BY <2>3 DEF DeployedCandidate
  <2> QED BY <2>3, <2>4, <2>5, <2>6
<1>4. ASSUME NEW o \in Operator, NEW c \in Candidate, ActivateCandidate(o, c)
      PROVE  ComparedWithReplaced'
  <2>0. PICK n \in Nat : n = Len(deployments)
    BY <1>2
  <2>1. /\ Len(deployments') = n + 1
        /\ \A d \in 1..n : deployments'[d] = deployments[d]
        /\ deployments'[n + 1] = [candidate |-> c, previous |-> active, rolledBack |-> FALSE]
    BY <1>4, <2>0, Activation
  <2>2. evaluations \in Seq(EvaluationRow) /\ Activatable(c)
    BY <1>4 DEF ActivateCandidate, EvolutionTypeOK, EvaluationRow
  <2>3. PICK i \in 1..Len(evaluations) :
               /\ evaluations[i].candidate = c
               /\ evaluations[i].baseline = DeployedCandidate(active)
               /\ evaluations[i].passed
    BY <2>2, LatestIsARow DEF Activatable
  <2>4. active # 0 => active \in 1..n
    BY <2>0 DEF EvolutionTypeOK
  <2>5. /\ deployments'[n + 1].candidate = c
        /\ DeployedCandidate(deployments[n + 1].previous)' = DeployedCandidate(active)
    BY <2>1, <2>4 DEF DeployedCandidate
  <2>6. i \in 1..Len(evaluations') /\ evaluations'[i] = evaluations[i]
    BY EvaluationsGrow
  <2>7. ASSUME NEW d \in 1..Len(deployments')
        PROVE  \E j \in 1..Len(evaluations') :
                 /\ evaluations'[j].candidate = deployments'[d].candidate
                 /\ evaluations'[j].baseline = DeployedCandidate(deployments[d].previous)'
                 /\ evaluations'[j].passed
    <3>1. CASE d = n + 1
      BY <2>3, <2>5, <2>6, <3>1
    <3>2. CASE d \in 1..Len(deployments)
      BY <1>3, <3>2
    <3> QED BY <2>0, <2>1, <3>1, <3>2
  <2> QED BY <2>7 DEF ComparedWithReplaced
<1>5. CASE Len(deployments') = Len(deployments)
  <2>1. \A d \in 1..Len(deployments') : \E i \in 1..Len(evaluations') :
                 /\ evaluations'[i].candidate = deployments'[d].candidate
                 /\ evaluations'[i].baseline = DeployedCandidate(deployments[d].previous)'
                 /\ evaluations'[i].passed
    BY <1>3, <1>5
  <2> QED BY <2>1 DEF ComparedWithReplaced
<1>6. ASSUME NEW o \in Operator, RollbackActive(o) PROVE Len(deployments') = Len(deployments)
  BY <1>1, <1>6, Rollback
<1>7. CASE \A o \in Operator : ~RollbackActive(o) /\ \A c \in Candidate : ~ActivateCandidate(o, c)
  BY <1>5, <1>7, DeploymentsLeft
<1> QED BY <1>4, <1>5, <1>6, <1>7

\* Only RecordEvaluation brings an evaluation to the step that settles.
LEMMA OnlyRecordingSettles ==
    ASSUME EvolutionTypeOK, [Next]_vars,
           evaluator' # NoEvaluation, evaluator'.step = "settle", evaluator' # evaluator
    PROVE  \E passed \in BOOLEAN : RecordEvaluation(passed)
<1>1. evaluator # NoEvaluation => evaluator \in EvaluatorState
  BY EvaluatorFields
<1>2. ASSUME NEW c \in Candidate, StartWhole(c) \/ StartStep(c) PROVE FALSE
  <2>1. CASE StartWhole(c)
    BY <2>1 DEF StartWhole, At
  <2>2. CASE StartStep(c) /\ cursor[c] # NoCursor
    <3>1. evaluator' = [mode |-> "stepped", step |-> "case", candidate |-> c,
                        from |-> "evaluating", baseline |-> cursor[c].baseline,
                        index |-> cursor[c].index, passed |-> FALSE]
      BY <2>2 DEF StartStep, At
    <3>2. evaluator'.step = "case"
      BY <3>1
    <3> QED BY <3>2
  <2>3. CASE StartStep(c) /\ cursor[c] = NoCursor
    <3>1. PICK step \in {"reset", "baseline"} : evaluator' = At("stepped", step, c, status[c])
      BY <2>3 DEF StartStep
    <3> QED BY <3>1 DEF At
  <2> QED BY <1>2, <2>1, <2>2, <2>3
<1>3. ASSUME ResetStale \/ ReadBaseline \/ BeginEvaluation \/ OpenCursor \/ RunCase PROVE FALSE
  BY <1>1, <1>3 DEF ResetStale, ReadBaseline, BeginEvaluation, OpenCursor, RunCase, Evaluating,
     EvaluatorState
<1>4. ASSUME SettleCandidate \/ ClearCursor \/ FailWhole \/ LeaveEvaluation \/ Restart PROVE FALSE
  BY <1>4 DEF SettleCandidate, ClearCursor, FailWhole, LeaveEvaluation, Restart, At
<1>5. CASE \/ UNCHANGED vars
           \/ \E c \in Candidate : CreateCandidate(c) \/ AbandonEvaluation(c)
           \/ \E o \in Operator : RequestStep(o)
  BY <1>5 DEF vars, CreateCandidate, AbandonEvaluation, RequestStep, ReadApproval,
     ActivateCandidate, CheckApproval, CommitApproval, RollbackActive, SwapPolicy, LeaveRequest,
     RequestUnchanged
<1> QED BY <1>2, <1>3, <1>4, <1>5, StepKinds DEF EvaluationStep

\* An evaluation that passed settles its candidate on a score that was recorded.
LEMMA SettlesKept ==
    ASSUME EvolutionTypeOK, SettlesItsScore, [Next]_vars
    PROVE  SettlesItsScore'
<1> SUFFICES ASSUME evaluator' # NoEvaluation, evaluator'.step = "settle", evaluator'.passed
             PROVE  \E i \in 1..Len(evaluations') :
                      evaluations'[i].candidate = evaluator'.candidate /\ evaluations'[i].passed
  BY DEF SettlesItsScore
<1>1. CASE evaluator' = evaluator
  BY <1>1, EvaluationsGrow DEF SettlesItsScore
<1>2. ASSUME NEW passed \in BOOLEAN, RecordEvaluation(passed)
      PROVE  \E i \in 1..Len(evaluations') :
                evaluations'[i].candidate = evaluator'.candidate /\ evaluations'[i].passed
  <2>1. evaluator' = [At(evaluator.mode, "settle", evaluator.candidate, "evaluating")
                        EXCEPT !.passed = passed]
    BY <1>2 DEF RecordEvaluation
  <2>2. evaluator'.candidate = evaluator.candidate /\ evaluator'.passed = passed
    BY <2>1 DEF At
  <2>3. PICK n \in Nat : n = Len(evaluations)
    BY DEF EvolutionTypeOK
  <2>4. /\ Len(evaluations') = n + 1
        /\ evaluations'[n + 1].candidate = evaluator.candidate
        /\ evaluations'[n + 1].passed = passed
    <3>1. /\ Len(evaluations') = n + 1
          /\ evaluations'[n + 1] = [candidate |-> evaluator.candidate,
                                    baseline |-> evaluator.baseline, passed |-> passed]
      BY <1>2, <2>3, Recording
    <3> QED BY <3>1
  <2>5. n + 1 \in 1..Len(evaluations')
    BY <2>3, <2>4
  <2> QED BY <2>2, <2>4, <2>5
<1> QED BY <1>1, <1>2, OnlyRecordingSettles

\* Candidates that are ready or approved, and approvals, keep a score behind them.
LEMMA ScoreKept ==
    ASSUME EvolutionTypeOK, EvolutionInvariant, ReadyIsScored, [Next]_vars
    PROVE  ReadyIsScored'
<1>0. /\ RequestsInRange /\ SettlesItsScore
      /\ status \in [Candidate -> Status \union {"absent"}]
      /\ approval \in [Candidate -> 0..Len(evaluations)]
      /\ Len(evaluations) \in Nat
  BY DEF EvolutionInvariant, EvolutionTypeOK
<1> SUFFICES ASSUME NEW c \in Candidate
             PROVE  /\ status'[c] \in {"ready", "approved"} => Scored(c)'
                    /\ approval'[c] # 0 =>
                         /\ evaluations'[approval'[c]].candidate = c
                         /\ evaluations'[approval'[c]].passed
  BY DEF ReadyIsScored, Scored
<1>1. Scored(c) => Scored(c)'
  BY EvaluationsStay
<1>2. status[c] \in {"ready", "approved"} => Scored(c)
  BY DEF ReadyIsScored, Scored
<1>3. approval'[c] = approval[c] /\ approval'[c] # 0 =>
         evaluations'[approval'[c]].candidate = c /\ evaluations'[approval'[c]].passed
  BY <1>0, EvaluationsGrow DEF ReadyIsScored
<1>4. CASE status'[c] = status[c] /\ approval'[c] = approval[c]
  BY <1>1, <1>2, <1>3, <1>4
<1>5. CASE SettleCandidate
  <2>1. approval' = approval
    BY <1>5 DEF SettleCandidate
  <2>2. /\ evaluator # NoEvaluation /\ evaluator.step = "settle"
        /\ evaluator.candidate \in Candidate
    BY <1>5, EvaluatorFields DEF SettleCandidate, EvaluatorState
  <2>3. status'[c] # status[c] /\ status'[c] \in {"ready", "approved"} =>
           c = evaluator.candidate /\ evaluator.passed
    BY <1>0, <1>5, <2>2 DEF SettleCandidate
  <2>4. status'[c] # status[c] /\ status'[c] \in {"ready", "approved"} => Scored(c)
    BY <1>0, <2>2, <2>3 DEF SettlesItsScore, Scored
  <2> QED BY <1>1, <1>2, <1>3, <2>1, <2>4
<1>6. ASSUME NEW o \in Operator, CommitApproval(o)
      PROVE  /\ status'[c] \in {"ready", "approved"} => Scored(c)
             /\ approval'[c] # 0 =>
                  /\ evaluations'[approval'[c]].candidate = c
                  /\ evaluations'[approval'[c]].passed
  <2>1. /\ request[o] # NoRequest /\ request[o].step = "approve"
        /\ request[o].candidate \in Candidate
        /\ request[o].evaluation \in 1..Len(evaluations)
    BY <1>0, <1>6, RequestFields DEF CommitApproval, AtStep
  <2>2. /\ evaluations[request[o].evaluation].candidate = request[o].candidate
        /\ evaluations[request[o].evaluation].passed
        /\ evaluations' = evaluations
    BY <1>0, <1>6, <2>1 DEF RequestsInRange, CommitApproval, RequestUnchanged
  <2>3. CASE c = request[o].candidate
    <3>1. approval'[c] = request[o].evaluation
      BY <1>0, <1>6, <2>1, <2>3 DEF CommitApproval
    <3>2. Scored(c)
      BY <2>1, <2>2, <2>3 DEF Scored
    <3> QED BY <2>2, <2>3, <3>1, <3>2
  <2>4. CASE c # request[o].candidate
    <3>1. status'[c] = status[c] /\ approval'[c] = approval[c]
      BY <1>0, <1>6, <2>1, <2>4 DEF CommitApproval
    <3> QED BY <1>2, <1>3, <3>1
  <2> QED BY <2>3, <2>4
<1>7. CASE BeginEvaluation \/ ResetStale \/ FailWhole
  <2>1. evaluator.candidate \in Candidate
    BY <1>7, EvaluatorFields DEF BeginEvaluation, ResetStale, FailWhole, Evaluating,
       EvaluatorState
  <2>2. status'[c] = status[c] \/ status'[c] \in {"evaluating", "failed"}
    BY <1>0, <1>7, <2>1 DEF BeginEvaluation, ResetStale, FailWhole
  <2>3. approval'[c] = approval[c] \/ approval'[c] = 0
    BY <1>0, <1>7, <2>1 DEF BeginEvaluation, ResetStale, FailWhole
  <2> QED BY <1>1, <1>2, <1>3, <2>2, <2>3
<1>8. ASSUME NEW x \in Candidate, CreateCandidate(x) \/ AbandonEvaluation(x)
      PROVE  approval' = approval /\ (status'[c] = status[c] \/ status'[c] \in {"draft", "failed"})
  BY <1>0, <1>8 DEF CreateCandidate, AbandonEvaluation
<1>9. CASE \/ \E x \in Candidate : StartWhole(x) \/ StartStep(x)
           \/ ReadBaseline \/ OpenCursor \/ RunCase \/ ClearCursor \/ LeaveEvaluation
           \/ \E passed \in BOOLEAN : RecordEvaluation(passed)
  BY <1>4, <1>9 DEF StartWhole, StartStep, ReadBaseline, OpenCursor, RunCase, ClearCursor,
     LeaveEvaluation, RecordEvaluation
<1>10. ASSUME NEW o \in Operator, RequestStep(o), ~CommitApproval(o)
       PROVE  status' = status /\ approval' = approval
  BY <1>10 DEF RequestStep, ReadApproval, ActivateCandidate, CheckApproval, RollbackActive,
     SwapPolicy, LeaveRequest
<1>11. CASE Restart \/ UNCHANGED vars
  BY <1>4, <1>11 DEF Restart, vars
<1>12. CASE EvaluationStep
  BY <1>5, <1>7, <1>9, <1>12 DEF EvaluationStep
<1>13. CASE \E o \in Operator : RequestStep(o)
  BY <1>1, <1>4, <1>6, <1>10, <1>13
<1>14. CASE \E x \in Candidate : CreateCandidate(x) \/ AbandonEvaluation(x)
  BY <1>1, <1>2, <1>3, <1>8, <1>14
<1> QED BY <1>11, <1>12, <1>13, <1>14, StepKinds
-----------------------------------------------------------------------------
(* The policy in memory.                                                    *)

\* An active deployment is live.
LEMMA ActiveIsLive ==
    ASSUME EvolutionTypeOK, LiveStack
    PROVE  StoredPolicy = active
BY DEF LiveStack, NewestLive, StoredPolicy

\* Unless one was lost or overtaken, there is at most one pointer change on its
\* way, and it carries the active deployment.
LEMMA SwapKept ==
    ASSUME EvolutionTypeOK, EvolutionInvariant, [Next]_vars
    PROVE  OneSwap'
<1>0. OneSwap /\ LiveStack /\ request \in [Operator -> RequestState \union {NoRequest}]
      /\ unsettled \in BOOLEAN
  BY DEF EvolutionInvariant, EvolutionTypeOK
<1>1. CASE /\ request' = request /\ policy' = policy /\ active' = active
           /\ unsettled' = unsettled
  BY <1>0, <1>1 DEF OneSwap, AtStep
<1>2. CASE \/ EvaluationStep \/ UNCHANGED vars
           \/ \E c \in Candidate : CreateCandidate(c) \/ AbandonEvaluation(c)
  <2>1. /\ request' = request /\ policy' = policy /\ active' = active
        /\ unsettled' = unsettled
    BY <1>2 DEF vars, deploymentVars, EvaluationStep, CreateCandidate, AbandonEvaluation,
       StartWhole, StartStep, ResetStale, ReadBaseline, BeginEvaluation, OpenCursor, RunCase,
       RecordEvaluation, SettleCandidate, ClearCursor, FailWhole, LeaveEvaluation,
       EvaluationUnchanged
  <2> QED BY <1>1, <2>1
<1>3. CASE Restart
  <2>1. /\ policy' = active /\ active' = active
        /\ \A o \in Operator : request'[o] = NoRequest
    BY <1>0, <1>3, ActiveIsLive DEF Restart, deploymentVars
  <2> QED BY <2>1 DEF OneSwap, AtStep
<1>4. ASSUME NEW o \in Operator, RequestStep(o) PROVE OneSwap'
  <2>1. \A x \in Operator \ {o} : request'[x] = request[x]
    BY <1>4, OthersLeft
  <2>2. ASSUME request'[o] = NoRequest \/ request'[o].step \in {"check", "approve"},
               ~AtStep(o, "swap"), policy' = policy, active' = active, unsettled' = unsettled
        PROVE  OneSwap'
    <3>1. \A x \in Operator : AtStep(x, "swap")' <=> AtStep(x, "swap")
      BY <2>1, <2>2 DEF AtStep
    <3>2. \A x \in Operator : AtStep(x, "swap") => request'[x] = request[x]
      BY <2>1, <2>2
    <3> QED BY <1>0, <2>2, <3>1, <3>2 DEF OneSwap
  <2>3. ASSUME NEW c \in Candidate, ReadApproval(o, c) PROVE OneSwap'
    <3>1. request'[o].step = "check" /\ ~AtStep(o, "swap")
      BY <1>0, <2>3 DEF ReadApproval, AtStep
    <3> QED BY <2>2, <2>3, <3>1 DEF ReadApproval, deploymentVars
  <2>4. ASSUME CheckApproval(o) PROVE OneSwap'
    <3>1. request[o] \in [step : {"check", "approve"}, candidate : Candidate,
                          evaluation : Nat \ {0}]
      BY <2>4, RequestFields DEF CheckApproval, EvolutionInvariant
    <3>2. request'[o] = NoRequest \/ request'[o] = [request[o] EXCEPT !.step = "approve"]
      BY <1>0, <2>4 DEF CheckApproval
    <3>3. request'[o] = NoRequest \/ request'[o].step \in {"check", "approve"}
      BY <3>1, <3>2
    <3>4. ~AtStep(o, "swap")
      BY <3>1 DEF AtStep
    <3> QED BY <2>2, <2>4, <3>3, <3>4 DEF CheckApproval, deploymentVars
  <2>5. ASSUME CommitApproval(o) PROVE OneSwap'
    <3>1. request'[o] = NoRequest /\ ~AtStep(o, "swap")
      BY <1>0, <2>5 DEF CommitApproval, AtStep
    <3> QED BY <2>2, <2>5, <3>1 DEF CommitApproval, deploymentVars
  <2>6. ASSUME RollbackActive(o) \/ \E c \in Candidate : ActivateCandidate(o, c) PROVE OneSwap'
    <3>1. /\ request'[o] = [step |-> "swap", deployment |-> active']
          /\ unsettled' = (unsettled \/ OthersSwapping(o))
      BY <1>0, <2>6 DEF RollbackActive, ActivateCandidate
    <3>2. AtStep(o, "swap")' /\ request'[o].deployment = active'
      BY <3>1 DEF AtStep, NoRequest
    <3>3. ~unsettled' => \A x \in Operator \ {o} : ~AtStep(x, "swap")'
      BY <2>1, <3>1 DEF OthersSwapping, AtStep
    <3> QED BY <3>2, <3>3 DEF OneSwap
  <2>7. ASSUME SwapPolicy(o) PROVE OneSwap'
    <3>1. /\ AtStep(o, "swap") /\ policy' = request[o].deployment /\ request'[o] = NoRequest
          /\ unsettled' = unsettled /\ active' = active
      BY <1>0, <2>7 DEF SwapPolicy, deploymentVars
    <3>2. ~unsettled' => policy' = active' /\ \A x \in Operator : ~AtStep(x, "swap")'
      BY <1>0, <2>1, <3>1 DEF OneSwap, AtStep
    <3> QED BY <3>2 DEF OneSwap
  <2>8. ASSUME LeaveRequest(o) PROVE OneSwap'
    <3>1. CASE AtStep(o, "swap")
      <4>1. unsettled'
        BY <2>8, <3>1 DEF LeaveRequest
      <4> QED BY <4>1 DEF OneSwap
    <3>2. CASE ~AtStep(o, "swap")
      <4>1. request'[o] = NoRequest /\ unsettled' = unsettled
        BY <1>0, <2>8, <3>2 DEF LeaveRequest
      <4> QED BY <2>2, <2>8, <3>2, <4>1 DEF LeaveRequest, deploymentVars
    <3> QED BY <3>1, <3>2
  <2> QED BY <1>4, <2>3, <2>4, <2>5, <2>6, <2>7, <2>8 DEF RequestStep
<1> QED BY <1>2, <1>3, <1>4, StepKinds
-----------------------------------------------------------------------------
(* The cursor of a stepped evaluation.                                      *)

\* A step of another actor, or one that leaves evaluator and cursor alone.
LEMMA HeldByOthers ==
    ASSUME EvolutionTypeOK, CursorIsHeld, [Next]_vars,
           evaluator' = evaluator, cursor' = cursor,
           \A c \in Candidate : status[c] \in {"ready", "rejected", "approved"} =>
               status'[c] \in {"ready", "rejected", "approved"}
    PROVE  CursorIsHeld'
<1> SUFFICES ASSUME evaluator # NoEvaluation, evaluator.mode = "stepped"
             PROVE  CursorIsHeld'
  BY DEF CursorIsHeld
<1>1. PICK c \in Candidate : c = evaluator.candidate
  BY EvaluatorFields DEF EvaluatorState
<1>2. PICK row : row = cursor[c]
  OBVIOUS
<1>3. evaluator.step \in {"settle", "clear"} => row # NoCursor /\ Recorded(c, row.baseline)
  BY <1>1, <1>2 DEF CursorIsHeld, Recorded
<1>4. evaluator.step \in {"settle", "clear"} => Recorded(c, row.baseline)'
  BY <1>3, EvaluationsStay
<1>5. evaluator.step = "clear" => status'[c] \in {"ready", "rejected", "approved"}
  BY <1>1 DEF CursorIsHeld
<1> QED BY <1>1, <1>2, <1>3, <1>4, <1>5 DEF CursorIsHeld, Recorded

\* A stepped evaluation agrees with its cursor.
LEMMA HeldKept ==
    ASSUME EvolutionTypeOK, EvolutionInvariant, [Next]_vars
    PROVE  CursorIsHeld'
<1> USE EvolutionAssumption
<1>0. /\ CursorIsHeld
      /\ status \in [Candidate -> Status \union {"absent"}]
      /\ cursor \in [Candidate -> CursorRow \union {NoCursor}]
      /\ evaluator # NoEvaluation => evaluator \in EvaluatorState
      /\ Len(evaluations) \in Nat
  BY EvaluatorFields DEF EvolutionInvariant, EvolutionTypeOK
<1>1. CASE evaluator' = NoEvaluation \/ evaluator'.mode # "stepped"
  BY <1>1 DEF CursorIsHeld
<1>2. CASE \/ UNCHANGED vars
           \/ \E c \in Candidate : CreateCandidate(c) \/ AbandonEvaluation(c)
           \/ \E o \in Operator : RequestStep(o)
  <2>1. evaluator' = evaluator /\ cursor' = cursor
    BY <1>2 DEF vars, CreateCandidate, AbandonEvaluation, RequestStep, ReadApproval,
       ActivateCandidate, CheckApproval, CommitApproval, RollbackActive, SwapPolicy,
       LeaveRequest, RequestUnchanged
  <2>2. ASSUME NEW x \in Candidate, status[x] \in {"ready", "rejected", "approved"}
        PROVE  status'[x] \in {"ready", "rejected", "approved"}
    BY <1>0, <1>2, <2>2 DEF vars, CreateCandidate, AbandonEvaluation, RequestStep, ReadApproval,
       ActivateCandidate, CheckApproval, CommitApproval, RollbackActive, SwapPolicy,
       LeaveRequest, Exists, Transitions
  <2> QED BY <1>0, <2>1, <2>2, HeldByOthers
<1>3. ASSUME NEW c \in Candidate, StartWhole(c) PROVE CursorIsHeld'
  BY <1>3 DEF StartWhole, At, CursorIsHeld
<1>4. ASSUME NEW c \in Candidate, StartStep(c) PROVE CursorIsHeld'
  <2>1. CASE cursor[c] # NoCursor
    <3>1. evaluator' = [mode |-> "stepped", step |-> "case", candidate |-> c,
                        from |-> "evaluating", baseline |-> cursor[c].baseline,
                        index |-> cursor[c].index, passed |-> FALSE]
      BY <1>4, <2>1 DEF StartStep, At
    <3>2. cursor[c] = [baseline |-> cursor[c].baseline, index |-> cursor[c].index]
      BY <1>0, <2>1 DEF CursorRow
    <3>3. cursor' = cursor
      BY <1>4 DEF StartStep
    <3> QED BY <3>1, <3>2, <3>3 DEF CursorIsHeld
  <2>2. CASE cursor[c] = NoCursor
    <3>1. PICK step \in {"reset", "baseline"} : evaluator' = At("stepped", step, c, status[c])
      BY <1>4, <2>2 DEF StartStep
    <3>2. cursor' = cursor
      BY <1>4 DEF StartStep
    <3>3. /\ evaluator'.candidate = c /\ evaluator'.step \in {"reset", "baseline"}
          /\ evaluator'.index = 0
      BY <3>1 DEF At
    <3> QED BY <2>2, <3>2, <3>3 DEF CursorIsHeld
  <2> QED BY <2>1, <2>2
<1>5. CASE ResetStale \/ ReadBaseline \/ BeginEvaluation
  <2>1. /\ evaluator \in EvaluatorState /\ evaluator # NoEvaluation
        /\ evaluator.step \in {"reset", "baseline", "begin"} /\ cursor' = cursor
    BY <1>0, <1>5 DEF ResetStale, ReadBaseline, BeginEvaluation, Evaluating
  <2>2. /\ evaluator'.mode = evaluator.mode /\ evaluator'.candidate = evaluator.candidate
        /\ evaluator.mode = "stepped" => evaluator'.step \in {"baseline", "begin", "open"}
        /\ evaluator'.index = evaluator.index
    BY <1>5, <2>1 DEF ResetStale, ReadBaseline, BeginEvaluation, EvaluatorState
  <2> QED BY <1>0, <2>1, <2>2 DEF CursorIsHeld
<1>6. CASE OpenCursor
  <2>1. evaluator \in EvaluatorState
    BY <1>0, <1>6 DEF OpenCursor, Evaluating
  <2>2. /\ evaluator'.candidate = evaluator.candidate /\ evaluator'.step = "case"
        /\ evaluator'.baseline = evaluator.baseline /\ evaluator'.index = evaluator.index
    BY <1>6, <2>1 DEF OpenCursor, EvaluatorState
  <2>3. evaluator.index = 0
    BY <1>0, <1>6 DEF OpenCursor, Evaluating, CursorIsHeld
  <2> QED BY <1>0, <1>6, <2>1, <2>2, <2>3 DEF OpenCursor, EvaluatorState, CursorIsHeld
<1>7. CASE RunCase
  <2>1. evaluator \in EvaluatorState /\ Evaluating("stepped", "case")
    BY <1>0, <1>7 DEF RunCase, Evaluating
  <2>2. CASE evaluator' # NoEvaluation
    <3>1. evaluator' = [evaluator EXCEPT !.step = "record"] /\ cursor' = cursor
      BY <1>7, <2>2 DEF RunCase
    <3>2. /\ evaluator'.candidate = evaluator.candidate /\ evaluator'.step = "record"
          /\ evaluator'.baseline = evaluator.baseline /\ evaluator'.index = evaluator.index
      BY <2>1, <3>1 DEF EvaluatorState
    <3> QED BY <1>0, <2>1, <3>1, <3>2 DEF CursorIsHeld, Evaluating
  <2> QED BY <1>1, <2>2
<1>8. ASSUME NEW passed \in BOOLEAN, RecordEvaluation(passed) PROVE CursorIsHeld'
  <2>1. evaluator \in EvaluatorState /\ evaluator # NoEvaluation /\ evaluator.step = "record"
    BY <1>0, <1>8 DEF RecordEvaluation
  <2>2. /\ evaluator'.mode = evaluator.mode /\ evaluator'.step = "settle"
        /\ evaluator'.candidate = evaluator.candidate /\ cursor' = cursor
    BY <1>8, <2>1 DEF RecordEvaluation, At, EvaluatorState
  <2>3. PICK n \in Nat : n = Len(evaluations)
    BY <1>0
  <2>4. /\ n + 1 \in 1..Len(evaluations')
        /\ evaluations'[n + 1].candidate = evaluator.candidate
        /\ evaluations'[n + 1].baseline = evaluator.baseline
    <3>1. /\ Len(evaluations') = n + 1
          /\ evaluations'[n + 1] = [candidate |-> evaluator.candidate,
                                    baseline |-> evaluator.baseline, passed |-> passed]
      BY <1>8, <2>3, Recording
    <3> QED BY <3>1
  <2>5. CASE evaluator.mode = "stepped"
    <3>1. cursor[evaluator.candidate] =
            [baseline |-> evaluator.baseline, index |-> evaluator.index]
      BY <1>0, <2>1, <2>5 DEF CursorIsHeld
    <3>2. cursor[evaluator.candidate] \in CursorRow \union {NoCursor}
      BY <1>0, <2>1 DEF EvaluatorState
    <3>3. /\ cursor[evaluator.candidate].baseline = evaluator.baseline
          /\ cursor[evaluator.candidate] # NoCursor
      BY <3>1 DEF NoCursor
    <3> QED BY <2>2, <2>4, <3>3 DEF CursorIsHeld
  <2> QED BY <1>1, <2>2, <2>5
<1>9. CASE SettleCandidate
  <2>1. evaluator \in EvaluatorState /\ evaluator # NoEvaluation /\ evaluator.step = "settle"
    BY <1>0, <1>9 DEF SettleCandidate
  <2>2. CASE evaluator.mode = "stepped"
    <3>1. evaluator' = At("stepped", "clear", evaluator.candidate, "evaluating")
      BY <1>9, <2>2 DEF SettleCandidate
    <3>2. /\ evaluator'.candidate = evaluator.candidate /\ evaluator'.step = "clear"
          /\ cursor' = cursor /\ evaluations' = evaluations
      BY <1>9, <3>1 DEF SettleCandidate, At
    <3>3. status'[evaluator.candidate] \in {"ready", "rejected"}
      BY <1>0, <1>9, <2>1 DEF SettleCandidate, EvaluatorState
    <3> QED BY <1>0, <2>1, <2>2, <3>2, <3>3 DEF CursorIsHeld
  <2>3. CASE evaluator.mode = "whole"
    BY <1>1, <1>9, <2>3 DEF SettleCandidate
  <2> QED BY <2>1, <2>2, <2>3 DEF EvaluatorState
<1>10. CASE ClearCursor \/ FailWhole \/ LeaveEvaluation \/ Restart
  BY <1>1, <1>10 DEF ClearCursor, FailWhole, LeaveEvaluation, Restart
<1>11. CASE EvaluationStep
  BY <1>3, <1>4, <1>5, <1>6, <1>7, <1>8, <1>9, <1>10, <1>11 DEF EvaluationStep
<1> QED BY <1>2, <1>10, <1>11, StepKinds
-----------------------------------------------------------------------------
(* The theorems.                                                            *)

\* The conjunction of all of the above holds initially.
LEMMA InductiveInit == Init => Inductive
<1> SUFFICES ASSUME Init PROVE Inductive
  OBVIOUS
<1> USE EvolutionAssumption
<1>1. Len(evaluations) = 0 /\ Len(deployments) = 0
  BY DEF Init
<1>2. EvolutionTypeOK
  <2>1. /\ status \in [Candidate -> Status \union {"absent"}]
        /\ evaluator \in EvaluatorState \union {NoEvaluation}
        /\ unsettled \in BOOLEAN
    BY DEF Init
  <2>2. /\ evaluations \in Seq([candidate : Candidate, baseline : Baseline, passed : BOOLEAN])
        /\ deployments \in Seq([candidate : Candidate, previous : Nat, rolledBack : BOOLEAN])
    BY DEF Init
  <2>3. /\ approval \in [Candidate -> 0..Len(evaluations)]
        /\ active \in 0..Len(deployments) /\ policy \in 0..Len(deployments)
    BY <1>1 DEF Init
  <2>4. cursor \in [Candidate -> CursorRow \union {NoCursor}]
    BY DEF Init
  <2>5. request \in [Operator -> RequestState \union {NoRequest}]
    BY DEF Init
  <2> QED BY <2>1, <2>2, <2>3, <2>4, <2>5 DEF EvolutionTypeOK
<1>3. \A o \in Operator : ~AtStep(o, "swap")
  BY DEF Init, AtStep
<1>4. LiveStack /\ PreviousIsOlder /\ ComparedWithReplaced
  BY <1>1 DEF Init, LiveStack, NewestLive, PreviousIsOlder, ComparedWithReplaced
<1>5. RequestsInRange /\ SettlesItsScore /\ CursorIsHeld
  BY DEF Init, RequestsInRange, SettlesItsScore, CursorIsHeld
<1>6. OneSwap
  BY <1>3 DEF Init, OneSwap
<1>7. ReadyIsScored
  BY DEF Init, ReadyIsScored
<1> QED BY <1>2, <1>4, <1>5, <1>6, <1>7 DEF Inductive, EvolutionInvariant

\* Every step keeps it.
LEMMA InductiveKept == Inductive /\ [Next]_vars => Inductive'
<1> SUFFICES ASSUME Inductive, [Next]_vars PROVE Inductive'
  OBVIOUS
<1>1. /\ EvolutionTypeOK /\ EvolutionInvariant /\ ComparedWithReplaced /\ ReadyIsScored
      /\ LiveStack /\ PreviousIsOlder /\ SettlesItsScore
  BY DEF Inductive, EvolutionInvariant
<1>2. EvolutionTypeOK'
  BY <1>1, TypesKept
<1>3. LiveStack' /\ PreviousIsOlder'
  BY <1>1, StackKept
<1>4. RequestsInRange' /\ OneSwap' /\ CursorIsHeld'
  BY <1>1, RequestsKept, SwapKept, HeldKept
<1>5. SettlesItsScore'
  BY <1>1, SettlesKept
<1>6. ComparedWithReplaced' /\ ReadyIsScored'
  BY <1>1, ComparisonKept, ScoreKept
<1> QED BY <1>2, <1>3, <1>4, <1>5, <1>6 DEF Inductive, EvolutionInvariant

\* It holds in every reachable state.
THEOREM InductiveHolds == Spec => []Inductive
BY InductiveInit, InductiveKept, PTL DEF Spec

\* Types: a stored cursor points at a case of its suite, and pointer and policy
\* at deployments there are (run_evaluation_step, EvolutionEngine::new).
THEOREM TypesHold == Spec => []EvolutionTypeOK
<1>1. Inductive => EvolutionTypeOK
  BY DEF Inductive
<1> QED BY <1>1, InductiveHolds, PTL

\* An active deployment can always be rolled back (rollback_active).
THEOREM RollbackHolds == Spec => []RollbackIsPossible
<1>1. Inductive => RollbackIsPossible
  <2> SUFFICES ASSUME Inductive, active # 0 PROVE CanRollBack
    BY DEF RollbackIsPossible
  <2>1. LiveStack /\ PreviousIsOlder /\ active \in 1..Len(deployments)
    BY DEF Inductive, EvolutionInvariant, EvolutionTypeOK
  <2>2. Live(active)
    BY <2>1 DEF LiveStack, NewestLive
  <2>3. deployments[active].previous # 0 => Live(deployments[active].previous)
    BY <2>1, <2>2 DEF LiveStack, NewestLive
  <2> QED BY <2>2, <2>3 DEF CanRollBack
<1> QED BY <1>1, InductiveHolds, PTL

\* Every deployment passed the gate against the policy it replaced, however
\* stale the copies in memory were (activate_candidate).
THEOREM ComparisonHolds == Spec => []ComparedWithReplaced
<1>1. Inductive => ComparedWithReplaced
  BY DEF Inductive
<1> QED BY <1>1, InductiveHolds, PTL

\* No candidate is ready or approved, and no approval names an evaluation,
\* without a score that passed (finalize_shadow_evaluation, approve_candidate).
THEOREM ScoreHolds == Spec => []ReadyIsScored
<1>1. Inductive => ReadyIsScored
  BY DEF Inductive
<1> QED BY <1>1, InductiveHolds, PTL

\* The policy in memory is the stored one once no pointer change is on its way,
\* unless one was lost or overtaken since the start (activate_candidate,
\* rollback_active).
THEOREM PolicyHolds == Spec => []PolicyFollowsPointer
<1>1. Inductive => PolicyFollowsPointer
  BY DEF Inductive, EvolutionInvariant, OneSwap, PolicyFollowsPointer
<1> QED BY <1>1, InductiveHolds, PTL

\* Committed cases survive until their evaluation is recorded and settled
\* (run_evaluation_step).
THEOREM CursorHolds == Spec => CursorIsKept
<1> DEFINE Kept(c) ==
      \/ /\ cursor'[c] # NoCursor
         /\ cursor'[c].baseline = cursor[c].baseline
         /\ cursor'[c].index >= cursor[c].index
      \/ /\ status[c] \in {"ready", "rejected", "approved"}
         /\ \E i \in 1..Len(evaluations) :
              /\ evaluations[i].candidate = c
              /\ evaluations[i].baseline = cursor[c].baseline
<1>1. ASSUME Inductive, [Next]_vars, NEW c \in Candidate, cursor[c] # NoCursor
      PROVE  Kept(c)
  <2>1. /\ cursor[c] \in CursorRow /\ CursorIsHeld
        /\ cursor \in [Candidate -> CursorRow \union {NoCursor}]
        /\ evaluator # NoEvaluation => evaluator \in EvaluatorState
    BY <1>1, EvaluatorFields DEF Inductive, EvolutionInvariant, EvolutionTypeOK
  <2>2. cursor[c].index \in Nat
    BY <2>1, EvolutionAssumption DEF CursorRow
  <2>3. CASE cursor'[c] = cursor[c]
    BY <1>1, <2>2, <2>3
  <2>4. CASE OpenCursor /\ cursor'[c] # cursor[c]
    <3>1. c = evaluator.candidate
      BY <2>1, <2>4 DEF OpenCursor, Evaluating, EvaluatorState
    <3> QED BY <1>1, <2>1, <2>4, <3>1 DEF OpenCursor, Evaluating, CursorIsHeld
  <2>5. CASE RunCase /\ cursor'[c] # cursor[c]
    <3>1. /\ c = evaluator.candidate /\ Evaluating("stepped", "case")
          /\ cursor'[c] = [baseline |-> evaluator.baseline, index |-> evaluator.index + 1]
      BY <2>1, <2>5 DEF RunCase, Evaluating, EvaluatorState
    <3>2. cursor[c] = [baseline |-> evaluator.baseline, index |-> evaluator.index]
      BY <2>1, <3>1 DEF Evaluating, CursorIsHeld
    <3>3. cursor'[c] # NoCursor
      BY <3>1 DEF NoCursor
    <3> QED BY <2>2, <3>1, <3>2, <3>3
  <2>6. CASE ClearCursor /\ cursor'[c] # cursor[c]
    <3>1. c = evaluator.candidate /\ Evaluating("stepped", "clear")
      BY <2>1, <2>6 DEF ClearCursor, Evaluating, EvaluatorState
    <3> QED BY <2>1, <3>1 DEF Evaluating, CursorIsHeld
  <2>7. CASE ~OpenCursor /\ ~RunCase /\ ~ClearCursor
    <3>1. cursor' = cursor
      BY <1>1, <2>7 DEF Next, vars, CreateCandidate, StartWhole, StartStep, ResetStale,
         ReadBaseline, BeginEvaluation, RecordEvaluation, SettleCandidate, FailWhole,
         LeaveEvaluation, ReadApproval, CheckApproval, CommitApproval, AbandonEvaluation,
         ActivateCandidate, RollbackActive, SwapPolicy, LeaveRequest, Restart, RequestUnchanged
    <3> QED BY <2>3, <3>1
  <2> QED BY <2>3, <2>4, <2>5, <2>6, <2>7
<1>2. Inductive /\ [Next]_vars => [\A c \in Candidate : cursor[c] # NoCursor => Kept(c)]_vars
  BY <1>1
<1> QED BY <1>2, InductiveHolds, PTL DEF Spec, CursorIsKept
=============================================================================
