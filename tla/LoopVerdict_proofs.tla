------------------------- MODULE LoopVerdict_proofs -------------------------
(***************************************************************************)
(* What the loop engine's ledger promises about order, retries, evidence    *)
(* and external effects, for every workflow, every set of workers and every *)
(* bound.                                                                   *)
(*                                                                         *)
(* Move(i) is the life cycle of one work item: the ways in which one step   *)
(* of any actor may change its row, its attempts and their checkpoints.     *)
(* The first part shows that every step of the system is a move of every    *)
(* item; the properties then follow from the moves, one by one.             *)
(***************************************************************************)
EXTENDS LoopLedger_proofs, FiniteSetTheorems

SameAttempts(i) ==
    /\ fence'[i] = fence[i]
    /\ \A n \in Token : att'[i][n] = att[i][n] /\ ckpt'[i][n] = ckpt[i][n]

\* Recovery reconciles a committed checkpoint even of an item that was canceled.
Stays(i) ==
    /\ item'[i] = item[i] /\ deps'[i] = deps[i] /\ fence'[i] = fence[i]
    /\ \A n \in Token :
          /\ att'[i][n] = att[i][n]
          /\ \/ ckpt'[i][n] = ckpt[i][n]
             \/ /\ ckpt[i][n] = "committed" /\ ckpt'[i][n] = "reconciled"
                /\ att[i][n] \notin Live

Added(i) ==
    /\ ApproveGoal \/ ExtendWorkflow
    /\ item[i] = "absent" /\ i[1] = approved'
    /\ \/ item'[i] = "pending"
       \/ item'[i] = "ready" /\ deps'[i] = {}
    /\ SameAttempts(i)

Shifts(i) ==
    /\ deps'[i] = deps[i] /\ SameAttempts(i)
    /\ \/ /\ item[i] = "pending" /\ item'[i] = "ready"
          /\ \A d \in deps[i] : item'[d] = "succeeded"
       \/ item[i] = "blocked_missing_handler" /\ item'[i] = "ready"
       \/ item[i] \in {"pending", "ready"} /\ item'[i] = "blocked"
       \/ /\ item[i] \in {"pending", "ready", "blocked", "blocked_missing_handler", "canceled"}
          /\ item'[i] \in {"failed", "canceled"}

Claimed(i) ==
    /\ item[i] = "ready" /\ item'[i] = "running" /\ deps'[i] = deps[i]
    /\ AttemptCount(i) < MaxAttempts
    /\ fence[i] + 1 \in Token /\ fence'[i] = fence[i] + 1
    /\ \A n \in Token :
          /\ att'[i][n] = IF n = fence[i] + 1 THEN "running" ELSE att[i][n]
          /\ ckpt'[i][n] = ckpt[i][n]

\* The newest attempt gets status a and its checkpoint phase c, and the item status to.
Turns(i, to, a, c) ==
    /\ item'[i] = to /\ deps'[i] = deps[i]
    /\ fence[i] \in Token /\ fence'[i] = fence[i]
    /\ \A n \in Token :
          /\ att'[i][n] = IF n = fence[i] THEN a ELSE att[i][n]
          /\ ckpt'[i][n] = IF n = fence[i] THEN c ELSE ckpt[i][n]

Prepares(i) ==
    /\ item[i] = "running" /\ att[i][fence[i]] = "running"
    /\ Turns(i, "running", "running", "prepared")

Commits(i) ==
    /\ item[i] = "running" /\ ckpt[i][fence[i]] = "prepared"
    /\ Turns(i, "running", "committing", "committed")

\* The phases a checkpoint may be left in when its attempt ends without an outcome.
Dropped(c, phase) == phase = c \/ (c = "prepared" /\ phase = "voided")

Ends(i) ==
    /\ item[i] \in {"running", "waiting_confirmation"}
    /\ att[i][fence[i]] \in Open
    /\ \E to \in ItemStatus, a \in AttemptStatus, c \in CheckpointPhase :
         /\ Turns(i, to, a, c)
         /\ \/ /\ to = "succeeded" /\ a = "succeeded" /\ c = "reconciled"
               /\ ckpt[i][fence[i]] \in {"prepared", "committed"}
            \/ /\ to = "waiting_confirmation" /\ a = "waiting_confirmation"
               /\ c = ckpt[i][fence[i]]
            \/ /\ to \in {"failed", "canceled"} /\ a \in {"failed", "abandoned"}
               /\ Dropped(ckpt[i][fence[i]], c)
            \/ /\ to = "ready" /\ a \in {"failed", "abandoned"}
               /\ AttemptCount(i) < MaxAttempts
               /\ Dropped(ckpt[i][fence[i]], c)
               /\ \/ a = "failed"
                  \/ <<i, fence[i]>> \in retried'
                  \/ ckpt[i][fence[i]] \notin {"prepared", "committed"}
                  \/ i[2] \notin ExternalWrite
            \/ /\ to \in {"ready", "blocked_missing_handler"} /\ a = "void"
               /\ Dropped(ckpt[i][fence[i]], c)
               /\ \/ i[2] \in Phased
                  \/ \E w \in Worker : pc[w] = "claimed" /\ job[w] = <<i, fence[i]>>

Move(i) ==
    \/ Stays(i) \/ Added(i) \/ Shifts(i) \/ Claimed(i)
    \/ Prepares(i) \/ Commits(i) \/ Ends(i)

\* The attempts that count against the retry budget are finitely many.
LEMMA AttemptCountType ==
    ASSUME NEW i \in Item
    PROVE  IsFiniteSet(SpentAttempts(i)) /\ AttemptCount(i) \in Nat
<1>1. IsFiniteSet(Token)
  BY FS_Interval, BoundAssumption DEF Token
<1>2. SpentAttempts(i) \subseteq Token
  BY DEF SpentAttempts
<1> QED BY <1>1, <1>2, FS_Subset, FS_CardinalityType DEF AttemptCount

-----------------------------------------------------------------------------
(* Every transaction moves every item.                                      *)

\* A transaction that leaves the ledger's rows alone.
LEMMA UnchangedMoves ==
    ASSUME UNCHANGED <<deps, item, fence, att, ckpt>>, NEW i \in Item
    PROVE  Move(i)
BY DEF Move, Stays

\* An unlocked item has seen all of its dependencies succeed.
LEMMA UnlockedAfter ==
    ASSUME NEW its, NEW ds \in [Item -> SUBSET Item], NEW i \in Item,
           its[i] = "pending", Unlocked(its, ds)[i] = "ready"
    PROVE  \A d \in ds[i] : Unlocked(its, ds)[d] = "succeeded"
BY DEF Unlocked

\* What a transaction does to item i before it unlocks is a move, and stays one.
LEMMA UnlockMoves ==
    ASSUME TypeOK, NEW its, item' = Unlocked(its, deps), deps' = deps, NEW i \in Item,
           its[i] = item[i], SameAttempts(i)
    PROVE  Move(i)
<1>1. CASE item'[i] = item[i]
  BY <1>1 DEF Move, Stays, SameAttempts
<1>2. CASE item'[i] # item[i]
  <2>1. its[i] = "pending" /\ item'[i] = "ready"
    BY <1>2, UnlockedIdle
  <2>2. \A d \in deps[i] : item'[d] = "succeeded"
    BY <2>1, UnlockedAfter DEF TypeOK
  <2> QED BY <2>1, <2>2 DEF Move, Shifts
<1> QED BY <1>1, <1>2

\* recover_goal_state moves every item by its own lease, attempt and checkpoint.
LEMMA RecoverMoves ==
    ASSUME TypeOK, AllSound, RecoverGoalState, NEW i \in Item
    PROVE  Move(i)
<1> DEFINE it == RecoveredItem[i]
           f == fence[i]
<1>1. /\ Sound(i) /\ fence' = fence /\ deps' = deps
      /\ it # "pending" => item'[i] = it
      /\ item' = Unlocked(RecoveredItem, deps)
  BY UnlockedIdle DEF RecoverGoalState, AllSound
<1>2. \A n \in Token : att'[i][n] = IF att[i][n] \notin Live THEN att[i][n]
        ELSE IF ckpt[i][n] = "committed" THEN "succeeded"
        ELSE IF Parked(i) THEN "waiting_confirmation"
        ELSE IF Exhausted(i) THEN "failed"
        ELSE IF Retried(i) THEN "abandoned"
        ELSE att[i][n]
  BY DEF RecoverGoalState, RecoveredAttempt
<1>3. \A n \in Token : ckpt'[i][n] = IF ckpt[i][n] = "committed" THEN "reconciled"
        ELSE IF ckpt[i][n] = "prepared" /\ att[i][n] \in Live
                  /\ (Exhausted(i) \/ Retried(i)) THEN "voided"
        ELSE ckpt[i][n]
  BY DEF RecoverGoalState, RecoveredCheckpoint
<1>4. it = IF item[i] = "running" /\ HasCommitted(i) THEN "succeeded"
        ELSE IF Parked(i) THEN "waiting_confirmation"
        ELSE IF Exhausted(i) THEN "failed"
        ELSE IF Retried(i) THEN "ready"
        ELSE item[i]
  BY DEF RecoveredItem
<1>5. item[i] = "running" => /\ f \in Token /\ att[i][f] \in Live
                             /\ \A n \in Token : att[i][n] \in Live => n = f
                             /\ \A n \in Token : ckpt[i][n] = "committed" => n = f
  BY <1>1 DEF Sound, Outcome
<1> HIDE DEF it, f
<1>6. ASSUME NEW to \in ItemStatus, NEW a \in AttemptStatus, NEW c \in CheckpointPhase,
             item[i] = "running", item'[i] = to, att'[i][f] = a, ckpt'[i][f] = c
      PROVE  Turns(i, to, a, c)
  BY <1>1, <1>2, <1>3, <1>5, <1>6 DEF Turns, f
<1>7. CASE item[i] # "running"
  <2>1. it = item[i] /\ ~Exhausted(i) /\ ~Retried(i) /\ ~Parked(i)
    BY <1>4, <1>7 DEF Parked, Exhausted, Retried, Stale
  <2>2. \A n \in Token : att[i][n] \notin Live
    BY <1>1, <1>7 DEF Sound
  <2>3. CASE item'[i] = item[i]
    BY <1>1, <1>2, <1>3, <2>1, <2>2, <2>3 DEF Move, Stays
  <2>4. CASE item'[i] # item[i]
    <3>1. item[i] = "pending"
      BY <1>1, <2>1, <2>4
    <3>2. \A n \in Token : ckpt[i][n] # "committed"
      BY <1>1, <3>1 DEF Sound, Outcome, Done
    <3>3. SameAttempts(i)
      BY <1>1, <1>2, <1>3, <2>1, <2>2, <3>2 DEF SameAttempts
    <3> QED BY <1>1, <2>1, <3>3, UnlockMoves DEF it
  <2> QED BY <2>3, <2>4
<1>8. CASE item[i] = "running" /\ HasCommitted(i)
  <2>1. ckpt[i][f] = "committed" /\ att[i][f] \in Open /\ f = fence[i]
    BY <1>5, <1>8 DEF HasCommitted, Open, f
  <2>2. item'[i] = "succeeded" /\ att'[i][f] = "succeeded" /\ ckpt'[i][f] = "reconciled"
    BY <1>1, <1>2, <1>3, <1>4, <1>5, <1>8, <2>1
  <2>3. Turns(i, "succeeded", "succeeded", "reconciled")
    BY <1>6, <1>8, <2>2 DEF ItemStatus, AttemptStatus, CheckpointPhase
  <2> QED BY <1>8, <2>1, <2>3 DEF Move, Ends, ItemStatus, AttemptStatus, CheckpointPhase
<1>9. CASE item[i] = "running" /\ ~HasCommitted(i)
  <2>0. f \in Token /\ att[i][f] \in Live /\ att[i][f] \in Open /\ f = fence[i]
        /\ ckpt[i][f] # "committed" /\ ckpt[i][f] \in CheckpointPhase /\ att[i][f] \in AttemptStatus
    BY <1>5, <1>9 DEF HasCommitted, Open, f, TypeOK
  <2>1. CASE Parked(i)
    <3>1. item'[i] = "waiting_confirmation" /\ att'[i][f] = "waiting_confirmation"
          /\ ckpt'[i][f] = ckpt[i][f]
      BY <1>1, <1>2, <1>3, <1>4, <1>9, <2>0, <2>1 DEF Parked, Exhausted, Retried
    <3>2. Turns(i, "waiting_confirmation", "waiting_confirmation", ckpt[i][f])
      BY <1>6, <1>9, <2>0, <3>1 DEF ItemStatus, AttemptStatus
    <3> QED BY <1>9, <2>0, <3>2 DEF Move, Ends, ItemStatus, AttemptStatus
  <2>2. CASE Exhausted(i)
    <3>1. item'[i] = "failed" /\ att'[i][f] = "failed" /\ Dropped(ckpt[i][f], ckpt'[i][f])
          /\ ckpt'[i][f] \in CheckpointPhase
      BY <1>1, <1>2, <1>3, <1>4, <1>9, <2>0, <2>2 DEF Parked, Exhausted, Retried, Dropped,
         CheckpointPhase
    <3>2. Turns(i, "failed", "failed", ckpt'[i][f])
      BY <1>6, <1>9, <2>0, <3>1 DEF ItemStatus, AttemptStatus
    <3> QED BY <1>9, <2>0, <3>1, <3>2 DEF Move, Ends, ItemStatus, AttemptStatus
  <2>3. CASE Retried(i)
    <3>1. item'[i] = "ready" /\ att'[i][f] = "abandoned" /\ Dropped(ckpt[i][f], ckpt'[i][f])
          /\ ckpt'[i][f] \in CheckpointPhase
      <4>1. ~Parked(i) /\ ~Exhausted(i)
        BY <2>3, AttemptCountType, BoundAssumption DEF Parked, Exhausted, Retried
      <4> QED BY <1>1, <1>2, <1>3, <1>4, <1>9, <2>0, <2>3, <4>1 DEF Dropped, CheckpointPhase
    <3>2. Turns(i, "ready", "abandoned", ckpt'[i][f])
      BY <1>6, <1>9, <2>0, <3>1 DEF ItemStatus, AttemptStatus
    <3>3. ckpt[i][f] \notin {"prepared", "committed"} \/ i[2] \notin ExternalWrite
      BY <2>0, <2>3 DEF Retried, Ambiguous
    <3>4. AttemptCount(i) < MaxAttempts
      BY <2>3 DEF Retried
    <3> QED BY <1>9, <2>0, <3>1, <3>2, <3>3, <3>4 DEF Move, Ends, ItemStatus, AttemptStatus
  <2>4. CASE ~Parked(i) /\ ~Exhausted(i) /\ ~Retried(i)
    <3>1. it = "running"
      BY <1>4, <1>9, <2>4
    <3>2. item'[i] = item[i] /\ deps'[i] = deps[i] /\ fence'[i] = fence[i]
      BY <1>1, <1>9, <3>1
    <3>3. \A n \in Token : att'[i][n] = att[i][n] /\ ckpt'[i][n] = ckpt[i][n]
      BY <1>2, <1>3, <1>9, <2>4 DEF HasCommitted
    <3> QED BY <3>2, <3>3 DEF Move, Stays
  <2> QED BY <2>1, <2>2, <2>3, <2>4
<1> QED BY <1>7, <1>8, <1>9

\* cancel_goal and mark_goal_for_replan end what is open and dismiss what waits.
LEMMA CloseMoves ==
    ASSUME TypeOK, AllSound, NEW kept \in SUBSET Done, NEW to \in {"failed", "canceled"},
           {"succeeded", "failed"} \subseteq kept, CloseWork(kept, to), NEW i \in Item
    PROVE  Move(i)
<1>1. Sound(i) /\ item[i] \in ItemStatus
  BY DEF AllSound, TypeOK
<1>2. /\ \A n \in Token : att'[i][n] = IF att[i][n] \in Open THEN "abandoned" ELSE att[i][n]
      /\ item'[i] = IF item[i] \notin kept \union {"absent"} THEN to ELSE item[i]
      /\ fence' = fence /\ ckpt' = ckpt /\ deps' = deps
  BY DEF CloseWork
<1>3. CASE item[i] \in {"running", "waiting_confirmation"}
  <2>1. /\ fence[i] \in Token /\ att[i][fence[i]] \in Open
        /\ \A n \in Token : att[i][n] \in Open => n = fence[i]
    BY <1>1, <1>3 DEF Sound, Open, Live
  <2>a. item[i] \notin kept \union {"absent"}
    BY <1>3 DEF Done
  <2>2. item'[i] = to /\ ckpt[i][fence[i]] \in CheckpointPhase
    BY <1>2, <2>a, <2>1 DEF TypeOK
  <2>3. Turns(i, to, "abandoned", ckpt[i][fence[i]])
    BY <1>2, <2>1, <2>2 DEF Turns
  <2> QED BY <1>3, <2>1, <2>2, <2>3 DEF Move, Ends, Dropped, ItemStatus, AttemptStatus
<1>4. CASE item[i] \notin {"running", "waiting_confirmation"}
  <2>1. SameAttempts(i)
    BY <1>1, <1>2, <1>4 DEF Sound, SameAttempts, Open, Live
  <2>2. CASE item[i] \notin kept \union {"absent"}
    BY <1>1, <1>2, <1>4, <2>1, <2>2 DEF Move, Shifts, ItemStatus
  <2>3. CASE item[i] \in kept \union {"absent"}
    BY <1>2, <2>1, <2>3 DEF Move, Stays, SameAttempts
  <2> QED BY <2>2, <2>3
<1> QED BY <1>3, <1>4

\* claim_ready_work_item opens an attempt under the next token.
LEMMA ClaimMoves ==
    ASSUME TypeOK, NEW j \in Item, ClaimItem(j), NEW i \in Item
    PROVE  Move(i)
<1>1. fence[j] + 1 \in Token
  BY NextToken DEF ClaimItem, Claimable
<1>2. CASE i = j
  <2>1. Claimed(i)
    BY <1>1, <1>2 DEF Claimed, ClaimItem, Claimable, TypeOK
  <2> QED BY <2>1 DEF Move
<1>3. CASE i # j
  <2>1. Stays(i)
    BY <1>3 DEF Stays, ClaimItem, TypeOK
  <2> QED BY <2>1 DEF Move
<1> QED BY <1>2, <1>3

\* prepare_checkpoint and commit_checkpoint move the item whose attempt they name.
LEMMA CheckpointMoves ==
    ASSUME TypeOK, NEW j \in Item, NEW m \in Token,
           (PrepareCheckpoint(j, m) /\ att[j][m] # "committing") \/ CommitCheckpoint(j, m),
           NEW i \in Item
    PROVE  Move(i)
<1>1. /\ item[j] = "running" /\ fence[j] = m /\ att[j][m] \in Live
      /\ UNCHANGED <<deps, item, fence>>
  BY DEF PrepareCheckpoint, CommitCheckpoint, ClaimCurrent, itemVars
<1>2. CASE PrepareCheckpoint(j, m) /\ att[j][m] # "committing"
  <2>1. ckpt' = [ckpt EXCEPT ![j][m] = "prepared"] /\ att' = att
    BY <1>2 DEF PrepareCheckpoint
  <2>2. CASE i = j
    <3>1. att[i][fence[i]] = "running"
      BY <1>1, <1>2, <2>2 DEF Live
    <3>2. Turns(i, "running", "running", "prepared")
      BY <1>1, <2>1, <2>2, <3>1 DEF Turns, TypeOK
    <3> QED BY <1>1, <2>2, <3>1, <3>2 DEF Move, Prepares
  <2>3. CASE i # j
    BY <1>1, <2>1, <2>3 DEF Move, Stays, TypeOK
  <2> QED BY <2>2, <2>3
<1>3. CASE CommitCheckpoint(j, m)
  <2>1. /\ ckpt' = [ckpt EXCEPT ![j][m] = "committed"] /\ ckpt[j][m] = "prepared"
        /\ att' = [att EXCEPT ![j][m] = "committing"]
    BY <1>3 DEF CommitCheckpoint
  <2>2. CASE i = j
    <3>1. Turns(i, "running", "committing", "committed")
      BY <1>1, <2>1, <2>2 DEF Turns, TypeOK
    <3> QED BY <1>1, <2>1, <2>2, <3>1 DEF Move, Commits
  <2>3. CASE i # j
    BY <1>1, <2>1, <2>3 DEF Move, Stays, TypeOK
  <2> QED BY <2>2, <2>3
<1> QED BY <1>2, <1>3

\* finish_attempt ends the item with its outcome and unlocks what waited for it.
LEMMA FinishMoves ==
    ASSUME TypeOK, NEW j \in Item, NEW m \in Token, FinishAttempt(j, m), NEW i \in Item
    PROVE  Move(i)
<1> DEFINE its == [item EXCEPT ![j] = "succeeded"]
<1>1. /\ item' = Unlocked(its, deps) /\ UNCHANGED <<deps, fence>>
      /\ ckpt' = [ckpt EXCEPT ![j][m] = "reconciled"] /\ ckpt[j][m] = "committed"
      /\ att' = [att EXCEPT ![j][m] = "succeeded"]
  BY DEF FinishAttempt
<1>2. item[j] = "running" /\ fence[j] = m /\ att[j][m] \in Live
  BY DEF FinishAttempt, ClaimCurrent
<1>3. its[i] = IF i = j THEN "succeeded" ELSE item[i]
  BY DEF TypeOK
<1> HIDE DEF its
<1>4. CASE i = j
  <2>1. item'[i] = "succeeded"
    BY <1>1, <1>3, <1>4, UnlockedIdle
  <2>2. Turns(i, "succeeded", "succeeded", "reconciled")
    BY <1>1, <1>2, <1>4, <2>1 DEF Turns, TypeOK
  <2> QED BY <1>1, <1>2, <1>4, <2>2 DEF Move, Ends, Open, ItemStatus, AttemptStatus, CheckpointPhase
<1>5. CASE i # j
  <2>1. SameAttempts(i)
    BY <1>1, <1>5 DEF SameAttempts, TypeOK
  <2> QED BY <1>1, <1>3, <1>5, <2>1, UnlockMoves
<1> QED BY <1>4, <1>5

\* fail_attempt ends the item or gives it another attempt, and blocks what follows it.
LEMMA FailMoves ==
    ASSUME TypeOK, NEW j \in Item, NEW m \in Token, NEW retryable \in BOOLEAN,
           FailAttempt(j, m, retryable), NEW i \in Item
    PROVE  Move(i)
<1>1. /\ item[j] = "running" /\ fence[j] = m /\ att[j][m] \in Live
      /\ att' = [att EXCEPT ![j][m] = "failed"]
      /\ UNCHANGED <<deps, fence, ckpt>>
  BY DEF FailAttempt, ClaimCurrent
<1>2. CASE i = j
  <2>1. item'[i] \in {"ready", "failed"} /\ (item'[i] = "ready" => AttemptCount(i) < MaxAttempts)
    BY <1>2 DEF FailAttempt
  <2>2. ckpt[i][fence[i]] \in CheckpointPhase
    BY <1>1, <1>2 DEF TypeOK
  <2>3. Turns(i, item'[i], "failed", ckpt[i][fence[i]])
    BY <1>1, <1>2 DEF Turns, TypeOK
  <2> QED BY <1>1, <1>2, <2>1, <2>2, <2>3 DEF Move, Ends, Dropped, Open, ItemStatus, AttemptStatus
<1>3. CASE i # j
  <2>1. SameAttempts(i)
    BY <1>1, <1>3 DEF SameAttempts, TypeOK
  <2>2. item'[i] = item[i] \/ (item[i] \in {"pending", "ready"} /\ item'[i] = "blocked")
    BY <1>3 DEF FailAttempt
  <2> QED BY <1>1, <2>1, <2>2 DEF Move, Stays, Shifts, SameAttempts
<1> QED BY <1>2, <1>3

\* block_work_item, defer_attempt and continue_attempt give an attempt back.
LEMMA VoidMoves ==
    ASSUME TypeOK, NEW j \in Item, NEW m \in Token,
           NEW to \in {"ready", "blocked_missing_handler"}, NEW isDue,
           VoidAttempt(j, m, to, isDue),
           j[2] \in Phased \/ \E w \in Worker : pc[w] = "claimed" /\ job[w] = <<j, m>>,
           NEW i \in Item
    PROVE  Move(i)
<1>1. /\ item[j] = "running" /\ fence[j] = m /\ att[j][m] \in Live
      /\ att' = [att EXCEPT ![j][m] = "void"] /\ item' = [item EXCEPT ![j] = to]
      /\ ckpt' = [ckpt EXCEPT ![j][m] = IF @ = "prepared" THEN "voided" ELSE @]
      /\ UNCHANGED <<deps, fence>>
  BY DEF VoidAttempt, ClaimCurrent
<1>2. CASE i = j
  <2> DEFINE c == IF ckpt[i][m] = "prepared" THEN "voided" ELSE ckpt[i][m]
  <2>1. c \in CheckpointPhase /\ Dropped(ckpt[i][m], c)
    BY DEF TypeOK, CheckpointPhase, Dropped
  <2>2. Turns(i, to, "void", c)
    BY <1>1, <1>2 DEF Turns, TypeOK
  <2> HIDE DEF c
  <2> QED BY <1>1, <1>2, <2>1, <2>2 DEF Move, Ends, Open, ItemStatus, AttemptStatus
<1>3. CASE i # j
  BY <1>1, <1>3 DEF Move, Stays, TypeOK
<1> QED BY <1>2, <1>3

\* requeue_blocked_items makes blocked items ready.
LEMMA RequeueMoves ==
    ASSUME NEW known, RequeueBlockedItems(known), NEW i \in Item
    PROVE  Move(i)
<1>1. /\ item'[i] = item[i] \/ (item[i] = "blocked_missing_handler" /\ item'[i] = "ready")
      /\ deps' = deps /\ SameAttempts(i)
  BY DEF RequeueBlockedItems, SameAttempts
<1> QED BY <1>1 DEF Move, Stays, Shifts, SameAttempts

\* The operator's verdict ends the parked attempt.
LEMMA ResolveMoves ==
    ASSUME TypeOK, AllSound, NEW j \in Item, NEW m \in Token,
           NEW verdict \in {"confirmed", "retry", "abandoned"},
           ResolveWaitingConfirmation(j, m, verdict),
           verdict = "retry" => <<j, m>> \in retried', NEW i \in Item
    PROVE  Move(i)
<1>1. PICK after \in {"succeeded", "ready", "failed"},
           closing \in {"succeeded", "abandoned", "failed"},
           phase \in {"reconciled", "voided"} :
           /\ item' = Unlocked([item EXCEPT ![j] = after], deps)
           /\ att' = [att EXCEPT ![j][m] = closing]
           /\ ckpt' = [ckpt EXCEPT ![j][m] = phase]
           /\ \/ after = "succeeded" /\ closing = "succeeded" /\ phase = "reconciled"
              \/ /\ after = "ready" /\ closing = "abandoned" /\ phase = "voided"
                 /\ verdict = "retry" /\ AttemptCount(j) < MaxAttempts
              \/ after = "failed" /\ closing \in {"abandoned", "failed"} /\ phase = "voided"
  <2>1. CASE verdict = "confirmed"
    BY <2>1 DEF ResolveWaitingConfirmation
  <2>2. CASE verdict = "retry"
    BY <2>2 DEF ResolveWaitingConfirmation
  <2>3. CASE verdict = "abandoned"
    BY <2>3 DEF ResolveWaitingConfirmation
  <2> QED BY <2>1, <2>2, <2>3
<1> DEFINE its == [item EXCEPT ![j] = after]
<1>2. /\ item[j] = "waiting_confirmation" /\ att[j][m] = "waiting_confirmation"
      /\ ckpt[j][m] = "prepared" /\ UNCHANGED <<deps, fence>> /\ fence[j] = m
  BY DEF ResolveWaitingConfirmation, AllSound, Sound
<1>3. its[i] = (IF i = j THEN after ELSE item[i]) /\ item' = Unlocked(its, deps)
  BY <1>1 DEF TypeOK
<1> HIDE DEF its
<1>4. CASE i = j
  <2>1. item'[i] = after
    BY <1>3, <1>4, UnlockedIdle
  <2>2. Turns(i, after, closing, phase)
    BY <1>1, <1>2, <1>4, <2>1 DEF Turns, TypeOK
  <2>3. /\ item[i] = "waiting_confirmation" /\ att[i][fence[i]] \in Open
        /\ ckpt[i][fence[i]] = "prepared"
        /\ verdict = "retry" => <<i, fence[i]>> \in retried'
    BY <1>2, <1>4 DEF Open
  <2>4. after \in ItemStatus /\ closing \in AttemptStatus /\ phase \in CheckpointPhase
    BY DEF ItemStatus, AttemptStatus, CheckpointPhase
  <2> QED BY <1>1, <1>4, <2>2, <2>3, <2>4 DEF Move, Ends, Dropped
<1>5. CASE i # j
  <2>1. SameAttempts(i)
    BY <1>1, <1>2, <1>5 DEF SameAttempts, TypeOK
  <2> QED BY <1>2, <1>3, <1>5, <2>1, UnlockMoves
<1> QED BY <1>4, <1>5

\* approve_goal adds the items of its plan, ready when they depend on nothing.
LEMMA ApproveMoves ==
    ASSUME TypeOK, Revisions, ApproveGoal, NEW i \in Item
    PROVE  Move(i)
<1>1. SameAttempts(i) /\ approved' = planned /\ approved < planned
  BY DEF ApproveGoal, SameAttempts, Revisions
<1>2. CASE i[1] = planned /\ i[2] \notin Dynamic
  <2>1. item[i] = "absent"
    BY <1>1, <1>2, BoundAssumption DEF Revisions, TypeOK, Item, Rev
  <2>2. /\ item'[i] = IF DependsOn[i[2]] # {} THEN "pending" ELSE "ready"
        /\ deps'[i] = {<<planned, s>> : s \in DependsOn[i[2]]}
    BY <1>2 DEF ApproveGoal
  <2>3. item'[i] = "pending" \/ (item'[i] = "ready" /\ deps'[i] = {})
    BY <2>2
  <2> QED BY <1>1, <1>2, <2>1, <2>3 DEF Move, Added
<1>3. CASE ~(i[1] = planned /\ i[2] \notin Dynamic)
  BY <1>1, <1>3 DEF ApproveGoal, Move, Stays, SameAttempts
<1> QED BY <1>2, <1>3

\* extend_workflow adds one item.
LEMMA ExtendMoves ==
    ASSUME TypeOK, Revisions, ExtendWorkflow, NEW i \in Item
    PROVE  Move(i)
<1>1. SameAttempts(i) /\ approved' = approved /\ goal \in {"approved", "active", "verifying"}
  BY DEF ExtendWorkflow, SameAttempts
<1> DEFINE rows == {k \in Item : item[k] # "absent"}
<1>2. PICK s \in Dynamic :
           /\ \E f \in [DependsOn[s] -> rows] :
                deps' = [deps EXCEPT ![<<planned, s>>] = {f[d] : d \in DependsOn[s]}]
           /\ item' = [item EXCEPT ![<<planned, s>>] =
                          IF DependsOn[s] = {} THEN "ready" ELSE "pending"]
           /\ s \notin {k[2] : k \in {k \in rows : item[k] # "canceled"}}
  BY DEF ExtendWorkflow
<1>3. PICK ds : /\ deps' = [deps EXCEPT ![<<planned, s>>] = ds]
                /\ DependsOn[s] = {} => ds = {}
  BY <1>2
<1>4. CASE i = <<planned, s>>
  <2>1. item[i] \in {"absent", "canceled"}
    BY <1>2, <1>4
  <2>2. i[1] = planned /\ approved = planned /\ planned \in Nat
    BY <1>1, <1>4, BoundAssumption DEF Revisions, TypeOK
  <2>3. item[i] = "absent"
    BY <1>1, <2>1, <2>2 DEF Revisions
  <2>4. item'[i] = "pending" \/ (item'[i] = "ready" /\ deps'[i] = {})
    BY <1>2, <1>3, <1>4 DEF TypeOK
  <2> QED BY <1>1, <2>2, <2>3, <2>4 DEF Move, Added
<1>5. CASE i # <<planned, s>>
  <2>1. item'[i] = item[i] /\ deps'[i] = deps[i]
    BY <1>2, <1>3, <1>5 DEF TypeOK
  <2> QED BY <1>1, <2>1 DEF Move, Stays, SameAttempts
<1> QED BY <1>4, <1>5

-----------------------------------------------------------------------------
(* Every step of every actor moves every item.                              *)

\* The transactions on the goal row and the clock leave the work alone.
LEMMA GoalRowMoves ==
    ASSUME \/ PlanGoal \/ ReviewPlan \/ RejectGoal \/ PauseGoal \/ UnpauseGoal
           \/ ExpireOverdueGoal \/ RecordManualVerification \/ VerifyGoal
           \/ ReserveProviderCall \/ DeadlinePasses \/ UNCHANGED storeVars
           \/ \E j \in Item : LeaseExpires(j) \/ WakeTimeReached(j)
           \/ \E j \in Item, n \in Token : RecordPhaseProgress(j, n),
           NEW i \in Item
    PROVE  Move(i)
<1>1. UNCHANGED <<deps, item, fence, att, ckpt>>
  BY DEF PlanGoal, ReviewPlan, RejectGoal, PauseGoal, UnpauseGoal, ExpireOverdueGoal,
     RecordManualVerification, VerifyGoal, ReserveProviderCall, DeadlinePasses,
     LeaseExpires, WakeTimeReached, RecordPhaseProgress, itemVars, storeVars
<1> QED BY <1>1, UnchangedMoves

\* A worker's step.
LEMMA WorkerStepMoves ==
    ASSUME WorkerTypeOK, Ledger, NEW w \in Worker, WorkerStep(w) \/ Crash(w), NEW i \in Item
    PROVE  Move(i)
<1> USE DEF Ledger, WorkerTypeOK
<1> DEFINE j == ItemOf(w)
           m == TokenOf(w)
<1>a. pc[w] \in Busy => /\ j \in Item /\ m \in Token /\ job[w] = <<j, m>> /\ StepOf(w) = j[2]
                        /\ pc[w] # "committed" => att[j][m] # "committing"
  BY BusyClaim, OwnClaim DEF StepOf
<1>1. CASE \/ PickGoal(w) \/ ReadReport(w) \/ OutOfSteps(w) \/ RereadReport(w)
           \/ ClaimNothing(w) \/ DropRefusedClaim(w) \/ Crash(w) \/ Restart(w)
           \/ VerifyOnPoll(w) \/ SendEffect(w) \/ ReserveInHandler(w)
  BY <1>1, GoalRowMoves DEF PickGoal, ReadReport, OutOfSteps, RereadReport, ClaimNothing,
     DropRefusedClaim, Crash, Restart, VerifyOnPoll, SendEffect, ReserveInHandler
<1>2. CASE \/ ResumeOnPoll(w) \/ ResumeAfterVerify(w) \/ RecoverBeforeClaim(w)
           \/ ResumeAndLeave(w) \/ ResumeAfterClaim(w)
  BY <1>2, RecoverMoves DEF ResumeOnPoll, ResumeAfterVerify, RecoverBeforeClaim,
     ResumeAndLeave, ResumeAfterClaim
<1>3. CASE RequeueOnPoll(w)
  BY <1>3, RequeueMoves DEF RequeueOnPoll
<1>4. CASE ClaimReadyWorkItem(w)
  BY <1>4, ClaimMoves DEF ClaimReadyWorkItem
<1>5. CASE FailDisabledWrite(w) \/ FailMismatchedEffect(w) \/ FailHandler(w)
  <2>1. pc[w] \in Busy /\ \E r \in BOOLEAN : FailAttempt(j, m, r)
    BY <1>5 DEF FailDisabledWrite, FailMismatchedEffect, FailHandler, Busy
  <2> HIDE DEF j, m
  <2> QED BY <1>a, <2>1, FailMoves
<1>6. CASE BlockMissingHandler(w)
  <2>1. /\ pc[w] \in Busy /\ pc[w] = "claimed"
        /\ VoidAttempt(j, m, "blocked_missing_handler", TRUE)
    BY <1>6 DEF BlockMissingHandler, BlockWorkItem, Busy
  <2> HIDE DEF j, m
  <2> QED BY <1>a, <2>1, VoidMoves
<1>7. CASE SleepHandler(w)
  <2>1. pc[w] \in Busy /\ StepOf(w) \in Phased /\ VoidAttempt(j, m, "ready", FALSE)
    BY <1>7 DEF SleepHandler, DeferAttempt, ContinueAttempt, Busy
  <2> HIDE DEF j, m
  <2> QED BY <1>a, <2>1, VoidMoves
<1>8. CASE StartHandler(w) \/ CommitOutcome(w)
  <2>1. /\ pc[w] \in Busy
        /\ (PrepareCheckpoint(j, m) /\ pc[w] # "committed") \/ CommitCheckpoint(j, m)
    BY <1>8 DEF StartHandler, CommitOutcome, Busy
  <2> HIDE DEF j, m
  <2> QED BY <1>a, <2>1, CheckpointMoves
<1>9. CASE FinishClaim(w)
  <2>1. pc[w] \in Busy /\ FinishAttempt(j, m)
    BY <1>9 DEF FinishClaim, Busy
  <2> HIDE DEF j, m
  <2> QED BY <1>a, <2>1, FinishMoves
<1>10. CASE NextPhase(w)
  <2>1. pc[w] \in Busy /\ RecordPhaseProgress(j, m)
    BY <1>10 DEF NextPhase, Busy
  <2> HIDE DEF j, m
  <2> QED BY <1>a, <2>1, GoalRowMoves
<1> QED BY <1>1, <1>2, <1>3, <1>4, <1>5, <1>6, <1>7, <1>8, <1>9, <1>10 DEF WorkerStep

\* The closing transactions of the goal.
LEMMA GoalCloseMoves ==
    ASSUME TypeOK, AllSound, CancelGoal \/ MarkGoalForReplan, NEW i \in Item
    PROVE  Move(i)
<1>1. CASE CancelGoal
  <2>1. CloseWork({"succeeded", "failed"}, "failed")
    BY <1>1 DEF CancelGoal
  <2>2. {"succeeded", "failed"} \in SUBSET Done
    BY DEF Done
  <2> QED BY <2>1, <2>2, CloseMoves
<1>2. CASE MarkGoalForReplan
  <2>1. CloseWork({"succeeded", "failed", "canceled"}, "canceled")
    BY <1>2 DEF MarkGoalForReplan
  <2>2. {"succeeded", "failed", "canceled"} \in SUBSET Done
    BY DEF Done
  <2> QED BY <2>1, <2>2, CloseMoves
<1> QED BY <1>1, <1>2

\* Whatever step is taken, each item makes one of the moves of its life cycle.
LEMMA NextMoves ==
    ASSUME WorkerTypeOK, Ledger, [Next]_vars, NEW i \in Item
    PROVE  Move(i)
<1> USE DEF Ledger, WorkerTypeOK
<1>1. CASE \E w \in Worker : WorkerStep(w) \/ Crash(w)
  BY <1>1, WorkerStepMoves
<1>2. CASE Approve
  BY <1>2, ApproveMoves DEF Approve
<1>3. CASE ResumeAfterApprove
  BY <1>3, RecoverMoves DEF ResumeAfterApprove
<1>4. CASE Resolve
  <2>1. PICK c \in Claim, verdict \in {"confirmed", "retry", "abandoned"} :
             /\ ResolveWaitingConfirmation(c[1], c[2], verdict)
             /\ retried' = IF verdict = "retry" THEN retried \union {c} ELSE retried
    BY <1>4 DEF Resolve
  <2>2. c[1] \in Item /\ c[2] \in Token /\ c = <<c[1], c[2]>>
    BY DEF Claim
  <2>3. verdict = "retry" => <<c[1], c[2]>> \in retried'
    BY <2>1, <2>2
  <2> QED BY <2>1, <2>2, <2>3, ResolveMoves
<1>5. CASE OperatorStep
  BY <1>5, GoalRowMoves, GoalCloseMoves, ExtendMoves, RecoverMoves DEF OperatorStep, Aside
<1>6. CASE TimeStep
  BY <1>6, GoalRowMoves DEF TimeStep, Aside
<1>7. CASE UNCHANGED vars
  BY <1>7, GoalRowMoves DEF vars
<1> QED BY <1>1, <1>2, <1>3, <1>4, <1>5, <1>6, <1>7 DEF Next

\* The ledger invariant in the form the steps below use.
THEOREM LedgerHolds == Spec => [](WorkerTypeOK /\ Ledger)
<1>1. LedgerInvariant => Ledger
  BY SoundLedger DEF Ledger
<1> QED BY <1>1, TypeCorrect, LedgerCorrect, PTL

-----------------------------------------------------------------------------
(* Closed rows.                                                             *)

\* A voided checkpoint belongs to a closed attempt.
VoidedIsClosed ==
    \A i \in Item, n \in Token : ckpt[i][n] = "voided" => att[i][n] \in Closed

\* An attempt gets a voided checkpoint only as it is closed.
LEMMA VoidedHolds == Spec => []VoidedIsClosed
<1>1. Init => VoidedIsClosed
  BY DEF Init, StoreInit, VoidedIsClosed
<1>2. ASSUME WorkerTypeOK, Ledger, VoidedIsClosed, [Next]_vars,
             NEW i \in Item, NEW n \in Token, ckpt'[i][n] = "voided"
      PROVE  att'[i][n] \in Closed
  <2>1. Move(i) /\ Sound(i) /\ (ckpt[i][n] = "voided" => att[i][n] \in Closed)
    BY <1>2, NextMoves DEF Ledger, AllSound, VoidedIsClosed
  <2>2. CASE Stays(i) \/ Added(i) \/ Shifts(i)
    BY <1>2, <2>1, <2>2 DEF Stays, Added, Shifts, SameAttempts
  <2>3. CASE Claimed(i)
    <3>1. fence[i] + 1 > fence[i]
      BY <1>2, BoundAssumption DEF WorkerTypeOK, TypeOK
    <3>2. fence[i] + 1 \in Token => ckpt[i][fence[i] + 1] = "none"
      BY <2>1, <3>1 DEF Sound
    <3> QED BY <1>2, <2>1, <2>3, <3>2 DEF Claimed
  <2>4. CASE Prepares(i) \/ Commits(i)
    BY <1>2, <2>1, <2>4 DEF Prepares, Commits, Turns, Closed
  <2>5. CASE Ends(i)
    <3>1. PICK to \in ItemStatus, a \in AttemptStatus, c \in CheckpointPhase :
               /\ Turns(i, to, a, c)
               /\ \/ c \in {"reconciled"}
                  \/ a = "waiting_confirmation" /\ c = ckpt[i][fence[i]]
                  \/ a \in {"failed", "abandoned", "void"}
      BY <2>5 DEF Ends
    <3>2. att[i][fence[i]] \in Open
      BY <2>5 DEF Ends
    <3>3. CASE n = fence[i]
      BY <1>2, <2>1, <3>1, <3>2, <3>3 DEF Turns, Closed, Open, Live
    <3>4. CASE n # fence[i]
      BY <1>2, <2>1, <3>1, <3>4 DEF Turns
    <3> QED BY <3>3, <3>4
  <2> QED BY <2>1, <2>2, <2>3, <2>4, <2>5 DEF Move
<1>3. WorkerTypeOK /\ Ledger /\ VoidedIsClosed /\ [Next]_vars => VoidedIsClosed'
  BY <1>2 DEF VoidedIsClosed
<1> QED BY <1>1, <1>3, LedgerHolds, PTL DEF Spec

\* One step never reopens what is closed.
LEMMA MoveAppends ==
    ASSUME WorkerTypeOK, Ledger, VoidedIsClosed, NEW i \in Item, Move(i)
    PROVE  RowsKept(i)
<1>1. Sound(i) /\ fence[i] \in Nat
  BY BoundAssumption DEF Ledger, AllSound, WorkerTypeOK, TypeOK
<1>2. CASE Stays(i) \/ Added(i) \/ Shifts(i)
  BY <1>1, <1>2 DEF Stays, Added, Shifts, SameAttempts, RowsKept
<1>3. CASE Claimed(i)
  <2>1. fence[i] + 1 \in Token => att[i][fence[i] + 1] = "none"
    BY <1>1 DEF Sound
  <2> QED BY <1>1, <1>3, <2>1 DEF Claimed, RowsKept, Closed
<1>4. CASE Prepares(i)
  <2>1. fence[i] \in Token /\ att[i][fence[i]] = "running"
    BY <1>4 DEF Prepares, Turns
  <2>2. ckpt[i][fence[i]] \notin {"committed", "reconciled", "voided"}
    BY <1>1, <1>4, <2>1 DEF Prepares, Sound, Outcome, VoidedIsClosed, Closed
  <2> QED BY <1>1, <1>4, <2>1, <2>2 DEF Prepares, Turns, RowsKept, Closed
<1>5. CASE Commits(i)
  <2>1. fence[i] \in Token /\ att[i][fence[i]] \in Live
    BY <1>1, <1>5 DEF Commits, Turns, Sound
  <2> QED BY <1>1, <1>5, <2>1 DEF Commits, Turns, RowsKept, Closed, Live
<1>6. CASE Ends(i)
  <2>1. PICK to \in ItemStatus, a \in AttemptStatus, c \in CheckpointPhase :
             /\ Turns(i, to, a, c)
             /\ \/ c = "reconciled" /\ ckpt[i][fence[i]] \in {"prepared", "committed"}
                \/ Dropped(ckpt[i][fence[i]], c)
    BY <1>6 DEF Ends, Dropped
  <2>2. item[i] \in {"running", "waiting_confirmation"} /\ att[i][fence[i]] \notin Closed
    BY <1>6 DEF Ends, Open, Live, Closed
  <2>3. /\ item[i] \in {"succeeded", "failed"} => item'[i] = item[i]
        /\ item[i] = "canceled" => item'[i] \in {"canceled", "failed"}
        /\ fence'[i] >= fence[i]
    BY <1>1, <2>1, <2>2 DEF Turns
  <2>4. ASSUME NEW n \in Token
        PROVE  /\ att[i][n] \in Closed => att'[i][n] = att[i][n]
               /\ ckpt[i][n] \in {"reconciled", "voided"} => ckpt'[i][n] = ckpt[i][n]
               /\ ckpt[i][n] = "committed" => ckpt'[i][n] \in {"committed", "reconciled"}
    BY <2>1, <2>2 DEF Turns, Dropped
  <2> QED BY <2>3, <2>4 DEF RowsKept
<1> QED BY <1>2, <1>3, <1>4, <1>5, <1>6 DEF Move

\* Closed attempts, settled checkpoints and settled items never change again, whichever
\* worker, operator, resume or crash acts: the ledger is a history (store.rs).
THEOREM LedgerAppends == Spec => LedgerIsAppendOnly
<1>1. WorkerTypeOK /\ Ledger /\ VoidedIsClosed /\ [Next]_vars
          => [\A i \in Item : RowsKept(i)]_vars
  BY NextMoves, MoveAppends
<1> QED BY <1>1, LedgerHolds, VoidedHolds, PTL DEF Spec, LedgerIsAppendOnly

-----------------------------------------------------------------------------
(* Dependencies.                                                            *)

\* An item that was handed out, or may be, has all of its dependencies behind it.
Unlocks ==
    \A i \in Item :
        fence[i] > 0 \/ item[i] \in {"ready", "blocked_missing_handler"} =>
            \A d \in deps[i] : item[d] = "succeeded"

\* Items are unlocked after their dependencies, and success is final.
LEMMA UnlocksHolds == Spec => []Unlocks
<1>1. Init => Unlocks
  BY DEF Init, StoreInit, Unlocks
<1>2. ASSUME WorkerTypeOK, Ledger, Unlocks, [Next]_vars, NEW i \in Item,
             fence'[i] > 0 \/ item'[i] \in {"ready", "blocked_missing_handler"},
             NEW d \in deps'[i]
      PROVE  item'[d] = "succeeded"
  <2>1. Move(i) /\ fence[i] \in Nat /\ (\A n \in Token : n > 0)
    BY <1>2, NextMoves, BoundAssumption DEF WorkerTypeOK, TypeOK, Token
  <2>2. deps'[i] = deps[i] => d \in Item /\ Move(d)
    BY <1>2, NextMoves DEF WorkerTypeOK, TypeOK
  <2>3. ASSUME d \in Item, Move(d), item[d] = "succeeded" PROVE item'[d] = "succeeded"
    BY <2>3 DEF Move, Stays, Added, Shifts, Claimed, Prepares, Commits, Ends
  <2>4. CASE Added(i)
    <3>1. fence[i] = 0
      BY <1>2, <2>4 DEF Added, Ledger, Revisions
    <3> QED BY <1>2, <2>4, <3>1 DEF Added, SameAttempts
  <2>5. CASE Shifts(i)
    <3>1. CASE item[i] = "pending" /\ item'[i] = "ready" /\ \A e \in deps[i] : item'[e] = "succeeded"
      BY <1>2, <2>5, <3>1 DEF Shifts
    <3>2. CASE item[i] = "blocked_missing_handler" /\ item'[i] = "ready"
      BY <1>2, <2>2, <2>3, <2>5, <3>2 DEF Shifts, Unlocks
    <3>3. CASE item'[i] \in {"blocked", "failed", "canceled"}
      BY <1>2, <2>2, <2>3, <2>5, <3>3 DEF Shifts, SameAttempts, Unlocks
    <3> QED BY <2>5, <3>1, <3>2, <3>3 DEF Shifts
  <2>6. CASE Stays(i) \/ Claimed(i)
    BY <1>2, <2>2, <2>3, <2>6 DEF Stays, Claimed, Unlocks
  <2>7. CASE Prepares(i) \/ Commits(i) \/ Ends(i)
    <3>1. fence[i] \in Token /\ deps'[i] = deps[i]
      BY <2>7 DEF Prepares, Commits, Ends, Turns
    <3> QED BY <1>2, <2>1, <2>2, <2>3, <3>1 DEF Unlocks
  <2> QED BY <2>1, <2>4, <2>5, <2>6, <2>7 DEF Move
<1>3. WorkerTypeOK /\ Ledger /\ Unlocks /\ [Next]_vars => Unlocks'
  BY <1>2 DEF Unlocks
<1> QED BY <1>1, <1>3, LedgerHolds, PTL DEF Spec

\* No item is ever claimed before all of its dependencies succeeded (claim_ready_work_item
\* after unlock_ready_work_tx), across replans and extensions of the workflow.
THEOREM DependenciesHold == Spec => []DependenciesFirst
<1>1. Unlocks => DependenciesFirst
  BY DEF Unlocks, DependenciesFirst
<1> QED BY <1>1, UnlocksHolds, PTL

-----------------------------------------------------------------------------
(* The retry budget.                                                        *)

\* A move changes the attempts that count by at most the newest one.
LEMMA SpentKept ==
    ASSUME NEW i \in Item,
           \A n \in Token : att'[i][n] \in {"none", "void"} <=> att[i][n] \in {"none", "void"}
    PROVE  AttemptCount(i)' = AttemptCount(i)
<1>1. SpentAttempts(i)' = SpentAttempts(i)
  BY DEF SpentAttempts
<1> QED BY <1>1 DEF AttemptCount

\* A claim spends one attempt.
LEMMA SpentMore ==
    ASSUME NEW i \in Item, NEW f \in Token, att[i][f] = "none",
           \A n \in Token : att'[i][n] = IF n = f THEN "running" ELSE att[i][n]
    PROVE  AttemptCount(i)' = AttemptCount(i) + 1
<1>1. SpentAttempts(i)' = SpentAttempts(i) \union {f} /\ f \notin SpentAttempts(i)
  BY DEF SpentAttempts
<1> QED BY <1>1, AttemptCountType, FS_AddElement DEF AttemptCount

\* An attempt that is given back is not spent.
LEMMA SpentLess ==
    ASSUME NEW i \in Item, NEW f \in Token, att[i][f] \in Open,
           \A n \in Token : att'[i][n] = IF n = f THEN "void" ELSE att[i][n]
    PROVE  AttemptCount(i)' = AttemptCount(i) - 1
<1>1. SpentAttempts(i)' = SpentAttempts(i) \ {f} /\ f \in SpentAttempts(i)
  BY DEF SpentAttempts, Open, Live
<1> QED BY <1>1, AttemptCountType, FS_RemoveElement DEF AttemptCount

\* An item without claims has spent nothing.
LEMMA SpentNone ==
    ASSUME NEW i \in Item, Sound(i), fence[i] = 0
    PROVE  AttemptCount(i) = 0
<1>1. \A n \in Token : n > 0
  BY BoundAssumption DEF Token
<1>2. SpentAttempts(i) = {}
  BY <1>1 DEF SpentAttempts, Sound
<1> QED BY <1>2, FS_EmptySet DEF AttemptCount

Waiting == {"pending", "ready", "blocked", "blocked_missing_handler"}

\* Whichever way an item came to wait for a claim (approved, extended, unlocked, failed
\* with a retry, deferred, continued, requeued, recovered, resolved with the verdict
\* retry), it has attempts left and the claim query can select it.
THEOREM RequeueHolds == Spec => []RequeuedIsClaimable
<1>1. Init => RequeuedIsClaimable
  <2>1. ASSUME Init, NEW i \in Item PROVE AttemptCount(i) = 0 /\ item[i] = "absent"
    BY <2>1, InitialLedger, SpentNone DEF Init, StoreInit, Ledger, AllSound
  <2> QED BY <2>1, BoundAssumption DEF RequeuedIsClaimable
<1>2. ASSUME WorkerTypeOK, Ledger, RequeuedIsClaimable, [Next]_vars, NEW i \in Item
      PROVE  /\ AttemptCount(i)' <= MaxAttempts
             /\ item'[i] \in Waiting => AttemptCount(i)' < MaxAttempts
  <2>1. /\ Move(i) /\ Sound(i) /\ fence[i] \in Nat
        /\ AttemptCount(i) <= MaxAttempts
        /\ item[i] \in Waiting => AttemptCount(i) < MaxAttempts
        /\ AttemptCount(i) \in Nat /\ MaxAttempts \in Nat \ {0}
    BY <1>2, NextMoves, AttemptCountType, BoundAssumption
    DEF Ledger, AllSound, WorkerTypeOK, TypeOK, RequeuedIsClaimable, Waiting
  <2>2. CASE Stays(i) \/ Shifts(i)
    <3>1. AttemptCount(i)' = AttemptCount(i)
      BY <2>2, SpentKept DEF Stays, Shifts, SameAttempts
    <3>2. item'[i] \in Waiting => item[i] \in Waiting
      BY <2>2 DEF Stays, Shifts, Waiting
    <3> QED BY <2>1, <3>1, <3>2
  <2>3. CASE Added(i)
    <3>1. AttemptCount(i)' = AttemptCount(i)
      BY <2>3, SpentKept DEF Added, SameAttempts
    <3>2. fence[i] = 0
      BY <1>2, <2>3 DEF Added, Ledger, Revisions
    <3> QED BY <2>1, <3>1, <3>2, SpentNone
  <2>4. CASE Claimed(i)
    <3>1. att[i][fence[i] + 1] = "none" /\ fence[i] + 1 \in Token
      BY <2>1, <2>4 DEF Claimed, Sound
    <3>2. AttemptCount(i)' = AttemptCount(i) + 1
      BY <2>4, <3>1, SpentMore DEF Claimed
    <3> QED BY <2>1, <2>4, <3>2 DEF Claimed, Waiting
  <2>5. CASE Prepares(i) \/ Commits(i)
    <3>1. fence[i] \in Token /\ att[i][fence[i]] \in Live /\ item'[i] = "running"
      BY <2>1, <2>5 DEF Prepares, Commits, Turns, Sound
    <3>2. AttemptCount(i)' = AttemptCount(i)
      BY <2>5, <3>1, SpentKept DEF Prepares, Commits, Turns, Live
    <3> QED BY <2>1, <3>1, <3>2 DEF Waiting
  <2>6. CASE Ends(i)
    <3>1. PICK to \in ItemStatus, a \in AttemptStatus, c \in CheckpointPhase :
               /\ Turns(i, to, a, c)
               /\ \/ to \notin Waiting /\ a \notin {"none", "void"}
                  \/ a \in {"failed", "abandoned"} /\ AttemptCount(i) < MaxAttempts
                  \/ a = "void"
      BY <2>6 DEF Ends, Waiting
    <3>2. att[i][fence[i]] \in Open /\ fence[i] \in Token /\ item'[i] = to
      BY <2>6, <3>1 DEF Ends, Turns
    <3>3. CASE a \notin {"none", "void"}
      <4>1. AttemptCount(i)' = AttemptCount(i)
        BY <3>1, <3>2, <3>3, SpentKept DEF Turns, Open, Live
      <4> QED BY <2>1, <3>1, <3>2, <3>3, <4>1
    <3>4. CASE a = "void"
      <4>1. AttemptCount(i)' = AttemptCount(i) - 1
        BY <3>1, <3>2, <3>4, SpentLess DEF Turns
      <4> QED BY <2>1, <4>1
    <3> QED BY <3>1, <3>3, <3>4
  <2> QED BY <2>1, <2>2, <2>3, <2>4, <2>5, <2>6 DEF Move
<1>3. WorkerTypeOK /\ Ledger /\ RequeuedIsClaimable /\ [Next]_vars => RequeuedIsClaimable'
  BY <1>2 DEF RequeuedIsClaimable, Waiting
<1> QED BY <1>1, <1>3, LedgerHolds, PTL DEF Spec

-----------------------------------------------------------------------------
(* The goal's course.                                                       *)

\* What a step does to the goal row: it plans, is reviewed or approved, moves by an
\* operator's, the janitor's or the verifier's hand, becomes active by a claim, is
\* refreshed from its items or stays.
Course ==
    \/ PlanGoal \/ ReviewPlan \/ ApproveGoal
    \/ /\ UNCHANGED <<planned, approved, reviewed>>
       /\ \/ goal' = goal
          \/ goal' = Refreshed(goal, item', approved)
          \/ goal \in {"approved", "active"} /\ goal' = "active"
          \/ RejectGoal \/ PauseGoal \/ UnpauseGoal \/ ExpireOverdueGoal \/ VerifyGoal
          \/ CancelGoal \/ MarkGoalForReplan

\* The transactions that leave the goal row as it is.
LEMMA KeptCourse ==
    ASSUME \/ RecordManualVerification \/ ReserveProviderCall \/ DeadlinePasses
           \/ UNCHANGED storeVars
           \/ \E i \in Item : LeaseExpires(i) \/ WakeTimeReached(i)
           \/ \E known : RequeueBlockedItems(known)
           \/ \E i, n : \/ PrepareCheckpoint(i, n) \/ CommitCheckpoint(i, n)
                        \/ RecordPhaseProgress(i, n)
                        \/ BlockWorkItem(i, n) \/ DeferAttempt(i, n) \/ ContinueAttempt(i, n)
    PROVE  Course
<1>1. UNCHANGED <<goal, planned, approved, reviewed>>
  BY DEF RecordManualVerification, ReserveProviderCall, DeadlinePasses, LeaseExpires,
     WakeTimeReached, RequeueBlockedItems, PrepareCheckpoint, CommitCheckpoint,
     RecordPhaseProgress, BlockWorkItem, DeferAttempt, ContinueAttempt, VoidAttempt,
     storeVars, goalVars
<1> QED BY <1>1 DEF Course

\* The transactions that end in a refresh, and the claim.
LEMMA WorkCourse ==
    ASSUME \/ RecoverGoalState \/ ExtendWorkflow
           \/ \E i, n : FinishAttempt(i, n)
           \/ \E i, n, r : FailAttempt(i, n, r)
           \/ \E i, n, verdict : ResolveWaitingConfirmation(i, n, verdict)
           \/ \E i : ClaimItem(i)
    PROVE  Course
<1>1. CASE \E i : ClaimItem(i)
  <2>1. UNCHANGED <<planned, approved, reviewed>> /\ goal \in {"approved", "active"} /\ goal' = "active"
    BY <1>1 DEF ClaimItem, Claimable
  <2> QED BY <2>1 DEF Course
<1>2. CASE ~\E i : ClaimItem(i)
  <2>1. UNCHANGED <<planned, approved, reviewed>> /\ goal' = Refreshed(goal, item', approved)
    BY <1>2 DEF RecoverGoalState, ExtendWorkflow, FinishAttempt, FailAttempt,
       ResolveWaitingConfirmation
  <2> QED BY <2>1 DEF Course
<1> QED BY <1>1, <1>2

\* The operator's and the janitor's transactions on the goal row.
LEMMA OperatorCourse ==
    ASSUME \/ PlanGoal \/ ReviewPlan \/ ApproveGoal \/ RejectGoal \/ PauseGoal \/ UnpauseGoal
           \/ ExpireOverdueGoal \/ VerifyGoal \/ CancelGoal \/ MarkGoalForReplan
    PROVE  Course
<1>1. CASE PlanGoal \/ ReviewPlan \/ ApproveGoal
  BY <1>1 DEF Course
<1>2. CASE ~(PlanGoal \/ ReviewPlan \/ ApproveGoal)
  <2>1. UNCHANGED <<planned, approved, reviewed>>
    BY <1>2 DEF RejectGoal, PauseGoal, UnpauseGoal, ExpireOverdueGoal, VerifyGoal, CancelGoal,
       MarkGoalForReplan, CloseWork
  <2> QED BY <1>2, <2>1 DEF Course
<1> QED BY <1>1, <1>2

\* Every step follows the goal's course.
LEMMA NextCourse ==
    ASSUME [Next]_vars
    PROVE  Course
<1>1. ASSUME NEW w \in Worker, WorkerStep(w) \/ Crash(w) PROVE Course
  <2>1. CASE \/ PickGoal(w) \/ ReadReport(w) \/ OutOfSteps(w) \/ RereadReport(w)
             \/ ClaimNothing(w) \/ DropRefusedClaim(w) \/ Crash(w) \/ Restart(w)
             \/ SendEffect(w) \/ ReserveInHandler(w) \/ RequeueOnPoll(w)
    BY <2>1, KeptCourse DEF PickGoal, ReadReport, OutOfSteps, RereadReport, ClaimNothing,
       DropRefusedClaim, Crash, Restart, SendEffect, ReserveInHandler, RequeueOnPoll
  <2>2. CASE \/ BlockMissingHandler(w) \/ SleepHandler(w) \/ StartHandler(w) \/ CommitOutcome(w)
             \/ NextPhase(w)
    BY <2>2, KeptCourse DEF BlockMissingHandler, SleepHandler, StartHandler, CommitOutcome,
       NextPhase
  <2>3. CASE \/ ResumeOnPoll(w) \/ ResumeAfterVerify(w) \/ RecoverBeforeClaim(w)
             \/ ResumeAndLeave(w) \/ ResumeAfterClaim(w) \/ ClaimReadyWorkItem(w)
             \/ FinishClaim(w) \/ FailDisabledWrite(w) \/ FailMismatchedEffect(w) \/ FailHandler(w)
    BY <2>3, WorkCourse DEF ResumeOnPoll, ResumeAfterVerify, RecoverBeforeClaim,
       ResumeAndLeave, ResumeAfterClaim, ClaimReadyWorkItem, FinishClaim, FailDisabledWrite,
       FailMismatchedEffect, FailHandler
  <2>4. CASE VerifyOnPoll(w)
    BY <2>4, KeptCourse, OperatorCourse DEF VerifyOnPoll
  <2> QED BY <1>1, <2>1, <2>2, <2>3, <2>4 DEF WorkerStep
<1>2. CASE Approve \/ ResumeAfterApprove \/ Resolve
  BY <1>2, OperatorCourse, WorkCourse DEF Approve, ResumeAfterApprove, Resolve
<1>3. CASE OperatorStep
  BY <1>3, OperatorCourse, WorkCourse, KeptCourse DEF OperatorStep, Aside
<1>4. CASE TimeStep
  BY <1>4, OperatorCourse, KeptCourse DEF TimeStep, Aside
<1>5. CASE UNCHANGED vars
  BY <1>5, KeptCourse DEF vars
<1> QED BY <1>1, <1>2, <1>3, <1>4, <1>5 DEF Next

\* An achieved goal stays achieved and a replan is the only way out of a rejected or
\* canceled one, whatever late worker, resume or janitor still acts on it
\* (refresh_goal_status_tx, verify_goal, mark_goal_for_replan).
THEOREM VerdictsAreFinal == Spec => VerdictIsFinal
<1>1. ASSUME Course
      PROVE  /\ goal = "achieved" => goal' = "achieved"
             /\ goal \in {"rejected", "canceled"} => goal' \in {goal, "replan"}
  <2>1. CASE goal' = goal \/ goal' = Refreshed(goal, item', approved)
    BY <2>1, RefreshedGoal DEF Working
  <2>2. CASE ~(goal' = goal \/ goal' = Refreshed(goal, item', approved))
    BY <1>1, <2>2 DEF Course, PlanGoal, ReviewPlan, ApproveGoal, RejectGoal, PauseGoal,
       UnpauseGoal, ExpireOverdueGoal, VerifyGoal, CancelGoal, MarkGoalForReplan
  <2> QED BY <2>1, <2>2
<1>2. [Next]_vars => [/\ goal = "achieved" => goal' = "achieved"
                      /\ goal \in {"rejected", "canceled"} => goal' \in {goal, "replan"}]_vars
  BY <1>1, NextCourse
<1> QED BY <1>2, PTL DEF Spec, VerdictIsFinal

-----------------------------------------------------------------------------
(* Reviewed work.                                                           *)

Settled == {"absent", "succeeded", "failed", "canceled"}
Quiet == {"proposed", "review_ready", "rejected", "canceled", "replan"}

\* Approvals follow reviews, and a goal whose plan is not at work has nothing open.
Reviewed ==
    /\ approved <= reviewed /\ reviewed <= planned
    /\ goal \in Quiet => \A i \in Item : item[i] \in Settled
    /\ \A i \in Item : i[1] < approved => item[i] \in Settled

\* A step keeps settled work settled unless it adds an item.
LEMMA MoveSettled ==
    ASSUME NEW i \in Item, Move(i), item[i] \in Settled
    PROVE  item'[i] \in Settled \/ Added(i)
BY DEF Move, Stays, Shifts, Claimed, Prepares, Commits, Ends, Settled

\* Work exists only for plans the operator has read and approved, and a plan is
\* approved only when nothing of the one before it is open.
LEMMA ReviewedHolds == Spec => []Reviewed
<1>1. Init => Reviewed
  BY DEF Init, StoreInit, Reviewed, Settled
<1>2. ASSUME WorkerTypeOK, Ledger, Reviewed, [Next]_vars PROVE Reviewed'
  <2>0. /\ planned \in Nat /\ approved \in Nat /\ reviewed \in Nat
        /\ \A i \in Item : i[1] \in Nat
        /\ \A i \in Item : Move(i)
        /\ Course
    BY <1>2, NextMoves, NextCourse, BoundAssumption DEF WorkerTypeOK, TypeOK, Item, Rev
  <2>1. CASE ApproveGoal
    <3>1. /\ goal = "review_ready" /\ goal' = "approved" /\ approved' = planned
          /\ planned' = planned /\ reviewed' = reviewed /\ reviewed = planned
      BY <2>1 DEF ApproveGoal
    <3>2. ASSUME NEW i \in Item, i[1] < approved' PROVE item'[i] \in Settled
      <4>1. item[i] \in Settled /\ ~Added(i)
        BY <1>2, <2>0, <3>1, <3>2 DEF Reviewed, Quiet, Added
      <4> QED BY <2>0, <4>1, MoveSettled
    <3> QED BY <2>0, <3>1, <3>2 DEF Reviewed, Quiet
  <2>2. CASE PlanGoal \/ ReviewPlan
    BY <1>2, <2>0, <2>2 DEF PlanGoal, ReviewPlan, Reviewed, Quiet, itemVars
  <2>3. CASE ~(ApproveGoal \/ PlanGoal \/ ReviewPlan)
    <3>1. UNCHANGED <<planned, approved, reviewed>>
      BY <2>0, <2>3 DEF Course
    <3>2. ASSUME NEW i \in Item, i[1] < approved' PROVE item'[i] \in Settled
      <4>1. item[i] \in Settled /\ ~Added(i)
        BY <1>2, <2>0, <3>1, <3>2 DEF Reviewed, Added
      <4> QED BY <2>0, <4>1, MoveSettled
    <3>3. ASSUME goal' \in Quiet, NEW i \in Item PROVE item'[i] \in Settled
      <4>1. CASE goal \in Quiet
        <5>1. item[i] \in Settled /\ ~ExtendWorkflow
          BY <1>2, <4>1 DEF Reviewed, Quiet, ExtendWorkflow
        <5> QED BY <2>0, <2>3, <5>1, MoveSettled DEF Added
      <4>2. CASE goal \notin Quiet
        <5>1. goal' # goal /\ goal' # Refreshed(goal, item', approved)
          BY <3>3, <4>2, RefreshedGoal DEF Working, Quiet
        <5>2. CancelGoal \/ MarkGoalForReplan
          BY <2>0, <2>3, <3>3, <4>2, <5>1 DEF Course, Quiet, RejectGoal, PauseGoal, UnpauseGoal,
             ExpireOverdueGoal, VerifyGoal
        <5> QED BY <5>2 DEF CancelGoal, MarkGoalForReplan, CloseWork, Settled
      <4> QED BY <4>1, <4>2
    <3> QED BY <1>2, <2>0, <3>1, <3>2, <3>3 DEF Reviewed
  <2> QED BY <2>1, <2>2, <2>3
<1> QED BY <1>1, <1>2, LedgerHolds, PTL DEF Spec

\* Work exists only for plan revisions the operator has read, and work of a superseded
\* revision is settled (approve_goal, mark_goal_for_replan).
THEOREM ReviewHolds == Spec => []OnlyReviewedWork
<1>1. WorkerTypeOK /\ Ledger /\ Reviewed => OnlyReviewedWork
  <2> SUFFICES ASSUME WorkerTypeOK, Ledger, Reviewed, NEW i \in Item
               PROVE  /\ item[i] # "absent" => i[1] <= reviewed /\ i[1] <= approved
                      /\ i[1] < approved => item[i] \in Settled
    BY DEF OnlyReviewedWork, Settled
  <2>1. planned \in Nat /\ approved \in Nat /\ reviewed \in Nat /\ i[1] \in Nat
    BY BoundAssumption DEF WorkerTypeOK, TypeOK, Item, Rev
  <2> QED BY <2>1 DEF Ledger, Revisions, Reviewed
<1> QED BY <1>1, LedgerHolds, ReviewedHolds, PTL

-----------------------------------------------------------------------------
(* Evidence.                                                                *)

Verdicts == {"verifying", "achieved"}

\* An item that succeeded has the outcome to show for it.
Evidence ==
    \A i \in Item : item[i] = "succeeded" => \E n \in Token : ckpt[i][n] = "reconciled"

\* A goal under verification has nothing left to do.
AllSucceeded ==
    goal \in Verdicts =>
        /\ Current(item, approved) # {}
        /\ \A i \in Current(item, approved) : item[i] = "succeeded"

\* Only an outcome makes an item succeed, and it is never taken back.
LEMMA EvidenceKept ==
    ASSUME Evidence, NEW i \in Item, Move(i), item'[i] = "succeeded"
    PROVE  \E n \in Token : ckpt'[i][n] = "reconciled"
<1>1. CASE Stays(i)
  BY <1>1 DEF Stays, Evidence
<1>2. CASE Ends(i)
  <2>1. Turns(i, "succeeded", "succeeded", "reconciled")
    BY <1>2 DEF Ends, Turns
  <2> QED BY <2>1 DEF Turns
<1>3. CASE Added(i) \/ Shifts(i) \/ Claimed(i) \/ Prepares(i) \/ Commits(i)
  BY <1>3 DEF Added, Shifts, Claimed, Prepares, Commits, Turns
<1> QED BY <1>1, <1>2, <1>3 DEF Move

\* A refresh enters verification only when every item of the plan succeeded.
LEMMA RefreshedVerdict ==
    ASSUME NEW g, NEW its, NEW rev, Refreshed(g, its, rev) \in Verdicts
    PROVE  \/ /\ Current(its, rev) # {}
              /\ \A i \in Current(its, rev) : its[i] = "succeeded"
           \/ /\ g \in Verdicts
              /\ g = "achieved" \/ \A i \in Current(its, rev) : its[i] # "succeeded"
BY DEF Refreshed, Verdicts

\* The goal's verdict has its evidence.
LEMMA EvidenceHolds == Spec => [](Evidence /\ AllSucceeded)
<1>1. Init => Evidence /\ AllSucceeded
  BY DEF Init, StoreInit, Evidence, AllSucceeded, Verdicts
<1>2. ASSUME WorkerTypeOK, Ledger, Evidence, AllSucceeded, [Next]_vars
      PROVE  Evidence' /\ AllSucceeded'
  <2>0. Course /\ \A i \in Item : Move(i)
    BY <1>2, NextMoves, NextCourse
  <2>1. Evidence'
    BY <1>2, <2>0, EvidenceKept DEF Evidence
  <2>2. ASSUME goal' \in Verdicts
        PROVE  /\ Current(item', approved') # {}
               /\ \A i \in Current(item', approved') : item'[i] = "succeeded"
    <3>1. ASSUME goal \in Verdicts, approved' = approved
          PROVE  /\ \A i \in Current(item, approved) :
                        i \in Current(item', approved') /\ item'[i] = "succeeded"
                 /\ Current(item, approved) # {}
      <4>1. ASSUME NEW i \in Item, item[i] = "succeeded" PROVE item'[i] = "succeeded"
        BY <2>0, <4>1 DEF Move, Stays, Added, Shifts, Claimed, Prepares, Commits, Ends
      <4> QED BY <1>2, <3>1, <4>1 DEF AllSucceeded, Current
    <3>2. ASSUME goal \in Verdicts, approved' = approved, ~ApproveGoal, ~ExtendWorkflow
          PROVE  <2>2!2
      <4>1. ASSUME NEW i \in Item, item[i] = "absent" PROVE item'[i] = "absent"
        BY <2>0, <3>2, <4>1 DEF Move, Stays, Added, Shifts, Claimed, Prepares, Commits, Ends
      <4> QED BY <3>1, <3>2, <4>1 DEF Current
    <3>3. CASE ApproveGoal \/ PlanGoal
      BY <2>2, <3>3 DEF ApproveGoal, PlanGoal, Verdicts
    <3>4. CASE ReviewPlan
      <4>1. UNCHANGED <<goal, approved, item>>
        BY <3>4 DEF ReviewPlan, itemVars
      <4> QED BY <1>2, <2>2, <4>1 DEF AllSucceeded
    <3>5. CASE ~(ApproveGoal \/ PlanGoal \/ ReviewPlan) /\ ~ExtendWorkflow
      <4>1. approved' = approved
        BY <2>0, <3>5 DEF Course
      <4>2. CASE goal \in Verdicts
        BY <3>2, <3>5, <4>1, <4>2
      <4>3. CASE goal \notin Verdicts
        <5>1. goal' = Refreshed(goal, item', approved)
          BY <2>0, <2>2, <3>5, <4>3 DEF Course, Verdicts, RejectGoal, PauseGoal, UnpauseGoal,
             ExpireOverdueGoal, VerifyGoal, CancelGoal, MarkGoalForReplan
        <5> QED BY <2>2, <4>1, <4>3, <5>1, RefreshedVerdict
      <4> QED BY <4>2, <4>3
    <3>6. CASE ExtendWorkflow
      <4>1. /\ goal' = Refreshed(goal, item', approved) /\ approved' = approved
            /\ goal # "achieved"
        BY <3>6 DEF ExtendWorkflow
      <4>2. CASE \A i \in Current(item', approved) : item'[i] # "succeeded"
        <5>1. goal \notin Verdicts
          BY <3>1, <4>1, <4>2
        <5> QED BY <2>2, <4>1, <5>1, RefreshedVerdict
      <4>3. CASE ~\A i \in Current(item', approved) : item'[i] # "succeeded"
        BY <2>2, <4>1, <4>3, RefreshedVerdict
      <4> QED BY <4>2, <4>3
    <3> QED BY <3>3, <3>4, <3>5, <3>6
  <2> QED BY <2>1, <2>2 DEF AllSucceeded
<1> QED BY <1>1, <1>2, LedgerHolds, PTL DEF Spec

\* A goal under verification, or achieved, has every item of its approved workflow
\* succeeded with a reconciled checkpoint (refresh_goal_status_tx, verify_goal), also
\* after extensions, cancellations and replans.
THEOREM VerdictHolds == Spec => []VerdictHasEvidence
<1>1. Evidence /\ AllSucceeded => VerdictHasEvidence
  BY DEF Evidence, AllSucceeded, VerdictHasEvidence, Verdicts, Current
<1> QED BY <1>1, EvidenceHolds, PTL

-----------------------------------------------------------------------------
(* External effects.                                                        *)

\* The claims whose worker is in the handler or past it, or has performed the effect.
Entered(c) == c \in sent \/ \E w \in Worker : pc[w] \in {"executing", "committed"} /\ job[w] = c

\* Somebody answered for the effect: its worker with a failure, or the operator.
Answered(c) == att[c[1]][c[2]] = "failed" \/ c \in retried

\* A claim whose handler was entered is not superseded, nor can its item be claimed,
\* before it is answered for; while its attempt is live its checkpoint says so.
Accounted(c) ==
    /\ c[2] <= fence[c[1]]
    /\ fence[c[1]] > c[2] \/ item[c[1]] \in Waiting => Answered(c)
    /\ att[c[1]][c[2]] \in Live => ckpt[c[1]][c[2]] \in {"prepared", "committed"}

Effects ==
    /\ \A c \in sent : c[1][2] \in ExternalWrite
    /\ \A w \in Worker : pc[w] = "claimed" => job[w] \notin sent
    /\ \A c \in Claim : c[1][2] \in ExternalWrite /\ Entered(c) => Accounted(c)

\* What a step does to the claims: a claim is entered by its own worker only, as its
\* checkpoint is prepared; a worker gets a claim that was not issued before.
EntryStep ==
    /\ retried \subseteq retried'
    /\ \A c \in sent' : c \in sent \/ (c[1][2] \in ExternalWrite /\ Entered(c)
                                       /\ \E w \in Worker : pc[w] = "executing" /\ job[w] = c)
    /\ \A w \in Worker : pc'[w] = "claimed" =>
          \/ pc[w] = "claimed" /\ job'[w] = job[w]
          \/ job'[w] \in Claim /\ job'[w][2] > fence[job'[w][1]]
    /\ \A c \in Claim : Entered(c)' =>
          \/ Entered(c)
          \/ /\ item'[c[1]] = "running" /\ fence'[c[1]] = c[2]
             /\ att'[c[1]][c[2]] \in Live /\ ckpt'[c[1]][c[2]] = "prepared"

\* A worker that moves on without entering a handler.
LEMMA GotoEntry ==
    ASSUME WorkersOK, NEW w \in Worker, NEW p, Goto(w, p), p # "claimed",
           p \in {"executing", "committed"} => pc[w] \in {"executing", "committed"}
    PROVE  EntryStep
<1>1. sent' = sent /\ retried' = retried
  BY DEF Goto, history
<1>2. ASSUME NEW v \in Worker, pc'[v] \in {"executing", "committed"}
      PROVE  pc[v] \in {"executing", "committed"} /\ job'[v] = job[v]
  BY <1>2 DEF Goto, WorkersOK, Busy
<1>3. ASSUME NEW v \in Worker, pc'[v] = "claimed"
      PROVE  pc[v] = "claimed" /\ job'[v] = job[v]
  BY <1>3 DEF Goto, WorkersOK, Busy
<1>4. \A c \in Claim : Entered(c)' => Entered(c)
  BY <1>1, <1>2 DEF Entered
<1> QED BY <1>1, <1>3, <1>4 DEF EntryStep

\* A step beside the workers.
LEMMA AsideEntry ==
    ASSUME UNCHANGED <<pc, job, sent>>, retried \subseteq retried'
    PROVE  EntryStep
<1>1. \A c \in Claim : Entered(c)' => Entered(c)
  BY DEF Entered
<1> QED BY <1>1 DEF EntryStep

\* Every step of a worker.
LEMMA WorkerEntry ==
    ASSUME WorkerTypeOK, NEW w \in Worker, WorkerStep(w) \/ Crash(w)
    PROVE  EntryStep
<1> USE DEF WorkerTypeOK
<1>1. CASE \/ PickGoal(w) \/ ResumeOnPoll(w) \/ ReadReport(w) \/ OutOfSteps(w)
           \/ VerifyOnPoll(w) \/ ResumeAfterVerify(w) \/ RereadReport(w) \/ RequeueOnPoll(w)
           \/ RecoverBeforeClaim(w) \/ ClaimNothing(w) \/ ResumeAndLeave(w)
           \/ ResumeAfterClaim(w) \/ FailDisabledWrite(w) \/ FailMismatchedEffect(w)
           \/ BlockMissingHandler(w) \/ CommitOutcome(w) \/ FinishClaim(w) \/ FailHandler(w)
           \/ SleepHandler(w) \/ DropRefusedClaim(w) \/ Restart(w) \/ Crash(w)
  <2>1. CASE ReadReport(w) \/ RereadReport(w) \/ VerifyOnPoll(w)
    <3>1. \E p \in {"verify", "idle", "requeue", "verified"} : Goto(w, p)
      BY <2>1 DEF ReadReport, RereadReport, VerifyOnPoll
    <3> QED BY <3>1, GotoEntry
  <2>2. CASE CommitOutcome(w)
    BY <2>2, GotoEntry DEF CommitOutcome
  <2>3. CASE \/ PickGoal(w) \/ OutOfSteps(w) \/ ClaimNothing(w) \/ DropRefusedClaim(w)
             \/ Restart(w) \/ Crash(w) \/ ResumeOnPoll(w) \/ ResumeAfterVerify(w)
             \/ RequeueOnPoll(w) \/ RecoverBeforeClaim(w) \/ ResumeAndLeave(w)
             \/ ResumeAfterClaim(w)
    <3>1. \E p \in {"picked", "leaving", "idle", "down", "resumed", "reread", "requeued",
                    "claiming", "stepped"} : Goto(w, p)
      BY <2>3 DEF PickGoal, OutOfSteps, ClaimNothing, DropRefusedClaim, Restart, Crash,
         ResumeOnPoll, ResumeAfterVerify, RequeueOnPoll, RecoverBeforeClaim, ResumeAndLeave,
         ResumeAfterClaim
    <3> QED BY <3>1, GotoEntry
  <2>4. CASE \/ FailDisabledWrite(w) \/ FailMismatchedEffect(w) \/ BlockMissingHandler(w)
             \/ FinishClaim(w) \/ FailHandler(w) \/ SleepHandler(w)
    <3>1. Goto(w, "resuming")
      BY <2>4 DEF FailDisabledWrite, FailMismatchedEffect, BlockMissingHandler, FinishClaim,
         FailHandler, SleepHandler
    <3> QED BY <3>1, GotoEntry
  <2> QED BY <1>1, <2>1, <2>2, <2>3, <2>4
<1>2. CASE ClaimReadyWorkItem(w)
  <2>1. PICK i \in Item : ClaimItem(i) /\ job' = [job EXCEPT ![w] = <<i, fence[i] + 1>>]
    BY <1>2 DEF ClaimReadyWorkItem
  <2>2. pc' = [pc EXCEPT ![w] = "claimed"] /\ sent' = sent /\ retried' = retried
    BY <1>2 DEF ClaimReadyWorkItem, history
  <2>3. <<i, fence[i] + 1>> \in Claim /\ fence[i] + 1 > fence[i]
    BY <2>1, NextToken, BoundAssumption DEF ClaimItem, Claimable, Claim, TypeOK
  <2>4. ASSUME NEW v \in Worker, pc'[v] \in {"executing", "committed"}
        PROVE  pc[v] \in {"executing", "committed"} /\ job'[v] = job[v]
    BY <2>1, <2>2, <2>4 DEF WorkersOK
  <2>5. \A c \in Claim : Entered(c)' => Entered(c)
    BY <2>2, <2>4 DEF Entered
  <2>6. ASSUME NEW v \in Worker, pc'[v] = "claimed"
        PROVE  \/ pc[v] = "claimed" /\ job'[v] = job[v]
               \/ job'[v] \in Claim /\ job'[v][2] > fence[job'[v][1]]
    <3>1. CASE v = w
      BY <2>1, <2>3, <3>1 DEF WorkersOK
    <3>2. CASE v # w
      BY <2>1, <2>2, <2>6, <3>2 DEF WorkersOK
    <3> QED BY <3>1, <3>2
  <2> QED BY <2>2, <2>5, <2>6 DEF EntryStep
<1>3. CASE StartHandler(w)
  <2>1. /\ pc[w] \in Busy /\ pc[w] = "claimed" /\ Goto(w, "executing")
        /\ PrepareCheckpoint(ItemOf(w), TokenOf(w))
    BY <1>3 DEF StartHandler, Busy
  <2>2. ItemOf(w) \in Item /\ TokenOf(w) \in Token /\ job[w] = <<ItemOf(w), TokenOf(w)>>
    BY <2>1, BusyClaim
  <2>3. sent' = sent /\ retried' = retried
    BY <2>1 DEF Goto, history
  <2>4. ASSUME NEW v \in Worker, pc'[v] \in {"executing", "committed", "claimed"}
        PROVE  job'[v] = job[v] /\ (v = w \/ pc'[v] = pc[v]) /\ (v = w => pc'[v] = "executing")
    BY <2>1, <2>4 DEF Goto, WorkersOK, Busy
  <2>5. LET c == job[w] IN
          /\ item'[c[1]] = "running" /\ fence'[c[1]] = c[2]
          /\ att'[c[1]][c[2]] \in Live /\ ckpt'[c[1]][c[2]] = "prepared"
    BY <2>1, <2>2 DEF PrepareCheckpoint, ClaimCurrent, itemVars, TypeOK
  <2>6. ASSUME NEW c \in Claim, Entered(c)' PROVE Entered(c) \/ c = job[w]
    BY <2>3, <2>4, <2>6 DEF Entered
  <2>7. \A v \in Worker : pc'[v] = "claimed" => pc[v] = "claimed" /\ job'[v] = job[v]
    BY <2>4
  <2> QED BY <2>3, <2>5, <2>6, <2>7 DEF EntryStep
<1>4. CASE SendEffect(w)
  <2>1. /\ pc[w] = "executing" /\ job[w][1][2] \in ExternalWrite
        /\ sent' = sent \union {job[w]} /\ UNCHANGED <<pc, job, retried>>
    BY <1>4 DEF SendEffect, StepOf, ItemOf, workerVars
  <2>2. Entered(job[w])
    BY <2>1 DEF Entered
  <2>3. \A c \in Claim : Entered(c)' => Entered(c)
    BY <2>1, <2>2 DEF Entered
  <2> QED BY <2>1, <2>2, <2>3 DEF EntryStep
<1>5. CASE ReserveInHandler(w) \/ NextPhase(w)
  BY <1>5, AsideEntry DEF ReserveInHandler, NextPhase, workerVars, history
<1> QED BY <1>1, <1>2, <1>3, <1>4, <1>5 DEF WorkerStep

\* Every step.
LEMMA NextEntry ==
    ASSUME WorkerTypeOK, [Next]_vars
    PROVE  EntryStep
<1>1. CASE \E w \in Worker : WorkerStep(w) \/ Crash(w)
  BY <1>1, WorkerEntry
<1>2. CASE \/ Approve \/ ResumeAfterApprove \/ Resolve \/ OperatorStep \/ TimeStep
           \/ UNCHANGED vars
  <2>1. UNCHANGED <<pc, job, sent>> /\ retried \subseteq retried'
    BY <1>2 DEF Approve, ResumeAfterApprove, Resolve, OperatorStep, TimeStep, Aside, vars,
       workerVars, history
  <2> QED BY <2>1, AsideEntry
<1> QED BY <1>1, <1>2 DEF Next

\* A claim that is still with its worker has no handler behind it yet.
LEMMA ClaimedNotEntered ==
    ASSUME WorkerTypeOK, Ledger, Effects, NEW w \in Worker, pc[w] = "claimed"
    PROVE  ~Entered(job[w])
<1>1. ASSUME NEW v \in Worker, pc[v] \in {"executing", "committed"}, job[v] = job[w]
      PROVE  FALSE
  BY <1>1 DEF Ledger, ExclusiveClaims, Busy
<1> QED BY <1>1 DEF Effects, Entered

\* A claim that was entered stays accounted for.
LEMMA AccountedKept ==
    ASSUME WorkerTypeOK, Ledger, VoidedIsClosed, Effects, retried \subseteq retried',
           NEW c \in Claim, c[1][2] \in ExternalWrite, Entered(c), Move(c[1])
    PROVE  Accounted(c)'
<1> DEFINE i == c[1]
           n == c[2]
<1>1. /\ i \in Item /\ n \in Token /\ n \in Nat /\ n > 0 /\ c = <<i, n>>
      /\ fence[i] \in Nat /\ Sound(i) /\ Accounted(c)
  BY BoundAssumption DEF Claim, Token, WorkerTypeOK, TypeOK, Ledger, AllSound, Effects
<1>2. Answered(c) => Answered(c)'
  <2>1. att[i][n] = "failed" => att'[i][n] = "failed"
    BY <1>1, MoveAppends DEF RowsKept, Closed
  <2> QED BY <2>1 DEF Answered
<1>3. /\ n <= fence[i]
      /\ fence[i] > n \/ item[i] \in Waiting => Answered(c)
      /\ att[i][n] \in Live => ckpt[i][n] \in {"prepared", "committed"}
  BY <1>1 DEF Accounted
<1>4. SUFFICES /\ n <= fence'[i]
               /\ fence'[i] > n \/ item'[i] \in Waiting => Answered(c)'
               /\ att'[i][n] \in Live => ckpt'[i][n] \in {"prepared", "committed"}
  BY DEF Accounted
<1> HIDE DEF i, n
<1>5. CASE Stays(i) \/ Shifts(i)
  <2>1. fence'[i] = fence[i] /\ (item'[i] \in Waiting => item[i] \in Waiting)
    BY <1>5 DEF Stays, Shifts, SameAttempts, Waiting
  <2>2. att'[i][n] = att[i][n] /\ (att[i][n] \in Live => ckpt'[i][n] = ckpt[i][n])
    BY <1>1, <1>5 DEF Stays, Shifts, SameAttempts
  <2> QED BY <1>2, <1>3, <2>1, <2>2
<1>6. CASE Added(i)
  <2>1. fence[i] = 0
    BY <1>1, <1>6 DEF Added, Ledger, Revisions
  <2> QED BY <1>1, <1>3, <2>1
<1>7. CASE Claimed(i)
  <2>1. /\ item[i] \in Waiting /\ fence'[i] = fence[i] + 1 /\ n # fence[i] + 1
        /\ item'[i] \notin Waiting
    BY <1>1, <1>3, <1>7 DEF Claimed, Waiting
  <2>2. att'[i][n] = att[i][n] /\ ckpt'[i][n] = ckpt[i][n]
    BY <1>1, <1>7, <2>1 DEF Claimed
  <2> QED BY <1>1, <1>2, <1>3, <2>1, <2>2
<1>8. CASE Prepares(i) \/ Commits(i)
  <2>1. item'[i] \notin Waiting /\ fence'[i] = fence[i]
    BY <1>8 DEF Prepares, Commits, Turns, Waiting
  <2>2. att'[i][n] \in Live => ckpt'[i][n] \in {"prepared", "committed"}
    BY <1>1, <1>3, <1>8 DEF Prepares, Commits, Turns
  <2> QED BY <1>2, <1>3, <2>1, <2>2
<1>9. CASE Ends(i)
  <2>1. fence'[i] = fence[i]
    BY <1>9 DEF Ends, Turns
  <2>2. CASE n # fence[i]
    <3>1. fence[i] > n
      BY <1>1, <1>3, <2>2
    <3>2. att'[i][n] = att[i][n] /\ ckpt'[i][n] = ckpt[i][n]
      BY <1>1, <1>9, <2>2 DEF Ends, Turns
    <3> QED BY <1>2, <1>3, <2>1, <3>1, <3>2
  <2>3. CASE n = fence[i]
    <3>1. ckpt[i][n] \in {"prepared", "committed"}
      BY <1>1, <1>3, <1>9, <2>3 DEF Ends, Sound
    <3>2. i[2] \notin Phased
      BY WorkerAssumption DEF i
    <3>3. ~\E w \in Worker : pc[w] = "claimed" /\ job[w] = <<i, n>>
      BY <1>1, ClaimedNotEntered
    <3>4. i[2] \in ExternalWrite
      BY DEF i
    <3>5. PICK to \in ItemStatus, a \in AttemptStatus, ph \in CheckpointPhase :
               /\ Turns(i, to, a, ph)
               /\ a \notin Live
               /\ to \in Waiting => a = "failed" \/ <<i, n>> \in retried'
      BY <1>9, <2>3, <3>1, <3>2, <3>3, <3>4 DEF Ends, Waiting, Live
    <3>6. item'[i] = to /\ att'[i][n] = a
      BY <1>1, <2>3, <3>5 DEF Turns
    <3>7. item'[i] \in Waiting => Answered(c)'
      BY <1>1, <3>5, <3>6 DEF Answered, i, n
    <3> QED BY <1>1, <2>1, <2>3, <3>5, <3>6, <3>7
  <2> QED BY <2>2, <2>3
<1> QED BY <1>5, <1>6, <1>7, <1>8, <1>9 DEF Move, i

\* Effects are accounted for in every reachable state.
LEMMA EffectsHold == Spec => []Effects
<1>1. Init => Effects
  BY DEF Init, Effects, Entered
<1>2. ASSUME WorkerTypeOK, Ledger, VoidedIsClosed, Effects, [Next]_vars PROVE Effects'
  <2>0. EntryStep /\ sent \subseteq Claim /\ sent' \subseteq Claim
    <3>1. WorkerTypeOK'
      BY <1>2, WorkerStepType, OthersType DEF Next, vars, storeVars, goalVars, itemVars,
         workerVars, history, WorkerTypeOK, TypeOK, WorkersOK
    <3> QED BY <1>2, <3>1, NextEntry DEF WorkerTypeOK, WorkersOK
  <2>1. \A c \in sent' : c[1][2] \in ExternalWrite
    BY <1>2, <2>0 DEF EntryStep, Effects
  <2>2. ASSUME NEW w \in Worker, pc'[w] = "claimed", job'[w] \in sent' PROVE FALSE
    <3>1. job'[w] \in Claim /\ job'[w][1][2] \in ExternalWrite
      BY <2>0, <2>1, <2>2
    <3>2. Entered(job'[w])
      BY <2>0, <2>2 DEF EntryStep, Entered
    <3>3. CASE pc[w] = "claimed" /\ job'[w] = job[w]
      BY <1>2, <3>2, <3>3, ClaimedNotEntered
    <3>4. CASE job'[w][2] > fence[job'[w][1]]
      <4>1. Accounted(job'[w])
        BY <1>2, <3>1, <3>2 DEF Effects
      <4>2. job'[w][2] \in Nat /\ fence[job'[w][1]] \in Nat
        BY <1>2, <3>1, BoundAssumption DEF Claim, Token, WorkerTypeOK, TypeOK
      <4> QED BY <3>4, <4>1, <4>2 DEF Accounted
    <3> QED BY <2>0, <2>2, <3>3, <3>4 DEF EntryStep
  <2>3. ASSUME NEW c \in Claim, c[1][2] \in ExternalWrite, Entered(c)' PROVE Accounted(c)'
    <3>1. CASE Entered(c)
      <4>1. c[1] \in Item /\ retried \subseteq retried'
        BY <2>0 DEF Claim, EntryStep
      <4> QED BY <1>2, <2>3, <3>1, <4>1, NextMoves, AccountedKept
    <3>2. CASE /\ item'[c[1]] = "running" /\ fence'[c[1]] = c[2]
               /\ att'[c[1]][c[2]] \in Live /\ ckpt'[c[1]][c[2]] = "prepared"
      <4>1. c[2] \in Nat
        BY DEF Claim, Token
      <4> QED BY <3>2, <4>1 DEF Accounted, Waiting
    <3> QED BY <2>0, <2>3, <3>1, <3>2 DEF EntryStep
  <2> QED BY <2>1, <2>2, <2>3 DEF Effects
<1> QED BY <1>1, <1>2, LedgerHolds, VoidedHolds, PTL DEF Spec

\* A crash, a lost lease or a resume never repeats an external effect on its own: a
\* claim that performed it is superseded only after its worker reported a failure or
\* the operator ruled that the effect did not happen (recover_goal_state parks it).
THEOREM ResendHolds == Spec => []NoUnaskedResend
<1>1. WorkerTypeOK /\ Effects => NoUnaskedResend
  <2> SUFFICES ASSUME WorkerTypeOK, Effects, NEW c \in sent, fence[c[1]] > c[2]
               PROVE  att[c[1]][c[2]] = "failed" \/ c \in retried
    BY DEF NoUnaskedResend
  <2>1. c \in Claim /\ c[1][2] \in ExternalWrite /\ Entered(c)
    BY DEF WorkerTypeOK, WorkersOK, Effects, Entered
  <2>2. Accounted(c)
    BY <2>1 DEF Effects
  <2> QED BY <2>2 DEF Accounted, Answered
<1> QED BY <1>1, LedgerHolds, EffectsHold, PTL

-----------------------------------------------------------------------------
(* Phases.                                                                  *)

\* Phases that were committed stay committed: failures, deferrals, confirmations,
\* replans and crashes keep an item's progress, and only its success clears it
\* (record_phase_progress, continue_attempt, finish_attempt).
THEOREM ProgressHolds == Spec => ProgressSurvives
<1>1. ASSUME WorkerTypeOK, [Next]_vars, NEW i \in Item
      PROVE  continues'[i] < continues[i] => item'[i] = "succeeded"
  <2>0. continues[i] \in Nat /\ ~(continues[i] < continues[i])
    BY <1>1, BoundAssumption DEF WorkerTypeOK, TypeOK
  <2>1. CASE continues' = continues
    BY <2>0, <2>1
  <2>2. ASSUME RecoverGoalState PROVE continues'[i] < continues[i] => item'[i] = "succeeded"
    <3>1. continues'[i] # continues[i] => RecoveredItem[i] = "succeeded"
      BY <2>2 DEF RecoverGoalState, RecoveredItem
    <3>2. item' = Unlocked(RecoveredItem, deps)
      BY <2>2 DEF RecoverGoalState
    <3> QED BY <2>0, <3>1, <3>2, UnlockedIdle
  <2>3. ASSUME NEW w \in Worker, FinishClaim(w)
        PROVE  continues'[i] < continues[i] => item'[i] = "succeeded"
    <3>1. FinishAttempt(ItemOf(w), TokenOf(w))
      BY <2>3 DEF FinishClaim
    <3> DEFINE its == [item EXCEPT ![ItemOf(w)] = "succeeded"]
    <3>2. item' = Unlocked(its, deps) /\ continues' = [continues EXCEPT ![ItemOf(w)] = 0]
      BY <3>1 DEF FinishAttempt
    <3>3. continues'[i] # continues[i] => its[i] = "succeeded"
      BY <1>1, <3>2 DEF WorkerTypeOK, TypeOK
    <3> HIDE DEF its
    <3> QED BY <2>0, <3>2, <3>3, UnlockedIdle
  <2>4. ASSUME NEW w \in Worker, SleepHandler(w) \/ NextPhase(w)
        PROVE  continues'[i] < continues[i] => item'[i] = "succeeded"
    <3>1. \/ continues' = continues
          \/ continues' = [continues EXCEPT ![ItemOf(w)] = @ + 1]
      BY <2>4 DEF SleepHandler, DeferAttempt, ContinueAttempt, NextPhase, RecordPhaseProgress
    <3> QED BY <1>1, <2>0, <3>1 DEF WorkerTypeOK, TypeOK
  <2>5. ASSUME NEW w \in Worker, WorkerStep(w) \/ Crash(w)
        PROVE  continues'[i] < continues[i] => item'[i] = "succeeded"
    <3>1. CASE \/ ResumeOnPoll(w) \/ ResumeAfterVerify(w) \/ RecoverBeforeClaim(w)
               \/ ResumeAndLeave(w) \/ ResumeAfterClaim(w)
      BY <2>2, <3>1 DEF ResumeOnPoll, ResumeAfterVerify, RecoverBeforeClaim, ResumeAndLeave,
         ResumeAfterClaim
    <3>2. CASE FinishClaim(w) \/ SleepHandler(w) \/ NextPhase(w)
      BY <2>3, <2>4, <3>2
    <3>3. CASE \/ PickGoal(w) \/ ReadReport(w) \/ OutOfSteps(w) \/ RereadReport(w)
               \/ ClaimNothing(w) \/ DropRefusedClaim(w) \/ Crash(w) \/ Restart(w)
               \/ VerifyOnPoll(w) \/ SendEffect(w) \/ ReserveInHandler(w)
      BY <2>1, <3>3 DEF PickGoal, ReadReport, OutOfSteps, RereadReport, ClaimNothing,
         DropRefusedClaim, Crash, Restart, VerifyOnPoll, VerifyGoal, SendEffect,
         ReserveInHandler, ReserveProviderCall, storeVars, itemVars
    <3>4. CASE \/ RequeueOnPoll(w) \/ ClaimReadyWorkItem(w) \/ FailDisabledWrite(w)
               \/ FailMismatchedEffect(w) \/ FailHandler(w) \/ BlockMissingHandler(w)
               \/ StartHandler(w) \/ CommitOutcome(w)
      BY <2>1, <3>4 DEF RequeueOnPoll, RequeueBlockedItems, ClaimReadyWorkItem, ClaimItem,
         FailDisabledWrite, FailMismatchedEffect, FailHandler, FailAttempt,
         BlockMissingHandler, BlockWorkItem, StartHandler, PrepareCheckpoint, CommitOutcome,
         CommitCheckpoint, itemVars
    <3> QED BY <2>5, <3>1, <3>2, <3>3, <3>4 DEF WorkerStep
  <2>6. CASE Approve \/ Resolve
    BY <2>1, <2>6 DEF Approve, ApproveGoal, Resolve, ResolveWaitingConfirmation
  <2>7. CASE ResumeAfterApprove
    BY <2>2, <2>7 DEF ResumeAfterApprove
  <2>8. CASE OperatorStep
    BY <2>1, <2>2, <2>8 DEF OperatorStep, Aside, PlanGoal, ReviewPlan, RejectGoal, CancelGoal,
       MarkGoalForReplan, CloseWork, PauseGoal, UnpauseGoal, RecordManualVerification,
       VerifyGoal, ExtendWorkflow, itemVars
  <2>9. CASE TimeStep
    BY <2>1, <2>9 DEF TimeStep, Aside, LeaseExpires, WakeTimeReached, DeadlinePasses,
       ExpireOverdueGoal, itemVars
  <2>10. CASE UNCHANGED vars
    BY <2>1, <2>10 DEF vars, storeVars, itemVars
  <2> QED BY <1>1, <2>5, <2>6, <2>7, <2>8, <2>9, <2>10 DEF Next
<1>2. WorkerTypeOK /\ [Next]_vars
          => [\A i \in Item : continues'[i] < continues[i] => item'[i] = "succeeded"]_vars
  BY <1>1
<1> QED BY <1>2, LedgerHolds, PTL DEF Spec, ProgressSurvives
=============================================================================
