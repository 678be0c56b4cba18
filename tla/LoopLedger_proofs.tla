------------------------- MODULE LoopLedger_proofs -------------------------
(***************************************************************************)
(* The inductive invariant of the loop engine's ledger, and what follows    *)
(* from it, for every workflow, every set of workers and every bound.       *)
(*                                                                         *)
(* The ledger half of LedgerInvariant speaks of one item at a time: Sound   *)
(* states it of item i, and the first lemmas show that every transaction    *)
(* keeps it.  The rest, Revisions and ExclusiveClaims, ties items to plans  *)
(* and to workers; it is what the transactions rely on.                     *)
(***************************************************************************)
EXTENDS LoopWorker_proofs

Idle == {"absent", "pending", "ready", "blocked", "blocked_missing_handler"}
Done == {"succeeded", "failed", "canceled"}
Outcome == {"committed", "reconciled"}

Sound(i) ==
    /\ \A n \in Token : n > fence[i] => att[i][n] = "none" /\ ckpt[i][n] = "none"
    /\ \A n \in Token : att[i][n] \in Live => item[i] = "running" /\ fence[i] = n
    /\ item[i] = "running" => fence[i] \in Token /\ att[i][fence[i]] \in Live
    /\ item[i] = "waiting_confirmation" =>
           /\ fence[i] \in Token
           /\ att[i][fence[i]] = "waiting_confirmation"
           /\ ckpt[i][fence[i]] = "prepared"
           /\ i[2] \in ExternalWrite \union ReplayUnsafe
    /\ \A n \in Token : att[i][n] = "waiting_confirmation" =>
           item[i] = "waiting_confirmation" /\ fence[i] = n
    /\ \A n \in Token : ckpt[i][n] \in Outcome =>
           /\ fence[i] = n
           /\ item[i] \in Done \union {"running"}
           /\ item[i] = "running" => att[i][n] = "committing"
    /\ \A n \in Token : att[i][n] = "committing" => ckpt[i][n] = "committed"

AllSound == \A i \in Item : Sound(i)

\* The ledger invariant, gathered item by item.
LEMMA SoundLedger ==
    LedgerInvariant <=> AllSound /\ Revisions /\ ExclusiveClaims
<1>1. AllSound <=> /\ FreshTokens
                   /\ OneLiveAttempt
                   /\ ParkedIsResolvable
                   /\ ParkedAttempts
                   /\ CommittedIsNeverReplayed
                   /\ CommittingIsCommitted
  <2>1. ASSUME AllSound
        PROVE  /\ FreshTokens
               /\ OneLiveAttempt
               /\ ParkedIsResolvable
               /\ ParkedAttempts
               /\ CommittedIsNeverReplayed
               /\ CommittingIsCommitted
    BY <2>1 DEF AllSound, Sound, Done, Outcome, FreshTokens, OneLiveAttempt,
       ParkedIsResolvable, ParkedAttempts, CommittedIsNeverReplayed, CommittingIsCommitted
  <2>2. ASSUME FreshTokens, OneLiveAttempt, ParkedIsResolvable, ParkedAttempts,
               CommittedIsNeverReplayed, CommittingIsCommitted, NEW i \in Item
        PROVE  Sound(i)
    BY <2>2 DEF Sound, Done, Outcome, FreshTokens, OneLiveAttempt,
       ParkedIsResolvable, ParkedAttempts, CommittedIsNeverReplayed, CommittingIsCommitted
  <2> QED BY <2>1, <2>2 DEF AllSound
<1> QED BY <1>1 DEF LedgerInvariant

-----------------------------------------------------------------------------
(* Every transaction keeps every item sound.                                *)

\* An item nobody has claims on may change its status among the idle ones.
LEMMA IdleSound ==
    ASSUME NEW i \in Item, Sound(i),
           fence'[i] = fence[i], att'[i] = att[i], ckpt'[i] = ckpt[i],
           item'[i] = item[i] \/ (item[i] \in Idle /\ item'[i] \in Idle)
    PROVE  Sound(i)'
BY DEF Sound, Idle, Done, Live

\* Unlocking turns pending items ready and touches no other.
LEMMA UnlockedIdle ==
    ASSUME NEW its, NEW ds, NEW i \in Item
    PROVE  Unlocked(its, ds)[i] = its[i] \/ (its[i] = "pending" /\ Unlocked(its, ds)[i] = "ready")
BY DEF Unlocked

\* recover_goal_state keeps every item sound, whichever of its branches settles it.
LEMMA RecoverSound ==
    ASSUME TypeOK, AllSound, RecoverGoalState, NEW i \in Item
    PROVE  Sound(i)'
<1> DEFINE it == RecoveredItem[i]
<1>1. /\ Sound(i)
      /\ fence' = fence
      /\ item'[i] = it \/ (it = "pending" /\ item'[i] = "ready")
  BY UnlockedIdle DEF RecoverGoalState, AllSound
<1>2. \A n \in Token : att'[i][n] = IF att[i][n] \notin Live THEN att[i][n]
        ELSE IF ckpt[i][n] = "committed" THEN "succeeded"
        ELSE IF Parked(i) THEN "waiting_confirmation"
        ELSE IF Exhausted(i) THEN "failed"
        ELSE IF Retried(i) THEN "abandoned"
        ELSE att[i][n]
  BY DEF RecoverGoalState, RecoveredAttempt
<1>3. \A n \in Token : ckpt'[i][n] = IF ckpt[i][n] = "committed" THEN "reconciled"
        ELSE IF ckpt[i][n] = "prepared" /\ att[i][n] \in Live
                  /\ (Exhausted(i) \/ Retried(i)) THEN "voided"
        ELSE ckpt[i][n]
  BY DEF RecoverGoalState, RecoveredCheckpoint
<1>4. it = IF item[i] = "running" /\ HasCommitted(i) THEN "succeeded"
        ELSE IF Parked(i) THEN "waiting_confirmation"
        ELSE IF Exhausted(i) THEN "failed"
        ELSE IF Retried(i) THEN "ready"
        ELSE item[i]
  BY DEF RecoveredItem
<1> HIDE DEF it
<1>5. CASE item[i] # "running"
  BY <1>1, <1>2, <1>3, <1>4, <1>5 DEF Sound, Stale, Parked, Exhausted, Retried, Live,
     Done, Outcome
<1>6. CASE item[i] = "running" /\ HasCommitted(i)
  BY <1>1, <1>2, <1>3, <1>4, <1>6 DEF Sound, HasCommitted, Live, Done, Outcome
<1>7. CASE Parked(i)
  BY <1>1, <1>2, <1>3, <1>4, <1>7 DEF Sound, Parked, Exhausted, Retried, Stale, Ambiguous,
     HasCommitted, Live, Done, Outcome
<1>8. CASE Exhausted(i)
  BY <1>1, <1>2, <1>3, <1>4, <1>8 DEF Sound, Parked, Exhausted, Stale, HasCommitted, Live,
     Done, Outcome
<1>9. CASE Retried(i)
  BY <1>1, <1>2, <1>3, <1>4, <1>9 DEF Sound, Parked, Exhausted, Retried, Stale,
     HasCommitted, Live, Done, Outcome
<1>10. CASE item[i] = "running" /\ ~HasCommitted(i) /\ ~Parked(i) /\ ~Exhausted(i) /\ ~Retried(i)
  BY <1>1, <1>2, <1>3, <1>4, <1>10 DEF Sound, HasCommitted, Live, Done, Outcome
<1> QED BY <1>5, <1>6, <1>7, <1>8, <1>9, <1>10

\* Canceling and replanning keep every item sound.
LEMMA CloseSound ==
    ASSUME TypeOK, AllSound, NEW kept, NEW to \in Done, CloseWork(kept, to),
           kept \subseteq Done, NEW i \in Item
    PROVE  Sound(i)'
<1>1. Sound(i)
  BY DEF AllSound
<1>2. \A n \in Token : att'[i][n] = IF att[i][n] \in Open THEN "abandoned" ELSE att[i][n]
  BY DEF CloseWork
<1>3. /\ item'[i] = IF item[i] \notin kept \union {"absent"} THEN to ELSE item[i]
      /\ fence' = fence /\ ckpt' = ckpt
  BY DEF CloseWork
<1> QED BY <1>1, <1>2, <1>3 DEF Sound, Live, Open, Done, Outcome

\* A claim opens the one live attempt of its item under a fresh token.
LEMMA ClaimSound ==
    ASSUME TypeOK, AllSound, NEW i \in Item, ClaimItem(i), NEW j \in Item
    PROVE  Sound(j)'
<1>1. Sound(j) /\ Sound(i)
  BY DEF AllSound
<1>2. CASE j # i
  <2>1. item'[j] = item[j] /\ fence'[j] = fence[j] /\ att'[j] = att[j] /\ ckpt' = ckpt
    BY <1>2 DEF ClaimItem, TypeOK
  <2> QED BY <1>1, <2>1, IdleSound
<1>3. CASE j = i
  <2> DEFINE f == fence[i] + 1
  <2>1. f \in Token /\ fence[i] \in Nat
    BY NextToken, BoundAssumption DEF ClaimItem, Claimable, TypeOK
  <2>2. /\ item'[i] = "running" /\ fence'[i] = f /\ ckpt' = ckpt
        /\ \A n \in Token : att'[i][n] = IF n = f THEN "running" ELSE att[i][n]
    BY <2>1 DEF ClaimItem, TypeOK
  <2>3. item[i] = "ready"
    BY DEF ClaimItem, Claimable
  <2>4. \A n \in Token : n \in Nat
    BY DEF Token
  <2>5. f > fence[i] /\ \A n \in Token : n > f => n > fence[i]
    BY <2>1, <2>4
  <2> HIDE DEF f
  <2>6. \A n \in Token : att[i][n] \notin Live \union {"waiting_confirmation"}
                         /\ ckpt[i][n] \notin Outcome
    BY <1>1, <2>3 DEF Sound, Done, Live
  <2>7. \A n \in Token : n > f => n # f
    BY <2>4
  <2> QED BY <1>1, <1>3, <2>1, <2>2, <2>5, <2>6, <2>7 DEF Sound, Live, Outcome
<1> QED BY <1>2, <1>3

\* Preparing marks the checkpoint of an attempt that has not committed.
LEMMA PrepareSound ==
    ASSUME TypeOK, AllSound, NEW i \in Item, NEW n \in Token, PrepareCheckpoint(i, n),
           att[i][n] # "committing", NEW j \in Item
    PROVE  Sound(j)'
<1>1. Sound(j)
  BY DEF AllSound
<1>2. item' = item /\ fence' = fence /\ att' = att
  BY DEF PrepareCheckpoint, itemVars
<1>3. CASE j # i
  BY <1>1, <1>2, <1>3, IdleSound DEF PrepareCheckpoint, TypeOK
<1>4. CASE j = i
  <2>1. \A m \in Token : ckpt'[i][m] = IF m = n THEN "prepared" ELSE ckpt[i][m]
    BY DEF PrepareCheckpoint, TypeOK
  <2>2. fence[i] = n /\ item[i] = "running"
    BY DEF PrepareCheckpoint, ClaimCurrent
  <2>3. ~(n > n)
    BY DEF Token
  <2> QED BY <1>1, <1>2, <1>4, <2>1, <2>2, <2>3 DEF Sound, Live, Outcome
<1> QED BY <1>3, <1>4

\* Committing moves the live attempt and its checkpoint together.
LEMMA CommitSound ==
    ASSUME TypeOK, AllSound, NEW i \in Item, NEW n \in Token, CommitCheckpoint(i, n),
           NEW j \in Item
    PROVE  Sound(j)'
<1>1. Sound(j)
  BY DEF AllSound
<1>2. item' = item /\ fence' = fence
  BY DEF CommitCheckpoint, itemVars
<1>3. CASE j # i
  BY <1>1, <1>2, <1>3, IdleSound DEF CommitCheckpoint, TypeOK
<1>4. CASE j = i
  <2>1. /\ \A m \in Token : ckpt'[i][m] = IF m = n THEN "committed" ELSE ckpt[i][m]
        /\ \A m \in Token : att'[i][m] = IF m = n THEN "committing" ELSE att[i][m]
    BY DEF CommitCheckpoint, TypeOK
  <2>2. fence[i] = n /\ item[i] = "running"
    BY DEF CommitCheckpoint, ClaimCurrent
  <2>3. ~(n > n)
    BY DEF Token
  <2> QED BY <1>1, <1>2, <1>4, <2>1, <2>2, <2>3 DEF Sound, Live, Outcome
<1> QED BY <1>3, <1>4

\* Finishing closes the item with its committed outcome.
LEMMA FinishSound ==
    ASSUME TypeOK, AllSound, NEW i \in Item, NEW n \in Token, FinishAttempt(i, n),
           NEW j \in Item
    PROVE  Sound(j)'
<1> DEFINE its == [item EXCEPT ![i] = "succeeded"]
<1>1. /\ Sound(j)
      /\ fence' = fence
      /\ item'[j] = its[j] \/ (its[j] = "pending" /\ item'[j] = "ready")
  <2>1. item' = Unlocked(its, deps) /\ fence' = fence
    BY DEF FinishAttempt
  <2> HIDE DEF its
  <2> QED BY <2>1, UnlockedIdle DEF AllSound
<1>2. CASE j # i
  <2>1. its[j] = item[j] /\ att'[j] = att[j] /\ ckpt'[j] = ckpt[j]
    BY <1>2 DEF FinishAttempt, TypeOK
  <2> QED BY <1>1, <2>1, IdleSound DEF Idle
<1>3. CASE j = i
  <2>1. /\ \A m \in Token : ckpt'[i][m] = IF m = n THEN "reconciled" ELSE ckpt[i][m]
        /\ \A m \in Token : att'[i][m] = IF m = n THEN "succeeded" ELSE att[i][m]
    BY DEF FinishAttempt, TypeOK
  <2>2. fence[i] = n /\ item[i] = "running" /\ item'[i] = "succeeded"
    BY <1>1, <1>3 DEF FinishAttempt, ClaimCurrent, TypeOK
  <2>3. ~(n > n)
    BY DEF Token
  <2> QED BY <1>1, <1>3, <2>1, <2>2, <2>3 DEF Sound, Live, Outcome, Done
<1> QED BY <1>2, <1>3

\* A failure closes an attempt that committed nothing.
LEMMA FailSound ==
    ASSUME TypeOK, AllSound, NEW i \in Item, NEW n \in Token, NEW retryable \in BOOLEAN,
           FailAttempt(i, n, retryable), att[i][n] # "committing", NEW j \in Item
    PROVE  Sound(j)'
<1>1. Sound(j)
  BY DEF AllSound
<1>2. fence' = fence /\ ckpt' = ckpt
  BY DEF FailAttempt
<1>3. CASE j # i
  <2>1. item'[j] = item[j] \/ (item[j] \in Idle /\ item'[j] \in Idle)
    BY <1>3 DEF FailAttempt, Idle
  <2> QED BY <1>1, <1>2, <1>3, <2>1, IdleSound DEF FailAttempt, TypeOK
<1>4. CASE j = i
  <2>1. \A m \in Token : att'[i][m] = IF m = n THEN "failed" ELSE att[i][m]
    BY DEF FailAttempt, TypeOK
  <2>2. fence[i] = n /\ item[i] = "running" /\ item'[i] \in {"ready", "failed"}
    BY DEF FailAttempt, ClaimCurrent
  <2>3. ~(n > n)
    BY DEF Token
  <2> QED BY <1>1, <1>2, <1>4, <2>1, <2>2, <2>3 DEF Sound, Live, Outcome, Done
<1> QED BY <1>3, <1>4

\* Blocking, deferring and continuing give back an attempt that committed nothing.
LEMMA VoidSound ==
    ASSUME TypeOK, AllSound, NEW i \in Item, NEW n \in Token, NEW to \in Idle, NEW isDue,
           VoidAttempt(i, n, to, isDue), att[i][n] # "committing", NEW j \in Item
    PROVE  Sound(j)'
<1>1. Sound(j)
  BY DEF AllSound
<1>2. fence' = fence
  BY DEF VoidAttempt
<1>3. CASE j # i
  BY <1>1, <1>2, <1>3, IdleSound DEF VoidAttempt, TypeOK
<1>4. CASE j = i
  <2>1. /\ \A m \in Token : att'[i][m] = IF m = n THEN "void" ELSE att[i][m]
        /\ \A m \in Token : ckpt'[i][m] = IF m = n /\ ckpt[i][n] = "prepared" THEN "voided"
                                          ELSE ckpt[i][m]
    BY DEF VoidAttempt, TypeOK
  <2>2. fence[i] = n /\ item[i] = "running" /\ item'[i] = to
    BY DEF VoidAttempt, ClaimCurrent, TypeOK
  <2>3. ~(n > n)
    BY DEF Token
  <2> QED BY <1>1, <1>2, <1>4, <2>1, <2>2, <2>3 DEF Sound, Live, Outcome, Idle
<1> QED BY <1>3, <1>4

\* Requeueing moves items nobody works on.
LEMMA RequeueSound ==
    ASSUME TypeOK, AllSound, NEW known, RequeueBlockedItems(known), NEW j \in Item
    PROVE  Sound(j)'
<1>1. item'[j] = item[j] \/ (item[j] \in Idle /\ item'[j] \in Idle)
  BY DEF RequeueBlockedItems, Idle
<1> QED BY <1>1, IdleSound DEF RequeueBlockedItems, AllSound

\* The operator's verdict closes the parked attempt with its item.
LEMMA ResolveSound ==
    ASSUME TypeOK, AllSound, NEW i \in Item, NEW n \in Token,
           NEW verdict \in {"confirmed", "retry", "abandoned"},
           ResolveWaitingConfirmation(i, n, verdict), NEW j \in Item
    PROVE  Sound(j)'
<1>1. PICK after \in {"succeeded", "ready", "failed"},
           closing \in {"succeeded", "abandoned", "failed"},
           phase \in {"reconciled", "voided"} :
           /\ item' = Unlocked([item EXCEPT ![i] = after], deps)
           /\ att' = [att EXCEPT ![i][n] = closing]
           /\ ckpt' = [ckpt EXCEPT ![i][n] = phase]
           /\ phase = "reconciled" => after = "succeeded"
  <2>1. CASE verdict = "confirmed"
    BY <2>1 DEF ResolveWaitingConfirmation
  <2>2. CASE verdict = "retry"
    BY <2>2 DEF ResolveWaitingConfirmation
  <2>3. CASE verdict = "abandoned"
    BY <2>3 DEF ResolveWaitingConfirmation
  <2> QED BY <2>1, <2>2, <2>3
<1> DEFINE its == [item EXCEPT ![i] = after]
<1>2. /\ Sound(j)
      /\ fence' = fence
      /\ item'[j] = its[j] \/ (its[j] = "pending" /\ item'[j] = "ready")
  <2>1. item' = Unlocked(its, deps) /\ fence' = fence
    BY <1>1 DEF ResolveWaitingConfirmation
  <2> HIDE DEF its
  <2> QED BY <2>1, UnlockedIdle DEF AllSound
<1>3. CASE j # i
  <2>1. its[j] = item[j] /\ att'[j] = att[j] /\ ckpt'[j] = ckpt[j]
    BY <1>1, <1>3 DEF TypeOK
  <2> HIDE DEF its
  <2> QED BY <1>2, <2>1, IdleSound DEF Idle
<1>4. CASE j = i
  <2>1. /\ \A m \in Token : ckpt'[i][m] = IF m = n THEN phase ELSE ckpt[i][m]
        /\ \A m \in Token : att'[i][m] = IF m = n THEN closing ELSE att[i][m]
    BY <1>1 DEF TypeOK
  <2>2. /\ item[i] = "waiting_confirmation" /\ att[i][n] = "waiting_confirmation"
        /\ item'[i] = after
    BY <1>2, <1>4 DEF ResolveWaitingConfirmation, TypeOK
  <2>3. ~(n > n)
    BY DEF Token
  <2>4. /\ fence[i] = n
        /\ \A m \in Token : att[i][m] \notin Live /\ ckpt[i][m] \notin Outcome
        /\ \A m \in Token : att[i][m] = "waiting_confirmation" => m = n
    BY <1>2, <1>4, <2>2 DEF Sound, Live, Done
  <2>5. closing \notin Live \union {"waiting_confirmation"} /\ closing # "none"
    BY DEF Live
  <2> HIDE DEF its
  <2>6. /\ \A m \in Token : m > fence'[i] => att'[i][m] = "none" /\ ckpt'[i][m] = "none"
        /\ \A m \in Token : att'[i][m] \notin Live \union {"waiting_confirmation"}
        /\ \A m \in Token : ckpt'[i][m] \in Outcome => m = n /\ after = "succeeded"
    BY <1>1, <1>2, <1>4, <2>1, <2>3, <2>4, <2>5 DEF Sound, Outcome
  <2>7. item'[i] \notin {"running", "waiting_confirmation"} /\ fence'[i] = n
    BY <1>2, <2>2, <2>4
  <2> QED BY <1>4, <2>2, <2>6, <2>7 DEF Sound, Live, Outcome, Done
<1> QED BY <1>3, <1>4

\* A plan's items are new when it is approved, and so is the item of an extension.
LEMMA ApproveSound ==
    ASSUME TypeOK, AllSound, Revisions, ApproveGoal, NEW j \in Item
    PROVE  Sound(j)'
<1>1. Sound(j) /\ fence' = fence /\ att' = att /\ ckpt' = ckpt
  BY DEF AllSound, ApproveGoal
<1>2. item'[j] # item[j] => j[1] = planned /\ item'[j] \in {"pending", "ready"}
  BY DEF ApproveGoal
<1>3. j[1] = planned => item[j] = "absent"
  BY BoundAssumption DEF Revisions, ApproveGoal, TypeOK, Item, Rev
<1> QED BY <1>1, <1>2, <1>3, IdleSound DEF Idle

\* The item an extension adds was absent and belongs to the approved plan.
LEMMA ExtensionIsNew ==
    ASSUME TypeOK, Revisions, ExtendWorkflow, NEW j \in Item, item'[j] # item[j]
    PROVE  /\ j[1] = planned /\ approved = planned
           /\ item[j] = "absent" /\ item'[j] \in {"ready", "pending"}
<1>1. PICK s \in Dynamic, to \in {"ready", "pending"}, ds \in SUBSET Item :
           /\ goal \in {"approved", "active", "verifying"}
           /\ s \notin {i[2] : i \in {k \in Item : item[k] \notin {"absent", "canceled"}}}
           /\ item' = [item EXCEPT ![<<planned, s>>] = to]
  BY Extension
<1>2. j = <<planned, s>> /\ item'[j] = to
  BY <1>1 DEF TypeOK
<1>3. item[j] \in {"absent", "canceled"}
  BY <1>1, <1>2
<1>4. planned \in Nat /\ j[1] = planned
  BY <1>2, BoundAssumption DEF TypeOK
<1>5. item[j] # "canceled"
  BY <1>1, <1>4 DEF Revisions
<1> QED BY <1>1, <1>2, <1>3, <1>4, <1>5 DEF Revisions

\* An extension adds an item without claims.
LEMMA ExtendSound ==
    ASSUME TypeOK, AllSound, Revisions, ExtendWorkflow, NEW j \in Item
    PROVE  Sound(j)'
<1>1. Sound(j) /\ fence' = fence /\ att' = att /\ ckpt' = ckpt
  BY DEF AllSound, ExtendWorkflow
<1> QED BY <1>1, ExtensionIsNew, IdleSound DEF Idle

\* Soundness depends on items, tokens, attempts and checkpoints only.
LEMMA UnchangedSound ==
    ASSUME AllSound, UNCHANGED <<item, fence, att, ckpt>>
    PROVE  AllSound'
BY DEF AllSound, Sound

-----------------------------------------------------------------------------
(* Revisions.                                                               *)

Working == {"approved", "active", "verifying", "failed"}

\* A refresh moves the goal only among the states of an approved plan.
LEMMA RefreshedGoal ==
    ASSUME NEW g, NEW its, NEW rev
    PROVE  \/ Refreshed(g, its, rev) = g
           \/ g \in Working /\ Refreshed(g, its, rev) \in Working
BY DEF Refreshed, Working

\* The transactions that do not plan or approve keep Revisions when they create no
\* item, cancel none and move the goal among the states of an approved plan.
LEMMA KeptRevisions ==
    ASSUME Revisions, UNCHANGED <<planned, approved>>,
           \/ goal' = goal
           \/ /\ goal \in Working \union {"paused", "achieved"}
              /\ goal' \in Working \union {"paused", "achieved"},
           \A i \in Item : /\ item'[i] = "absent" => item[i] = "absent" /\ fence'[i] = fence[i]
                           /\ item[i] = "absent" => item'[i] = "absent"
                           /\ item'[i] = "canceled" => item[i] = "canceled"
    PROVE  Revisions'
BY DEF Revisions, Working

\* Recovery creates and cancels no item.
LEMMA RecoverRevisions ==
    ASSUME Revisions, RecoverGoalState
    PROVE  Revisions'
<1>1. ASSUME NEW i \in Item
      PROVE  /\ item'[i] = "absent" <=> item[i] = "absent"
             /\ item'[i] = "canceled" => item[i] = "canceled"
  <2>1. item'[i] = RecoveredItem[i] \/ (RecoveredItem[i] = "pending" /\ item'[i] = "ready")
    BY UnlockedIdle DEF RecoverGoalState
  <2>2. RecoveredItem[i] \in {item[i], "succeeded", "waiting_confirmation", "failed", "ready"}
    BY DEF RecoveredItem
  <2>3. RecoveredItem[i] # item[i] => item[i] = "running"
    BY DEF RecoveredItem, Parked, Exhausted, Retried, Stale
  <2> QED BY <2>1, <2>2, <2>3
<1>2. UNCHANGED <<planned, approved, fence>>
  BY DEF RecoverGoalState
<1>3. goal' = goal \/ (goal \in Working /\ goal' \in Working)
  BY RefreshedGoal DEF RecoverGoalState
<1> QED BY <1>1, <1>2, <1>3, KeptRevisions

\* The transactions on the goal row keep Revisions and leave the work alone.
LEMMA GoalRevisions ==
    ASSUME TypeOK, Revisions,
           \/ PlanGoal \/ ReviewPlan \/ RejectGoal \/ PauseGoal \/ UnpauseGoal
           \/ ExpireOverdueGoal \/ RecordManualVerification \/ VerifyGoal
           \/ ReserveProviderCall \/ DeadlinePasses
    PROVE  Revisions' /\ UNCHANGED <<item, fence, att, ckpt>>
<1>1. UNCHANGED <<item, fence, att, ckpt>>
  BY DEF PlanGoal, ReviewPlan, RejectGoal, PauseGoal, UnpauseGoal, ExpireOverdueGoal,
     RecordManualVerification, VerifyGoal, ReserveProviderCall, DeadlinePasses, itemVars
<1>2. CASE PlanGoal
  <2>1. planned \in Nat /\ approved \in Nat /\ \A i \in Item : i[1] \in Nat
    BY BoundAssumption DEF TypeOK, Item, Rev
  <2>2. UNCHANGED approved /\ planned' = planned + 1 /\ goal' = "review_ready"
        /\ goal \in {"proposed", "replan"}
    BY <1>2 DEF PlanGoal
  <2>3. approved' <= planned' /\ approved' < planned'
    BY <2>1, <2>2 DEF Revisions
  <2>4. ASSUME NEW i \in Item
        PROVE  /\ i[1] > approved' => item'[i] = "absent"
               /\ item'[i] = "absent" => fence'[i] = 0
               /\ item'[i] = "canceled" => i[1] < planned'
    <3>1. item[i] = "canceled" => i[1] <= approved
      BY <2>1 DEF Revisions
    <3> QED BY <1>1, <2>1, <2>2, <3>1 DEF Revisions
  <2> QED BY <1>1, <2>2, <2>3, <2>4 DEF Revisions
<1>3. CASE RejectGoal
  BY <1>1, <1>3 DEF RejectGoal, Revisions
<1>4. CASE \/ ReviewPlan \/ PauseGoal \/ UnpauseGoal \/ ExpireOverdueGoal
           \/ RecordManualVerification \/ VerifyGoal \/ ReserveProviderCall \/ DeadlinePasses
  <2>1. UNCHANGED <<planned, approved>>
    BY <1>4 DEF ReviewPlan, PauseGoal, UnpauseGoal, ExpireOverdueGoal,
       RecordManualVerification, VerifyGoal, ReserveProviderCall, DeadlinePasses
  <2>2. \/ goal' = goal
        \/ /\ goal \in Working \union {"paused", "achieved"}
           /\ goal' \in Working \union {"paused", "achieved"}
    BY <1>4 DEF ReviewPlan, PauseGoal, UnpauseGoal, ExpireOverdueGoal, Working,
       RecordManualVerification, VerifyGoal, ReserveProviderCall, DeadlinePasses
  <2> QED BY <1>1, <2>1, <2>2, KeptRevisions
<1> QED BY <1>1, <1>2, <1>3, <1>4

\* Approval creates the items of the plan that is now approved.
LEMMA ApproveRevisions ==
    ASSUME TypeOK, Revisions, ApproveGoal
    PROVE  Revisions'
<1>1. planned \in Nat /\ approved \in Nat /\ \A i \in Item : i[1] \in Nat
  BY BoundAssumption DEF TypeOK, Item, Rev
<1>2. /\ approved' = planned /\ planned' = planned /\ goal' = "approved" /\ fence' = fence
      /\ goal = "review_ready" /\ approved < planned
  BY DEF ApproveGoal, Revisions
<1>3. ASSUME NEW i \in Item
      PROVE  /\ i[1] > approved' => item'[i] = "absent"
             /\ item'[i] = "absent" => fence'[i] = 0
             /\ item'[i] = "canceled" => i[1] < planned'
  <2>1. item'[i] # item[i] => i[1] = planned /\ item'[i] \in {"pending", "ready"}
    BY DEF ApproveGoal
  <2> QED BY <1>1, <1>2, <2>1 DEF Revisions
<1> QED BY <1>1, <1>2, <1>3 DEF Revisions

\* An extension adds its item under the approved plan.
LEMMA ExtendRevisions ==
    ASSUME TypeOK, Revisions, ExtendWorkflow
    PROVE  Revisions'
<1>1. planned \in Nat /\ approved \in Nat /\ \A i \in Item : i[1] \in Nat
  BY BoundAssumption DEF TypeOK, Item, Rev
<1>2. /\ UNCHANGED <<planned, approved, fence>>
      /\ goal \in {"approved", "active", "verifying"}
      /\ goal' \in Working
  BY RefreshedGoal DEF ExtendWorkflow, Working
<1>3. ASSUME NEW i \in Item
      PROVE  /\ i[1] > approved' => item'[i] = "absent"
             /\ item'[i] = "absent" => fence'[i] = 0
             /\ item'[i] = "canceled" => i[1] < planned'
  BY <1>1, <1>2, ExtensionIsNew DEF Revisions
<1> QED BY <1>2, <1>3 DEF Revisions, Working

\* Canceling fails the open items; only a replan cancels them.
LEMMA CloseRevisions ==
    ASSUME Revisions, CancelGoal \/ MarkGoalForReplan
    PROVE  Revisions'
<1>1. CASE CancelGoal
  BY <1>1 DEF CancelGoal, CloseWork, Revisions
<1>2. CASE MarkGoalForReplan
  BY <1>2 DEF MarkGoalForReplan, CloseWork, Revisions
<1> QED BY <1>1, <1>2

\* The transactions on one claim or item.
LEMMA WorkRevisions ==
    ASSUME TypeOK, Revisions, NEW i \in Item, NEW n \in Token, NEW retryable \in BOOLEAN,
           \/ ClaimItem(i) \/ FinishAttempt(i, n) \/ FailAttempt(i, n, retryable)
           \/ BlockWorkItem(i, n) \/ DeferAttempt(i, n) \/ ContinueAttempt(i, n)
           \/ \E verdict \in {"confirmed", "retry", "abandoned"} :
                  ResolveWaitingConfirmation(i, n, verdict)
    PROVE  Revisions'
<1>1. UNCHANGED <<planned, approved>>
  BY DEF ClaimItem, FinishAttempt, FailAttempt, BlockWorkItem, DeferAttempt, ContinueAttempt,
     VoidAttempt, ResolveWaitingConfirmation, goalVars
<1>2. goal' = goal \/ (goal \in Working /\ goal' \in Working)
  <2>1. CASE ClaimItem(i)
    BY <2>1 DEF ClaimItem, Claimable, Working
  <2>2. CASE BlockWorkItem(i, n) \/ DeferAttempt(i, n) \/ ContinueAttempt(i, n)
    BY <2>2 DEF BlockWorkItem, DeferAttempt, ContinueAttempt, VoidAttempt, goalVars
  <2>3. CASE \/ FinishAttempt(i, n) \/ FailAttempt(i, n, retryable)
             \/ \E verdict \in {"confirmed", "retry", "abandoned"} :
                    ResolveWaitingConfirmation(i, n, verdict)
    <3>1. goal' = Refreshed(goal, item', approved)
      BY <2>3 DEF FinishAttempt, FailAttempt, ResolveWaitingConfirmation
    <3> QED BY <3>1, RefreshedGoal
  <2> QED BY <2>1, <2>2, <2>3
<1>3. ASSUME NEW j \in Item
      PROVE  /\ item'[j] = "absent" => item[j] = "absent" /\ fence'[j] = fence[j]
             /\ item[j] = "absent" => item'[j] = "absent"
             /\ item'[j] = "canceled" => item[j] = "canceled"
  <2>1. CASE ClaimItem(i)
    BY <2>1 DEF ClaimItem, Claimable, TypeOK
  <2>2. CASE BlockWorkItem(i, n) \/ DeferAttempt(i, n) \/ ContinueAttempt(i, n)
    <3>1. PICK to \in {"blocked_missing_handler", "ready"} :
               item' = [item EXCEPT ![i] = to] /\ item[i] = "running" /\ fence' = fence
      BY <2>2 DEF BlockWorkItem, DeferAttempt, ContinueAttempt, VoidAttempt, ClaimCurrent
    <3> QED BY <3>1 DEF TypeOK
  <2>3. CASE FailAttempt(i, n, retryable)
    BY <2>3 DEF FailAttempt, ClaimCurrent
  <2>4. ASSUME NEW after \in {"succeeded", "ready", "failed"},
               item' = Unlocked([item EXCEPT ![i] = after], deps), fence' = fence,
               item[i] \in {"running", "waiting_confirmation"}
        PROVE  <1>3!2
    <3> DEFINE its == [item EXCEPT ![i] = after]
    <3>1. its[j] = item[j] \/ (j = i /\ its[j] = after)
      BY DEF TypeOK
    <3>2. item' = Unlocked(its, deps)
      BY <2>4
    <3> HIDE DEF its
    <3>3. item'[j] = its[j] \/ (its[j] = "pending" /\ item'[j] = "ready")
      BY <3>2, UnlockedIdle
    <3> QED BY <2>4, <3>1, <3>3
  <2>5. CASE FinishAttempt(i, n)
    BY <2>4, <2>5 DEF FinishAttempt, ClaimCurrent
  <2>6. CASE \E verdict \in {"confirmed", "retry", "abandoned"} :
                 ResolveWaitingConfirmation(i, n, verdict)
    <3>1. PICK after \in {"succeeded", "ready", "failed"} :
               /\ item' = Unlocked([item EXCEPT ![i] = after], deps)
               /\ fence' = fence /\ item[i] = "waiting_confirmation"
      BY <2>6 DEF ResolveWaitingConfirmation
    <3> QED BY <2>4, <3>1
  <2> QED BY <2>1, <2>2, <2>3, <2>5, <2>6
<1> QED BY <1>1, <1>2, <1>3, KeptRevisions

-----------------------------------------------------------------------------
(* ExclusiveClaims.                                                         *)

\* A step that issues no claim and commits none keeps the claims exclusive.
LEMMA KeptClaims ==
    ASSUME WorkersOK, ExclusiveClaims, fence' = fence,
           \A i \in Item, n \in Token : att'[i][n] = "committing" => att[i][n] = "committing",
           \A v \in Worker : pc'[v] \in Busy =>
               /\ pc[v] \in Busy /\ job'[v] = job[v]
               /\ pc[v] = "committed" => pc'[v] = "committed"
    PROVE  ExclusiveClaims'
<1>1. ASSUME NEW v \in Worker, pc'[v] \in Busy
      PROVE  /\ TokenOf(v)' = TokenOf(v) /\ ItemOf(v)' = ItemOf(v)
             /\ ItemOf(v) \in Item /\ TokenOf(v) \in Token
  BY <1>1, BusyClaim DEF TokenOf, ItemOf
<1> QED BY <1>1 DEF ExclusiveClaims

\* Worker w goes on without a claim.
LEMMA GotoClaims ==
    ASSUME WorkersOK, ExclusiveClaims, fence' = fence,
           \A i \in Item, n \in Token : att'[i][n] = "committing" => att[i][n] = "committing",
           NEW w \in Worker, NEW p, Goto(w, p), p \notin Busy
    PROVE  ExclusiveClaims'
<1>1. ASSUME NEW v \in Worker, pc'[v] \in Busy
      PROVE  pc'[v] = pc[v] /\ job'[v] = job[v]
  BY <1>1 DEF Goto, WorkersOK
<1> QED BY <1>1, KeptClaims

\* A step that issues no token and commits nothing keeps the claims exclusive.
LEMMA AsideClaims ==
    ASSUME WorkersOK, ExclusiveClaims, fence' = fence, UNCHANGED <<pc, job>>,
           \A i \in Item, n \in Token : att'[i][n] = "committing" => att[i][n] = "committing"
    PROVE  ExclusiveClaims'
BY KeptClaims

\* Only commit_checkpoint moves an attempt to committing.
LEMMA GoalNoCommit ==
    ASSUME RecoverGoalState \/ CancelGoal \/ MarkGoalForReplan
    PROVE  /\ fence' = fence
           /\ \A j \in Item, m \in Token : att'[j][m] = "committing" => att[j][m] = "committing"
<1>1. CASE RecoverGoalState
  BY <1>1 DEF RecoverGoalState, RecoveredAttempt
<1>2. ASSUME NEW kept, NEW to, CloseWork(kept, to)
      PROVE  /\ fence' = fence
             /\ \A j \in Item, m \in Token : att'[j][m] = "committing" => att[j][m] = "committing"
  BY <1>2 DEF CloseWork
<1>3. CASE CancelGoal \/ MarkGoalForReplan
  BY <1>2, <1>3 DEF CancelGoal, MarkGoalForReplan
<1> QED BY <1>1, <1>3

\* The closing transactions issue no token and commit nothing.
LEMMA WorkNoCommit ==
    ASSUME TypeOK, NEW i \in Item, NEW n \in Token,
           \/ FinishAttempt(i, n)
           \/ \E r \in BOOLEAN : FailAttempt(i, n, r)
           \/ BlockWorkItem(i, n) \/ DeferAttempt(i, n) \/ ContinueAttempt(i, n)
           \/ \E verdict \in {"confirmed", "retry", "abandoned"} :
                  ResolveWaitingConfirmation(i, n, verdict)
    PROVE  /\ fence' = fence
           /\ \A j \in Item, m \in Token : att'[j][m] = "committing" => att[j][m] = "committing"
<1>1. PICK c \in {"succeeded", "abandoned", "failed", "void"} :
           att' = [att EXCEPT ![i][n] = c] /\ fence' = fence
  <2>1. CASE FinishAttempt(i, n) \/ \E r \in BOOLEAN : FailAttempt(i, n, r)
    BY <2>1 DEF FinishAttempt, FailAttempt
  <2>2. CASE BlockWorkItem(i, n) \/ DeferAttempt(i, n) \/ ContinueAttempt(i, n)
    BY <2>2 DEF BlockWorkItem, DeferAttempt, ContinueAttempt, VoidAttempt
  <2>3. CASE \E verdict \in {"confirmed", "retry", "abandoned"} :
                 ResolveWaitingConfirmation(i, n, verdict)
    BY <2>3 DEF ResolveWaitingConfirmation
  <2> QED BY <2>1, <2>2, <2>3
<1> QED BY <1>1 DEF TypeOK

-----------------------------------------------------------------------------
(* The inductive step.                                                      *)

Ledger == AllSound /\ Revisions /\ ExclusiveClaims

\* What recovery keeps, for every action that ends in a resume.
LEMMA RecoverLedger ==
    ASSUME WorkerTypeOK, Ledger, RecoverGoalState
    PROVE  /\ AllSound' /\ Revisions' /\ fence' = fence
           /\ \A j \in Item, m \in Token : att'[j][m] = "committing" => att[j][m] = "committing"
BY RecoverSound, RecoverRevisions, GoalNoCommit DEF Ledger, WorkerTypeOK, AllSound

\* What the transactions on the goal row keep.
LEMMA GoalLedger ==
    ASSUME WorkerTypeOK, Ledger,
           \/ PlanGoal \/ ReviewPlan \/ RejectGoal \/ PauseGoal \/ UnpauseGoal
           \/ ExpireOverdueGoal \/ RecordManualVerification \/ VerifyGoal
           \/ ReserveProviderCall \/ DeadlinePasses
    PROVE  AllSound' /\ Revisions' /\ fence' = fence /\ att' = att
BY GoalRevisions, UnchangedSound DEF Ledger, WorkerTypeOK

\* A worker that has not committed its claim and acts on it finds it uncommitted.
LEMMA OwnClaim ==
    ASSUME WorkerTypeOK, Ledger, NEW w \in Worker, pc[w] \in Busy
    PROVE  /\ ItemOf(w) \in Item /\ TokenOf(w) \in Token
           /\ pc[w] # "committed" => att[ItemOf(w)][TokenOf(w)] # "committing"
BY BusyClaim DEF WorkerTypeOK, Ledger, ExclusiveClaims

\* Every step of a worker, its crash included, keeps the ledger invariant.
LEMMA WorkerStepLedger ==
    ASSUME WorkerTypeOK, Ledger, NEW w \in Worker, WorkerStep(w) \/ Crash(w)
    PROVE  Ledger'
<1> USE DEF Ledger, WorkerTypeOK
<1>a. ASSUME UNCHANGED storeVars
      PROVE  AllSound' /\ Revisions' /\ fence' = fence /\ att' = att
  <2>1. UNCHANGED <<goal, planned, approved, item, fence, att, ckpt>>
    BY <1>a DEF storeVars, goalVars, itemVars
  <2> QED BY <2>1, UnchangedSound DEF Revisions
<1>1. CASE \/ PickGoal(w) \/ ReadReport(w) \/ OutOfSteps(w) \/ RereadReport(w)
           \/ ClaimNothing(w) \/ DropRefusedClaim(w) \/ Crash(w) \/ Restart(w)
  <2>1. UNCHANGED storeVars /\ \E p : Goto(w, p) /\ p \notin Busy
    BY <1>1 DEF PickGoal, ReadReport, OutOfSteps, RereadReport, ClaimNothing,
       DropRefusedClaim, Crash, Restart, Busy
  <2> QED BY <2>1, <1>a, GotoClaims
<1>2. CASE \/ ResumeOnPoll(w) \/ ResumeAfterVerify(w) \/ RecoverBeforeClaim(w)
           \/ ResumeAndLeave(w) \/ ResumeAfterClaim(w)
  <2>1. RecoverGoalState /\ \E p : Goto(w, p) /\ p \notin Busy
    BY <1>2 DEF ResumeOnPoll, ResumeAfterVerify, RecoverBeforeClaim, ResumeAndLeave,
       ResumeAfterClaim, Busy
  <2> QED BY <2>1, RecoverLedger, GotoClaims
<1>3. CASE VerifyOnPoll(w)
  <2>1. \E p : Goto(w, p) /\ p \notin Busy
    BY <1>3 DEF VerifyOnPoll, Busy
  <2>2. VerifyGoal \/ UNCHANGED storeVars
    BY <1>3 DEF VerifyOnPoll
  <2> QED BY <2>1, <2>2, <1>a, GoalLedger, GotoClaims
<1>4. CASE RequeueOnPoll(w)
  <2>1. RequeueBlockedItems(Registry[w]) /\ Goto(w, "requeued") /\ "requeued" \notin Busy
    BY <1>4 DEF RequeueOnPoll, Busy
  <2>2. AllSound'
    BY <2>1, RequeueSound DEF AllSound
  <2>3. Revisions' /\ fence' = fence /\ att' = att
    BY <2>1, KeptRevisions DEF RequeueBlockedItems, goalVars
  <2> QED BY <2>1, <2>2, <2>3, GotoClaims
<1>5. CASE ClaimReadyWorkItem(w)
  <2>1. PICK i \in Item : ClaimItem(i) /\ job' = [job EXCEPT ![w] = <<i, fence[i] + 1>>]
    BY <1>5 DEF ClaimReadyWorkItem
  <2>2. AllSound'
    BY <2>1, ClaimSound DEF AllSound
  <2>3. fence[i] + 1 \in Token /\ fence[i] \in Nat
    BY <2>1, NextToken, BoundAssumption DEF ClaimItem, Claimable, TypeOK
  <2>4. Revisions'
    BY <2>1, <2>3, WorkRevisions
  <2>5. ExclusiveClaims'
    <3>1. ASSUME NEW v \in Worker, v # w, pc'[v] \in Busy
          PROVE  /\ pc[v] \in Busy /\ pc'[v] = pc[v] /\ job'[v] = job[v]
                 /\ ItemOf(v) \in Item /\ TokenOf(v) \in Token
                 /\ job[v] = <<ItemOf(v), TokenOf(v)>>
                 /\ job[v] # <<i, fence[i] + 1>>
      <4>1. pc'[v] = pc[v] /\ job'[v] = job[v]
        BY <1>5, <2>1, <3>1 DEF ClaimReadyWorkItem, WorkersOK
      <4>2. /\ ItemOf(v) \in Item /\ TokenOf(v) \in Token
            /\ job[v] = <<ItemOf(v), TokenOf(v)>>
            /\ TokenOf(v) <= fence[ItemOf(v)]
        BY <3>1, <4>1, BusyClaim DEF ExclusiveClaims
      <4>3. TokenOf(v) \in Nat
        BY <4>2 DEF Token
      <4> QED BY <2>3, <3>1, <4>1, <4>2, <4>3
    <3>2. job'[w] = <<i, fence[i] + 1>> /\ pc'[w] = "claimed"
      BY <1>5, <2>1 DEF ClaimReadyWorkItem, WorkersOK
    <3>3. /\ fence'[i] = fence[i] + 1 /\ att'[i][fence[i] + 1] = "running"
          /\ \A j \in Item : j # i => fence'[j] = fence[j]
          /\ \A j \in Item, m \in Token : <<j, m>> # <<i, fence[i] + 1>> => att'[j][m] = att[j][m]
      BY <2>1, <2>3 DEF ClaimItem, TypeOK
    <3>4. ASSUME NEW v \in Worker, pc'[v] \in Busy
          PROVE  /\ TokenOf(v)' <= fence'[ItemOf(v)']
                 /\ pc'[v] # "committed" => att'[ItemOf(v)'][TokenOf(v)'] # "committing"
      <4>1. CASE v = w
        BY <2>3, <3>2, <3>3, <4>1 DEF TokenOf, ItemOf
      <4>2. CASE v # w
        <5>1. TokenOf(v)' = TokenOf(v) /\ ItemOf(v)' = ItemOf(v)
          BY <3>1, <3>4, <4>2 DEF TokenOf, ItemOf
        <5>2. TokenOf(v) <= fence[ItemOf(v)]
              /\ (pc[v] # "committed" => att[ItemOf(v)][TokenOf(v)] # "committing")
          BY <3>1, <3>4, <4>2 DEF ExclusiveClaims
        <5>3. TokenOf(v) \in Nat /\ (ItemOf(v) = i => TokenOf(v) <= fence[i] + 1)
          BY <2>3, <3>1, <3>4, <4>2, <5>2 DEF Token
        <5> QED BY <3>1, <3>3, <3>4, <4>2, <5>1, <5>2, <5>3
      <4> QED BY <4>1, <4>2
    <3>5. ASSUME NEW u \in Worker, NEW v \in Worker, pc'[u] \in Busy, pc'[v] \in Busy, v # u
          PROVE  job'[v] # job'[u]
      BY <3>1, <3>2, <3>5 DEF ExclusiveClaims
    <3> QED BY <3>4, <3>5 DEF ExclusiveClaims
  <2> QED BY <2>2, <2>4, <2>5
<1>6. CASE FailDisabledWrite(w) \/ FailMismatchedEffect(w) \/ FailHandler(w)
  <2>1. PICK retryable \in BOOLEAN : FailAttempt(ItemOf(w), TokenOf(w), retryable)
    BY <1>6 DEF FailDisabledWrite, FailMismatchedEffect, FailHandler
  <2>2. /\ pc[w] \in Busy /\ pc[w] # "committed"
        /\ Goto(w, "resuming") /\ "resuming" \notin Busy
    BY <1>6 DEF FailDisabledWrite, FailMismatchedEffect, FailHandler, Busy
  <2>3. AllSound'
    BY <2>1, <2>2, OwnClaim, FailSound DEF AllSound
  <2> QED BY <2>1, <2>2, <2>3, OwnClaim, WorkRevisions, WorkNoCommit, GotoClaims
<1>7. CASE BlockMissingHandler(w) \/ SleepHandler(w)
  <2> DEFINE i == ItemOf(w)
             n == TokenOf(w)
  <2>1. /\ pc[w] \in Busy /\ pc[w] # "committed"
        /\ Goto(w, "resuming") /\ "resuming" \notin Busy
        /\ BlockWorkItem(i, n) \/ DeferAttempt(i, n) \/ ContinueAttempt(i, n)
    BY <1>7 DEF BlockMissingHandler, SleepHandler, Busy
  <2>2. i \in Item /\ n \in Token /\ att[i][n] # "committing"
    BY <2>1, OwnClaim
  <2> HIDE DEF i, n
  <2>3. \E to \in Idle, isDue \in BOOLEAN : VoidAttempt(i, n, to, isDue)
    BY <2>1 DEF BlockWorkItem, DeferAttempt, ContinueAttempt, Idle
  <2>4. AllSound'
    BY <2>2, <2>3, VoidSound DEF AllSound
  <2>5. Revisions'
    BY <2>1, <2>2, WorkRevisions
  <2>6. ExclusiveClaims'
    BY <2>1, <2>2, WorkNoCommit, GotoClaims
  <2> QED BY <2>4, <2>5, <2>6
<1>8. CASE StartHandler(w)
  <2>1. /\ pc[w] \in Busy /\ pc[w] = "claimed" /\ Goto(w, "executing")
        /\ PrepareCheckpoint(ItemOf(w), TokenOf(w))
    BY <1>8 DEF StartHandler, Busy
  <2>2. AllSound'
    BY <2>1, OwnClaim, PrepareSound DEF AllSound
  <2>3. UNCHANGED <<goal, planned, approved, item, fence, att>>
    BY <2>1 DEF PrepareCheckpoint, goalVars, itemVars
  <2>4. ASSUME NEW v \in Worker, pc'[v] \in Busy
        PROVE  /\ pc[v] \in Busy /\ job'[v] = job[v]
               /\ pc[v] = "committed" => pc'[v] = "committed"
    BY <2>1, <2>4 DEF Goto, WorkersOK, Busy
  <2>5. ExclusiveClaims'
    BY <2>3, <2>4, KeptClaims
  <2> QED BY <2>2, <2>3, <2>5 DEF Revisions
<1>9. CASE SendEffect(w)
  <2>1. UNCHANGED storeVars /\ UNCHANGED <<pc, job>>
    BY <1>9 DEF SendEffect, workerVars
  <2> QED BY <2>1, <1>a, AsideClaims
<1>10. CASE ReserveInHandler(w)
  <2>1. ReserveProviderCall /\ UNCHANGED <<pc, job>>
    BY <1>10 DEF ReserveInHandler, workerVars
  <2> QED BY <2>1, GoalLedger, AsideClaims
<1>11. CASE CommitOutcome(w)
  <2> DEFINE i == ItemOf(w)
             n == TokenOf(w)
  <2>1. /\ pc[w] \in Busy /\ pc[w] = "executing" /\ Goto(w, "committed")
        /\ CommitCheckpoint(i, n)
    BY <1>11 DEF CommitOutcome, Busy
  <2>2. i \in Item /\ n \in Token /\ job[w] = <<i, n>>
    BY <2>1, BusyClaim
  <2> HIDE DEF i, n
  <2>3. AllSound'
    BY <2>1, <2>2, CommitSound DEF AllSound
  <2>4. UNCHANGED <<goal, planned, approved, item, fence>>
    BY <2>1 DEF CommitCheckpoint, goalVars, itemVars
  <2>5. ASSUME NEW v \in Worker, pc'[v] \in Busy
        PROVE  /\ pc[v] \in Busy /\ job'[v] = job[v]
               /\ v = w => pc'[v] = "committed"
               /\ v # w => pc'[v] = pc[v]
    BY <2>1, <2>5 DEF Goto, WorkersOK, Busy
  <2>6. \A j \in Item, m \in Token : <<j, m>> # <<i, n>> => att'[j][m] = att[j][m]
    BY <2>1 DEF CommitCheckpoint, TypeOK
  <2>7. ASSUME NEW v \in Worker, pc'[v] \in Busy
        PROVE  /\ TokenOf(v)' <= fence'[ItemOf(v)']
               /\ pc'[v] # "committed" => att'[ItemOf(v)'][TokenOf(v)'] # "committing"
    <3>1. /\ TokenOf(v)' = TokenOf(v) /\ ItemOf(v)' = ItemOf(v)
          /\ ItemOf(v) \in Item /\ TokenOf(v) \in Token
          /\ job[v] = <<ItemOf(v), TokenOf(v)>>
      BY <2>5, <2>7, BusyClaim DEF TokenOf, ItemOf
    <3>2. /\ TokenOf(v) <= fence[ItemOf(v)]
          /\ pc[v] # "committed" => att[ItemOf(v)][TokenOf(v)] # "committing"
          /\ v # w => job[v] # job[w]
      BY <2>1, <2>5, <2>7 DEF ExclusiveClaims
    <3> QED BY <2>2, <2>4, <2>5, <2>6, <2>7, <3>1, <3>2
  <2>8. ExclusiveClaims'
    BY <2>5, <2>7 DEF ExclusiveClaims
  <2> QED BY <2>3, <2>4, <2>8 DEF Revisions
<1>12. CASE FinishClaim(w)
  <2>1. /\ pc[w] \in Busy /\ Goto(w, "resuming") /\ "resuming" \notin Busy
        /\ FinishAttempt(ItemOf(w), TokenOf(w))
    BY <1>12 DEF FinishClaim, Busy
  <2>2. ItemOf(w) \in Item /\ TokenOf(w) \in Token
    BY <2>1, OwnClaim
  <2>3. AllSound'
    BY <2>1, <2>2, FinishSound DEF AllSound
  <2>4. Revisions'
    BY <2>1, <2>2, WorkRevisions
  <2> QED BY <2>1, <2>2, <2>3, <2>4, WorkNoCommit, GotoClaims
<1>13. CASE NextPhase(w)
  <2>1. UNCHANGED <<goal, planned, approved, item, fence, att, ckpt, pc, job>>
    BY <1>13 DEF NextPhase, RecordPhaseProgress, goalVars, workerVars
  <2> QED BY <2>1, UnchangedSound, AsideClaims DEF Revisions
<1> QED
  BY <1>1, <1>2, <1>3, <1>4, <1>5, <1>6, <1>7, <1>8, <1>9, <1>10, <1>11, <1>12, <1>13
  DEF WorkerStep

\* So does every step of the operator, the janitor and the clock.
LEMMA OthersLedger ==
    ASSUME WorkerTypeOK, Ledger,
           \/ Approve \/ ResumeAfterApprove \/ Resolve \/ OperatorStep \/ TimeStep
    PROVE  Ledger'
<1> USE DEF Ledger, WorkerTypeOK
<1>1. CASE Approve
  <2>1. ApproveGoal /\ UNCHANGED <<pc, job, fence, att>>
    BY <1>1 DEF Approve, ApproveGoal
  <2>2. AllSound'
    BY <2>1, ApproveSound DEF AllSound
  <2> QED BY <2>1, <2>2, ApproveRevisions, AsideClaims
<1>2. ASSUME RecoverGoalState, UNCHANGED <<pc, job>> PROVE Ledger'
  BY <1>2, RecoverLedger, AsideClaims
<1>3. CASE ResumeAfterApprove
  BY <1>2, <1>3 DEF ResumeAfterApprove
<1>4. CASE Resolve
  <2>1. PICK c \in Claim, verdict \in {"confirmed", "retry", "abandoned"} :
             /\ ResolveWaitingConfirmation(c[1], c[2], verdict)
             /\ UNCHANGED <<workerVars, sent>>
    BY <1>4 DEF Resolve
  <2>2. c[1] \in Item /\ c[2] \in Token /\ UNCHANGED <<pc, job>>
    BY <2>1 DEF Claim, workerVars
  <2>3. AllSound'
    BY <2>1, <2>2, ResolveSound DEF AllSound
  <2>4. Revisions'
    BY <2>1, <2>2, WorkRevisions
  <2>5. ExclusiveClaims'
    BY <2>1, <2>2, WorkNoCommit, AsideClaims
  <2> QED BY <2>3, <2>4, <2>5
<1>5. ASSUME \/ PlanGoal \/ ReviewPlan \/ RejectGoal \/ PauseGoal \/ UnpauseGoal
             \/ ExpireOverdueGoal \/ RecordManualVerification \/ VerifyGoal
             \/ ReserveProviderCall \/ DeadlinePasses,
             UNCHANGED <<pc, job>>
      PROVE  Ledger'
  BY <1>5, GoalLedger, AsideClaims
<1>6. ASSUME CancelGoal \/ MarkGoalForReplan, UNCHANGED <<pc, job>> PROVE Ledger'
  <2>1. \E kept \in SUBSET Done, to \in Done : CloseWork(kept, to)
    BY <1>6 DEF CancelGoal, MarkGoalForReplan, Done
  <2>2. AllSound'
    BY <2>1, CloseSound DEF AllSound
  <2> QED BY <1>6, <2>2, CloseRevisions, GoalNoCommit, AsideClaims
<1>7. ASSUME ExtendWorkflow, UNCHANGED <<pc, job>> PROVE Ledger'
  <2>1. UNCHANGED <<fence, att>>
    BY <1>7 DEF ExtendWorkflow
  <2>2. AllSound'
    BY <1>7, ExtendSound DEF AllSound
  <2> QED BY <1>7, <2>1, <2>2, ExtendRevisions, AsideClaims
<1>8. ASSUME NEW i \in Item, LeaseExpires(i) \/ WakeTimeReached(i), UNCHANGED <<pc, job>>
      PROVE  Ledger'
  <2>1. UNCHANGED <<goal, planned, approved, item, fence, att, ckpt>>
    BY <1>8 DEF LeaseExpires, WakeTimeReached, goalVars
  <2> QED BY <1>8, <2>1, UnchangedSound, AsideClaims DEF Revisions
<1>9. CASE OperatorStep
  <2>1. UNCHANGED <<pc, job>>
    BY <1>9 DEF OperatorStep, Aside, workerVars
  <2> QED BY <1>9, <2>1, <1>2, <1>5, <1>6, <1>7 DEF OperatorStep, Aside
<1>10. CASE TimeStep
  <2>1. UNCHANGED <<pc, job>>
    BY <1>10 DEF TimeStep, Aside, workerVars
  <2> QED BY <1>10, <2>1, <1>5, <1>8 DEF TimeStep, Aside
<1> QED BY <1>1, <1>3, <1>4, <1>9, <1>10

\* The empty ledger satisfies the invariant.
LEMMA InitialLedger == Init => Ledger
<1> SUFFICES ASSUME Init PROVE Ledger
  OBVIOUS
<1>1. AllSound
  BY DEF Init, StoreInit, AllSound, Sound, Live, Outcome
<1>2. Revisions
  BY DEF Init, StoreInit, Revisions
<1>3. ExclusiveClaims
  BY DEF Init, ExclusiveClaims, Busy
<1> QED BY <1>1, <1>2, <1>3 DEF Ledger

\* Whatever workers, crashes, expiring leases, operators and replans do, the ledger
\* keeps its invariant: fencing tokens name the live attempt, parked and committed
\* work stays as recorded, items belong to approved plans, claims are exclusive.
THEOREM LedgerCorrect == Spec => []LedgerInvariant
<1>1. Init => Ledger
  BY InitialLedger
<1>2. WorkerTypeOK /\ Ledger /\ [Next]_vars => Ledger'
  <2> SUFFICES ASSUME WorkerTypeOK, Ledger, [Next]_vars PROVE Ledger'
    OBVIOUS
  <2>1. CASE Next
    BY <2>1, WorkerStepLedger, OthersLedger DEF Next
  <2>2. CASE UNCHANGED vars
    <3>1. UNCHANGED <<goal, planned, approved, item, fence, att, ckpt, pc, job>>
      BY <2>2 DEF vars, storeVars, goalVars, itemVars, workerVars
    <3> QED BY <3>1, UnchangedSound, AsideClaims DEF Ledger, WorkerTypeOK, Revisions
  <2> QED BY <2>1, <2>2
<1>3. Ledger => LedgerInvariant
  BY SoundLedger DEF Ledger
<1> QED BY <1>1, <1>2, <1>3, TypeCorrect, PTL DEF Spec

\* An item never runs under two live attempts, nor an attempt under a superseded token.
THEOREM OneLiveAttemptCorrect == Spec => []OneLiveAttempt
<1>1. LedgerInvariant => OneLiveAttempt
  BY DEF LedgerInvariant
<1> QED BY <1>1, LedgerCorrect, PTL

\* Once a checkpoint is committed its item is never claimed again, across any number of
\* crashes, resumes, cancellations and replans.
THEOREM NoReplayCorrect == Spec => []CommittedIsNeverReplayed
<1>1. LedgerInvariant => CommittedIsNeverReplayed
  BY DEF LedgerInvariant
<1> QED BY <1>1, LedgerCorrect, PTL

\* An item that waits for a confirmation can be resolved by one.
THEOREM ParkedCorrect == Spec => []ParkedIsResolvable
<1>1. LedgerInvariant => ParkedIsResolvable
  BY DEF LedgerInvariant
<1> QED BY <1>1, LedgerCorrect, PTL
=============================================================================
