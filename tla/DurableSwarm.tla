---------------------------- MODULE DurableSwarm -----------------------------
(***************************************************************************)
(* The durable swarm runner.  The agents are work items of a goal that     *)
(* outlives the caller: a root that answers or delegates to a child, and   *)
(* the aggregate that merges.  When the caller's reply window closes first *)
(* the run row is flagged and the janitor delivers the answer once the     *)
(* goal is terminal.  The process may die between any two steps.           *)
(***************************************************************************)
EXTENDS Naturals, Sequences

CONSTANT MaxFaults  \* bound: failed writes and sends, deaths of the process

VARIABLES
    item,       \* the root's, the child's and the aggregate's work item
    goal,       \* the goal's status
    published,  \* the analysis_report artifact of the terminal node exists
    overdue,    \* the goal's execution deadline has passed
    run,        \* agent_swarm_runs: status and awaiting_reply
    caller,     \* run_swarm_durable: where it is and the text it read
    janitor,    \* idle, or the reply is sent and the flag not yet cleared
    sent,       \* the deferred replies sent
    faults

durableVars == <<item, goal, published, overdue, run, caller, janitor, sent, faults>>

Done == {"answer", "blank", "empty", "delegated"}
Terminal == {"achieved", "failed"}

Call(step, text, deferred, degraded) ==
    [step |-> step, text |-> text, deferred |-> deferred, degraded |-> degraded]

DurableInit ==
    /\ item = [root |-> "ready", child |-> "none", agg |-> "none"]
    /\ goal = "approved" /\ published = FALSE /\ overdue = FALSE
    /\ run = [status |-> "running", awaiting |-> FALSE]
    /\ caller = Call("waiting", "none", FALSE, FALSE)
    /\ janitor = "idle" /\ sent = <<>> /\ faults = 0

Fault == faults < MaxFaults /\ faults' = faults + 1

\* refresh_goal_status_tx over the goal's items.
Status(items) ==
    LET open == {s \in DOMAIN items : items[s] # "none"}
    IN IF goal = "achieved" THEN goal
       ELSE IF \A s \in open : items[s] \in Done THEN "verifying"
       ELSE IF \E s \in open : items[s] = "failed" THEN "failed"
       ELSE IF \E s \in open : items[s] \in Done THEN "active" ELSE goal

\* The answers a node can come back with: text, blank text, or a call that failed.
Answers == {"answer", "blank", "empty"}

\* finish_attempt with the handler's outcome; the terminal node's answer is
\* published as an artifact unless that write fails.
Finish(items, s) ==
    /\ item' = items /\ goal' = Status(items)
    /\ \/ /\ published' = (published \/ (s \in {"root", "agg"} /\ items[s] = "answer"))
          /\ UNCHANGED faults
       \/ /\ s \in {"root", "agg"} /\ items[s] = "answer" /\ Fault
          /\ UNCHANGED published
    /\ UNCHANGED <<overdue, run, caller, janitor, sent>>

\* An overdue goal is out of the dispatch sweep.
Dispatchable == goal \in {"approved", "active"} /\ ~overdue

\* The root answers, or extends the workflow and reports the delegation.
ExecuteRoot ==
    /\ Dispatchable /\ item.root = "ready"
    /\ \/ \E a \in Answers : Finish([item EXCEPT !.root = a], "root")
       \/ Finish([root |-> "delegated", child |-> "ready", agg |-> "pending"], "root")

ExecuteChild ==
    /\ Dispatchable /\ item.child = "ready"
    /\ \E a \in Answers : Finish([item EXCEPT !.child = a, !.agg = "ready"], "child")

\* A failed merge joins the children's own answers.
ExecuteAggregate ==
    /\ Dispatchable /\ item.agg = "ready"
    /\ \E a \in {"answer", "blank"} : Finish([item EXCEPT !.agg = a], "agg")

\* A worker is lost and the item's attempts are used up.
AttemptsExhausted ==
    /\ Dispatchable /\ Fault
    /\ \E s \in DOMAIN item :
          /\ item[s] = "ready"
          /\ item' = [item EXCEPT ![s] = "failed"]
    /\ goal' = Status(item')
    /\ UNCHANGED <<published, overdue, run, caller, janitor, sent>>

Verified == IF goal = "verifying" /\ published THEN "achieved" ELSE goal

\* The worker's own verification after its last step.
VerifyGoal ==
    /\ goal # Verified /\ goal' = Verified
    /\ UNCHANGED <<item, published, overdue, run, caller, janitor, sent, faults>>

DeadlinePasses ==
    /\ ~overdue /\ overdue' = TRUE
    /\ UNCHANGED <<item, goal, published, run, caller, janitor, sent, faults>>

ExpireOverdueGoal ==
    /\ overdue /\ goal \in {"approved", "active", "verifying"}
    /\ goal' = "failed"
    /\ UNCHANGED <<item, published, overdue, run, caller, janitor, sent, faults>>

\* The root's answer: the aggregate's outcome if there is one, else the root's;
\* an outcome without an answer gives its summary, also when it delegated.
AnswerText ==
    IF item.agg \in Done THEN item.agg
    ELSE IF item.root \in Done THEN item.root ELSE "none"

\* An agent that failed or did not finish, aggregates aside.
Degraded == \E s \in {"root", "child"} : item[s] \in {"empty", "failed", "ready"}

\* run_goal_concurrent returns once no item is ready or running.
RunReturns == \A s \in DOMAIN item : item[s] # "ready"

\* run_goal_concurrent returned or failed, or its window closed; the report is
\* read, which refreshes the goal.
ReadReport ==
    /\ caller.step = "waiting"
    /\ \/ caller' = Call("read", AnswerText, TRUE, Degraded)
       \/ /\ RunReturns
          /\ \E error \in BOOLEAN :
                caller' = Call("read", AnswerText, FALSE, Degraded \/ error)
    /\ goal' = Status(item)
    /\ UNCHANGED <<item, published, overdue, run, janitor, sent, faults>>

\* The ack: the flag's write may fail, the ack is returned all the same.
Defer ==
    /\ caller.step = "read" /\ caller.deferred /\ caller.text = "none"
    /\ caller' = [caller EXCEPT !.step = "acked"]
    /\ \/ run' = [run EXCEPT !.awaiting = TRUE] /\ UNCHANGED faults
       \/ Fault /\ UNCHANGED run
    /\ goal' = Verified
    /\ UNCHANGED <<item, published, overdue, janitor, sent>>

\* finish_agent_swarm_run whatever the row holds, then verify_goal.
Reply ==
    /\ caller.step = "read" /\ ~(caller.deferred /\ caller.text = "none")
    /\ caller' = [caller EXCEPT !.step = "replied"]
    /\ run' = [run EXCEPT !.status = IF caller.text = "none" THEN "failed"
                                     ELSE IF caller.degraded THEN "partial" ELSE "completed"]
    /\ goal' = Verified
    /\ UNCHANGED <<item, published, overdue, janitor, sent, faults>>

\* max_run_timeout_ms around the whole runner.
CallerTimesOut ==
    /\ caller.step \in {"waiting", "read"}
    /\ caller' = Call("replied", "none", FALSE, TRUE)
    /\ run' = [run EXCEPT !.status = "failed"]
    /\ goal' = Verified
    /\ UNCHANGED <<item, published, overdue, janitor, sent, faults>>

\* The process dies: the caller and the janitor's sweep are gone.
ProcessDies ==
    /\ Fault
    /\ caller' = IF caller.step \in {"waiting", "read"}
                 THEN [caller EXCEPT !.step = "dead"] ELSE caller
    /\ janitor' = "idle"
    /\ UNCHANGED <<item, goal, published, overdue, run, sent>>

\* The sweep's first half: a running row whose goal is terminal is closed; the
\* resume in between refreshes the goal.
ReapOrphan ==
    /\ janitor = "idle" /\ run.status = "running" /\ goal \in Terminal
    /\ run' = [run EXCEPT !.status = IF goal = "achieved" THEN "completed" ELSE "failed"]
    /\ goal' = Status(item)
    /\ UNCHANGED <<item, published, overdue, caller, janitor, sent, faults>>

\* Mutant: the flag is cleared before the reply is sent.
DeliverDeferredAtMostOnce ==
    /\ janitor = "idle" /\ run.awaiting /\ goal \in Terminal
    /\ run' = [run EXCEPT !.awaiting = FALSE]
    /\ goal' = Status(item)
    /\ \/ sent' = Append(sent, IF goal = "achieved" THEN AnswerText ELSE "nothing")
          /\ UNCHANGED <<janitor, faults>>
       \/ Fault /\ UNCHANGED <<sent, janitor>>
    /\ UNCHANGED <<item, published, overdue, caller>>

\* The second half: the reply of a flagged run with a terminal goal is sent; a
\* failed send leaves the flag for the next sweep.
DeliverDeferred ==
    /\ janitor = "idle" /\ run.awaiting /\ goal \in Terminal
    /\ goal' = Status(item)
    /\ \/ /\ sent' = Append(sent, IF goal = "achieved" THEN AnswerText ELSE "nothing")
          /\ janitor' = "sent" /\ UNCHANGED faults
       \/ Fault /\ UNCHANGED <<sent, janitor>>
    /\ UNCHANGED <<item, published, overdue, run, caller>>

\* The flag is cleared, or the write fails and the next sweep sends again.
ClearAwaiting ==
    /\ janitor = "sent" /\ janitor' = "idle"
    /\ \/ run' = [run EXCEPT !.awaiting = FALSE] /\ UNCHANGED faults
       \/ Fault /\ UNCHANGED run
    /\ UNCHANGED <<item, goal, published, overdue, caller, sent>>

DurableNext ==
    \/ ExecuteRoot \/ ExecuteChild \/ ExecuteAggregate \/ AttemptsExhausted
    \/ VerifyGoal \/ DeadlinePasses \/ ExpireOverdueGoal
    \/ ReadReport \/ Defer \/ Reply \/ CallerTimesOut \/ ProcessDies
    \/ ReapOrphan \/ DeliverDeferred \/ ClearAwaiting

DurableSpec == DurableInit /\ [][DurableNext]_durableVars

\* The deadline passes, the runtime worker expires overdue goals on every poll,
\* and the janitor sweeps every minute.
Tick == DeadlinePasses \/ ExpireOverdueGoal \/ ReapOrphan \/ ClearAwaiting

DurableFairness ==
    /\ WF_durableVars(Tick)
    /\ SF_durableVars(DeliverDeferred)

-----------------------------------------------------------------------------
Owed ==
    IF sent # <<>> THEN "delivered"
    ELSE IF run.awaiting THEN "promised"
    ELSE CASE caller.step \in {"waiting", "read"} -> "open"
           [] caller.step = "replied" -> "answered"
           [] OTHER -> "dropped"

Promise == INSTANCE ReplyPromise
    WITH owed <- Owed, deliveries <- Len(sent), excuses <- faults

\* The janitor's deferred reply keeps the promise: a run flagged
\* awaiting_reply is delivered, whatever dies or fails on the way, a run that
\* is not flagged is never sent to, and a second send needs a fault.
PromiseIsKept == Promise!Spec

\* A deferred run is answered with an answer: the caller never passes a
\* delegation notice off as the reply of the run.
DelegationIsNotAnAnswer == caller.step = "replied" => caller.text # "delegated"
=============================================================================
