------------------------------- MODULE Swarm --------------------------------
(***************************************************************************)
(* Agent swarms, the in-process runner: one user task answered by a tree   *)
(* of model agents.  A node asks the model whether to answer or to         *)
(* delegate, runs its children one after the other, each under a permit of *)
(* the run's semaphore that is held until the child has returned, and      *)
(* merges their answers; every model call takes a permit too.  The nodes   *)
(* on the path to the running one form a stack.                            *)
(***************************************************************************)
EXTENDS Integers, Sequences, FiniteSets

CONSTANTS
    MaxDepth,     \* max_depth
    MaxAgents,    \* max_agents
    MaxParallel,  \* max_parallel: permits of the run's semaphore
    MaxChildren   \* bound: children one plan names

ASSUME SwarmAssumption ==
    /\ MaxDepth \in Nat \ {0} /\ MaxAgents \in Nat \ {0}
    /\ MaxChildren \in Nat
    /\ MaxParallel \in Nat /\ MaxParallel > MaxDepth

VARIABLES
    stack,    \* the nodes being executed, innermost last
    agents,   \* agent_counter
    nodes,    \* agent_swarm_nodes: state and exit status, one row per agent
    mirror,   \* the agents' work items in the mirrored goal
    tally,    \* the run's success, partial, failed, timeout, skipped counts
    tree      \* how the run ended

treeVars == <<stack, agents, nodes, mirror, tally, tree>>

(***************************************************************************)
(* The in-process runner.                                                  *)
(***************************************************************************)
Running == [state |-> "running", exit |-> "none"]
NoTally == [success |-> 0, partial |-> 0, failed |-> 0, timeout |-> 0, skipped |-> 0]

Frame(agent, depth) ==
    [agent |-> agent, depth |-> depth, step |-> "plan", left |-> 0,
     failed |-> FALSE, partial |-> FALSE]

Top == stack[Len(stack)]
Below == SubSeq(stack, 1, Len(stack) - 1)
WithTop(frame) == [stack EXCEPT ![Len(stack)] = frame]

\* Every node but the root runs under the permit its parent took for it.
PermitsHeld == Len(stack) - 1

\* claim_swarm_loop_node: appended and claimed, or not mirrored at all.
Claims == \E ok \in BOOLEAN : mirror' = Append(mirror, IF ok THEN "claimed" ELSE "none")

TreeInit ==
    /\ stack = <<>> /\ agents = 0
    /\ nodes = <<>> /\ mirror = <<>>
    /\ tally = NoTally /\ tree = "idle"

\* The classifier's verdict, or the heuristic's when its call fails or times out.
Activates(heuristic, verdict) == IF verdict = "failed" THEN heuristic ELSE verdict = "yes"

\* try_swarm_reply: not activated, the message takes the normal path; else the
\* run row, the projected goal where there is one, and the root node.
StartRun ==
    /\ tree = "idle"
    /\ \E heuristic \in BOOLEAN, verdict \in {"yes", "no", "failed"} :
          \/ /\ ~Activates(heuristic, verdict)
             /\ tree' = "declined" /\ UNCHANGED <<stack, agents, nodes, mirror>>
          \/ /\ Activates(heuristic, verdict)
             /\ tree' = "running" /\ agents' = 1
             /\ stack' = <<Frame(1, 0)>>
             /\ nodes' = Append(nodes, Running)
             /\ Claims
    /\ UNCHANGED tally

\* commit_swarm_loop_node: a failed node fails its item, any other commits it.
Mirrored(i, failed) ==
    IF mirror[i] # "claimed" THEN mirror
    ELSE [mirror EXCEPT ![i] = IF failed THEN "failed" ELSE "committed"]

\* Mutant: skipped agents do not count against the run.
RunStatusWithoutSkips(failed, partial, counts) ==
    IF failed THEN "failed"
    ELSE IF counts.failed + counts.timeout > 0 THEN "partial" ELSE "completed"

\* try_swarm_reply, once the root has returned.
RunStatus(failed, partial, counts) ==
    IF failed THEN "failed"
    ELSE IF counts.failed + counts.timeout + counts.partial + counts.skipped > 0 \/ partial
         THEN "partial" ELSE "completed"

\* The innermost node returns `exit' to its parent, which notes whether the
\* child failed or was partial and releases the permit.
Return(frame, exit, failed, partial, counts) ==
    /\ nodes' = [nodes EXCEPT ![frame.agent] = [state |-> "exited", exit |-> exit]]
    /\ mirror' \in {mirror, Mirrored(frame.agent, failed)}
    /\ tally' = counts
    /\ \/ /\ Len(stack) = 1
          /\ stack' = <<>>
          /\ \E blank \in BOOLEAN : tree' = RunStatus(failed \/ blank, partial, counts)
       \/ /\ Len(stack) > 1
          /\ LET parent == Below[Len(Below)]
             IN stack' = [Below EXCEPT ![Len(Below)] =
                  [parent EXCEPT !.failed = @ \/ failed, !.partial = @ \/ partial]]
          /\ UNCHANGED tree
    /\ UNCHANGED agents

Counted1(field) == [tally EXCEPT ![field] = @ + 1]
TimedOut == [tally EXCEPT !.timeout = @ + 1, !.failed = @ + 1]

\* A model call needs a permit of its own.
CanCall == PermitsHeld < MaxParallel

\* Mutant: one level too many.
ForceAnswerLate(depth) == depth > MaxDepth

ForceAnswer(depth) == depth >= MaxDepth

\* The planner: at the depth limit there is none; it may delegate, answer, fail
\* (the node then answers itself) or time out.
PlanNode ==
    /\ stack # <<>> /\ Top.step = "plan"
    /\ \/ /\ ForceAnswer(Top.depth) \/ CanCall
          /\ stack' = WithTop([Top EXCEPT !.step = "answer"])
          /\ UNCHANGED <<agents, nodes, mirror, tally, tree>>
       \/ /\ ~ForceAnswer(Top.depth) /\ CanCall
          /\ \E n \in 1 .. MaxChildren :
                stack' = WithTop([Top EXCEPT !.step = "children", !.left = n])
          /\ UNCHANGED <<agents, nodes, mirror, tally, tree>>
       \/ /\ ~ForceAnswer(Top.depth) /\ CanCall
          /\ Return(Top, "timeout", TRUE, FALSE, TimedOut)

\* The planner's own answer is used, or the model is asked for one.
AnswerNode ==
    /\ stack # <<>> /\ Top.step = "answer" /\ CanCall
    /\ \/ Return(Top, "success", FALSE, FALSE, Counted1("success"))
       \/ Return(Top, "timeout", TRUE, FALSE, TimedOut)
       \/ Return(Top, "failed", TRUE, FALSE, Counted1("failed"))

\* The next child gets a permit and the next index; past max_agents it is
\* recorded as skipped and returns at once.
StartChild ==
    /\ stack # <<>> /\ Top.step = "children" /\ Top.left > 0
    /\ PermitsHeld < MaxParallel
    /\ agents' = agents + 1
    /\ LET parent == [Top EXCEPT !.left = @ - 1]
       IN \/ /\ agents + 1 > MaxAgents
             /\ nodes' = Append(nodes, [state |-> "exited", exit |-> "skipped"])
             /\ tally' = Counted1("skipped")
             /\ \E m \in {"none", "committed"} : mirror' = Append(mirror, m)
             /\ stack' = WithTop([parent EXCEPT !.partial = TRUE])
          \/ /\ agents + 1 <= MaxAgents
             /\ nodes' = Append(nodes, Running)
             /\ Claims
             /\ stack' = Append(WithTop(parent), Frame(agents + 1, Top.depth + 1))
             /\ UNCHANGED tally
    /\ UNCHANGED tree

\* The merge: a failed merge call joins the children's answers instead.
MergeChildren ==
    /\ stack # <<>> /\ Top.step = "children" /\ Top.left = 0 /\ CanCall
    /\ LET exit == IF Top.failed THEN "partial" ELSE "success"
           whole == ~Top.failed /\ ~Top.partial
       IN Return(Top, exit, FALSE, ~whole, Counted1(IF whole THEN "success" ELSE "partial"))

\* max_run_timeout_ms drops the whole tree: the nodes on the stack keep their
\* running rows and claimed items.
RunTimesOut ==
    /\ stack # <<>>
    /\ stack' = <<>> /\ tree' = "failed"
    /\ UNCHANGED <<agents, nodes, mirror, tally>>

TreeNext == StartRun \/ PlanNode \/ AnswerNode \/ StartChild \/ MergeChildren \/ RunTimesOut

TreeSpec == TreeInit /\ [][TreeNext]_treeVars

\* The run never waits for a permit that its own path holds: whatever the
\* innermost node does next, a permit is free.
NoSelfDeadlock == stack # <<>> => PermitsHeld < MaxParallel

\* What a run reports is what happened: a completed run lost nothing (every
\* agent exited with success, none was skipped, failed or left running), and
\* the mirrored goal tells the same story as the agents' rows.
RunTellsTheTruth ==
    /\ tree = "completed" => \A i \in 1 .. agents : nodes[i].exit = "success"
    /\ \A i \in DOMAIN nodes :
          /\ mirror[i] = "committed" => nodes[i].exit \in {"success", "partial", "skipped"}
          /\ mirror[i] = "failed" => nodes[i].exit \in {"failed", "timeout"}
=============================================================================
