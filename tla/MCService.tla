----------------------------- MODULE MCService ------------------------------
(***************************************************************************)
(* The parts between the channel and the providers, each on its own small  *)
(* instance: they share no table, so `part' picks the one a behaviour is   *)
(* about and the others stay in their initial state.                       *)
(***************************************************************************)
EXTENDS Swarm, DurableSwarm, Recall, Context, Failover, Completion, Runtime, McpClient

VARIABLE part

serviceVars == <<part, treeVars, durableVars, memoryVars, contextVars, failoverVars,
                 completionVars, runtimeVars, mcpVars>>

MCTextOf == <<"a", "b", "a">>
MCOwnerOf == <<"u", "u", "v">>
MCModes == {[output |-> "block", tool |-> "retry", code |-> "on"],
            [output |-> "revise_llm", tool |-> "block", code |-> "shadow"],
            [output |-> "observe", tool |-> "observe", code |-> "off"],
            [output |-> "off", tool |-> "none", code |-> "off"]}

\* One initial state for each part that does not move.
Init ==
    /\ part \in {"tree", "durable", "memory", "context", "failover", "completion", "runtime", "mcp"}
    /\ TreeInit /\ DurableInit /\ RecallInit /\ ContextInit /\ FailoverInit
    /\ CompletionInit /\ RuntimeInit /\ McpInit
    /\ part # "context" => strategy = "budget"
    /\ part # "completion" => mode.output = "off"
    /\ part # "mcp" => transport = "stdio"

Next ==
    \/ /\ part = "tree" /\ TreeNext
       /\ UNCHANGED <<part, durableVars, memoryVars, contextVars, failoverVars, completionVars, runtimeVars, mcpVars>>
    \/ /\ part = "durable" /\ DurableNext
       /\ UNCHANGED <<part, treeVars, memoryVars, contextVars, failoverVars, completionVars, runtimeVars, mcpVars>>
    \/ /\ part = "memory" /\ RecallNext
       /\ UNCHANGED <<part, treeVars, durableVars, contextVars, failoverVars, completionVars, runtimeVars, mcpVars>>
    \/ /\ part = "context" /\ ContextNext
       /\ UNCHANGED <<part, treeVars, durableVars, memoryVars, failoverVars, completionVars, runtimeVars, mcpVars>>
    \/ /\ part = "failover" /\ FailoverNext
       /\ UNCHANGED <<part, treeVars, durableVars, memoryVars, contextVars, completionVars, runtimeVars, mcpVars>>
    \/ /\ part = "completion" /\ CompletionNext
       /\ UNCHANGED <<part, treeVars, durableVars, memoryVars, contextVars, failoverVars, runtimeVars, mcpVars>>
    \/ /\ part = "runtime" /\ RuntimeNext
       /\ UNCHANGED <<part, treeVars, durableVars, memoryVars, contextVars, failoverVars, completionVars, mcpVars>>
    \/ /\ part = "mcp" /\ McpNext
       /\ UNCHANGED <<part, treeVars, durableVars, memoryVars, contextVars, failoverVars, completionVars, runtimeVars>>

\* DurableFairness, RecallFairness and CompletionFairness, each of the part that moves.
Fairness ==
    /\ WF_durableVars(part = "durable" /\ Tick)
    /\ SF_durableVars(part = "durable" /\ DeliverDeferred)
    /\ WF_memoryVars(part = "memory" /\ (StartSweep \/ ReplayRow))
    /\ \A t \in Turns : WF_completionVars(part = "completion" /\ TurnStep(t))
    /\ SF_completionVars(part = "completion" /\ \E t \in Turns : StartWithTools(t))
    /\ SF_completionVars(part = "completion" /\ HealthyProbe)

Spec == Init /\ [][Next]_serviceVars /\ Fairness

\* What the model is given is sound: the memories that were recalled, and the
\* prompt that is left of them and of the history.
PromptIsGrounded == RecallIsSound /\ PromptIsSound

\* What was put aside is taken up again: a chunk the sidecar did not accept
\* (EventuallyIndexed), and code mode after its circuit opened (CircuitRecovers).
\* As only one of the parts moves, the two together are one formula.
EventuallyRecovers == []<>(AllIndexed /\ ~breaker.open)
=============================================================================
