----------------------------- MODULE Completion -----------------------------
(***************************************************************************)
(* How a turn gets its answer: a plain provider call, the tool loop, or    *)
(* code mode with the loop behind it; and the verification every answer    *)
(* passes on its way out.  Turns run concurrently and share the circuit    *)
(* that takes code mode out of use when its calls time out.  Steps that    *)
(* touch only the turn are taken together, accesses to the circuit's       *)
(* atomics one by one.                                                     *)
(***************************************************************************)
EXTENDS Integers, FiniteSets, FiniteSetsExt

CONSTANTS
    Turns,          \* turns under way at one time
    Modes,          \* configurations: output verification, tool verification, code mode
    MaxIterations,  \* agent_mcp.max_iterations
    MaxCalls,       \* code_mode.max_calls
    WarnPercent,    \* timeout_warn_ratio
    StreakLimit,    \* timeout_auto_shadow_streak
    ProbeEvery      \* timeout_auto_shadow_probe_every

ASSUME CompletionAssumption ==
    /\ Modes \subseteq [output : {"off", "observe", "block", "revise_llm", "revise"},
                        tool : {"none", "observe", "retry", "block"},
                        code : {"off", "shadow", "on"}]
    /\ MaxIterations \in Nat \ {0} /\ MaxCalls \in Nat \ {0} /\ WarnPercent \in 0 .. 100
    /\ StreakLimit \in Nat \ {0} /\ ProbeEvery \in Nat \ {0}

VARIABLES
    mode,     \* the configuration
    breaker,  \* the code mode circuit: open, streak of timeout alerts, probe counter
    turns     \* turn -> its state

completionVars == <<mode, breaker, turns>>

\* What a model can say: an answer that keeps quiet about failed tools or owns up
\* to them, nothing, a tool call (with the server at the top, or wrapped in another
\* object), or something that looks like a call and cannot be parsed.
Shapes == {"answer", "owns_up", "empty", "call", "wrapped", "malformed"}

\* run: the trajectory of the turn; failed: a tool call on record has failed;
\* told: what the stream's sink was given; attempt, alert, seen: of code mode.
NoTurn == [stage |-> "idle", stream |-> FALSE, attempt |-> "none",
           alert |-> FALSE, seen |-> 0, iteration |-> 0, retried |-> FALSE, failed |-> FALSE, run |-> "none",
           reply |-> "none", told |-> "none"]

CompletionInit ==
    /\ mode \in Modes
    /\ breaker = [open |-> FALSE, streak |-> 0, probes |-> 0]
    /\ turns = [t \in Turns |-> NoTurn]

To(t, state) == turns' = [turns EXCEPT ![t] = state]

-----------------------------------------------------------------------------
(* The output exit.                                                        *)

\* DeterministicOutputVerifier::verify; a wrapped call is not recognised.
Passes(reply, failed) == reply \notin {"empty", "call"} /\ (failed => reply = "owns_up")

\* OutputExit::finalize: what may become of an answer.  "error" is a revision
\* whose provider call failed; "safe" the suggested text.
Finalized(reply, failed) ==
    IF mode.output \in {"off", "observe"} \/ Passes(reply, failed) THEN {reply}
    ELSE IF mode.output # "revise_llm" THEN {"safe"}
    ELSE {"error", "safe"} \union {s \in Shapes : Passes(s, failed)}

Ended(q, how, reply, told) ==
    [NoTurn EXCEPT !.stage = "done", !.failed = q.failed, !.run = how, !.reply = reply, !.told = told]

Broken(q) == Ended(q, "internal_error", "error", "none")

\* A reply on its way out: it is verified, given to the sink, which may fail, and
\* the run finished.
Exit(q, how, reply) ==
    UNION {CASE r = "error" -> {Broken(q)}
             [] r # "error" /\ ~q.stream -> {Ended(q, how, r, "none")}
             [] r # "error" /\ q.stream -> {Ended(q, how, r, r), Ended(q, "internal_error", "error", r)}
           : r \in Finalized(reply, q.failed)}

\* The provider is asked for an answer, which is not looked at for calls any more.
AskedForAnswer(q, how) == {Broken(q)} \union UNION {Exit(q, how, s) : s \in Shapes}

-----------------------------------------------------------------------------
(* complete_with_optional_mcp.                                             *)

\* should_probe_code_mode_timeout_circuit; the counter is kept modulo ProbeEvery.
Probes(count) == count % ProbeEvery = 0

\* The tool loop, from its beginning.
FallBack(q) == [NoTurn EXCEPT !.stage = "loop", !.stream = q.stream, !.run = "open"]

\* next_code_mode_attempt.
NextAttempt ==
    LET count == (breaker.probes + 1) % ProbeEvery
    IN IF ~breaker.open THEN [attempt |-> "normal", probes |-> breaker.probes]
       ELSE [attempt |-> IF Probes(count) THEN "probe" ELSE "none", probes |-> count]

\* No MCP runtime, no tools, or a list that fails.
StartPlain(t) ==
    /\ turns[t].stage = "idle"
    /\ \E stream \in BOOLEAN :
          To(t, [NoTurn EXCEPT !.stream = stream, !.stage = "plain", !.run = "open"])
    /\ UNCHANGED <<mode, breaker>>

StartWithTools(t) ==
    /\ turns[t].stage = "idle"
    /\ \E stream \in BOOLEAN :
          LET q == [NoTurn EXCEPT !.stream = stream] IN
          \/ /\ mode.code # "off"
             /\ breaker' = [breaker EXCEPT !.probes = NextAttempt.probes]
             /\ To(t, IF NextAttempt.attempt = "none" THEN FallBack(q)
                      ELSE [q EXCEPT !.stage = "code", !.attempt = NextAttempt.attempt])
          \/ /\ mode.code = "off"
             /\ To(t, FallBack(q)) /\ UNCHANGED breaker
    /\ UNCHANGED mode

\* handle verifies the reply of a plain call, after its run has been finished with
\* what the provider said.
PlainReply(t) ==
    LET q == turns[t] IN
    /\ q.stage = "plain" /\ ~q.stream
    /\ \/ To(t, Broken(q))
       \/ \E said \in Shapes : \E r \in Finalized(said, FALSE) : To(t, Ended(q, "final_answer", r, "none"))
    /\ UNCHANGED <<mode, breaker>>

\* Without output verification a plain stream goes straight to the sink, and what it
\* said before it broke has been said.
PlainStream(t) ==
    LET q == turns[t] IN
    /\ q.stage = "plain" /\ q.stream
    /\ \/ \E next \in AskedForAnswer(q, "final_answer") : To(t, next)
       \/ mode.output = "off" /\ \E said \in Shapes : To(t, Ended(q, "internal_error", "error", said))
    /\ UNCHANGED <<mode, breaker>>

-----------------------------------------------------------------------------
(* The tool loop.                                                          *)

\* The second time something is wrong with a call, the model is told to use no more
\* tools and asked for its answer.
Rejected(q) ==
    IF q.retried THEN AskedForAnswer([q EXCEPT !.failed = TRUE], "tool_error")
    ELSE {[q EXCEPT !.retried = TRUE, !.failed = TRUE, !.iteration = @ + 1]}

\* A reply that cannot be parsed leaves no call on record.
Unparsed(q) ==
    IF q.retried THEN AskedForAnswer(q, "tool_error")
    ELSE {[q EXCEPT !.retried = TRUE, !.iteration = @ + 1]}

\* A call that was made: it succeeded, failed, or came back with a result the
\* verifier objects to (empty, truncated, an error object).
Called(q, result) ==
    LET objection == mode.tool # "none" /\ result # "ok"
        recorded == [q EXCEPT !.failed = @ \/ objection \/ result = "error"]
    IN CASE ~objection \/ mode.tool = "observe" -> {[recorded EXCEPT !.iteration = @ + 1]}
         [] objection /\ mode.tool = "retry" -> Rejected(recorded)
         [] objection /\ mode.tool = "block" -> AskedForAnswer(recorded, "tool_error")

\* Mutant: an answer of the loop is returned as it is.
LoopOutcomesUnverified(q, reply) ==
    CASE reply \in {"answer", "owns_up", "empty"} ->
            {Ended(q, "final_answer", reply, IF q.stream THEN reply ELSE "none")}
      [] reply = "malformed" -> Unparsed(q)
      [] reply \in {"call", "wrapped"} ->
            Rejected(q) \union UNION {Called(q, result) : result \in {"ok", "odd", "error"}}

\* One round of the loop: the reply is an answer, unparsable, a call that does not
\* match the tool's schema, or a call that is made.
LoopOutcomes(q, reply) ==
    CASE reply \in {"answer", "owns_up", "empty"} -> Exit(q, "final_answer", reply)
      [] reply = "malformed" -> Unparsed(q)
      [] reply \in {"call", "wrapped"} ->
            Rejected(q) \union UNION {Called(q, result) : result \in {"ok", "odd", "error"}}

LoopStep(t) ==
    LET q == turns[t] IN
    /\ q.stage = "loop" /\ q.iteration < MaxIterations
    /\ \/ \E reply \in Shapes : \E next \in LoopOutcomes(q, reply) : To(t, next)
       \/ To(t, Broken(q))
    /\ UNCHANGED <<mode, breaker>>

IterationsExhausted(t) ==
    /\ turns[t].stage = "loop" /\ turns[t].iteration = MaxIterations
    /\ \E next \in AskedForAnswer(turns[t], "max_iterations") : To(t, next)
    /\ UNCHANGED <<mode, breaker>>

-----------------------------------------------------------------------------
(* Code mode.                                                              *)

\* What a planner's reply can be parsed to: how many calls, and whether each of
\* them names a tool it may use, with an object of arguments.
Plans == [calls : 0 .. MaxCalls + 1, lawful : BOOLEAN]

\* CodeModePolicy::validate_plan.
Valid(plan) == plan.calls \in 1 .. MaxCalls /\ plan.lawful

\* No tool is allowed, the planner fails, no call is needed, or the policy refuses
\* the plan.
CodeNotRun(t) ==
    /\ turns[t].stage = "code"
    /\ \E plan \in Plans : ~Valid(plan)
    /\ To(t, FallBack(turns[t]))
    /\ UNCHANGED <<mode, breaker>>

\* A plan is being run when its time is up or the subprocess is killed, dies or
\* answers with an error: whatever it has done by then is not on record.
ExecutionFails(t) ==
    /\ turns[t].stage = "code"
    /\ \E plan \in Plans : Valid(plan)
    /\ To(t, FallBack(turns[t]))
    /\ UNCHANGED <<mode, breaker>>

\* should_warn_code_mode_timeouts.
Alert(timedOut, calls) == timedOut > 0 /\ timedOut * 100 >= WarnPercent * calls

\* The plan has been run: some of its calls failed, some of those by timeout.
ExecutePlan(t) ==
    LET q == turns[t] IN
    /\ q.stage = "code"
    /\ \E plan \in {p \in Plans : Valid(p)} : \E failed \in 0 .. plan.calls : \E timedOut \in 0 .. failed :
          To(t, [q EXCEPT !.failed = failed > 0, !.alert = Alert(timedOut, plan.calls),
                          !.stage = IF mode.code = "shadow" THEN "decide" ELSE "load"])
    /\ UNCHANGED <<mode, breaker>>

\* update_code_mode_timeout_circuit: the streak is loaded, ...
LoadStreak(t) ==
    /\ turns[t].stage = "load"
    /\ To(t, [turns[t] EXCEPT !.stage = "store",
                 !.seen = IF turns[t].alert THEN Min({breaker.streak + 1, StreakLimit}) ELSE 0])
    /\ UNCHANGED <<mode, breaker>>

\* ... stored (up to the limit, which is all that is asked of it) ...
StoreStreak(t) ==
    /\ turns[t].stage = "store"
    /\ breaker' = [breaker EXCEPT !.streak = turns[t].seen]
    /\ To(t, [turns[t] EXCEPT !.stage = "trip"])
    /\ UNCHANGED mode

\* ... and the circuit opened, closed or left alone.  The attempt that opens it is
\* not used.
TripCircuit(t) ==
    LET q == turns[t]
        opens == q.seen >= StreakLimit
        closes == ~opens /\ ~q.alert /\ breaker.open
    IN /\ q.stage = "trip"
       /\ breaker' = [breaker EXCEPT !.open = (@ \/ opens) /\ ~closes]
       /\ To(t, [q EXCEPT !.seen = 0, !.alert = FALSE,
                    !.stage = IF closes THEN "reset" ELSE "decide",
                    !.attempt = IF opens /\ ~breaker.open THEN "opened" ELSE @])
       /\ UNCHANGED mode

ResetCircuit(t) ==
    /\ turns[t].stage = "reset"
    /\ breaker' = [breaker EXCEPT !.streak = 0, !.probes = 0]
    /\ To(t, [turns[t] EXCEPT !.stage = "decide"])
    /\ UNCHANGED mode

\* A shadow run, a probe and the attempt that opened the circuit leave the answer
\* to the loop; so does a provider or verification error.  The results are used
\* otherwise.
UseResults(t) ==
    LET q == turns[t]
        used == mode.code = "on" /\ q.attempt = "normal"
        fresh == [NoTurn EXCEPT !.stream = q.stream, !.failed = q.failed, !.run = "open"]
    IN /\ q.stage = "decide"
       /\ \/ ~used /\ To(t, FallBack(q))
          \/ /\ used
             /\ \E next \in AskedForAnswer(fresh, "final_answer") :
                   To(t, IF next.reply = "error" /\ next.told = "none" THEN FallBack(q) ELSE next)
       /\ UNCHANGED <<mode, breaker>>

EndTurn(t) ==
    /\ turns[t].stage = "done"
    /\ To(t, NoTurn)
    /\ UNCHANGED <<mode, breaker>>

TurnStep(t) ==
    \/ PlainReply(t) \/ PlainStream(t) \/ LoopStep(t) \/ IterationsExhausted(t)
    \/ CodeNotRun(t) \/ ExecutionFails(t) \/ ExecutePlan(t) \/ LoadStreak(t) \/ StoreStreak(t) \/ TripCircuit(t)
    \/ ResetCircuit(t) \/ UseResults(t) \/ EndTurn(t)

CompletionNext == \E t \in Turns : StartPlain(t) \/ StartWithTools(t) \/ TurnStep(t)

CompletionSpec == CompletionInit /\ [][CompletionNext]_completionVars

\* A probe that has a plan whose calls answer in time.
HealthyProbe == \E t \in Turns : turns[t].attempt = "probe" /\ ExecutePlan(t) /\ ~turns'[t].alert

\* A turn that has begun goes on; turns with tools keep coming; and probes do not
\* for ever lack a plan, fail or time out.
CompletionFairness ==
    /\ \A t \in Turns : WF_completionVars(TurnStep(t))
    /\ SF_completionVars(\E t \in Turns : StartWithTools(t))
    /\ SF_completionVars(HealthyProbe)

-----------------------------------------------------------------------------

Blocking == mode.output \in {"block", "revise", "revise_llm"}

\* Where answers are blocked, nothing that exposes a tool call or hides a failed
\* one reaches the user, by the reply or by the stream, whichever path the turn
\* took; and a turn that has a reply has finished its run with an answer.
AnswerIsVerified ==
    \A t \in Turns : turns[t].stage = "done" =>
       /\ Blocking => \A said \in {turns[t].reply, turns[t].told} \ {"none", "error"} :
                         said = "safe" \/ Passes(said, turns[t].failed)
       /\ turns[t].run \notin {"none", "open"}
       /\ turns[t].reply # "error" => turns[t].run # "internal_error"

\* An open circuit closes again once code mode is healthy.
CircuitRecovers == []<>(~breaker.open)
=============================================================================
