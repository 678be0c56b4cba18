------------------------------ MODULE Failover ------------------------------
(***************************************************************************)
(* The provider chain.  A request takes the providers whose circuit admits *)
(* calls, in order, once, when it starts; each is tried with the retries   *)
(* of the client, a streamed one with a plain call after them.  Requests   *)
(* run concurrently and share the circuits.                                *)
(***************************************************************************)
EXTENDS Integers, FiniteSets, FiniteSetsExt

CONSTANTS
    Requests,    \* requests under way at one time
    Chain,       \* how many providers the chain has
    Failures,    \* failure_threshold
    Retries      \* max_retries of each provider

ASSUME FailoverAssumption ==
    Chain \in Nat /\ Failures \in Nat \ {0} /\ Retries \in Nat

VARIABLES
    circuit,  \* provider -> consecutive failures, closed, open or cooled down
    request   \* request -> its state

failoverVars == <<circuit, request>>

Providers == 1 .. Chain
NoRequest == [stage |-> "idle", plan |-> {}, tried |-> {}, admitted |-> {}, tries |-> 0,
              error |-> "none", spoke |-> {}]

FailoverInit ==
    /\ circuit = [p \in Providers |-> [fails |-> 0, state |-> "closed"]]
    /\ request = [r \in Requests |-> NoRequest]

\* Circuit::admits: closed, or the cooldown is over.
Admits(p) == circuit[p].state # "open"

Succeeded(c) == [fails |-> 0, state |-> "closed"]

\* on_failure; a circuit that was open is armed again.  The count is kept up to
\* the threshold, which is all that is asked of it.
Failed(c) ==
    LET fails == Min({c.fails + 1, Failures})
    IN [fails |-> fails,
        state |-> IF fails >= Failures \/ c.state # "closed" THEN "open" ELSE c.state]

Admitted == {p \in Providers : Admits(p)}

\* admitted_indices is read once.
Ask(r) ==
    /\ request[r].stage = "idle"
    /\ \E stage \in {"stream", "plain"} :
          request' = [request EXCEPT ![r] =
             [NoRequest EXCEPT !.plan = Admitted, !.admitted = Admitted,
                               !.stage = IF Admitted = {} THEN "error" ELSE stage]]
    /\ UNCHANGED circuit

\* The providers of a plan are asked in the order of the chain.
First(plan) == Min(plan)

Asked(r) == First(request[r].plan)

\* The provider answers: a streamed answer has reached the sink delta by delta, the
\* plain answer after a failed stream in one piece.
Answered(q) ==
    [q EXCEPT !.stage = "ok", !.spoke = @ \union IF q.stage = "plain" THEN {} ELSE {First(q.plan)}]

Answer(r) ==
    /\ request[r].stage \in {"stream", "plain", "fallback"}
    /\ circuit' = [circuit EXCEPT ![Asked(r)] = Succeeded(@)]
    /\ request' = [request EXCEPT ![r] = Answered(@)]

\* A plain call that is rejected for the shape of its messages is repeated at once
\* in compatible form, and that answers it.
AnswerCompatibly(r) ==
    /\ request[r].stage \in {"plain", "fallback"}
    /\ circuit' = [circuit EXCEPT ![Asked(r)] = Succeeded(@)]
    /\ request' = [request EXCEPT ![r] = Answered([@ EXCEPT !.error = "shape"])]

Delta(r) ==
    /\ request[r].stage = "stream"
    /\ request' = [request EXCEPT ![r].spoke = @ \union {Asked(r)}]
    /\ UNCHANGED circuit

Worthy(error) == error # "shape"

\* Mutant: the stream fails over whatever was said.
NextProviderAnyway(q, stage) ==
    IF q.plan = {First(q.plan)} \/ ~Worthy(q.error)
    THEN [q EXCEPT !.stage = "error", !.tried = @ \union {First(q.plan)}]
    ELSE [q EXCEPT !.plan = @ \ {First(q.plan)}, !.tried = @ \union {First(q.plan)},
                   !.stage = stage, !.tries = 0]

\* The provider has failed: the next one, unless the error is about the
\* request's shape, part of the answer is out, or there is none.
NextProvider(q, stage) ==
    IF q.plan = {First(q.plan)} \/ ~Worthy(q.error) \/ First(q.plan) \in q.spoke
    THEN [q EXCEPT !.stage = "error", !.tried = @ \union {First(q.plan)}]
    ELSE [q EXCEPT !.plan = @ \ {First(q.plan)}, !.tried = @ \union {First(q.plan)},
                   !.stage = stage, !.tries = 0]

\* The call of the current provider has failed for good.
Fails(r, q) ==
    /\ circuit' = [circuit EXCEPT ![Asked(r)] = Failed(@)]
    /\ request' = [request EXCEPT ![r] =
                      NextProvider(q, IF q.stage = "plain" THEN "plain" ELSE "stream")]

\* The error of a fallback is dropped for the one of the stream.
WithError(q, error) == [q EXCEPT !.error = IF q.stage = "fallback" THEN @ ELSE error]

\* An attempt fails.  The client tries again; a stream that never spoke falls
\* back to a plain call.
AttemptFails(r) ==
    LET q == request[r] IN
    /\ q.stage \in {"stream", "plain", "fallback"}
    /\ q.stage = "stream" => Asked(r) \notin q.spoke
    /\ \E error \in {"shape", "other"} :
          LET p == WithError(q, error)
          IN \/ /\ q.tries < Retries
                /\ request' = [request EXCEPT ![r] = [p EXCEPT !.tries = @ + 1]]
                /\ UNCHANGED circuit
             \/ /\ q.tries = Retries /\ q.stage = "stream"
                /\ request' = [request EXCEPT ![r] = [p EXCEPT !.stage = "fallback", !.tries = 0]]
                /\ UNCHANGED circuit
             \/ q.tries = Retries /\ q.stage # "stream" /\ Fails(r, p)

\* An answer that cannot be decoded, a stream that breaks, a sink that refuses the
\* text: no retry by the client.
AttemptBreaks(r) ==
    /\ request[r].stage \in {"stream", "plain", "fallback"}
    /\ \/ Fails(r, WithError(request[r], "other"))
       \/ request[r].stage = "fallback" /\ Fails(r, [request[r] EXCEPT !.error = "other"])

CooldownElapses(p) ==
    /\ circuit[p].state = "open"
    /\ circuit' = [circuit EXCEPT ![p].state = "half_open"]
    /\ UNCHANGED request

ReturnAnswer(r) ==
    /\ request[r].stage \in {"ok", "error"}
    /\ request' = [request EXCEPT ![r] = NoRequest]
    /\ UNCHANGED circuit

FailoverNext ==
    \/ \E r \in Requests : \/ Ask(r) \/ Answer(r) \/ AnswerCompatibly(r) \/ Delta(r) \/ AttemptFails(r)
                           \/ AttemptBreaks(r) \/ ReturnAnswer(r)
    \/ \E p \in Providers : CooldownElapses(p)

FailoverSpec == FailoverInit /\ [][FailoverNext]_failoverVars

\* Failing over is sound: a reader never gets text of two providers for one
\* request, a request fails only when every provider that was admitted has been
\* tried or going on was pointless, and a circuit is open only after as many
\* failures in a row as it takes.
FailoverIsSound ==
    /\ \A r \in Requests :
          /\ Cardinality(request[r].spoke) <= 1
          /\ request[r].stage = "error" =>
                \/ request[r].tried = request[r].admitted
                \/ request[r].error = "shape" \/ request[r].spoke # {}
    /\ \A p \in Providers : circuit[p].state # "closed" => circuit[p].fails >= Failures
=============================================================================
