------------------------------ MODULE Signals ------------------------------
(***************************************************************************)
(* The signal inbox of src/harness/loop_engine/signals.rs and the           *)
(* confirmation gates that report to it.  A signal's status is that of its  *)
(* newest event; ignore, triage and propose read it first and append their  *)
(* event in a transaction of their own, so two callers may interleave.      *)
(*                                                                         *)
(* A work item that parks in waiting_confirmation announces its gate by     *)
(* ingesting a signal after the parking transaction; the operator's verdict *)
(* clears that signal after its own transaction.                            *)
(*                                                                         *)
(* A signal stands for its deduplication key: ingesting the key again finds *)
(* the signal there is.                                                     *)
(***************************************************************************)
EXTENDS Integers

CONSTANTS
    Report,        \* signals other parts of the system ingest
    Gate,          \* work items that may park, each with its confirm:{id} signal
    Caller,        \* concurrent callers of the signal and confirmation API
    MaxAnnouncers  \* bound: recoveries of one item that have yet to announce it

ASSUME SignalAssumption ==
    /\ Report \intersect Gate = {}
    /\ MaxAnnouncers \in Nat \ {0}

Signal == Report \union Gate
Pending == {"observed", "triaged"}

VARIABLES
    status,      \* signal -> status of its newest event, "none" before it exists
    goals,       \* signal -> goals admitted under the request id signal:{id}
    call,        \* caller -> the call it is in and the signal it is about
    gate,        \* work item -> working | parked | settled
    announcing,  \* work item -> parkings committed, signal not ingested yet
    missed       \* history: work items that parked without announcing it

vars == <<status, goals, call, gate, announcing, missed>>

NoCall == <<>>
Verb == {"ignore", "triage", "propose", "mark", "clear"}

\* Statuses are those of SignalStatus, calls are the ones the API has, and no recovery
\* announces a gate it has not parked.
SignalsTypeOK ==
    /\ status \in [Signal -> {"none", "observed", "triaged", "proposed", "ignored"}]
    /\ goals \in [Signal -> Nat]
    /\ call \in [Caller -> (Verb \X Signal) \union {NoCall}]
    /\ gate \in [Gate -> {"working", "parked", "settled"}]
    /\ announcing \in [Gate -> 0..MaxAnnouncers]
    /\ missed \subseteq Gate

Init ==
    /\ status = [s \in Signal |-> "none"]
    /\ goals = [s \in Signal |-> 0]
    /\ call = [o \in Caller |-> NoCall]
    /\ gate = [i \in Gate |-> "working"]
    /\ announcing = [i \in Gate |-> 0]
    /\ missed = {}

-----------------------------------------------------------------------------
(* The inbox.                                                               *)

\* Mutant: near-duplicate detection merges signals of different items.
IngestMerging(s) ==
    status' = [status EXCEPT ![s] =
        IF \A r \in Signal : status[r] = "none" THEN "observed" ELSE @]

\* Mutant: a duplicate is observed afresh.
IngestAgain(s) == status' = [status EXCEPT ![s] = "observed"]

\* ingest_signal inserts the signal and its first event, or finds a duplicate.
Ingest(s) ==
    status' = [status EXCEPT ![s] = IF @ = "none" THEN "observed" ELSE @]

IngestReport(s) ==
    /\ s \in Report
    /\ Ingest(s)
    /\ UNCHANGED <<goals, call, gate, announcing, missed>>

\* insert_signal_event_tx: whatever the newest event says by now.
AppendEvent(s, to) == status' = [status EXCEPT ![s] = to]

Begin(o, verb, s) ==
    /\ call[o] = NoCall
    /\ call' = [call EXCEPT ![o] = <<verb, s>>]
    /\ UNCHANGED <<status, goals, gate, announcing, missed>>

BeginIgnore(o, s) == status[s] \in Pending /\ Begin(o, "ignore", s)
BeginTriage(o, s) == status[s] = "observed" /\ Begin(o, "triage", s)
BeginPropose(o, s) == status[s] \in Pending /\ Begin(o, "propose", s)

In(o, verb) == call[o] # NoCall /\ call[o][1] = verb
Return(o) == call' = [call EXCEPT ![o] = NoCall]

AppendIgnored(o) ==
    /\ In(o, "ignore")
    /\ AppendEvent(call[o][2], "ignored")
    /\ Return(o)
    /\ UNCHANGED <<goals, gate, announcing, missed>>

AppendTriaged(o) ==
    /\ In(o, "triage")
    /\ AppendEvent(call[o][2], "triaged")
    /\ Return(o)
    /\ UNCHANGED <<goals, gate, announcing, missed>>

\* Mutant: the request id is not looked up.
AdmitAnotherGoal(s) == goals' = [goals EXCEPT ![s] = IF @ < 2 THEN @ + 1 ELSE @]

\* create_goal_admission: the same request id finds the goal there is.
AdmitGoal(s) == goals' = [goals EXCEPT ![s] = IF @ = 0 THEN 1 ELSE @]

CreateGoal(o) ==
    /\ In(o, "propose")
    /\ AdmitGoal(call[o][2])
    /\ call' = [call EXCEPT ![o] = <<"mark", call[o][2]>>]
    /\ UNCHANGED <<status, gate, announcing, missed>>

MarkSignalProposed(o) ==
    /\ In(o, "mark")
    /\ AppendEvent(call[o][2], "proposed")
    /\ Return(o)
    /\ UNCHANGED <<goals, gate, announcing, missed>>

\* The caller's process stops inside the call.
Crash(o) ==
    /\ call[o] # NoCall
    /\ Return(o)
    /\ UNCHANGED <<status, goals, gate, announcing, missed>>

-----------------------------------------------------------------------------
(* Confirmation gates.                                                      *)

\* recover_goal_state commits the parking ...
Park(i) ==
    /\ gate[i] = "working"
    /\ announcing[i] < MaxAnnouncers
    /\ gate' = [gate EXCEPT ![i] = "parked"]
    /\ announcing' = [announcing EXCEPT ![i] = @ + 1]
    /\ UNCHANGED <<status, goals, call, missed>>

\* ... and ingests the signal afterwards, however the item fares meanwhile,
Announce(i) ==
    /\ announcing[i] > 0
    /\ announcing' = [announcing EXCEPT ![i] = @ - 1]
    /\ Ingest(i)
    /\ UNCHANGED <<goals, call, gate, missed>>

\* unless it crashes or the ingestion fails, which is only logged.
FailToAnnounce(i) ==
    /\ announcing[i] > 0
    /\ announcing' = [announcing EXCEPT ![i] = @ - 1]
    /\ missed' = missed \union {i}
    /\ UNCHANGED <<status, goals, call, gate>>

\* resolve_waiting_confirmation's transaction; a retry sends the item back to work.
Resolve(o, i) ==
    /\ call[o] = NoCall
    /\ gate[i] = "parked"
    /\ \E after \in {"working", "settled"} : gate' = [gate EXCEPT ![i] = after]
    /\ call' = [call EXCEPT ![o] = <<"clear", i>>]
    /\ UNCHANGED <<status, goals, announcing, missed>>

\* It then looks for a pending signal of the gate and ignores it.
ClearSignal(o) ==
    /\ In(o, "clear")
    /\ call' = [call EXCEPT ![o] = IF status[call[o][2]] \in Pending
                                   THEN <<"ignore", call[o][2]>> ELSE NoCall]
    /\ UNCHANGED <<status, goals, gate, announcing, missed>>

\* cancel_goal and mark_goal_for_replan close the item and leave its signal.
CloseGate(i) ==
    /\ gate[i] # "settled"
    /\ gate' = [gate EXCEPT ![i] = "settled"]
    /\ UNCHANGED <<status, goals, call, announcing, missed>>

Next ==
    \/ \E s \in Report : IngestReport(s)
    \/ \E o \in Caller :
         \/ \E s \in Signal : BeginIgnore(o, s) \/ BeginTriage(o, s) \/ BeginPropose(o, s)
         \/ AppendIgnored(o) \/ AppendTriaged(o)
         \/ CreateGoal(o) \/ MarkSignalProposed(o)
         \/ \E i \in Gate : Resolve(o, i)
         \/ ClearSignal(o)
         \/ Crash(o)
    \/ \E i \in Gate : Park(i) \/ Announce(i) \/ FailToAnnounce(i) \/ CloseGate(i)

Spec == Init /\ [][Next]_vars

-----------------------------------------------------------------------------
\* However many callers propose a signal at once, and wherever they crash between
\* admitting the goal and marking the signal, the signal leads to one goal, and it is
\* marked proposed only when that goal exists.
OneGoalPerSignal ==
    \A s \in Signal : goals[s] <= 1 /\ (status[s] = "proposed" => goals[s] = 1)

\* A parked gate has a signal once its announcement is made: the only parked items that
\* /signals never heard of are those whose recovery crashed or failed to ingest.
GateIsAnnounced ==
    \A i \in Gate :
        gate[i] = "parked" /\ announcing[i] = 0 /\ i \notin missed => status[i] # "none"

\* Racing callers may overwrite each other's verdict, but a signal that somebody has
\* handled never looks new again and none disappears.
HandledIsNeverNew ==
    [][\A s \in Signal :
        /\ status[s] # "none" => status'[s] # "none"
        /\ status[s] \notin {"none", "observed"} => status'[s] # "observed"]_vars

\* What the documentation says of triage: proposed and ignored are terminal.
VerdictsAreTerminal ==
    [][\A s \in Signal : status[s] \in {"proposed", "ignored"} => status'[s] = status[s]]_vars
=============================================================================
