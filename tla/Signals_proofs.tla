--------------------------- MODULE Signals_proofs ---------------------------
(***************************************************************************)
(* Proofs about the signal inbox, for every set of signals, gates and       *)
(* callers.                                                                 *)
(*                                                                         *)
(* OneGoalPerSignal is not inductive: that a signal is marked proposed only *)
(* when its goal exists depends on the caller that is about to mark it.     *)
(* GoalBeforeMark says that such a caller has admitted the goal, and a goal *)
(* is never taken back.                                                     *)
(***************************************************************************)
EXTENDS Signals, TLAPS

\* A caller between admitting the goal and marking the signal has admitted it.
GoalBeforeMark == \A o \in Caller : In(o, "mark") => goals[call[o][2]] = 1

Inbox == SignalsTypeOK /\ GoalBeforeMark /\ OneGoalPerSignal /\ GateIsAnnounced

-----------------------------------------------------------------------------
(* What a step does, one kind of step at a time.                            *)

\* A caller in a call knows the verb and the signal.
LEMMA CallFields ==
    ASSUME SignalsTypeOK, NEW o \in Caller, call[o] # NoCall
    PROVE  /\ call[o] = <<call[o][1], call[o][2]>>
           /\ call[o][1] \in Verb /\ call[o][2] \in Signal
BY DEF SignalsTypeOK

\* A gate is a signal.
LEMMA GatesAreSignals == Gate \subseteq Signal /\ Report \subseteq Signal
BY DEF Signal

\* The steps that enter, leave or move within a call and write nothing.
CallOnly ==
    /\ UNCHANGED <<status, goals, announcing, missed>>
    /\ \/ UNCHANGED gate
       \/ \E i \in Gate, to \in {"working", "settled"} : gate' = [gate EXCEPT ![i] = to]
    /\ \/ UNCHANGED call
       \/ \E o \in Caller, c \in ((Verb \ {"mark"}) \X Signal) \union {NoCall} :
             call' = [call EXCEPT ![o] = c]

\* Steps of that kind keep the invariant.
LEMMA CallOnlyKept ==
    ASSUME Inbox, CallOnly
    PROVE  Inbox'
<1>1. SignalsTypeOK'
  BY DEF Inbox, CallOnly, SignalsTypeOK
<1>2. GoalBeforeMark'
  <2> SUFFICES ASSUME NEW o \in Caller, In(o, "mark")' PROVE goals'[call'[o][2]] = 1
    BY DEF GoalBeforeMark
  <2>1. call'[o] = call[o]
    BY DEF CallOnly, In, NoCall, Inbox, SignalsTypeOK
  <2> QED BY <2>1 DEF CallOnly, In, Inbox, GoalBeforeMark
<1>3. OneGoalPerSignal'
  BY DEF Inbox, CallOnly, OneGoalPerSignal
<1>4. GateIsAnnounced'
  BY DEF Inbox, CallOnly, GateIsAnnounced, SignalsTypeOK
<1> QED BY <1>1, <1>2, <1>3, <1>4 DEF Inbox

\* An event other than "proposed" is appended, and the call may end.
LEMMA EventKept ==
    ASSUME Inbox, NEW s \in Signal, NEW to \in {"observed", "triaged", "ignored"},
           status' = [status EXCEPT ![s] = to] \/ status' = status,
           UNCHANGED <<goals, gate, announcing, missed>>,
           \/ UNCHANGED call
           \/ \E o \in Caller : Return(o)
    PROVE  Inbox'
<1>1. SignalsTypeOK'
  BY DEF Inbox, SignalsTypeOK, Return
<1>2. GoalBeforeMark'
  <2> SUFFICES ASSUME NEW o \in Caller, In(o, "mark")' PROVE goals'[call'[o][2]] = 1
    BY DEF GoalBeforeMark
  <2>1. call'[o] = call[o]
    BY DEF In, NoCall, Inbox, SignalsTypeOK, Return
  <2> QED BY <2>1 DEF In, Inbox, GoalBeforeMark
<1>3. OneGoalPerSignal'
  BY DEF Inbox, OneGoalPerSignal, SignalsTypeOK
<1>4. GateIsAnnounced'
  BY GatesAreSignals DEF Inbox, GateIsAnnounced, SignalsTypeOK
<1> QED BY <1>1, <1>2, <1>3, <1>4 DEF Inbox

\* create_goal_admission admits the one goal of the signal.
LEMMA CreateKept ==
    ASSUME Inbox, NEW o \in Caller, CreateGoal(o)
    PROVE  Inbox'
<1> DEFINE s == call[o][2]
<1>1. s \in Signal /\ UNCHANGED <<status, gate, announcing, missed>>
  BY CallFields DEF Inbox, CreateGoal, In
<1>2. /\ goals' = [goals EXCEPT ![s] = IF @ = 0 THEN 1 ELSE @]
      /\ call' = [call EXCEPT ![o] = <<"mark", s>>]
  BY DEF CreateGoal, AdmitGoal
<1> HIDE DEF s
<1>3. SignalsTypeOK'
  BY <1>1, <1>2 DEF Inbox, SignalsTypeOK, Verb
<1>4. goals'[s] = 1 /\ \A r \in Signal : goals[r] = 1 => goals'[r] = 1
  BY <1>1, <1>2 DEF Inbox, SignalsTypeOK, OneGoalPerSignal
<1>5. GoalBeforeMark'
  <2> SUFFICES ASSUME NEW p \in Caller, In(p, "mark")' PROVE goals'[call'[p][2]] = 1
    BY DEF GoalBeforeMark
  <2>1. CASE p = o
    <3>1. call'[p] = <<"mark", s>>
      BY <1>2, <2>1 DEF Inbox, SignalsTypeOK
    <3> QED BY <1>4, <3>1
  <2>2. CASE p # o
    <3>1. call'[p] = call[p]
      BY <1>2, <2>2 DEF Inbox, SignalsTypeOK
    <3>2. In(p, "mark") /\ call[p][2] \in Signal
      BY <3>1, CallFields DEF In, Inbox
    <3> QED BY <1>4, <3>1, <3>2 DEF Inbox, GoalBeforeMark
  <2> QED BY <2>1, <2>2
<1>6. OneGoalPerSignal'
  BY <1>1, <1>2, <1>4 DEF Inbox, OneGoalPerSignal, SignalsTypeOK
<1>7. GateIsAnnounced'
  BY <1>1 DEF Inbox, GateIsAnnounced
<1> QED BY <1>3, <1>5, <1>6, <1>7 DEF Inbox

\* mark_signal_proposed finds the goal that its own call admitted.
LEMMA MarkKept ==
    ASSUME Inbox, NEW o \in Caller, MarkSignalProposed(o)
    PROVE  Inbox'
<1> DEFINE s == call[o][2]
<1>1. s \in Signal /\ UNCHANGED <<goals, gate, announcing, missed>> /\ goals[s] = 1
  BY CallFields DEF Inbox, MarkSignalProposed, In, GoalBeforeMark
<1>2. status' = [status EXCEPT ![s] = "proposed"] /\ call' = [call EXCEPT ![o] = NoCall]
  BY DEF MarkSignalProposed, AppendEvent, Return
<1> HIDE DEF s
<1>3. SignalsTypeOK'
  BY <1>1, <1>2 DEF Inbox, SignalsTypeOK
<1>4. GoalBeforeMark'
  <2> SUFFICES ASSUME NEW p \in Caller, In(p, "mark")' PROVE goals'[call'[p][2]] = 1
    BY DEF GoalBeforeMark
  <2>1. call'[p] = call[p]
    BY <1>2 DEF In, Inbox, SignalsTypeOK
  <2> QED BY <1>1, <2>1 DEF In, Inbox, GoalBeforeMark
<1>5. OneGoalPerSignal'
  BY <1>1, <1>2 DEF Inbox, OneGoalPerSignal, SignalsTypeOK
<1>6. GateIsAnnounced'
  BY <1>1, <1>2, GatesAreSignals DEF Inbox, GateIsAnnounced, SignalsTypeOK
<1> QED BY <1>3, <1>4, <1>5, <1>6 DEF Inbox

\* Parking, announcing and missing the announcement.
LEMMA GateKept ==
    ASSUME Inbox, NEW i \in Gate, Park(i) \/ Announce(i) \/ FailToAnnounce(i)
    PROVE  Inbox'
<1> USE DEF Inbox
<1>1. i \in Signal /\ announcing[i] \in Nat
  BY GatesAreSignals, SignalAssumption DEF SignalsTypeOK
<1>2. CASE Park(i)
  <2>1. UNCHANGED <<status, goals, call, missed>>
    BY <1>2 DEF Park
  <2>2. SignalsTypeOK'
    BY <1>1, <1>2, SignalAssumption DEF Park, SignalsTypeOK
  <2>3. GateIsAnnounced'
    BY <1>1, <1>2, SignalAssumption DEF Park, SignalsTypeOK, GateIsAnnounced
  <2> QED BY <2>1, <2>2, <2>3 DEF GoalBeforeMark, OneGoalPerSignal, In
<1>3. CASE Announce(i)
  <2>1. UNCHANGED <<goals, call, gate, missed>>
        /\ status' = [status EXCEPT ![i] = IF @ = "none" THEN "observed" ELSE @]
        /\ announcing' = [announcing EXCEPT ![i] = @ - 1] /\ announcing[i] > 0
    BY <1>3 DEF Announce, Ingest
  <2>2. SignalsTypeOK'
    BY <1>1, <2>1, SignalAssumption DEF SignalsTypeOK
  <2>3. GateIsAnnounced'
    BY <1>1, <2>1, GatesAreSignals DEF SignalsTypeOK, GateIsAnnounced
  <2>4. OneGoalPerSignal'
    BY <1>1, <2>1 DEF SignalsTypeOK, OneGoalPerSignal
  <2> QED BY <2>1, <2>2, <2>3, <2>4 DEF GoalBeforeMark, In
<1>4. CASE FailToAnnounce(i)
  <2>1. UNCHANGED <<status, goals, call>>
    BY <1>4 DEF FailToAnnounce
  <2>2. SignalsTypeOK'
    BY <1>1, <1>4, SignalAssumption DEF FailToAnnounce, SignalsTypeOK
  <2>3. GateIsAnnounced'
    BY <1>1, <1>4 DEF FailToAnnounce, SignalsTypeOK, GateIsAnnounced
  <2> QED BY <2>1, <2>2, <2>3 DEF GoalBeforeMark, OneGoalPerSignal, In
<1> QED BY <1>2, <1>3, <1>4

\* Every step of the inbox is of one of these kinds.
LEMMA InboxKept == Inbox /\ [Next]_vars => Inbox'
<1> SUFFICES ASSUME Inbox, [Next]_vars PROVE Inbox'
  OBVIOUS
<1>1. ASSUME NEW s \in Report, IngestReport(s) PROVE Inbox'
  <2>1. s \in Signal /\ UNCHANGED <<goals, call, gate, announcing, missed>>
    BY <1>1, GatesAreSignals DEF IngestReport
  <2>2. status' = [status EXCEPT ![s] = "observed"] \/ status' = status
    BY <1>1, <2>1 DEF IngestReport, Ingest, Inbox, SignalsTypeOK
  <2> QED BY <2>1, <2>2, EventKept
<1>2. ASSUME NEW o \in Caller, NEW s \in Signal,
             BeginIgnore(o, s) \/ BeginTriage(o, s) \/ BeginPropose(o, s)
      PROVE  Inbox'
  <2>1. CallOnly
    BY <1>2 DEF BeginIgnore, BeginTriage, BeginPropose, Begin, CallOnly, Verb
  <2> QED BY <2>1, CallOnlyKept
<1>3. ASSUME NEW o \in Caller, AppendIgnored(o) \/ AppendTriaged(o) PROVE Inbox'
  <2>1. call[o][2] \in Signal
    BY <1>3, CallFields DEF AppendIgnored, AppendTriaged, In, Inbox
  <2> QED BY <1>3, <2>1, EventKept DEF AppendIgnored, AppendTriaged, AppendEvent
<1>4. ASSUME NEW o \in Caller, NEW i \in Gate, Resolve(o, i) PROVE Inbox'
  <2>1. CallOnly
    BY <1>4, GatesAreSignals DEF Resolve, CallOnly, Verb
  <2> QED BY <2>1, CallOnlyKept
<1>5. ASSUME NEW o \in Caller, ClearSignal(o) \/ Crash(o) PROVE Inbox'
  <2>1. CASE ClearSignal(o)
    <3>1. call[o][2] \in Signal
      BY <2>1, CallFields DEF ClearSignal, In, Inbox
    <3>2. \E c \in ((Verb \ {"mark"}) \X Signal) \union {NoCall} : call' = [call EXCEPT ![o] = c]
      BY <2>1, <3>1 DEF ClearSignal, Verb
    <3>3. CallOnly
      BY <2>1, <3>2 DEF ClearSignal, CallOnly
    <3> QED BY <3>3, CallOnlyKept
  <2>2. CASE Crash(o)
    BY <2>2, CallOnlyKept DEF Crash, Return, CallOnly
  <2> QED BY <1>5, <2>1, <2>2
<1>6. ASSUME NEW i \in Gate, CloseGate(i) PROVE Inbox'
  BY <1>6, CallOnlyKept DEF CloseGate, CallOnly
<1>7. CASE UNCHANGED vars
  BY <1>7, CallOnlyKept DEF vars, CallOnly
<1> QED BY <1>1, <1>2, <1>3, <1>4, <1>5, <1>6, <1>7, CreateKept, MarkKept, GateKept DEF Next

-----------------------------------------------------------------------------
\* The inductive invariant of the inbox holds whatever the callers do.
THEOREM InboxHolds == Spec => []Inbox
<1>1. Init => Inbox
  <2> SUFFICES ASSUME Init PROVE Inbox
    OBVIOUS
  <2>1. SignalsTypeOK
    BY SignalAssumption DEF Init, SignalsTypeOK
  <2> QED BY <2>1 DEF Init, Inbox, GoalBeforeMark, In, OneGoalPerSignal, GateIsAnnounced
<1> QED BY <1>1, InboxKept, PTL DEF Spec

\* However many callers of propose_signal race and crash, a signal leads to one goal and
\* is marked proposed only when that goal exists.
THEOREM OneGoalHolds == Spec => []OneGoalPerSignal
<1>1. Inbox => OneGoalPerSignal
  BY DEF Inbox
<1> QED BY <1>1, InboxHolds, PTL

\* A parked gate without a signal is one whose announcement is on its way or was lost.
THEOREM AnnouncementHolds == Spec => []GateIsAnnounced
<1>1. Inbox => GateIsAnnounced
  BY DEF Inbox
<1> QED BY <1>1, InboxHolds, PTL

\* No step of any caller takes a signal back or makes a handled one look new.
THEOREM HandledHolds == Spec => HandledIsNeverNew
<1>1. Inbox /\ [Next]_vars =>
        [\A s \in Signal :
           /\ status[s] # "none" => status'[s] # "none"
           /\ status[s] \notin {"none", "observed"} => status'[s] # "observed"]_vars
  <2> SUFFICES ASSUME Inbox, Next
               PROVE  \A s \in Signal :
                        /\ status[s] # "none" => status'[s] # "none"
                        /\ status[s] \notin {"none", "observed"} => status'[s] # "observed"
    OBVIOUS
  <2>1. \/ UNCHANGED status
        \/ \E s \in Signal : Ingest(s)
        \/ \E s \in Signal, to \in {"ignored", "triaged", "proposed"} : AppendEvent(s, to)
    BY CallFields, GatesAreSignals
    DEF Next, Inbox, IngestReport, BeginIgnore, BeginTriage, BeginPropose, Begin,
        AppendIgnored, AppendTriaged, CreateGoal, MarkSignalProposed, Resolve, ClearSignal,
        Crash, Park, Announce, FailToAnnounce, CloseGate, In
  <2> QED BY <2>1 DEF Ingest, AppendEvent, Inbox, SignalsTypeOK
<1> QED BY <1>1, InboxHolds, PTL DEF Spec, HandledIsNeverNew
=============================================================================
