----------------------------- MODULE MCChannel ------------------------------
(***************************************************************************)
(* The Telegram channel's four parts, each on its own small instance: they *)
(* share no table, so `part' picks the one a behaviour is about and the    *)
(* others stay in their initial state.                                     *)
(***************************************************************************)
EXTENDS Delivery, StreamSink, Scheduler, Routing, TLC

VARIABLE part

channelVars == <<part, deliveryVars, streamVars, schedulerVars, routingVars>>

MCPlans == {<<2>>, <<0, 0>>}
MCSetups ==
    {[admins |-> a, enabled |-> b, privateOnly |-> b, engine |-> c,
      scheduler |-> b, smart |-> c, username |-> TRUE] : a, b, c \in BOOLEAN}
MCSymmetry == Permutations(Pollers) \cup Permutations(Loops)

\* One initial state for each part that does not move.
Init ==
    /\ part \in {"delivery", "stream", "scheduler", "routing"}
    /\ DeliveryInit /\ StreamInit /\ SchedulerInit /\ RoutingInit
    /\ part # "delivery" => reply = <<2>>
    /\ part # "stream" => sink.prefer /\ sink.draft
    /\ part # "routing" => setup = CHOOSE s \in MCSetups : s.admins /\ s.enabled

Next ==
    \/ /\ part = "delivery" /\ DeliveryNext
       /\ UNCHANGED <<part, streamVars, schedulerVars, routingVars>>
    \/ /\ part = "stream" /\ StreamNext
       /\ UNCHANGED <<part, deliveryVars, schedulerVars, routingVars>>
    \/ /\ part = "scheduler" /\ SchedulerNext
       /\ UNCHANGED <<part, deliveryVars, streamVars, routingVars>>
    \/ /\ part = "routing" /\ RoutingNext
       /\ UNCHANGED <<part, deliveryVars, streamVars, schedulerVars>>

Spec == Init /\ [][Next]_channelVars

\* A settled admission and a finished job stay what they are, whoever writes
\* to their rows late.
ClosedStaysClosed == SettledIsFinal /\ FinishedStaysFinished
=============================================================================
