---------------------------- MODULE ReplyPromise -----------------------------
(***************************************************************************)
(* What a user is owed for one request that may outlast its reply window:  *)
(* an answer now, or a promise that is kept.  Every delivery beyond the    *)
(* first is excused by a fault, and nothing is delivered that was not      *)
(* promised.                                                               *)
(***************************************************************************)
EXTENDS Naturals

VARIABLES
    owed,        \* nothing yet, answered, promised, delivered, dropped
    deliveries,  \* how often the deferred answer was sent
    excuses      \* faults seen so far

promiseVars == <<owed, deliveries, excuses>>

Init == owed = "open" /\ deliveries = 0 /\ excuses = 0

\* A fault excuses a later duplicate, and may lose a request not yet promised.
Fault ==
    /\ excuses' = excuses + 1
    /\ owed' \in {owed, IF owed = "open" THEN "dropped" ELSE owed}
    /\ UNCHANGED deliveries

Settle ==
    /\ owed = "open"
    /\ owed' \in {"answered", "promised"}
    /\ UNCHANGED <<deliveries, excuses>>

Deliver ==
    /\ owed = "promised"
    /\ owed' = "delivered" /\ deliveries' = deliveries + 1
    /\ UNCHANGED excuses

Redeliver ==
    /\ owed = "delivered" /\ deliveries <= excuses
    /\ deliveries' = deliveries + 1
    /\ UNCHANGED <<owed, excuses>>

Next == Fault \/ Settle \/ Deliver \/ Redeliver

Spec == Init /\ [][Next]_promiseVars /\ WF_promiseVars(Deliver)
=============================================================================
