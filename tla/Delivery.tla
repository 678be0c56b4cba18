------------------------------ MODULE Delivery ------------------------------
(***************************************************************************)
(* Telegram updates in, replies out.                                       *)
(*                                                                         *)
(* A poller fetches the updates Telegram has not had confirmed, admits     *)
(* each one through the durable admission ledger, processes it and settles *)
(* the ledger row.  A reply is cut into parts and sent part by part; when  *)
(* a part fails the remainder goes to the durable outbound queue, which a  *)
(* janitor drains.  A poller may die at any step: by a crash, or because a *)
(* configuration reload aborts it (stop_channel_workers); its successor    *)
(* starts with offset 0 and is given every unconfirmed update again.       *)
(*                                                                         *)
(* Telegram itself is external: it keeps an update until a getUpdates call *)
(* carries a larger offset, and a send that fails may have been delivered. *)
(***************************************************************************)
EXTENDS Integers, Sequences, FiniteSets

CONSTANTS
    Pollers,        \* processes that poll for the same bot
    ReplyPlans,     \* the updates that may arrive: sequences of the number of
                    \* parts each one's reply is rendered into (0: no reply)
    MaxAttempts,    \* TELEGRAM_ADMISSION_MAX_ATTEMPTS
    MaxRetries,     \* attempts after which the janitor gives a row up
    MaxDeaths,      \* bound: pollers that die
    MaxLedgerErrors \* bound: writes of the tables that fail

ASSUME DeliveryAssumption ==
    /\ ReplyPlans \subseteq Seq(Nat)
    /\ MaxAttempts \in Nat \ {0} /\ MaxRetries \in Nat
    /\ MaxDeaths \in Nat /\ MaxLedgerErrors \in Nat

VARIABLES
    reply,      \* update -> parts of its reply
    confirmed,  \* the largest update Telegram has had confirmed
    poller,     \* poller -> its offset, the batch in hand and what it does
    adm,        \* telegram_admissions: update -> row
    starts,     \* history: update -> times its processing was started
    got,        \* update -> parts the chat received, once or more
    queue,      \* telegram_outbound_queue: sequence of rows
    janitor,    \* the rows of the janitor's list_due, and the part to send
    deaths, ledgerErrors

deliveryVars ==
    <<reply, confirmed, poller, adm, starts, got, queue, janitor, deaths,
      ledgerErrors>>

MaxUpdate == Len(reply)
Updates == 1 .. MaxUpdate
PartIds(u) == 1 .. reply[u]

Idle == [offset |-> 0, batch |-> <<>>, at |-> "poll", part |-> 1]
NoRow == [status |-> "none", attempts |-> 0, lease |-> "none"]

DeliveryInit ==
    /\ reply \in ReplyPlans
    /\ confirmed = 0
    /\ poller = [p \in Pollers |-> Idle]
    /\ adm = [u \in Updates |-> NoRow]
    /\ starts = [u \in Updates |-> 0]
    /\ got = [u \in Updates |-> {}]
    /\ queue = <<>>
    /\ janitor = [rows |-> <<>>, part |-> 1]
    /\ deaths = 0 /\ ledgerErrors = 0

Current(p) == Head(poller[p].batch)

Larger(a, b) == IF a > b THEN a ELSE b

(***************************************************************************)
(* The poller.                                                             *)
(***************************************************************************)

\* Updates after the confirmed ones, up to `last', in order.
BatchUpTo(base, last) == [k \in 1 .. last - base |-> base + k]

\* Mutant: the server is told of the whole batch before it is processed.
FetchAndConfirm(p) ==
    /\ poller[p].at = "poll" /\ poller[p].batch = <<>>
    /\ \E last \in confirmed + 1 .. MaxUpdate :
          /\ confirmed' = last
          /\ poller' = [poller EXCEPT ![p].batch = BatchUpTo(confirmed, last)]
    /\ UNCHANGED <<adm, starts, got, queue, janitor, deaths, ledgerErrors>>

\* getUpdates(offset): confirms everything below the offset, and returns the
\* rest in order.
FetchUpdates(p) ==
    /\ poller[p].at = "poll" /\ poller[p].batch = <<>>
    /\ LET base == Larger(confirmed, poller[p].offset - 1)
       IN /\ confirmed' = base
          /\ \E last \in base .. MaxUpdate :
                poller' = [poller EXCEPT ![p].batch = BatchUpTo(base, last)]
    /\ UNCHANGED <<adm, starts, got, queue, janitor, deaths, ledgerErrors>>

\* The admission: a first sight inserts the row, a row whose lease died is
\* taken over while attempts remain; anything else is a duplicate.
Owns(u) ==
    \/ adm[u].status = "none"
    \/ /\ adm[u].status = "processing"
       /\ adm[u].lease # "live"
       /\ adm[u].attempts < MaxAttempts

Started(p, u) ==
    /\ poller' = [poller EXCEPT ![p].offset = Larger(@, u + 1),
                                ![p].at = "process", ![p].part = 1]
    /\ starts' = [starts EXCEPT ![u] = @ + 1]

Admit(p) ==
    /\ poller[p].at = "poll" /\ poller[p].batch # <<>>
    /\ LET u == Current(p)
       IN \/ /\ Owns(u)
             /\ Started(p, u)
             /\ adm' = [adm EXCEPT ![u] =
                          [status |-> "processing",
                           attempts |-> adm[u].attempts + 1, lease |-> "live"]]
          \/ /\ ~Owns(u)
             /\ poller' = [poller EXCEPT ![p].offset = Larger(@, u + 1),
                                         ![p].batch = Tail(@)]
             /\ UNCHANGED <<adm, starts>>
    /\ UNCHANGED <<confirmed, got, queue, janitor, deaths, ledgerErrors>>

\* The ledger could not be written: the update is processed all the same.
AdmitFailsOpen(p) ==
    /\ poller[p].at = "poll" /\ poller[p].batch # <<>>
    /\ ledgerErrors < MaxLedgerErrors
    /\ ledgerErrors' = ledgerErrors + 1
    /\ Started(p, Current(p))
    /\ UNCHANGED <<confirmed, adm, got, queue, janitor, deaths>>

\* process_telegram_update: the update is handled without a reply (ignored,
\* refused, consumed as feedback or as a command), fails before one, or is
\* answered.
Process(p) ==
    /\ poller[p].at = "process"
    /\ \E next \in {"finish", "fail", "send"} :
          /\ next = "send" => reply[Current(p)] > 0
          /\ poller' = [poller EXCEPT ![p].at = next]
    /\ UNCHANGED <<confirmed, adm, starts, got, queue, janitor, deaths,
                   ledgerErrors>>

\* sendMessage for one part: delivered or not, and reported as sent or not.
\* A part reported as sent was delivered.
SendOutcomes ==
    {o \in [delivered : BOOLEAN, ok : BOOLEAN] : o.ok => o.delivered}

Receive(u, i, o) ==
    got' = IF o.delivered THEN [got EXCEPT ![u] = @ \cup {i}] ELSE got

Row(u, from) ==
    [update |-> u, from |-> from, status |-> "pending", attempts |-> 0,
     due |-> TRUE]

\* Mutant: the remainder starts after the part that failed.
RemainderAfter(u, i) == Row(u, i + 1)

\* The undelivered remainder: the failed part and everything after it.
Remainder(u, i) == Row(u, i)

\* A write whose error is only logged: it is made, or it fails.
Written(old, new, next) ==
    \/ next = new /\ UNCHANGED ledgerErrors
    \/ /\ ledgerErrors < MaxLedgerErrors
       /\ next = old /\ ledgerErrors' = ledgerErrors + 1

\* send_message_with_ids: the first failure enqueues the remainder (which may
\* itself fail and is only logged) and fails the update.
SendPart(p) ==
    /\ poller[p].at = "send"
    /\ \E o \in SendOutcomes :
         LET u == Current(p)
             i == poller[p].part
         IN /\ Receive(u, i, o)
            /\ \/ /\ o.ok /\ i < reply[u]
                  /\ poller' = [poller EXCEPT ![p].part = i + 1]
                  /\ UNCHANGED <<queue, ledgerErrors>>
               \/ /\ o.ok /\ i = reply[u]
                  /\ poller' = [poller EXCEPT ![p].at = "finish"]
                  /\ UNCHANGED <<queue, ledgerErrors>>
               \/ /\ ~o.ok
                  /\ poller' = [poller EXCEPT ![p].at = "fail"]
                  /\ Written(queue, Append(queue, Remainder(u, i)), queue')
    /\ UNCHANGED <<confirmed, adm, starts, janitor, deaths>>

\* Mutant: the settled status overwrites whatever the row says.
OverwrittenRow(u, status) == [adm[u] EXCEPT !.status = status]

\* finish and fail settle whatever row is still in processing: they carry no
\* lease or attempt, so a poller that lost its lease settles its successor's
\* row.
SettledRow(u, status) ==
    IF adm[u].status = "processing"
    THEN [adm[u] EXCEPT !.status = status] ELSE adm[u]

SettleAdmission(p) ==
    /\ poller[p].at \in {"finish", "fail"}
    /\ LET u == Current(p)
           status == IF poller[p].at = "finish" THEN "done" ELSE "failed"
       IN Written(adm, [adm EXCEPT ![u] = SettledRow(u, status)], adm')
    /\ poller' = [poller EXCEPT ![p].at = "poll", ![p].batch = Tail(@)]
    /\ UNCHANGED <<confirmed, starts, got, queue, janitor, deaths>>

IsStale(u) == adm[u].status = "processing" /\ adm[u].lease = "stale"

\* The periodic sweep at the head of the polling loop: rows whose lease died
\* long ago become visible failures.
SweepStale(p) ==
    /\ poller[p].at = "poll" /\ poller[p].batch = <<>>
    /\ \E u \in Updates : IsStale(u)
    /\ adm' = [u \in Updates |->
                 IF IsStale(u) THEN [adm[u] EXCEPT !.status = "failed"] ELSE adm[u]]
    /\ UNCHANGED <<confirmed, poller, starts, got, queue, janitor, deaths,
                   ledgerErrors>>

\* The lease runs out after 120 s, and is long dead 300 s later.
LeaseAges(u) ==
    /\ adm[u].status = "processing" /\ adm[u].lease # "stale"
    /\ adm' = [adm EXCEPT ![u].lease = IF @ = "live" THEN "expired" ELSE "stale"]
    /\ UNCHANGED <<confirmed, poller, starts, got, queue, janitor, deaths,
                   ledgerErrors>>

\* A crash, or a reload that aborts the worker: nothing is settled, and the
\* next poller starts over from offset 0.
PollerDies(p) ==
    /\ deaths < MaxDeaths
    /\ poller[p] # Idle
    /\ deaths' = deaths + 1
    /\ poller' = [poller EXCEPT ![p] = Idle]
    /\ UNCHANGED <<confirmed, adm, starts, got, queue, janitor, ledgerErrors>>

(***************************************************************************)
(* The outbound queue's janitor.                                           *)
(***************************************************************************)
Due == {k \in DOMAIN queue : queue[k].status = "pending" /\ queue[k].due}

\* A tick: the due rows are read once and worked off in order.
ListDue ==
    /\ janitor.rows = <<>>
    /\ \E first \in Due :
          /\ \A m \in Due : first <= m
          /\ \E rows \in {<<first>>} \cup {<<first, k>> : k \in Due \ {first}} :
                janitor' = [rows |-> rows, part |-> queue[first].from]
    /\ UNCHANGED <<confirmed, poller, adm, starts, got, queue, deaths, ledgerErrors>>

NextRow(rows) ==
    IF Len(rows) = 1 THEN [rows |-> <<>>, part |-> 1]
    ELSE [rows |-> Tail(rows), part |-> queue[rows[2]].from]

\* attempts >= 48 gives the row up, fewer back off and try the row again.
RetriedRow(row) ==
    IF row.attempts >= MaxRetries THEN [row EXCEPT !.status = "dead"]
    ELSE [row EXCEPT !.attempts = @ + 1, !.due = FALSE]

\* The janitor's sender has no queue: a failing part fails the whole row,
\* which is sent again from its first part.
Drain ==
    /\ janitor.rows # <<>>
    /\ \E o \in SendOutcomes :
         LET k == Head(janitor.rows)
             row == queue[k]
         IN /\ Receive(row.update, janitor.part, o)
            /\ \/ /\ o.ok /\ janitor.part < reply[row.update]
                  /\ janitor' = [janitor EXCEPT !.part = @ + 1]
                  /\ UNCHANGED <<queue, ledgerErrors>>
               \/ /\ o.ok /\ janitor.part = reply[row.update]
                  /\ Written(queue, [queue EXCEPT ![k].status = "sent"], queue')
                  /\ janitor' = NextRow(janitor.rows)
               \/ /\ ~o.ok
                  /\ Written(queue, [queue EXCEPT ![k] = RetriedRow(row)], queue')
                  /\ janitor' = NextRow(janitor.rows)
    /\ UNCHANGED <<confirmed, poller, adm, starts, deaths>>

RowFallsDue(k) ==
    /\ queue[k].status = "pending" /\ ~queue[k].due
    /\ queue' = [queue EXCEPT ![k].due = TRUE]
    /\ UNCHANGED <<confirmed, poller, adm, starts, got, janitor, deaths,
                   ledgerErrors>>

JanitorDies ==
    /\ deaths < MaxDeaths /\ janitor.rows # <<>>
    /\ deaths' = deaths + 1
    /\ janitor' = [rows |-> <<>>, part |-> 1]
    /\ UNCHANGED <<confirmed, poller, adm, starts, got, queue, ledgerErrors>>

DeliveryNext ==
  /\ \/ \E p \in Pollers :
          \/ FetchUpdates(p) \/ Admit(p) \/ AdmitFailsOpen(p) \/ Process(p)
          \/ SendPart(p) \/ SettleAdmission(p) \/ SweepStale(p) \/ PollerDies(p)
     \/ \E u \in Updates : LeaseAges(u)
     \/ ListDue \/ Drain \/ JanitorDies
     \/ \E k \in DOMAIN queue : RowFallsDue(k)
  /\ UNCHANGED reply

DeliverySpec == DeliveryInit /\ [][DeliveryNext]_deliveryVars

(***************************************************************************)
(* Properties.                                                             *)
(***************************************************************************)
DeliveryTypeOK ==
    /\ confirmed \in 0 .. MaxUpdate
    /\ poller \in [Pollers ->
         [offset : 0 .. MaxUpdate + 1, batch : Seq(Updates),
          at : {"poll", "process", "send", "finish", "fail"}, part : Nat]]
    /\ adm \in [Updates ->
         [status : {"none", "processing", "done", "failed"},
          attempts : 0 .. MaxAttempts,
          lease : {"none", "live", "expired", "stale"}]]
    /\ starts \in [Updates -> Nat]
    /\ \A u \in Updates : got[u] \subseteq PartIds(u)
    /\ queue \in Seq([update : Updates, from : Nat \ {0},
                      status : {"pending", "sent", "dead"},
                      attempts : 0 .. MaxRetries, due : BOOLEAN])
    /\ janitor.rows \in Seq(DOMAIN queue)

\* An update Telegram has had confirmed is never lost without a trace: it has
\* a ledger row, or its processing was started by the fail-open path, whatever
\* poller died where.
NoSilentLoss ==
    \A u \in 1 .. confirmed : adm[u].status # "none" \/ starts[u] > 0

\* A poison update is not processed for ever: re-deliveries start an update at
\* most TELEGRAM_ADMISSION_MAX_ATTEMPTS times, plus once for every admission
\* that failed open.
PoisonIsBounded ==
    \A u \in Updates : starts[u] <= MaxAttempts + ledgerErrors

\* Both: a confirmed update is accounted for, and none is processed for ever.
UpdatesAreAccounted == NoSilentLoss /\ PoisonIsBounded

\* Every part of a reply that was ever queued is received, or waits in a row
\* that is pending or was given up as dead: the row's remainder begins no later
\* than the first part the chat has not received, and a row closed as sent left
\* none of its parts undelivered.
NoPartLost ==
    \A k \in DOMAIN queue :
       LET row == queue[k]
       IN \A i \in PartIds(row.update) :
             (i < row.from \/ row.status = "sent") => i \in got[row.update]

\* A settled admission is final: no late finish, failure, sweep or re-delivery
\* changes it.
SettledIsFinal ==
    [][\A u \in Updates :
          adm[u].status \in {"done", "failed"} => adm'[u] = adm[u]]_adm
=============================================================================
