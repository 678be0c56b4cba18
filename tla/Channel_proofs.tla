--------------------------- MODULE Channel_proofs ---------------------------
(***************************************************************************)
(* Proofs about the Telegram channel, one part after the other: updates    *)
(* and replies (Delivery), the stream sink, the scheduler, and the routing *)
(* of messages; for any number of pollers, loops, updates, parts and jobs. *)
(***************************************************************************)
EXTENDS MCChannel, SequenceTheorems, FiniteSetTheorems, WellFoundedInduction, TLAPS

-----------------------------------------------------------------------------
(* Updates in, replies out.                                                 *)
(*                                                                         *)
(* NoSilentLoss is about what Telegram has had confirmed, which is what     *)
(* some poller's offset said.  So every update below an offset must be      *)
(* accounted for, and since an offset jumps to the update in hand, so must  *)
(* every update below the first of a batch; batches have no gaps.           *)
(* NoPartLost is about the rows of the queue; that a new row leaves out     *)
(* only received parts depends on the poller that is sending, and that a    *)
(* row is closed rightly on the part the janitor is at.                     *)

Accounted == {u \in Updates : adm[u].status # "none" \/ starts[u] > 0}

PollerRows ==
    [offset : 0 .. MaxUpdate + 1, batch : Seq(Updates),
     at : {"poll", "process", "send", "finish", "fail"}, part : Nat]

AdmissionRows ==
    [status : {"none", "processing", "done", "failed"}, attempts : 0 .. MaxAttempts,
     lease : {"none", "live", "expired", "stale"}]

QueueRows ==
    [update : Updates, from : Nat \ {0}, status : {"pending", "sent", "dead"},
     attempts : 0 .. MaxRetries, due : BOOLEAN]

\* A poller in state q, when the replies have the lengths r, the updates of a
\* are accounted for and the chat has got g.
PollerSound(q, r, a, g) ==
    /\ \A u \in 1 .. Len(r) : u < q.offset => u \in a
    /\ q.batch # <<>> => \A u \in 1 .. Len(r) : u < q.batch[1] => u \in a
    /\ \A k \in 1 .. Len(q.batch) : q.batch[k] = q.batch[1] + k - 1
    /\ q.at # "poll" => q.batch # <<>> /\ q.batch[1] < q.offset
    /\ q.at = "process" => q.part = 1
    /\ q.at = "send" => /\ q.part \in 1 .. r[q.batch[1]]
                        /\ \A i \in 1 .. q.part - 1 : i \in g[q.batch[1]]

\* A row of the outbound queue, likewise.
RowSound(row, r, g) ==
    /\ row.from \in 1 .. r[row.update]
    /\ \A i \in 1 .. r[row.update] :
          i < row.from \/ row.status = "sent" => i \in g[row.update]

\* The janitor j at work on the queue q.
JanitorSound(j, q, r, g) ==
    j.rows # <<>> =>
       LET row == q[j.rows[1]]
       IN /\ j.part \in row.from .. r[row.update]
          /\ \A i \in row.from .. j.part - 1 : i \in g[row.update]

\* An update without a row has used no attempt, and the starts of an update are
\* the attempts on its row and the admissions that failed open.
StartsAreCounted ==
    \A u \in Updates : /\ adm[u].status = "none" => adm[u].attempts = 0
                       /\ starts[u] <= adm[u].attempts + ledgerErrors

DeliveryTypes ==
    /\ reply \in Seq(Nat) /\ DeliveryTypeOK
    /\ got \in [Updates -> SUBSET Nat]
    /\ janitor \in [rows : Seq(DOMAIN queue), part : Nat]
    /\ deaths \in Nat /\ ledgerErrors \in Nat

DeliveryInvariant ==
    /\ DeliveryTypes /\ StartsAreCounted
    /\ \A u \in 1 .. confirmed : u \in Accounted
    /\ \A p \in Pollers : PollerSound(poller[p], reply, Accounted, got)
    /\ \A k \in DOMAIN queue : RowSound(queue[k], reply, got)
    /\ JanitorSound(janitor, queue, reply, got)


\* What is accounted for and received only grows: what held of a poller, of a
\* row and of the janitor still holds.
LEMMA PollerGrows ==
    ASSUME NEW r \in Seq(Nat), NEW a, NEW b, a \subseteq b, NEW g, NEW h,
           \A u \in 1 .. Len(r) : g[u] \subseteq h[u],
           NEW q, q.batch \in Seq(1 .. Len(r)), PollerSound(q, r, a, g)
    PROVE  PollerSound(q, r, b, h)
<1>1. q.batch # <<>> => q.batch[1] \in 1 .. Len(r)
  OBVIOUS
<1> QED BY <1>1 DEF PollerSound

LEMMA RowGrows ==
    ASSUME NEW r, NEW g, NEW h, \A u \in 1 .. Len(r) : g[u] \subseteq h[u],
           NEW row, row.update \in 1 .. Len(r), RowSound(row, r, g)
    PROVE  RowSound(row, r, h)
BY DEF RowSound

\* The janitor does not mind rows that are added, nor changes that leave a row
\* its update and its first part.
LEMMA JanitorGrows ==
    ASSUME NEW r, NEW g, NEW h, \A u \in 1 .. Len(r) : g[u] \subseteq h[u],
           NEW q, NEW s, NEW j, j.rows # <<>> => q[j.rows[1]].update \in 1 .. Len(r),
           j.rows # <<>> => /\ s[j.rows[1]].update = q[j.rows[1]].update
                            /\ s[j.rows[1]].from = q[j.rows[1]].from,
           JanitorSound(j, q, r, g)
    PROVE  JanitorSound(j, s, r, h)
BY DEF JanitorSound

\* The initial state.
LEMMA DeliveryStarts == DeliveryInit => DeliveryInvariant
<1> SUFFICES ASSUME DeliveryInit PROVE DeliveryInvariant
  OBVIOUS
<1> USE DeliveryAssumption DEF DeliveryInit, Updates, MaxUpdate, Idle, NoRow
<1>1. reply \in Seq(Nat) /\ Len(reply) \in Nat
  OBVIOUS
<1>2. DeliveryTypes
  BY <1>1 DEF DeliveryTypes, DeliveryTypeOK, PartIds
<1>3. StartsAreCounted
  BY <1>1 DEF StartsAreCounted
<1>4. \A p \in Pollers : PollerSound(poller[p], reply, Accounted, got)
  BY <1>1 DEF PollerSound
<1>5. JanitorSound(janitor, queue, reply, got)
  BY DEF JanitorSound
<1>6. \A u \in 1 .. confirmed : u \in Accounted
  OBVIOUS
<1>7. \A k \in DOMAIN queue : RowSound(queue[k], reply, got)
  OBVIOUS
<1> QED BY <1>2, <1>3, <1>4, <1>5, <1>6, <1>7 DEF DeliveryInvariant

\* What every proof below starts from.
LEMMA DeliveryFacts ==
    ASSUME DeliveryTypes
    PROVE  /\ MaxUpdate \in Nat /\ MaxUpdate = Len(reply) /\ Updates = 1 .. Len(reply)
           /\ \A u \in Updates : reply[u] \in Nat
           /\ poller \in [Pollers -> PollerRows]
           /\ \A p \in Pollers : /\ poller[p].batch \in Seq(Updates)
                                 /\ poller[p].batch # <<>> => Current(p) \in Updates /\ Current(p) = poller[p].batch[1]
           /\ DOMAIN queue = 1 .. Len(queue) /\ Len(queue) \in Nat
           /\ queue \in Seq(QueueRows)
           /\ \A k \in DOMAIN queue : queue[k] \in QueueRows /\ queue[k].update \in Updates
           /\ janitor.rows # <<>> =>
                 janitor.rows[1] \in DOMAIN queue /\ Head(janitor.rows) = janitor.rows[1]
<1> USE DEF DeliveryTypes
<1>1. MaxUpdate \in Nat /\ MaxUpdate = Len(reply) /\ Updates = 1 .. Len(reply)
  BY DEF MaxUpdate, Updates
<1>2. \A u \in Updates : reply[u] \in Nat
  BY <1>1
<1>3. poller \in [Pollers -> PollerRows]
  BY DEF DeliveryTypeOK, PollerRows
<1>4. \A p \in Pollers : poller[p].batch \in Seq(Updates)
  BY <1>3 DEF PollerRows
<1>5. ASSUME NEW p \in Pollers, poller[p].batch # <<>>
      PROVE  Current(p) \in Updates /\ Current(p) = poller[p].batch[1]
  BY <1>4, <1>5 DEF Current
<1>6. DOMAIN queue = 1 .. Len(queue) /\ Len(queue) \in Nat
  BY DEF DeliveryTypeOK
<1>7. queue \in Seq(QueueRows)
  BY DEF DeliveryTypeOK, QueueRows
<1>8. \A k \in DOMAIN queue : queue[k] \in QueueRows
  BY <1>7
<1>9. \A k \in DOMAIN queue : queue[k].update \in Updates
  BY <1>8 DEF QueueRows
<1>10. janitor.rows # <<>> =>
          janitor.rows[1] \in DOMAIN queue /\ Head(janitor.rows) = janitor.rows[1]
  OBVIOUS
<1> QED BY <1>1, <1>2, <1>3, <1>4, <1>5, <1>6, <1>7, <1>8, <1>9, <1>10

\* A step of the pollers that sends nothing is about the admissions only.
LEMMA InboundKept ==
    ASSUME DeliveryInvariant, UNCHANGED <<reply, got, queue, janitor>>,
           deaths' \in Nat, ledgerErrors' \in Nat,
           confirmed' \in 0 .. MaxUpdate, poller' \in [Pollers -> PollerRows],
           adm' \in [Updates -> AdmissionRows], starts' \in [Updates -> Nat],
           StartsAreCounted', \A u \in 1 .. confirmed' : u \in Accounted',
           \A o \in Pollers : PollerSound(poller'[o], reply, Accounted', got)
    PROVE  DeliveryInvariant'
<1> USE DEF DeliveryInvariant
<1>1. MaxUpdate' = MaxUpdate /\ Updates' = Updates /\ \A u \in Updates : PartIds(u)' = PartIds(u)
  BY DEF MaxUpdate, Updates, PartIds
<1>2. DeliveryTypeOK'
  BY <1>1 DEF DeliveryTypes, DeliveryTypeOK, PollerRows, AdmissionRows
<1>3. DeliveryTypes'
  BY <1>1, <1>2 DEF DeliveryTypes
<1> QED BY <1>1, <1>3

\* One poller moves from its state to q.
LEMMA OnePoller ==
    ASSUME DeliveryInvariant, NEW p \in Pollers, NEW q \in PollerRows,
           poller' = [poller EXCEPT ![p] = q],
           NEW b, Accounted \subseteq b, NEW h, \A u \in Updates : got[u] \subseteq h[u],
           PollerSound(q, reply, b, h)
    PROVE  /\ poller' \in [Pollers -> PollerRows]
           /\ \A o \in Pollers : PollerSound(poller'[o], reply, b, h)
<1> USE DEF DeliveryInvariant
<1>1. /\ Updates = 1 .. Len(reply) /\ poller \in [Pollers -> PollerRows]
      /\ reply \in Seq(Nat)
  BY DeliveryFacts DEF DeliveryTypes
<1>2. ASSUME NEW o \in Pollers PROVE PollerSound(poller'[o], reply, b, h)
  <2>1. CASE o = p
    BY <1>1, <2>1
  <2>2. CASE o # p
    <3>1. poller'[o] = poller[o] /\ poller[o].batch \in Seq(1 .. Len(reply))
      BY <1>1, <2>2 DEF PollerRows
    <3>2. PollerSound(poller[o], reply, Accounted, got)
      OBVIOUS
    <3> HIDE DEF DeliveryInvariant
    <3> QED BY <1>1, <3>1, <3>2, PollerGrows
  <2> QED BY <2>1, <2>2
<1> QED BY <1>1, <1>2

\* getUpdates confirms what the poller's offset accounts for, and hands out the
\* updates after it without a gap.
LEMMA FetchKept ==
    ASSUME DeliveryInvariant, NEW p \in Pollers, FetchUpdates(p), UNCHANGED reply
    PROVE  DeliveryInvariant'
<1> DEFINE base == Larger(confirmed, poller[p].offset - 1)
<1>1. /\ MaxUpdate \in Nat /\ MaxUpdate = Len(reply) /\ Updates = 1 .. Len(reply)
      /\ confirmed \in 0 .. MaxUpdate /\ poller \in [Pollers -> PollerRows]
      /\ PollerSound(poller[p], reply, Accounted, got)
      /\ DeliveryTypes /\ StartsAreCounted
  BY DeliveryFacts DEF DeliveryInvariant, DeliveryTypes, DeliveryTypeOK
<1>2. poller[p].offset \in 0 .. MaxUpdate + 1 /\ poller[p].at = "poll" /\ poller[p] \in PollerRows
  BY <1>1 DEF PollerRows, FetchUpdates
<1>3. base \in 0 .. MaxUpdate /\ \A u \in 1 .. base : u \in Accounted
  BY <1>1, <1>2 DEF Larger, DeliveryInvariant, PollerSound
<1> HIDE DEF base
<1>4. PICK last \in base .. MaxUpdate :
         poller' = [poller EXCEPT ![p].batch = BatchUpTo(base, last)]
  BY DEF FetchUpdates, base
<1>5. confirmed' = base /\ UNCHANGED <<adm, starts, got, queue, janitor, deaths, ledgerErrors>>
  BY DEF FetchUpdates, base
<1> DEFINE batch == BatchUpTo(base, last)
           q == [poller[p] EXCEPT !.batch = batch]
<1>6. /\ batch \in Seq(Updates) /\ Len(batch) = last - base
      /\ \A k \in 1 .. Len(batch) : batch[k] = base + k
  <2> DEFINE n == last - base
  <2>1. n \in Nat /\ \A k \in 1 .. n : base + k \in Updates
    BY <1>1, <1>3, <1>4
  <2>2. batch = [k \in 1 .. n |-> base + k]
    BY DEF BatchUpTo
  <2> HIDE DEF n, batch
  <2>3. batch \in [1 .. n -> Updates]
    BY <2>1, <2>2
  <2>4. batch \in Seq(Updates) /\ Len(batch) = n
    BY <2>1, <2>3
  <2> QED BY <2>2, <2>4 DEF n
<1> HIDE DEF batch
<1>7. q \in PollerRows /\ poller' = [poller EXCEPT ![p] = q]
  BY <1>1, <1>2, <1>4, <1>6 DEF PollerRows, batch
<1>8. Accounted' = Accounted
  BY <1>5 DEF Accounted, Updates, MaxUpdate
<1>9. PollerSound(q, reply, Accounted, got)
  <2>1. batch # <<>> => batch[1] = base + 1
    BY <1>3, <1>6
  <2>2. \A k \in 1 .. Len(batch) : batch[k] = batch[1] + k - 1
    BY <1>3, <1>6
  <2>3. q.batch = batch /\ q.at = "poll" /\ q.offset = poller[p].offset
    BY <1>2 DEF PollerRows
  <2>4. batch # <<>> => \A u \in 1 .. Len(reply) : u < batch[1] => u \in Accounted
    BY <1>3, <2>1, <1>1
  <2> HIDE DEF q
  <2> QED BY <1>1, <2>2, <2>3, <2>4 DEF PollerSound
<1> HIDE DEF q
<1>10. /\ poller' \in [Pollers -> PollerRows]
       /\ \A o \in Pollers : PollerSound(poller'[o], reply, Accounted, got)
  BY <1>7, <1>9, OnePoller
<1>11. StartsAreCounted'
  BY <1>1, <1>5 DEF StartsAreCounted, Updates, MaxUpdate
<1>12. /\ adm' \in [Updates -> AdmissionRows] /\ starts' \in [Updates -> Nat]
       /\ deaths' \in Nat /\ ledgerErrors' \in Nat
  BY <1>1, <1>5 DEF DeliveryTypes, DeliveryTypeOK, AdmissionRows
<1> QED BY <1>1, <1>3, <1>5, <1>8, <1>10, <1>11, <1>12, InboundKept

\* The batch without its first update has no gap either.
LEMMA TailOfBatch ==
    ASSUME NEW n \in Nat, NEW s \in Seq(1 .. n), s # <<>>,
           \A k \in 1 .. Len(s) : s[k] = s[1] + k - 1
    PROVE  LET t == Tail(s)
           IN /\ t \in Seq(1 .. n) /\ s[1] \in 1 .. n
              /\ t # <<>> => t[1] = s[1] + 1
              /\ \A k \in 1 .. Len(t) : t[k] = t[1] + k - 1
<1> DEFINE t == Tail(s)
<1>1. /\ t \in Seq(1 .. n) /\ Len(t) = Len(s) - 1 /\ Len(s) \in Nat \ {0}
      /\ \A k \in 1 .. Len(t) : t[k] = s[k + 1]
  BY HeadTailProperties
<1>2. s[1] \in 1 .. n
  BY <1>1
<1> HIDE DEF t
<1>3. \A k \in 1 .. Len(t) : t[k] = s[1] + k
  <2> SUFFICES ASSUME NEW k \in 1 .. Len(t) PROVE t[k] = s[1] + k
    OBVIOUS
  <2>1. k + 1 \in 1 .. Len(s)
    BY <1>1
  <2>2. s[k + 1] = s[1] + (k + 1) - 1
    BY <2>1
  <2> QED BY <1>1, <1>2, <2>2
<1>4. t # <<>> => 1 \in 1 .. Len(t)
  BY <1>1
<1>5. t # <<>> => t[1] = s[1] + 1
  BY <1>3, <1>4
<1>6. ASSUME NEW k \in 1 .. Len(t) PROVE t[k] = t[1] + k - 1
  BY <1>1, <1>2, <1>3, <1>5
<1> QED BY <1>1, <1>2, <1>5, <1>6 DEF t

\* A poller begins with the update in hand, which is accounted for now.
LEMMA StartedSound ==
    ASSUME DeliveryInvariant, NEW p \in Pollers, poller[p].batch # <<>>, poller[p].at = "poll",
           Started(p, Current(p)), NEW b, Accounted \subseteq b, Current(p) \in b
    PROVE  /\ poller' \in [Pollers -> PollerRows]
           /\ \A o \in Pollers : PollerSound(poller'[o], reply, b, got)
<1> DEFINE u == Current(p)
           q == [poller[p] EXCEPT !.offset = Larger(@, u + 1), !.at = "process", !.part = 1]
<1>1. /\ MaxUpdate \in Nat /\ MaxUpdate = Len(reply) /\ Updates = 1 .. Len(reply)
      /\ poller \in [Pollers -> PollerRows]
      /\ u \in Updates /\ u = poller[p].batch[1]
      /\ PollerSound(poller[p], reply, Accounted, got)
  BY DeliveryFacts DEF DeliveryInvariant
<1>2. poller[p].offset \in 0 .. MaxUpdate + 1 /\ poller[p] \in PollerRows
  BY <1>1 DEF PollerRows
<1>3. u \in b
  OBVIOUS
<1> HIDE DEF u
<1>4. Larger(poller[p].offset, u + 1) \in 0 .. MaxUpdate + 1
  BY <1>1, <1>2 DEF Larger
<1>5. q \in PollerRows
  BY <1>2, <1>4 DEF PollerRows
<1>6. poller' = [poller EXCEPT ![p] = q]
  BY <1>1 DEF Started, u
<1>7. /\ q.batch = poller[p].batch /\ q.at = "process" /\ q.part = 1
      /\ q.offset = Larger(poller[p].offset, u + 1)
  BY <1>2 DEF PollerRows
<1> HIDE DEF q
<1>8. \A v \in 1 .. Len(reply) : v < q.offset => v \in b
  BY <1>1, <1>2, <1>3, <1>7 DEF PollerSound, Larger
<1>9. q.batch[1] < q.offset
  BY <1>1, <1>2, <1>7 DEF Larger
<1>10. PollerSound(q, reply, b, got)
  BY <1>1, <1>7, <1>8, <1>9 DEF PollerSound
<1> QED BY <1>5, <1>6, <1>10, OnePoller

\* A poller is done with the update in hand: it was skipped, or settled.
LEMMA DoneSound ==
    ASSUME DeliveryInvariant, NEW p \in Pollers, poller[p].batch # <<>>,
           NEW b, Accounted \subseteq b, Current(p) \in b,
           NEW n \in {poller[p].offset, Larger(poller[p].offset, Current(p) + 1)},
           poller' = [poller EXCEPT ![p] =
                        [poller[p] EXCEPT !.offset = n, !.at = "poll", !.batch = Tail(@)]]
    PROVE  /\ poller' \in [Pollers -> PollerRows]
           /\ \A o \in Pollers : PollerSound(poller'[o], reply, b, got)
<1> DEFINE u == Current(p)
           q == [poller[p] EXCEPT !.offset = n, !.at = "poll", !.batch = Tail(@)]
<1>1. /\ MaxUpdate \in Nat /\ MaxUpdate = Len(reply) /\ Updates = 1 .. Len(reply)
      /\ poller \in [Pollers -> PollerRows] /\ poller[p].batch \in Seq(Updates)
      /\ u \in Updates /\ u = poller[p].batch[1]
      /\ PollerSound(poller[p], reply, Accounted, got)
  BY DeliveryFacts DEF DeliveryInvariant
<1>2. poller[p].offset \in 0 .. MaxUpdate + 1 /\ poller[p] \in PollerRows
  BY <1>1 DEF PollerRows
<1>3. u \in b /\ n \in 0 .. MaxUpdate + 1 /\ n \in {poller[p].offset, Larger(poller[p].offset, u + 1)}
  BY <1>1, <1>2 DEF Larger
<1> HIDE DEF u
<1> DEFINE t == Tail(poller[p].batch)
<1>4. /\ t \in Seq(Updates)
      /\ t # <<>> => t[1] = u + 1
      /\ \A k \in 1 .. Len(t) : t[k] = t[1] + k - 1
  BY <1>1, TailOfBatch DEF PollerSound
<1>5. q.batch = t /\ q.at = "poll" /\ q.offset = n
  BY <1>2 DEF PollerRows
<1> HIDE DEF t
<1>6. q \in PollerRows
  BY <1>2, <1>3, <1>4 DEF PollerRows, t
<1> HIDE DEF q
<1>7. \A v \in 1 .. Len(reply) : v < u => v \in b
  BY <1>1 DEF PollerSound
<1>8. \A v \in 1 .. Len(reply) : v < q.offset => v \in b
  BY <1>1, <1>2, <1>3, <1>5, <1>7 DEF PollerSound, Larger
<1>9. t # <<>> => \A v \in 1 .. Len(reply) : v < t[1] => v \in b
  BY <1>1, <1>3, <1>4, <1>7
<1>10. PollerSound(q, reply, b, got)
  BY <1>4, <1>5, <1>8, <1>9 DEF PollerSound
<1> QED BY <1>6, <1>10, OnePoller DEF q

\* An update is admitted: its row counts the attempt.  A duplicate is skipped,
\* which is only done to updates that have a row.
LEMMA AdmitKept ==
    ASSUME DeliveryInvariant, NEW p \in Pollers, Admit(p), UNCHANGED reply
    PROVE  DeliveryInvariant'
<1> DEFINE u == Current(p)
<1>1. /\ MaxUpdate \in Nat /\ MaxUpdate = Len(reply) /\ Updates = 1 .. Len(reply)
      /\ confirmed \in 0 .. MaxUpdate /\ poller \in [Pollers -> PollerRows]
      /\ adm \in [Updates -> AdmissionRows] /\ starts \in [Updates -> Nat]
      /\ deaths \in Nat /\ ledgerErrors \in Nat
      /\ u \in Updates /\ poller[p].batch # <<>> /\ poller[p].at = "poll"
      /\ UNCHANGED <<confirmed, got, queue, janitor, deaths, ledgerErrors>>
      /\ StartsAreCounted /\ \A v \in 1 .. confirmed : v \in Accounted
  BY DeliveryFacts DEF DeliveryInvariant, DeliveryTypes, DeliveryTypeOK, AdmissionRows, Admit
<1>2. adm[u] \in AdmissionRows /\ starts[u] \in Nat /\ Updates' = Updates
  BY <1>1 DEF Updates, MaxUpdate
<1>3. CASE Owns(u) /\ Started(p, u)
           /\ adm' = [adm EXCEPT ![u] = [status |-> "processing",
                         attempts |-> adm[u].attempts + 1, lease |-> "live"]]
  <2> DEFINE row == [status |-> "processing", attempts |-> adm[u].attempts + 1, lease |-> "live"]
  <2>1. adm[u].attempts \in Nat /\ adm[u].attempts < MaxAttempts
    BY <1>1, <1>2, <1>3, DeliveryAssumption DEF AdmissionRows, Owns, StartsAreCounted
  <2>2. row \in AdmissionRows
    BY <2>1, DeliveryAssumption DEF AdmissionRows
  <2>3. starts' = [starts EXCEPT ![u] = @ + 1]
    BY <1>3 DEF Started
  <2>4. adm' \in [Updates -> AdmissionRows] /\ starts' \in [Updates -> Nat]
    BY <1>1, <1>2, <1>3, <2>2, <2>3
  <2>5. adm'[u] = row /\ starts'[u] = starts[u] + 1
        /\ \A v \in Updates : v # u => adm'[v] = adm[v] /\ starts'[v] = starts[v]
    BY <1>1, <1>3, <2>3
  <2>6. row.status = "processing" /\ row.attempts = adm[u].attempts + 1
    OBVIOUS
  <2> HIDE DEF row, u
  <2>7. StartsAreCounted'
    BY <1>1, <1>2, <2>1, <2>5, <2>6 DEF StartsAreCounted
  <2>8. Accounted \subseteq Accounted' /\ u \in Accounted'
    BY <1>1, <1>2, <2>5, <2>6 DEF Accounted
  <2>9. /\ poller' \in [Pollers -> PollerRows]
        /\ \A o \in Pollers : PollerSound(poller'[o], reply, Accounted', got)
    BY <1>1, <1>3, <2>8, StartedSound DEF u
  <2> QED BY <1>1, <2>4, <2>7, <2>8, <2>9, InboundKept
<1>4. CASE ~Owns(u) /\ UNCHANGED <<adm, starts>>
           /\ poller' = [poller EXCEPT ![p].offset = Larger(@, u + 1), ![p].batch = Tail(@)]
  <2>1. Accounted' = Accounted /\ u \in Accounted /\ StartsAreCounted'
    BY <1>1, <1>2, <1>4 DEF Accounted, Owns, StartsAreCounted
  <2>2. poller' = [poller EXCEPT ![p] = [poller[p] EXCEPT !.offset = Larger(@, u + 1),
                                           !.at = "poll", !.batch = Tail(@)]]
    BY <1>1, <1>4 DEF PollerRows
  <2>3. /\ poller' \in [Pollers -> PollerRows]
        /\ \A o \in Pollers : PollerSound(poller'[o], reply, Accounted, got)
    BY <1>1, <2>1, <2>2, DoneSound
  <2> QED BY <1>1, <1>4, <2>1, <2>3, InboundKept
<1> QED BY <1>3, <1>4 DEF Admit

\* An admission that failed open counts as a ledger error.
LEMMA FailOpenKept ==
    ASSUME DeliveryInvariant, NEW p \in Pollers, AdmitFailsOpen(p), UNCHANGED reply
    PROVE  DeliveryInvariant'
<1> DEFINE u == Current(p)
<1>1. /\ MaxUpdate \in Nat /\ MaxUpdate = Len(reply) /\ Updates = 1 .. Len(reply)
      /\ confirmed \in 0 .. MaxUpdate /\ poller \in [Pollers -> PollerRows]
      /\ adm \in [Updates -> AdmissionRows] /\ starts \in [Updates -> Nat]
      /\ deaths \in Nat /\ ledgerErrors \in Nat
      /\ u \in Updates /\ poller[p].batch # <<>> /\ poller[p].at = "poll"
      /\ UNCHANGED <<confirmed, adm, got, queue, janitor, deaths>>
      /\ ledgerErrors' = ledgerErrors + 1
      /\ StartsAreCounted /\ \A v \in 1 .. confirmed : v \in Accounted
  BY DeliveryFacts DEF DeliveryInvariant, DeliveryTypes, DeliveryTypeOK, AdmissionRows, AdmitFailsOpen
<1>2. Started(p, u) /\ starts' = [starts EXCEPT ![u] = @ + 1] /\ Updates' = Updates
  BY DEF AdmitFailsOpen, Started, Updates, MaxUpdate
<1> HIDE DEF u
<1>3. starts' \in [Updates -> Nat] /\ starts'[u] = starts[u] + 1
      /\ \A v \in Updates : v # u => starts'[v] = starts[v]
  BY <1>1, <1>2
<1>4. StartsAreCounted'
  <2> SUFFICES ASSUME NEW v \in Updates
               PROVE  /\ adm'[v].status = "none" => adm'[v].attempts = 0
                      /\ starts'[v] <= adm'[v].attempts + ledgerErrors'
    BY <1>2 DEF StartsAreCounted
  <2>1. adm[v] \in AdmissionRows /\ starts[v] \in Nat
    BY <1>1
  <2>2. adm[v].attempts \in Nat
    BY <2>1, DeliveryAssumption DEF AdmissionRows
  <2>3. starts'[v] = starts[v] \/ starts'[v] = starts[v] + 1
    BY <1>3
  <2>4. /\ adm[v].status = "none" => adm[v].attempts = 0
        /\ starts[v] <= adm[v].attempts + ledgerErrors
    BY <1>1 DEF StartsAreCounted
  <2> QED BY <1>1, <2>1, <2>2, <2>3, <2>4
<1>5. Accounted \subseteq Accounted' /\ u \in Accounted'
  BY <1>1, <1>2, <1>3 DEF Accounted
<1>6. /\ poller' \in [Pollers -> PollerRows]
      /\ \A o \in Pollers : PollerSound(poller'[o], reply, Accounted', got)
  BY <1>1, <1>2, <1>5, StartedSound DEF u
<1> QED BY <1>1, <1>3, <1>4, <1>5, <1>6, InboundKept

\* An update is settled: the row that is still in processing gets its verdict,
\* unless the write fails.
LEMMA SettleKept ==
    ASSUME DeliveryInvariant, NEW p \in Pollers, SettleAdmission(p), UNCHANGED reply
    PROVE  DeliveryInvariant'
<1> DEFINE u == Current(p)
           to == IF poller[p].at = "finish" THEN "done" ELSE "failed"
<1>1. /\ MaxUpdate \in Nat /\ MaxUpdate = Len(reply) /\ Updates = 1 .. Len(reply)
      /\ confirmed \in 0 .. MaxUpdate /\ poller \in [Pollers -> PollerRows]
      /\ adm \in [Updates -> AdmissionRows] /\ starts \in [Updates -> Nat]
      /\ deaths \in Nat /\ ledgerErrors \in Nat /\ Updates' = Updates
      /\ UNCHANGED <<confirmed, starts, got, queue, janitor, deaths>>
      /\ StartsAreCounted /\ \A v \in 1 .. confirmed : v \in Accounted
      /\ poller[p].at \in {"finish", "fail"}
      /\ PollerSound(poller[p], reply, Accounted, got)
  BY DeliveryFacts DEF DeliveryInvariant, DeliveryTypes, DeliveryTypeOK, AdmissionRows, SettleAdmission, Updates, MaxUpdate
<1>2. poller[p].batch # <<>> /\ u \in Updates /\ u \in Accounted
  <2>1. poller[p].batch # <<>> /\ poller[p].batch[1] < poller[p].offset
    BY <1>1 DEF PollerSound
  <2>2. u \in Updates /\ u = poller[p].batch[1]
    BY <2>1, DeliveryFacts DEF DeliveryInvariant
  <2> QED BY <1>1, <2>1, <2>2 DEF PollerSound
<1>3. Written(adm, [adm EXCEPT ![u] = SettledRow(u, to)], adm')
  BY DEF SettleAdmission
<1>4. to \in {"done", "failed"}
  OBVIOUS
<1>5. poller' = [poller EXCEPT ![p] = [poller[p] EXCEPT !.offset = poller[p].offset,
                                         !.at = "poll", !.batch = Tail(@)]]
  BY <1>1 DEF SettleAdmission, PollerRows
<1> HIDE DEF u, to
<1>6. SettledRow(u, to) \in AdmissionRows /\ SettledRow(u, to).attempts = adm[u].attempts
      /\ (SettledRow(u, to).status = "none" <=> adm[u].status = "none")
  <2>1. adm[u] \in AdmissionRows
    BY <1>1, <1>2
  <2> QED BY <1>4, <2>1 DEF SettledRow, AdmissionRows
<1>7. adm' \in [Updates -> AdmissionRows] /\ ledgerErrors' \in {ledgerErrors, ledgerErrors + 1}
      /\ \A v \in Updates : adm'[v].attempts = adm[v].attempts
                            /\ (adm'[v].status = "none" <=> adm[v].status = "none")
  BY <1>1, <1>2, <1>3, <1>6 DEF Written
<1>8. Accounted' = Accounted
  BY <1>1, <1>7 DEF Accounted
<1>9. StartsAreCounted'
  <2> SUFFICES ASSUME NEW v \in Updates
               PROVE  /\ adm'[v].status = "none" => adm'[v].attempts = 0
                      /\ starts'[v] <= adm'[v].attempts + ledgerErrors'
    BY <1>1 DEF StartsAreCounted
  <2>1. adm[v] \in AdmissionRows /\ starts[v] \in Nat
    BY <1>1
  <2>2. adm[v].attempts \in Nat
    BY <2>1, DeliveryAssumption DEF AdmissionRows
  <2>3. /\ adm[v].status = "none" => adm[v].attempts = 0
        /\ starts[v] <= adm[v].attempts + ledgerErrors
    BY <1>1 DEF StartsAreCounted
  <2> QED BY <1>1, <1>7, <2>1, <2>2, <2>3
<1>10. /\ poller' \in [Pollers -> PollerRows]
       /\ \A o \in Pollers : PollerSound(poller'[o], reply, Accounted, got)
  BY <1>2, <1>5, DoneSound DEF u
<1> QED BY <1>1, <1>7, <1>8, <1>9, <1>10, InboundKept

\* A row in processing whose attempts and presence stay: the sweep and the clock.
LEMMA AgingKept ==
    ASSUME DeliveryInvariant, UNCHANGED reply,
           \/ \E p \in Pollers : SweepStale(p)
           \/ \E u \in Updates : LeaseAges(u)
    PROVE  DeliveryInvariant'
<1>1. /\ MaxUpdate \in Nat /\ MaxUpdate = Len(reply) /\ Updates = 1 .. Len(reply)
      /\ confirmed \in 0 .. MaxUpdate /\ poller \in [Pollers -> PollerRows]
      /\ adm \in [Updates -> AdmissionRows] /\ starts \in [Updates -> Nat]
      /\ deaths \in Nat /\ ledgerErrors \in Nat /\ Updates' = Updates
      /\ StartsAreCounted /\ \A v \in 1 .. confirmed : v \in Accounted
      /\ \A o \in Pollers : PollerSound(poller[o], reply, Accounted, got)
  BY DeliveryFacts DEF DeliveryInvariant, DeliveryTypes, DeliveryTypeOK, AdmissionRows, Updates, MaxUpdate
<1>2. UNCHANGED <<confirmed, poller, starts, got, queue, janitor, deaths, ledgerErrors>>
  BY DEF SweepStale, LeaseAges
<1>3. adm' \in [Updates -> AdmissionRows]
      /\ \A v \in Updates : adm'[v].attempts = adm[v].attempts
                            /\ (adm'[v].status = "none" <=> adm[v].status = "none")
  <2>1. CASE \E p \in Pollers : SweepStale(p)
    <3>1. adm' = [u \in Updates |-> IF IsStale(u) THEN [adm[u] EXCEPT !.status = "failed"]
                                    ELSE adm[u]]
      BY <2>1 DEF SweepStale
    <3>2. \A u \in Updates : /\ adm[u] \in AdmissionRows
                             /\ [adm[u] EXCEPT !.status = "failed"] \in AdmissionRows
      BY <1>1 DEF AdmissionRows
    <3>3. \A u \in Updates : /\ adm'[u] \in AdmissionRows /\ adm'[u].attempts = adm[u].attempts
                             /\ (adm'[u].status = "none" <=> adm[u].status = "none")
      BY <3>1, <3>2 DEF IsStale, AdmissionRows
    <3> QED BY <3>1, <3>3
  <2>2. CASE \E u \in Updates : LeaseAges(u)
    <3>1. PICK u \in Updates : LeaseAges(u)
      BY <2>2
    <3> DEFINE row == [adm[u] EXCEPT !.lease = IF @ = "live" THEN "expired" ELSE "stale"]
    <3>2. adm[u] \in AdmissionRows
      BY <1>1
    <3>3. row \in AdmissionRows /\ row.attempts = adm[u].attempts /\ row.status = adm[u].status
      BY <3>2 DEF AdmissionRows
    <3>4. adm' = [adm EXCEPT ![u] = row]
      BY <1>1, <3>1 DEF LeaseAges
    <3> HIDE DEF row
    <3> QED BY <1>1, <3>3, <3>4
  <2> QED BY <2>1, <2>2
<1>4. Accounted' = Accounted /\ StartsAreCounted'
  BY <1>1, <1>2, <1>3 DEF Accounted, StartsAreCounted
<1> QED BY <1>1, <1>2, <1>3, <1>4, InboundKept

\* The steps of a poller that touch only the poller: it looks at the update, or
\* dies.
LEMMA PollerKept ==
    ASSUME DeliveryInvariant, NEW p \in Pollers, Process(p) \/ PollerDies(p), UNCHANGED reply
    PROVE  DeliveryInvariant'
<1>1. /\ MaxUpdate \in Nat /\ MaxUpdate = Len(reply) /\ Updates = 1 .. Len(reply)
      /\ confirmed \in 0 .. MaxUpdate /\ poller \in [Pollers -> PollerRows]
      /\ adm \in [Updates -> AdmissionRows] /\ starts \in [Updates -> Nat]
      /\ deaths \in Nat /\ ledgerErrors \in Nat /\ Updates' = Updates
      /\ StartsAreCounted /\ \A v \in 1 .. confirmed : v \in Accounted
      /\ PollerSound(poller[p], reply, Accounted, got)
  BY DeliveryFacts DEF DeliveryInvariant, DeliveryTypes, DeliveryTypeOK, AdmissionRows, Updates, MaxUpdate
<1>2. UNCHANGED <<confirmed, adm, starts, got, queue, janitor, ledgerErrors>> /\ deaths' \in Nat
  BY <1>1 DEF Process, PollerDies
<1>3. Accounted' = Accounted /\ StartsAreCounted'
  BY <1>1, <1>2 DEF Accounted, StartsAreCounted
<1>4. /\ poller' \in [Pollers -> PollerRows]
      /\ \A o \in Pollers : PollerSound(poller'[o], reply, Accounted, got)
  <2>1. CASE Process(p)
    <3>1. PICK next \in {"finish", "fail", "send"} :
             /\ next = "send" => reply[Current(p)] > 0
             /\ poller' = [poller EXCEPT ![p].at = next]
      BY <2>1 DEF Process
    <3> DEFINE q == [poller[p] EXCEPT !.at = next]
    <3>2. poller[p] \in PollerRows /\ poller[p].at = "process"
      BY <1>1, <2>1 DEF Process
    <3>3. q \in PollerRows /\ poller' = [poller EXCEPT ![p] = q]
      BY <1>1, <3>1, <3>2 DEF PollerRows
    <3>4. poller[p].batch # <<>> /\ poller[p].part = 1
      BY <1>1, <3>2 DEF PollerSound
    <3>5. Current(p) = poller[p].batch[1] /\ reply[Current(p)] \in Nat
      BY <3>4, DeliveryFacts DEF DeliveryInvariant
    <3>6. q.batch = poller[p].batch /\ q.offset = poller[p].offset /\ q.part = 1 /\ q.at = next
      BY <3>2, <3>4 DEF PollerRows
    <3> HIDE DEF q
    <3>7. next = "send" => /\ q.part \in 1 .. reply[q.batch[1]]
                           /\ \A i \in 1 .. q.part - 1 : i \in got[q.batch[1]]
      BY <3>1, <3>5, <3>6
    <3>8. PollerSound(q, reply, Accounted, got)
      BY <1>1, <3>2, <3>6, <3>7 DEF PollerSound
    <3> QED BY <3>3, <3>8, OnePoller
  <2>2. CASE PollerDies(p)
    <3>1. Idle \in PollerRows /\ PollerSound(Idle, reply, Accounted, got)
      BY <1>1 DEF Idle, PollerRows, PollerSound
    <3>2. poller' = [poller EXCEPT ![p] = Idle]
      BY <2>2 DEF PollerDies
    <3> QED BY <3>1, <3>2, OnePoller
  <2> QED BY <2>1, <2>2
<1> QED BY <1>1, <1>2, <1>3, <1>4, InboundKept

\* A step that sends a part or works on the queue leaves the admissions alone.
LEMMA OutboundKept ==
    ASSUME DeliveryInvariant, UNCHANGED <<reply, confirmed, adm, starts>>,
           deaths' \in Nat, ledgerErrors' \in Nat, ledgerErrors' >= ledgerErrors,
           poller' \in [Pollers -> PollerRows],
           \A o \in Pollers : PollerSound(poller'[o], reply, Accounted, got'),
           got' \in [Updates -> SUBSET Nat], \A u \in Updates : got'[u] \subseteq 1 .. reply[u],
           queue' \in Seq(QueueRows), \A k \in DOMAIN queue' : RowSound(queue'[k], reply, got'),
           janitor' \in [rows : Seq(DOMAIN queue'), part : Nat],
           JanitorSound(janitor', queue', reply, got')
    PROVE  DeliveryInvariant'
<1>1. /\ MaxUpdate' = MaxUpdate /\ Updates' = Updates /\ \A u \in Updates : PartIds(u)' = 1 .. reply[u]
      /\ DeliveryTypes /\ StartsAreCounted /\ \A v \in 1 .. confirmed : v \in Accounted
  BY DEF MaxUpdate, Updates, PartIds, DeliveryInvariant
<1>2. Accounted' = Accounted
  BY <1>1 DEF Accounted
<1>3. DeliveryTypeOK'
  BY <1>1 DEF DeliveryTypes, DeliveryTypeOK, PollerRows, QueueRows
<1>4. DeliveryTypes'
  BY <1>1, <1>3 DEF DeliveryTypes
<1>5. StartsAreCounted'
  <2> SUFFICES ASSUME NEW v \in Updates
               PROVE  /\ adm[v].status = "none" => adm[v].attempts = 0
                      /\ starts[v] <= adm[v].attempts + ledgerErrors'
    BY <1>1 DEF StartsAreCounted
  <2>1. adm \in [Updates -> AdmissionRows] /\ starts[v] \in Nat /\ ledgerErrors \in Nat
    BY <1>1 DEF DeliveryTypes, DeliveryTypeOK, AdmissionRows
  <2>2. adm[v].attempts \in Nat
    BY <2>1, DeliveryAssumption DEF AdmissionRows
  <2> QED BY <1>1, <2>1, <2>2 DEF StartsAreCounted
<1> QED BY <1>1, <1>2, <1>4, <1>5 DEF DeliveryInvariant

\* A part is sent: the chat loses nothing, and has the part if the send is
\* reported as made.
LEMMA ReceiveGrows ==
    ASSUME DeliveryTypes, NEW u \in Updates, NEW i \in 1 .. reply[u],
           NEW o \in SendOutcomes, Receive(u, i, o)
    PROVE  /\ got' \in [Updates -> SUBSET Nat]
           /\ \A v \in Updates : got[v] \subseteq got'[v] /\ got'[v] \subseteq 1 .. reply[v]
           /\ o.ok => i \in got'[u]
<1>1. got \in [Updates -> SUBSET Nat] /\ \A v \in Updates : got[v] \subseteq 1 .. reply[v]
  BY DEF DeliveryTypes, DeliveryTypeOK, PartIds
<1>2. o.ok => o.delivered
  BY DEF SendOutcomes
<1>3. i \in Nat
  BY DeliveryFacts
<1> QED BY <1>1, <1>2, <1>3 DEF Receive

\* A poller sends one part of the reply; what it could not send is queued, from
\* the part that failed.
LEMMA SendKept ==
    ASSUME DeliveryInvariant, NEW p \in Pollers, SendPart(p), UNCHANGED reply
    PROVE  DeliveryInvariant'
<1> DEFINE u == Current(p)
           i == poller[p].part
<1>1. /\ MaxUpdate \in Nat /\ Updates = 1 .. Len(reply) /\ poller \in [Pollers -> PollerRows]
      /\ reply \in Seq(Nat) /\ DeliveryTypes /\ deaths \in Nat /\ ledgerErrors \in Nat
      /\ queue \in Seq(QueueRows) /\ janitor \in [rows : Seq(DOMAIN queue), part : Nat]
      /\ UNCHANGED <<confirmed, adm, starts, janitor, deaths>>
      /\ poller[p].at = "send" /\ PollerSound(poller[p], reply, Accounted, got)
      /\ \A k \in DOMAIN queue : RowSound(queue[k], reply, got)
      /\ JanitorSound(janitor, queue, reply, got)
      /\ DOMAIN queue = 1 .. Len(queue) /\ Len(queue) \in Nat
      /\ \A k \in DOMAIN queue : queue[k].update \in Updates
  BY DeliveryFacts DEF DeliveryInvariant, DeliveryTypes, DeliveryTypeOK, QueueRows, SendPart
<1>2. /\ u \in Updates /\ u = poller[p].batch[1] /\ reply[u] \in Nat /\ i \in 1 .. reply[u]
      /\ \A j \in 1 .. i - 1 : j \in got[u]
      /\ poller[p] \in PollerRows
  BY <1>1, DeliveryFacts DEF PollerSound
<1>3. PICK o \in SendOutcomes :
        /\ Receive(u, i, o)
        /\ \/ /\ o.ok /\ i < reply[u]
              /\ poller' = [poller EXCEPT ![p].part = i + 1]
              /\ UNCHANGED <<queue, ledgerErrors>>
           \/ /\ o.ok /\ i = reply[u]
              /\ poller' = [poller EXCEPT ![p].at = "finish"]
              /\ UNCHANGED <<queue, ledgerErrors>>
           \/ /\ ~o.ok
              /\ poller' = [poller EXCEPT ![p].at = "fail"]
              /\ Written(queue, Append(queue, Remainder(u, i)), queue')
  BY DEF SendPart
<1> HIDE DEF u, i
<1>4. /\ got' \in [Updates -> SUBSET Nat]
      /\ \A v \in Updates : got[v] \subseteq got'[v] /\ got'[v] \subseteq 1 .. reply[v]
      /\ o.ok => i \in got'[u]
  BY <1>1, <1>2, <1>3, ReceiveGrows
<1>5. /\ poller' \in [Pollers -> PollerRows]
      /\ \A w \in Pollers : PollerSound(poller'[w], reply, Accounted, got')
  <2>1. PollerSound(poller[p], reply, Accounted, got')
    <3>1. poller[p].batch \in Seq(1 .. Len(reply))
      BY <1>1, <1>2 DEF PollerRows
    <3> QED BY <1>1, <1>4, <3>1, PollerGrows
  <2>2. CASE o.ok /\ i < reply[u] /\ poller' = [poller EXCEPT ![p].part = i + 1]
    <3> DEFINE q == [poller[p] EXCEPT !.part = i + 1]
    <3>1. q \in PollerRows
      BY <1>2 DEF PollerRows
    <3>5. poller' = [poller EXCEPT ![p] = q]
      BY <1>1, <2>2
    <3>2. /\ q.batch = poller[p].batch /\ q.offset = poller[p].offset /\ q.at = "send"
          /\ q.part = i + 1
      BY <1>1, <1>2 DEF PollerRows
    <3> HIDE DEF q
    <3>3. i + 1 \in 1 .. reply[u] /\ \A j \in 1 .. (i + 1) - 1 : j \in got'[u]
      BY <1>2, <1>4, <2>2
    <3>4. PollerSound(q, reply, Accounted, got')
      BY <1>2, <2>1, <3>2, <3>3, <1>1 DEF PollerSound
    <3> QED BY <1>4, <3>1, <3>4, <3>5, OnePoller
  <2>3. ASSUME NEW to \in {"finish", "fail"}, poller' = [poller EXCEPT ![p].at = to]
        PROVE  /\ poller' \in [Pollers -> PollerRows]
               /\ \A w \in Pollers : PollerSound(poller'[w], reply, Accounted, got')
    <3> DEFINE q == [poller[p] EXCEPT !.at = to]
    <3>1. q \in PollerRows /\ poller' = [poller EXCEPT ![p] = q]
      BY <1>1, <1>2, <2>3 DEF PollerRows
    <3>2. q.batch = poller[p].batch /\ q.offset = poller[p].offset /\ q.at = to
      BY <1>2 DEF PollerRows
    <3> HIDE DEF q
    <3>3. PollerSound(q, reply, Accounted, got')
      BY <2>1, <3>2, <1>1, <2>3 DEF PollerSound
    <3> QED BY <1>4, <3>1, <3>3, OnePoller
  <2> QED BY <1>3, <2>2, <2>3
<1>6. /\ queue' = queue \/ queue' = Append(queue, Row(u, i))
      /\ ledgerErrors' \in {ledgerErrors, ledgerErrors + 1}
  BY <1>3 DEF Written, Remainder
<1>7. \A k \in DOMAIN queue : RowSound(queue[k], reply, got')
  BY <1>1, <1>4, RowGrows
<1>8. Row(u, i) \in QueueRows /\ RowSound(Row(u, i), reply, got')
  BY <1>2, <1>4, DeliveryAssumption DEF Row, QueueRows, RowSound
<1>9. /\ queue' \in Seq(QueueRows) /\ DOMAIN queue \subseteq DOMAIN queue'
      /\ \A k \in DOMAIN queue : queue'[k] = queue[k]
      /\ \A k \in DOMAIN queue' : RowSound(queue'[k], reply, got')
  <2>1. CASE queue' = queue
    BY <1>1, <1>7, <2>1
  <2>2. CASE queue' = Append(queue, Row(u, i))
    <3>1. /\ queue' \in Seq(QueueRows) /\ DOMAIN queue' = 1 .. Len(queue) + 1
          /\ \A k \in 1 .. Len(queue) : queue'[k] = queue[k]
          /\ queue'[Len(queue) + 1] = Row(u, i)
      BY <1>1, <1>8, <2>2
    <3>2. \A k \in 1 .. Len(queue) + 1 : k \in 1 .. Len(queue) \/ k = Len(queue) + 1
      BY <1>1
    <3> QED BY <1>1, <1>7, <1>8, <3>1, <3>2
  <2> QED BY <1>6, <2>1, <2>2
<1>10. janitor' \in [rows : Seq(DOMAIN queue'), part : Nat]
  <2>1. janitor.rows \in Seq(DOMAIN queue')
    BY <1>1, <1>9, SeqMonotonic
  <2> QED BY <1>1, <2>1
<1>11. JanitorSound(janitor', queue', reply, got')
  <2>1. janitor.rows # <<>> => janitor.rows[1] \in DOMAIN queue
    BY <1>1
  <2> QED BY <1>1, <1>4, <1>9, <2>1, JanitorGrows
<1> QED BY <1>1, <1>4, <1>5, <1>6, <1>9, <1>10, <1>11, OutboundKept

\* A janitor that begins a row begins with its first part.
LEMMA BeginsRow ==
    ASSUME DeliveryInvariant, NEW k \in DOMAIN queue, NEW h, NEW j, j.rows[1] = k,
           j.part = queue[k].from, NEW q, q[k].update = queue[k].update, q[k].from = queue[k].from
    PROVE  JanitorSound(j, q, reply, h)
<1>1. queue[k].from \in 1 .. reply[queue[k].update] /\ reply[queue[k].update] \in Nat
  BY DeliveryFacts DEF DeliveryInvariant, RowSound
<1> QED BY <1>1 DEF JanitorSound

\* The rows of the janitor's round, after the first.
LEMMA NextRowSound ==
    ASSUME DeliveryInvariant, janitor.rows # <<>>, NEW h, NEW q,
           \A k \in DOMAIN queue : q[k].update = queue[k].update /\ q[k].from = queue[k].from
    PROVE  /\ NextRow(janitor.rows) \in [rows : Seq(DOMAIN queue), part : Nat]
           /\ JanitorSound(NextRow(janitor.rows), q, reply, h)
<1> DEFINE rows == janitor.rows
<1>1. rows \in Seq(DOMAIN queue) /\ rows # <<>> /\ Len(rows) \in Nat \ {0}
  BY DEF DeliveryInvariant, DeliveryTypes
<1> HIDE DEF rows
<1>2. CASE Len(rows) = 1
  BY <1>2 DEF NextRow, JanitorSound, rows
<1>3. CASE Len(rows) # 1
  <2> DEFINE rest == Tail(rows)
  <2>1. rows[2] \in DOMAIN queue /\ rest \in Seq(DOMAIN queue) /\ rest[1] = rows[2]
    <3>1. /\ rest \in Seq(DOMAIN queue) /\ Len(rest) = Len(rows) - 1
          /\ \A n \in 1 .. Len(rest) : rest[n] = rows[n + 1]
      BY <1>1, HeadTailProperties
    <3>2. 1 \in 1 .. Len(rest) /\ 2 \in 1 .. Len(rows) /\ 1 + 1 = 2
      BY <1>1, <1>3, <3>1
    <3>3. rows[2] \in DOMAIN queue
      BY <1>1, <3>2, ElementOfSeq
    <3> HIDE DEF rest
    <3> QED BY <3>1, <3>2, <3>3
  <2>2. NextRow(rows) = [rows |-> rest, part |-> queue[rows[2]].from]
    BY <1>3 DEF NextRow
  <2> HIDE DEF rest
  <2>3. queue[rows[2]].from \in Nat
    BY <2>1, DeliveryFacts DEF DeliveryInvariant, RowSound
  <2>4. NextRow(rows) \in [rows : Seq(DOMAIN queue), part : Nat]
    BY <2>1, <2>2, <2>3
  <2>5. NextRow(rows).rows[1] = rows[2] /\ NextRow(rows).part = queue[rows[2]].from
    BY <2>1, <2>2
  <2>6. JanitorSound(NextRow(rows), q, reply, h)
    BY <2>1, <2>5, BeginsRow
  <2> QED BY <2>4, <2>6 DEF rows
<1> QED BY <1>2, <1>3

\* A row of the queue changes, not its update and not its first part.
LEMMA RowChanges ==
    ASSUME DeliveryInvariant, NEW k \in DOMAIN queue, NEW row \in QueueRows,
           row.update = queue[k].update, row.from = queue[k].from,
           NEW h, \A u \in Updates : got[u] \subseteq h[u], RowSound(row, reply, h),
           NEW q \in {queue, [queue EXCEPT ![k] = row]}
    PROVE  /\ q \in Seq(QueueRows) /\ DOMAIN q = DOMAIN queue
           /\ \A m \in DOMAIN queue : q[m].update = queue[m].update /\ q[m].from = queue[m].from
           /\ \A m \in DOMAIN q : RowSound(q[m], reply, h)
<1>1. /\ queue \in Seq(QueueRows) /\ DOMAIN queue = 1 .. Len(queue) /\ Updates = 1 .. Len(reply)
      /\ \A m \in DOMAIN queue : queue[m].update \in Updates /\ RowSound(queue[m], reply, got)
  BY DeliveryFacts DEF DeliveryInvariant, DeliveryTypes, DeliveryTypeOK, QueueRows
<1>2. \A m \in DOMAIN queue : RowSound(queue[m], reply, h)
  BY <1>1, RowGrows
<1>3. q \in Seq(QueueRows) /\ DOMAIN q = DOMAIN queue
      /\ \A m \in DOMAIN queue : q[m] = queue[m] \/ (m = k /\ q[m] = row)
  BY <1>1, ExceptSeq
<1> QED BY <1>2, <1>3

\* Steps that change nothing but the rows the janitor has in hand.
LEMMA RoundKept ==
    ASSUME DeliveryInvariant, UNCHANGED <<reply, confirmed, adm, starts, poller, got, queue>>,
           ledgerErrors' = ledgerErrors, deaths' \in Nat,
           janitor' \in [rows : Seq(DOMAIN queue), part : Nat],
           JanitorSound(janitor', queue, reply, got)
    PROVE  DeliveryInvariant'
<1>1. /\ poller \in [Pollers -> PollerRows] /\ ledgerErrors \in Nat
      /\ got \in [Updates -> SUBSET Nat] /\ \A u \in Updates : got[u] \subseteq 1 .. reply[u]
      /\ queue \in Seq(QueueRows)
      /\ \A o \in Pollers : PollerSound(poller[o], reply, Accounted, got)
      /\ \A k \in DOMAIN queue : RowSound(queue[k], reply, got)
  BY DeliveryFacts DEF DeliveryInvariant, DeliveryTypes, DeliveryTypeOK, PartIds
<1>2. poller' \in [Pollers -> PollerRows] /\ ledgerErrors' \in Nat /\ ledgerErrors' >= ledgerErrors
  BY <1>1
<1>3. \A o \in Pollers : PollerSound(poller'[o], reply, Accounted, got')
  BY <1>1
<1>4. got' \in [Updates -> SUBSET Nat] /\ \A u \in Updates : got'[u] \subseteq 1 .. reply[u]
  BY <1>1
<1>5. queue' \in Seq(QueueRows) /\ \A k \in DOMAIN queue' : RowSound(queue'[k], reply, got')
  BY <1>1
<1>6. janitor' \in [rows : Seq(DOMAIN queue'), part : Nat]
      /\ JanitorSound(janitor', queue', reply, got')
  OBVIOUS
<1> QED BY <1>2, <1>3, <1>4, <1>5, <1>6, OutboundKept

\* A round begins, ends by a death, or a row falls due.
LEMMA JanitorKept ==
    ASSUME DeliveryInvariant, UNCHANGED reply,
           ListDue \/ JanitorDies \/ \E k \in DOMAIN queue : RowFallsDue(k)
    PROVE  DeliveryInvariant'
<1>1. /\ Updates = 1 .. Len(reply) /\ poller \in [Pollers -> PollerRows]
      /\ deaths \in Nat /\ ledgerErrors \in Nat
      /\ got \in [Updates -> SUBSET Nat] /\ \A u \in Updates : got[u] \subseteq 1 .. reply[u]
      /\ queue \in Seq(QueueRows) /\ janitor \in [rows : Seq(DOMAIN queue), part : Nat]
      /\ \A o \in Pollers : PollerSound(poller[o], reply, Accounted, got)
      /\ \A k \in DOMAIN queue : RowSound(queue[k], reply, got)
      /\ JanitorSound(janitor, queue, reply, got)
      /\ \A k \in DOMAIN queue : queue[k].update \in Updates /\ queue[k] \in QueueRows
  BY DeliveryFacts DEF DeliveryInvariant, DeliveryTypes, DeliveryTypeOK, PartIds
<1>2. UNCHANGED <<confirmed, adm, starts, poller, got, ledgerErrors>> /\ deaths' \in Nat
  BY <1>1 DEF ListDue, JanitorDies, RowFallsDue
<1>3. CASE ListDue
  <2>1. PICK first \in Due : \E rows \in {<<first>>} \cup {<<first, k>> : k \in Due \ {first}} :
              janitor' = [rows |-> rows, part |-> queue[first].from]
    BY <1>3 DEF ListDue
  <2>2. PICK rows \in {<<first>>} \cup {<<first, k>> : k \in Due \ {first}} :
              janitor' = [rows |-> rows, part |-> queue[first].from]
    BY <2>1
  <2>3. first \in DOMAIN queue /\ Due \subseteq DOMAIN queue
    BY <2>1 DEF Due
  <2>4. rows \in Seq(DOMAIN queue) /\ rows[1] = first
    <3>1. CASE rows = <<first>>
      BY <2>3, <3>1
    <3>2. CASE \E k \in Due : rows = <<first, k>>
      BY <2>3, <3>2
    <3> QED BY <2>2, <3>1, <3>2
  <2>5. queue[first].from \in Nat
    BY <1>1, <2>3 DEF QueueRows
  <2>6. janitor' \in [rows : Seq(DOMAIN queue), part : Nat]
    BY <2>2, <2>4, <2>5
  <2>7. janitor'.rows[1] = first /\ janitor'.part = queue[first].from
    BY <2>2, <2>4
  <2>8. JanitorSound(janitor', queue, reply, got)
    BY <2>3, <2>7, BeginsRow
  <2>9. queue' = queue
    BY <1>3 DEF ListDue
  <2> QED BY <1>2, <2>6, <2>8, <2>9, RoundKept
<1>4. CASE JanitorDies
  <2>1. janitor' \in [rows : Seq(DOMAIN queue), part : Nat] /\ queue' = queue
        /\ JanitorSound(janitor', queue, reply, got)
    BY <1>4 DEF JanitorDies, JanitorSound
  <2> QED BY <1>2, <2>1, RoundKept
<1>5. CASE \E k \in DOMAIN queue : RowFallsDue(k)
  <2>1. PICK k \in DOMAIN queue : RowFallsDue(k)
    BY <1>5
  <2> DEFINE row == [queue[k] EXCEPT !.due = TRUE]
  <2>2. queue' = [queue EXCEPT ![k] = row] /\ janitor' = janitor
    BY <1>1, <2>1 DEF RowFallsDue
  <2>3. /\ row \in QueueRows /\ row.update = queue[k].update /\ row.from = queue[k].from
        /\ row.status = queue[k].status
    BY <1>1 DEF QueueRows
  <2> HIDE DEF row
  <2>4. RowSound(row, reply, got)
    BY <1>1, <2>3 DEF RowSound
  <2>5. /\ queue' \in Seq(QueueRows) /\ DOMAIN queue' = DOMAIN queue
        /\ \A m \in DOMAIN queue : queue'[m].update = queue[m].update /\ queue'[m].from = queue[m].from
        /\ \A m \in DOMAIN queue' : RowSound(queue'[m], reply, got)
    BY <2>2, <2>3, <2>4, RowChanges
  <2>6. JanitorSound(janitor', queue', reply, got)
    <3>1. janitor.rows # <<>> =>
            /\ queue[janitor.rows[1]].update \in 1 .. Len(reply)
            /\ queue'[janitor.rows[1]].update = queue[janitor.rows[1]].update
            /\ queue'[janitor.rows[1]].from = queue[janitor.rows[1]].from
      BY <1>1, <2>5, DeliveryFacts DEF DeliveryInvariant
    <3>2. \A u \in 1 .. Len(reply) : got[u] \subseteq got[u]
      OBVIOUS
    <3> QED BY <1>1, <2>2, <3>1, <3>2, JanitorGrows
  <2> QED BY <1>1, <1>2, <2>2, <2>5, <2>6, OutboundKept
<1> QED BY <1>3, <1>4, <1>5

\* The janitor sends a part of the row it is at, and closes the row after the
\* last one.
LEMMA DrainKept ==
    ASSUME DeliveryInvariant, Drain, UNCHANGED reply
    PROVE  DeliveryInvariant'
<1> DEFINE k == Head(janitor.rows)
           row == queue[k]
           u == row.update
           i == janitor.part
<1>1. /\ Updates = 1 .. Len(reply) /\ poller \in [Pollers -> PollerRows] /\ reply \in Seq(Nat)
      /\ deaths \in Nat /\ ledgerErrors \in Nat /\ DeliveryTypes
      /\ queue \in Seq(QueueRows) /\ janitor \in [rows : Seq(DOMAIN queue), part : Nat]
      /\ \A o \in Pollers : PollerSound(poller[o], reply, Accounted, got)
      /\ \A m \in DOMAIN queue : RowSound(queue[m], reply, got)
      /\ JanitorSound(janitor, queue, reply, got)
      /\ \A m \in DOMAIN queue : queue[m].update \in Updates /\ queue[m] \in QueueRows
      /\ UNCHANGED <<confirmed, poller, adm, starts, deaths>> /\ janitor.rows # <<>>
  BY DeliveryFacts DEF DeliveryInvariant, DeliveryTypes, Drain
<1>2. k \in DOMAIN queue /\ k = janitor.rows[1] /\ row \in QueueRows /\ u \in Updates
      /\ reply[u] \in Nat
  BY <1>1, DeliveryFacts
<1>3. /\ row.from \in 1 .. reply[u] /\ i \in row.from .. reply[u]
      /\ \A j \in 1 .. row.from - 1 : j \in got[u]
      /\ \A j \in row.from .. i - 1 : j \in got[u]
  <2>1. /\ row.from \in 1 .. reply[u]
        /\ \A j \in 1 .. reply[u] : j < row.from => j \in got[u]
    BY <1>1, <1>2 DEF RowSound
  <2>2. i \in row.from .. reply[u] /\ \A j \in row.from .. i - 1 : j \in got[u]
    BY <1>1, <1>2 DEF JanitorSound
  <2> HIDE DEF k, row, u, i
  <2>3. \A j \in 1 .. row.from - 1 : j \in 1 .. reply[u] /\ j < row.from
    BY <1>2, <2>1
  <2> QED BY <2>1, <2>2, <2>3
<1>4. PICK o \in SendOutcomes :
         /\ Receive(u, i, o)
         /\ \/ /\ o.ok /\ i < reply[u]
               /\ janitor' = [janitor EXCEPT !.part = @ + 1]
               /\ UNCHANGED <<queue, ledgerErrors>>
            \/ /\ o.ok /\ i = reply[u]
               /\ Written(queue, [queue EXCEPT ![k].status = "sent"], queue')
               /\ janitor' = NextRow(janitor.rows)
            \/ /\ ~o.ok
               /\ Written(queue, [queue EXCEPT ![k] = RetriedRow(row)], queue')
               /\ janitor' = NextRow(janitor.rows)
  BY DEF Drain
<1> HIDE DEF k, row, u, i
<1>5. /\ got' \in [Updates -> SUBSET Nat]
      /\ \A v \in Updates : got[v] \subseteq got'[v] /\ got'[v] \subseteq 1 .. reply[v]
      /\ o.ok => i \in got'[u]
  <2>1. i \in 1 .. reply[u]
    BY <1>2, <1>3
  <2> QED BY <1>1, <1>2, <1>4, <2>1, ReceiveGrows
<1>6. \A w \in Pollers : PollerSound(poller'[w], reply, Accounted, got')
  <2>1. \A w \in Pollers : poller[w].batch \in Seq(1 .. Len(reply))
    BY <1>1 DEF PollerRows
  <2> QED BY <1>1, <1>5, <2>1, PollerGrows
<1>7. CASE /\ o.ok /\ i < reply[u]
           /\ janitor' = [janitor EXCEPT !.part = @ + 1]
           /\ UNCHANGED <<queue, ledgerErrors>>
  <2>1. \A m \in DOMAIN queue' : RowSound(queue'[m], reply, got')
    BY <1>1, <1>5, <1>7, RowGrows
  <2>2. janitor' \in [rows : Seq(DOMAIN queue'), part : Nat]
    <3>1. janitor.part + 1 \in Nat /\ janitor.rows \in Seq(DOMAIN queue')
      BY <1>1, <1>7
    <3>2. janitor' = [rows |-> janitor.rows, part |-> janitor.part + 1]
      BY <1>1, <1>7
    <3> QED BY <3>1, <3>2
  <2>3. janitor'.rows = janitor.rows /\ janitor'.part = i + 1
    BY <1>1, <1>7 DEF i
  <2>4. i + 1 \in row.from .. reply[u] /\ \A j \in row.from .. (i + 1) - 1 : j \in got'[u]
    BY <1>2, <1>3, <1>5, <1>7
  <2>5. JanitorSound(janitor', queue', reply, got')
    BY <1>2, <1>7, <2>3, <2>4 DEF JanitorSound, row, u
  <2> QED BY <1>1, <1>5, <1>6, <1>7, <2>1, <2>2, <2>5, OutboundKept
<1>8. ASSUME NEW new \in QueueRows, new.update = u, new.from = row.from,
             RowSound(new, reply, got'),
             queue' \in {queue, [queue EXCEPT ![k] = new]}, ledgerErrors' \in {ledgerErrors, ledgerErrors + 1},
             janitor' = NextRow(janitor.rows)
      PROVE  DeliveryInvariant'
  <2>1. /\ queue' \in Seq(QueueRows) /\ DOMAIN queue' = DOMAIN queue
        /\ \A m \in DOMAIN queue : queue'[m].update = queue[m].update /\ queue'[m].from = queue[m].from
        /\ \A m \in DOMAIN queue' : RowSound(queue'[m], reply, got')
    <3>1. k \in DOMAIN queue /\ new.update = queue[k].update /\ new.from = queue[k].from
      BY <1>2, <1>8 DEF row, u
    <3>2. \A v \in Updates : got[v] \subseteq got'[v]
      BY <1>5
    <3> QED BY <1>8, <3>1, <3>2, RowChanges
  <2>2. /\ janitor' \in [rows : Seq(DOMAIN queue'), part : Nat]
        /\ JanitorSound(janitor', queue', reply, got')
    BY <1>1, <1>8, <2>1, NextRowSound
  <2> QED BY <1>1, <1>5, <1>6, <1>8, <2>1, <2>2, OutboundKept
<1>9. CASE /\ o.ok /\ i = reply[u]
           /\ Written(queue, [queue EXCEPT ![k].status = "sent"], queue')
           /\ janitor' = NextRow(janitor.rows)
  <2> DEFINE new == [row EXCEPT !.status = "sent"]
  <2>1. new \in QueueRows /\ new.update = u /\ new.from = row.from /\ new.status = "sent"
    BY <1>2 DEF QueueRows, u
  <2>2. queue' \in {queue, [queue EXCEPT ![k] = new]}
        /\ ledgerErrors' \in {ledgerErrors, ledgerErrors + 1}
    BY <1>2, <1>9 DEF Written, row
  <2> HIDE DEF new
  <2>3. \A j \in 1 .. reply[u] : j \in got'[u]
    <3> SUFFICES ASSUME NEW j \in 1 .. reply[u] PROVE j \in got'[u]
      OBVIOUS
    <3>1. j \in 1 .. row.from - 1 \/ j \in row.from .. i - 1 \/ j = i
      BY <1>2, <1>3, <1>9
    <3> QED BY <1>2, <1>3, <1>5, <1>9, <3>1
  <2>4. RowSound(new, reply, got')
    BY <1>3, <2>1, <2>3 DEF RowSound
  <2> QED BY <1>8, <1>9, <2>1, <2>2, <2>4
<1>10. CASE /\ ~o.ok
            /\ Written(queue, [queue EXCEPT ![k] = RetriedRow(row)], queue')
            /\ janitor' = NextRow(janitor.rows)
  <2> DEFINE new == RetriedRow(row)
  <2>1. /\ new \in QueueRows /\ new.update = u /\ new.from = row.from
        /\ new.status = "sent" => row.status = "sent"
    <3>1. CASE row.attempts >= MaxRetries
      BY <1>2, <3>1 DEF QueueRows, u, RetriedRow
    <3>2. CASE ~(row.attempts >= MaxRetries)
      <4>1. row.attempts + 1 \in 0 .. MaxRetries
        BY <1>2, <3>2, DeliveryAssumption DEF QueueRows
      <4> QED BY <1>2, <3>2, <4>1 DEF QueueRows, u, RetriedRow
    <3> QED BY <3>1, <3>2
  <2>2. queue' \in {queue, [queue EXCEPT ![k] = new]}
        /\ ledgerErrors' \in {ledgerErrors, ledgerErrors + 1}
    BY <1>10 DEF Written
  <2> HIDE DEF new
  <2>3. RowSound(row, reply, got')
    BY <1>1, <1>2, <1>5, RowGrows DEF row, u
  <2>4. RowSound(new, reply, got')
    BY <2>1, <2>3 DEF RowSound, u
  <2> QED BY <1>8, <1>10, <2>1, <2>2, <2>4
<1> QED BY <1>4, <1>7, <1>9, <1>10

\* Every step keeps the invariant.
LEMMA DeliveryKept == DeliveryInvariant /\ [DeliveryNext]_deliveryVars => DeliveryInvariant'
<1> SUFFICES ASSUME DeliveryInvariant, [DeliveryNext]_deliveryVars PROVE DeliveryInvariant'
  OBVIOUS
<1>1. CASE UNCHANGED deliveryVars
  BY <1>1 DEF deliveryVars, DeliveryInvariant, DeliveryTypes, DeliveryTypeOK, StartsAreCounted,
     Accounted, Updates, MaxUpdate, PartIds
<1>2. CASE DeliveryNext
  <2>1. UNCHANGED reply
    BY <1>2 DEF DeliveryNext
  <2> QED BY <1>2, <2>1, FetchKept, AdmitKept, FailOpenKept, PollerKept, SendKept, SettleKept,
             AgingKept, JanitorKept, DrainKept DEF DeliveryNext
<1> QED BY <1>1, <1>2

\* The invariant of updates and replies, of every behaviour.
THEOREM DeliveryHolds == DeliverySpec => []DeliveryInvariant
BY DeliveryStarts, DeliveryKept, PTL DEF DeliverySpec

\* Whatever pollers die where, whatever writes fail and whoever loses a lease: an
\* update Telegram has had confirmed has a ledger row or was processed, and none
\* is processed more often than its attempts and the failed writes allow.
THEOREM AccountsHold == DeliverySpec => []UpdatesAreAccounted
<1>1. DeliveryInvariant => UpdatesAreAccounted
  <2> SUFFICES ASSUME DeliveryInvariant PROVE UpdatesAreAccounted
    OBVIOUS
  <2>1. NoSilentLoss
    BY DEF DeliveryInvariant, NoSilentLoss, Accounted
  <2>2. PoisonIsBounded
    <3> SUFFICES ASSUME NEW u \in Updates PROVE starts[u] <= MaxAttempts + ledgerErrors
      BY DEF PoisonIsBounded
    <3>1. adm \in [Updates -> AdmissionRows] /\ starts[u] \in Nat /\ ledgerErrors \in Nat
          /\ starts[u] <= adm[u].attempts + ledgerErrors
      BY DEF DeliveryInvariant, DeliveryTypes, DeliveryTypeOK, AdmissionRows, StartsAreCounted
    <3>2. adm[u].attempts \in 0 .. MaxAttempts
      BY <3>1 DEF AdmissionRows
    <3> QED BY <3>1, <3>2, DeliveryAssumption
  <2> QED BY <2>1, <2>2 DEF UpdatesAreAccounted
<1> QED BY <1>1, DeliveryHolds, PTL

\* No part of a reply that was ever queued is lost between the sender, the queue
\* and the janitor.
THEOREM PartsHold == DeliverySpec => []NoPartLost
<1>1. DeliveryInvariant => NoPartLost
  BY DEF DeliveryInvariant, NoPartLost, RowSound, PartIds
<1> QED BY <1>1, DeliveryHolds, PTL

\* A settled admission is never changed again, by whom and how late ever.
THEOREM SettlementHolds == DeliverySpec => SettledIsFinal
<1>1. DeliveryInvariant /\ [DeliveryNext]_deliveryVars
      => [\A u \in Updates : adm[u].status \in {"done", "failed"} => adm'[u] = adm[u]]_adm
  <2> SUFFICES ASSUME DeliveryInvariant, DeliveryNext, NEW u \in Updates,
                      adm[u].status \in {"done", "failed"}
               PROVE  adm'[u] = adm[u]
    BY DEF deliveryVars
  <2>1. adm \in [Updates -> AdmissionRows]
    BY DEF DeliveryInvariant, DeliveryTypes, DeliveryTypeOK, AdmissionRows
  <2>2. ASSUME NEW p \in Pollers, Admit(p) PROVE adm'[u] = adm[u]
    BY <2>1, <2>2 DEF Admit, Owns
  <2>3. ASSUME NEW p \in Pollers, SettleAdmission(p) PROVE adm'[u] = adm[u]
    <3>1. PICK to : adm' = adm \/ adm' = [adm EXCEPT ![Current(p)] = SettledRow(Current(p), to)]
      BY <2>3 DEF SettleAdmission, Written
    <3> QED BY <2>1, <3>1 DEF SettledRow
  <2>4. ASSUME NEW p \in Pollers, SweepStale(p) PROVE adm'[u] = adm[u]
    BY <2>1, <2>4 DEF SweepStale, IsStale
  <2>5. ASSUME NEW v \in Updates, LeaseAges(v) PROVE adm'[u] = adm[u]
    BY <2>1, <2>5 DEF LeaseAges
  <2> QED BY <2>2, <2>3, <2>4, <2>5 DEF DeliveryNext, FetchUpdates, AdmitFailsOpen, Process,
             SendPart, PollerDies, ListDue, Drain, JanitorDies, RowFallsDue
<1> QED BY <1>1, DeliveryHolds, PTL DEF DeliverySpec, SettledIsFinal

-----------------------------------------------------------------------------
(* The routing of messages.                                                 *)
(*                                                                         *)
(* QuietAfterReply speaks of the history of replies, the code looks at the  *)
(* group's runtime state: as long as a reply is fresh the state says so.    *)

GroupStates ==
    [loaded : BOOLEAN, aliases : SUBSET Names, last : {"never", "cooling", "recent", "old"}]

\* The names of the group are never more than the chat remembers.
NamesAreBounded ==
    /\ IsFiniteSet(stored) /\ IsFiniteSet(group.aliases)
    /\ Cardinality(group.aliases) <= MaxAliases

RoutingInvariant ==
    /\ setup \in Setups /\ group \in GroupStates /\ stored \subseteq Names
    /\ fresh \in BOOLEAN /\ NamesAreBounded
    /\ fresh => CoolingDown
    /\ OnlyAdminsManage

\* The initial state.
LEMMA RoutingStarts == RoutingInit => RoutingInvariant
<1> SUFFICES ASSUME RoutingInit PROVE RoutingInvariant
  OBVIOUS
<1>1. IsFiniteSet({}) /\ Cardinality({}) = 0
  BY FS_EmptySet
<1>2. /\ group = [loaded |-> FALSE, aliases |-> {}, last |-> "never"] /\ stored = {}
      /\ fresh = FALSE /\ setup \in Setups /\ did.what = "none"
  BY DEF RoutingInit, EmptyGroup, NoAction
<1>3. group \in GroupStates /\ NamesAreBounded
  BY <1>1, <1>2, RoutingAssumption DEF GroupStates, NamesAreBounded
<1>4. OnlyAdminsManage
  BY <1>2 DEF OnlyAdminsManage
<1> QED BY <1>2, <1>3, <1>4 DEF RoutingInvariant

\* One more name, unless the names are full.
LEMMA LearnBounded ==
    ASSUME NEW a \in SUBSET Names, IsFiniteSet(a), Cardinality(a) <= MaxAliases,
           NEW n, n = {} \/ \E x \in Names : n = {x}
    PROVE  /\ Learn(a, n) \in SUBSET Names /\ IsFiniteSet(Learn(a, n))
           /\ Cardinality(Learn(a, n)) <= MaxAliases
           /\ IsFiniteSet(Learn(a, n) \ a)
<1>1. CASE Learn(a, n) = a
  BY <1>1, FS_Subset
<1>2. CASE Learn(a, n) # a
  <2>1. PICK x \in Names : n = {x}
    BY <1>2 DEF Learn
  <2>2. Learn(a, n) = a \cup {x} /\ ~(Cardinality(a) >= MaxAliases) /\ x \notin a
    BY <1>2, <2>1 DEF Learn
  <2>3. /\ IsFiniteSet(a \cup {x}) /\ Cardinality(a \cup {x}) = Cardinality(a) + 1
        /\ Cardinality(a) \in Nat
    BY <2>2, FS_AddElement, FS_CardinalityType
  <2>4. IsFiniteSet((a \cup {x}) \ a)
    BY <2>3, FS_Subset
  <2> QED BY <2>2, <2>3, <2>4, RoutingAssumption
<1> QED BY <1>1, <1>2

\* What a text may say of names.
LEMMA TextNames ==
    ASSUME NEW m \in Messages, m.chat = "group"
    PROVE  /\ m.text.beside = {} \/ \E x \in Names : m.text.beside = {x}
           /\ m.text.lead \in Names \cup {NoName}
           /\ m.reply \in BOOLEAN
           /\ m.text.mention \in BOOLEAN /\ m.text.question \in BOOLEAN
<1>1. m.text = PlainSignals \/ m.text \in TextSignals
  BY DEF Messages
<1>2. m.reply \in BOOLEAN
  BY DEF Messages
<1>3. CASE m.text = PlainSignals
  BY <1>2, <1>3 DEF PlainSignals
<1>4. CASE m.text \in TextSignals
  <2>1. m.text.beside \in BesideNames /\ m.text.lead \in LeadNames
        /\ m.text.mention \in BOOLEAN /\ m.text.question \in BOOLEAN
    BY <1>4 DEF TextSignals
  <2> QED BY <1>2, <2>1 DEF BesideNames, LeadNames
<1> QED BY <1>1, <1>3, <1>4

\* A message in the group: the names stay bounded, and an unprompted answer is
\* not given while the last reply is cooling down.
LEMMA TurnSound ==
    ASSUME RoutingInvariant, NEW m \in Messages, m.chat = "group", NEW boot \in Bootstraps
    PROVE  LET turn == GroupTurn(m, boot)
           IN /\ turn.aliases \in SUBSET Names /\ IsFiniteSet(turn.aliases)
              /\ Cardinality(turn.aliases) <= MaxAliases
              /\ turn.new \in SUBSET Names /\ IsFiniteSet(turn.new)
              /\ turn.decision = "respond" /\ CoolingDown => turn.prompted
<1> DEFINE t == m.text
           known == IF group.loaded THEN group.aliases ELSE boot
           mention == Mentions(t)
           taught == IF setup.username /\ (mention \/ m.reply) THEN Learn(known, t.beside) ELSE known
           lead == IF setup.username THEN t.lead ELSE NoName
           vocative == /\ setup.smart /\ ~(setup.username /\ t.other)
                       /\ lead # NoName /\ (lead \in taught \/ t.question)
           learned == IF vocative THEN Learn(taught, {lead}) ELSE taught
           heard == IF vocative THEN learned \cup {lead} ELSE learned
           signals == [mention |-> mention, reply |-> m.reply,
                       recent |-> RepliedRecently, cooling |-> CoolingDown,
                       alias |-> ContainsAlias(t, heard),
                       vocative |-> vocative, question |-> t.question,
                       other |-> setup.username /\ t.other, noise |-> t.noise]
           turn == GroupTurn(m, boot)
<1>1. turn = [decision |-> Decision(signals), aliases |-> learned,
              new |-> learned \ known, prompted |-> mention \/ m.reply \/ vocative]
  BY DEF GroupTurn
<1>2. known \in SUBSET Names /\ IsFiniteSet(known) /\ Cardinality(known) <= MaxAliases
  <2>1. CASE group.loaded
    BY <2>1 DEF RoutingInvariant, NamesAreBounded, GroupStates
  <2>2. CASE ~group.loaded
    <3>1. CASE boot = {}
      BY <2>2, <3>1, FS_EmptySet, RoutingAssumption
    <3>2. CASE boot \in SUBSET stored /\ Cardinality(boot) = LeastOf(Cardinality(stored), MaxAliases)
      <4>1. IsFiniteSet(boot) /\ boot \in SUBSET Names /\ Cardinality(stored) \in Nat
        BY <3>2, FS_Subset, FS_CardinalityType DEF RoutingInvariant, NamesAreBounded
      <4> QED BY <2>2, <3>2, <4>1, RoutingAssumption DEF LeastOf
    <3> QED BY <3>1, <3>2 DEF Bootstraps
  <2> QED BY <2>1, <2>2
<1> HIDE DEF known
<1>3. taught \in SUBSET Names /\ IsFiniteSet(taught) /\ Cardinality(taught) <= MaxAliases
  BY <1>2, TextNames, LearnBounded
<1> HIDE DEF taught
<1>4. vocative => lead \in Names
  BY TextNames
<1>5. learned \in SUBSET Names /\ IsFiniteSet(learned) /\ Cardinality(learned) <= MaxAliases
  <2>1. CASE vocative
    <3>1. {lead} = {} \/ \E x \in Names : {lead} = {x}
      BY <1>4, <2>1
    <3> HIDE DEF vocative, lead
    <3> QED BY <1>3, <2>1, <3>1, LearnBounded
  <2>2. CASE ~vocative
    BY <1>3, <2>2
  <2> QED BY <2>1, <2>2
<1>6. IsFiniteSet(learned \ known)
  BY <1>5, FS_Subset
<1>7. Decision(signals) = "respond" /\ CoolingDown => mention \/ m.reply \/ vocative
  <2> HIDE DEF mention, vocative, heard
  <2> SUFFICES ASSUME CoolingDown, ~mention, ~m.reply, ~vocative PROVE Decision(signals) # "respond"
    OBVIOUS
  <2>1. ~(signals.mention \/ signals.reply) /\ signals.cooling /\ ~signals.vocative
    OBVIOUS
  <2> HIDE DEF signals
  <2> QED BY <2>1 DEF Decision
<1> HIDE DEF learned, mention, vocative, signals
<1>8. /\ turn.aliases = learned /\ turn.new = learned \ known /\ turn.decision = Decision(signals)
      /\ turn.prompted = (mention \/ m.reply \/ vocative)
  BY <1>1
<1>9. turn.decision = "respond" /\ CoolingDown => turn.prompted
  BY <1>7, <1>8
<1>10. /\ turn.aliases \in SUBSET Names /\ IsFiniteSet(turn.aliases)
       /\ Cardinality(turn.aliases) <= MaxAliases
       /\ turn.new \in SUBSET Names /\ IsFiniteSet(turn.new)
  BY <1>5, <1>6, <1>8
<1> QED BY <1>9, <1>10 DEF turn

\* What became of the message, recorded.
LEMMA DoneFields ==
    ASSUME NEW m, NEW what, NEW prompted, Done(m, what, prompted)
    PROVE  did'.what = what /\ did'.chat = m.chat /\ did'.from = m.from /\ did'.prompted = prompted
BY DEF Done

\* The steps that only look: refusals, commands, feedback, answers and buttons.
LEMMA LookingKept ==
    ASSUME RoutingInvariant,
           \/ \E m \in Messages : Refuse(m) \/ RunCommand(m) \/ TakeFeedback(m) \/ AnswerDirectly(m)
           \/ \E chat \in {"private", "group"}, from \in {"admin", "user"} : PressButton(chat, from)
    PROVE  RoutingInvariant'
<1>1. UNCHANGED <<setup, group, stored, fresh>>
  BY DEF Refuse, RunCommand, TakeFeedback, AnswerDirectly, PressButton
<1>2. OnlyAdminsManage'
  <2>1. ASSUME NEW m \in Messages, Refuse(m) PROVE OnlyAdminsManage'
    <3>1. did'.what \in {"ignored", "refused"}
      BY <2>1, DoneFields DEF Refuse
    <3> QED BY <3>1 DEF OnlyAdminsManage
  <2>2. ASSUME NEW m \in Messages, RunCommand(m) PROVE OnlyAdminsManage'
    <3>1. did'.what = CommandEffect(m) /\ did'.from = m.from
      BY <2>2, DoneFields DEF RunCommand
    <3>2. CommandEffect(m) \in {"informed", "managed", "refused"}
          /\ (CommandEffect(m) = "managed" => MayRun(m))
      BY DEF CommandEffect
    <3>3. MayRun(m) => setup.admins /\ m.from = "admin"
      BY DEF MayRun, McpAccess, HarnessAccess, TaskAccess, AgentsAccess, Allowed
    <3> QED BY <1>1, <3>1, <3>2, <3>3 DEF OnlyAdminsManage
  <2>3. ASSUME NEW m \in Messages, TakeFeedback(m) \/ AnswerDirectly(m) PROVE OnlyAdminsManage'
    <3>1. did'.what \in {"feedback", "answered", "failed", "scheduled"} /\ did'.from = m.from
          /\ did'.chat = m.chat
      BY <2>3, DoneFields DEF TakeFeedback, AnswerDirectly
    <3>2. m.chat = "private" => setup.admins /\ m.from = "admin"
      BY <2>3 DEF TakeFeedback, AnswerDirectly, TurnedAway, Allowed
    <3> QED BY <1>1, <3>1, <3>2 DEF OnlyAdminsManage
  <2>4. ASSUME NEW chat \in {"private", "group"}, NEW from \in {"admin", "user"}, PressButton(chat, from)
        PROVE  OnlyAdminsManage'
    BY <1>1, <2>4 DEF PressButton, Done, OnlyAdminsManage, Allowed
  <2> QED BY <2>1, <2>2, <2>3, <2>4
<1> QED BY <1>1, <1>2 DEF RoutingInvariant, NamesAreBounded, CoolingDown

\* A message in the group: names and cool-down.
LEMMA GroupKept ==
    ASSUME RoutingInvariant, NEW m \in Messages, HandleGroup(m)
    PROVE  /\ RoutingInvariant'
           /\ fresh /\ did'.what = "answered" => did'.prompted
<1>1. m.chat = "group" /\ setup' = setup /\ group \in GroupStates
  BY DEF HandleGroup, RoutingInvariant
<1>2. PICK boot \in Bootstraps, saves \in BOOLEAN, sent \in BOOLEAN :
         LET turn == GroupTurn(m, boot)
             kept == [group EXCEPT !.loaded = TRUE, !.aliases = turn.aliases]
             replies == turn.decision = "respond" /\ sent
         IN /\ group' = IF replies THEN RecordReply(kept) ELSE kept
            /\ stored' = IF saves THEN Saved(turn.new) ELSE stored
            /\ fresh' = (fresh \/ replies)
            /\ Done(m, CASE turn.decision = "ignore" -> "ignored"
                         [] turn.decision = "observe" -> "observed"
                         [] OTHER -> IF sent THEN "answered" ELSE "failed",
                    turn.prompted)
  BY DEF HandleGroup
<1> DEFINE turn == GroupTurn(m, boot)
           kept == [group EXCEPT !.loaded = TRUE, !.aliases = turn.aliases]
           replies == turn.decision = "respond" /\ sent
<1>3. /\ turn.aliases \in SUBSET Names /\ IsFiniteSet(turn.aliases)
      /\ Cardinality(turn.aliases) <= MaxAliases
      /\ turn.new \in SUBSET Names /\ IsFiniteSet(turn.new)
      /\ turn.decision = "respond" /\ CoolingDown => turn.prompted
  BY <1>1, TurnSound
<1>4. turn.decision \in {"ignore", "observe", "respond"}
  BY DEF GroupTurn, Decision
<1> HIDE DEF turn
<1>5. /\ group' = IF replies THEN RecordReply(kept) ELSE kept
      /\ stored' = IF saves THEN stored \cup turn.new ELSE stored
      /\ fresh' = (fresh \/ replies)
      /\ did'.chat = "group" /\ did'.prompted = turn.prompted
      /\ did'.what \in {"ignored", "observed", "answered", "failed"}
      /\ did'.what = "answered" => replies
  BY <1>1, <1>2, <1>4 DEF Saved, Done, turn
<1>6. group' \in GroupStates /\ group'.aliases = turn.aliases
      /\ group'.last = IF replies THEN "cooling" ELSE group.last
  BY <1>1, <1>3, <1>5 DEF GroupStates, RecordReply
<1>7. stored' \subseteq Names /\ IsFiniteSet(stored')
  BY <1>3, <1>5, FS_Union DEF RoutingInvariant, NamesAreBounded
<1>8. OnlyAdminsManage'
  BY <1>5 DEF OnlyAdminsManage
<1>9. fresh' \in BOOLEAN /\ (fresh' => CoolingDown')
  BY <1>5, <1>6 DEF CoolingDown, RoutingInvariant
<1>10. RoutingInvariant'
  BY <1>1, <1>3, <1>6, <1>7, <1>8, <1>9 DEF RoutingInvariant, NamesAreBounded
<1> QED BY <1>3, <1>5, <1>10 DEF RoutingInvariant

\* The clock, a restart, and the next message.
LEMMA ClockKept ==
    ASSUME RoutingInvariant, NextMessage \/ ReplyAges \/ ChannelRestarts
    PROVE  RoutingInvariant'
<1>1. CASE NextMessage
  BY <1>1 DEF NextMessage, NoAction, OnlyAdminsManage, RoutingInvariant, NamesAreBounded, CoolingDown
<1>2. CASE ReplyAges
  BY <1>2 DEF ReplyAges, GroupStates, OnlyAdminsManage, RoutingInvariant, NamesAreBounded, CoolingDown
<1>3. CASE ChannelRestarts
  <2>1. /\ group' = [loaded |-> FALSE, aliases |-> {}, last |-> "never"]
        /\ fresh' = FALSE /\ UNCHANGED <<setup, stored, did>>
    BY <1>3 DEF ChannelRestarts, EmptyGroup
  <2>2. IsFiniteSet({}) /\ Cardinality({}) = 0
    BY FS_EmptySet
  <2>3. group' \in GroupStates /\ NamesAreBounded'
    BY <2>1, <2>2, RoutingAssumption DEF GroupStates, NamesAreBounded, RoutingInvariant
  <2>4. OnlyAdminsManage'
    BY <2>1 DEF OnlyAdminsManage, RoutingInvariant
  <2> QED BY <2>1, <2>3, <2>4 DEF RoutingInvariant
<1> QED BY <1>1, <1>2, <1>3

\* Every step keeps the invariant.
LEMMA RoutingKept == RoutingInvariant /\ [RoutingNext]_routingVars => RoutingInvariant'
<1> SUFFICES ASSUME RoutingInvariant, [RoutingNext]_routingVars PROVE RoutingInvariant'
  OBVIOUS
<1>1. CASE UNCHANGED routingVars
  BY <1>1 DEF routingVars, RoutingInvariant, NamesAreBounded, CoolingDown, OnlyAdminsManage
<1>2. CASE RoutingNext
  BY <1>2, LookingKept, GroupKept, ClockKept DEF RoutingNext
<1> QED BY <1>1, <1>2

\* The invariant of the routing, of every behaviour.
THEOREM RoutingHolds == RoutingSpec => []RoutingInvariant
BY RoutingStarts, RoutingKept, PTL DEF RoutingSpec

\* Whatever messages, commands, buttons and configurations: only an admin of a
\* configured allowlist manages anything or is answered in private.
THEOREM AdminsHold == RoutingSpec => []OnlyAdminsManage
<1>1. RoutingInvariant => OnlyAdminsManage
  BY DEF RoutingInvariant
<1> QED BY <1>1, RoutingHolds, PTL

\* After a reply in the group the bot is not heard unprompted until the cool-down
\* is over.
THEOREM QuietHolds == RoutingSpec => QuietAfterReply
<1>1. RoutingInvariant /\ [RoutingNext]_routingVars
      => [fresh /\ did'.chat = "group" /\ did'.what = "answered" => did'.prompted]_did
  <2> SUFFICES ASSUME RoutingInvariant, RoutingNext, did' # did, fresh,
                      did'.chat = "group", did'.what = "answered"
               PROVE  did'.prompted
    BY DEF routingVars
  <2>1. ASSUME NEW m \in Messages, HandleGroup(m) PROVE did'.prompted
    BY <2>1, GroupKept
  <2>2. ASSUME NEW m \in Messages, Refuse(m) \/ RunCommand(m) \/ TakeFeedback(m) \/ AnswerDirectly(m)
        PROVE  did'.prompted
    <3>1. \E what : Done(m, what, TRUE)
      BY <2>2 DEF Refuse, RunCommand, TakeFeedback, AnswerDirectly
    <3>2. did'.prompted = TRUE
      BY <3>1, DoneFields
    <3> QED BY <3>2
  <2>3. ASSUME NEW chat, NEW from, PressButton(chat, from) PROVE did'.prompted
    <3>1. \E what : Done([chat |-> chat, from |-> from], what, TRUE)
      BY <2>3 DEF PressButton
    <3>2. did'.prompted = TRUE
      BY <3>1, DoneFields
    <3> QED BY <3>2
  <2>4. ~NextMessage
    <3> SUFFICES ASSUME NextMessage PROVE did'.chat = "none"
      OBVIOUS
    <3> QED BY DEF NextMessage, NoAction
  <2>5. ~ReplyAges /\ ~ChannelRestarts
    BY DEF ReplyAges, ChannelRestarts
  <2> QED BY <2>1, <2>2, <2>3, <2>4, <2>5 DEF RoutingNext
<1> QED BY <1>1, RoutingHolds, PTL DEF RoutingSpec, QuietAfterReply

\* The runtime state has its types, and a chat never remembers more names than
\* the limit, however often it is restarted from the stored ones.
THEOREM NamesHold == RoutingSpec => []RoutingTypeOK
<1>1. RoutingInvariant => RoutingTypeOK
  BY DEF RoutingInvariant, RoutingTypeOK, NamesAreBounded, GroupStates
<1> QED BY <1>1, RoutingHolds, PTL

-----------------------------------------------------------------------------
(* The stream sink.                                                         *)
(*                                                                         *)
(* finalize trusts what the last complete flush rendered: a part that is    *)
(* unchanged since then is not sent again.  That is right because the text  *)
(* only grows: a message shows a part of some text between the one rendered *)
(* last and the pending one, and part i of two such texts is the same text  *)
(* if it has the same length.                                               *)

PartCount(n) == (n + ChunkSize - 1) \div ChunkSize
PartLength(n, i) ==
    IF i < PartCount(n) THEN ChunkSize ELSE n - (PartCount(n) - 1) * ChunkSize

TextVersions == {"streamed", "reply"}
Texts == [version : TextVersions, length : Nat]
TextParts == [version : TextVersions, index : Nat, length : Nat]
SinkStates ==
    [prefer : BOOLEAN, draft : BOOLEAN, msgs : Seq(TextParts), pending : Texts,
     rendered : Seq(TextParts), state : {"streaming", "ok", "error", "broken"}]

\* A sink that is streaming.
SinkSound(s) ==
    /\ s.pending.version = "streamed"
    /\ \E n \in 0 .. s.pending.length :
          s.rendered = PartsOf([version |-> "streamed", length |-> n])
    /\ Len(s.msgs) <= PartCount(s.pending.length)
    /\ \A i \in 1 .. Len(s.msgs) :
          /\ s.msgs[i].version = "streamed" /\ s.msgs[i].index = i
          /\ s.msgs[i].length <= PartLength(s.pending.length, i)
          /\ i <= Len(s.rendered) => s.rendered[i].length <= s.msgs[i].length
    /\ s.rendered = PartsOf(s.pending) => DraftsNow(s) \/ Len(s.msgs) >= Len(s.rendered)

StreamInvariant ==
    /\ sink.state = "streaming" => sink \in SinkStates /\ SinkSound(sink)
    /\ ReplyReachesChat

\* How many parts a text of n characters has.
LEMMA CountOfParts ==
    ASSUME NEW n \in Nat
    PROVE  /\ PartCount(n) \in Nat /\ n <= PartCount(n) * ChunkSize
           /\ n = 0 => PartCount(n) = 0
           /\ n > 0 => PartCount(n) > 0 /\ (PartCount(n) - 1) * ChunkSize < n
<1> DEFINE c == PartCount(n)
<1>1. c \in Nat /\ c * ChunkSize <= n + ChunkSize - 1 /\ n + ChunkSize - 1 < c * ChunkSize + ChunkSize
  BY StreamAssumption DEF PartCount
<1> HIDE DEF c
<1>2. (c - 1) * ChunkSize = c * ChunkSize - ChunkSize
  BY <1>1, StreamAssumption
<1>3. c > 0 => ChunkSize <= c * ChunkSize
  BY <1>1, StreamAssumption
<1>4. c = 0 => c * ChunkSize = 0
  BY StreamAssumption
<1>5. n <= c * ChunkSize /\ (n > 0 => c > 0) /\ (n > 0 => (c - 1) * ChunkSize < n)
  BY <1>1, <1>2, <1>4, StreamAssumption
<1>6. n = 0 => c = 0
  BY <1>1, <1>3, StreamAssumption
<1> QED BY <1>1, <1>5, <1>6 DEF c

\* The parts of a text.
LEMMA ShapeOfParts ==
    ASSUME NEW text \in Texts
    PROVE  /\ PartsOf(text) \in Seq(TextParts) /\ Len(PartsOf(text)) = PartCount(text.length)
           /\ \A i \in 1 .. PartCount(text.length) :
                 PartsOf(text)[i] = [version |-> text.version, index |-> i,
                                     length |-> PartLength(text.length, i)]
<1> DEFINE n == text.length
           c == PartCount(n)
<1>1. n \in Nat /\ text.version \in TextVersions
  BY DEF Texts
<1>2. /\ c \in Nat /\ n <= c * ChunkSize
      /\ n > 0 => c > 0 /\ (c - 1) * ChunkSize < n
      /\ n = 0 => c = 0
  BY <1>1, CountOfParts
<1>3. PartsOf(text) = [i \in 1 .. c |-> [version |-> text.version, index |-> i,
                                         length |-> PartLength(n, i)]]
  BY DEF PartsOf, PartCount, PartLength
<1>4. ASSUME NEW i \in 1 .. c PROVE PartLength(n, i) \in Nat
  <2>1. n > 0 /\ n - (c - 1) * ChunkSize \in Nat
    BY <1>1, <1>2, StreamAssumption
  <2> QED BY <2>1, StreamAssumption DEF PartLength
<1> HIDE DEF c, n
<1>5. PartsOf(text) \in [1 .. c -> TextParts]
  BY <1>1, <1>2, <1>3, <1>4 DEF TextParts
<1>6. PartsOf(text) \in Seq(TextParts) /\ Len(PartsOf(text)) = c
  BY <1>2, <1>5
<1> QED BY <1>2, <1>3, <1>6 DEF c, n

\* A longer text has the same parts or longer ones, and is not the same.
LEMMA PartsGrow ==
    ASSUME NEW m \in Nat, NEW n \in Nat, m <= n
    PROVE  /\ PartCount(m) <= PartCount(n)
           /\ \A i \in 1 .. PartCount(m) : PartLength(m, i) \in Nat /\ PartLength(m, i) <= PartLength(n, i)
           /\ m < n => PartCount(m) # PartCount(n)
                       \/ PartLength(m, PartCount(m)) # PartLength(n, PartCount(n))
<1> DEFINE b == PartCount(m)
           c == PartCount(n)
<1>1. /\ b \in Nat /\ m <= b * ChunkSize /\ (m = 0 => b = 0)
      /\ m > 0 => b > 0 /\ (b - 1) * ChunkSize < m
  BY CountOfParts
<1>2. /\ c \in Nat /\ n <= c * ChunkSize /\ (n = 0 => c = 0)
      /\ n > 0 => c > 0 /\ (c - 1) * ChunkSize < n
  BY CountOfParts
<1> HIDE DEF b, c
<1>3. b <= c
  <2> SUFFICES ASSUME c <= b - 1 PROVE FALSE
    BY <1>1, <1>2
  <2>1. c * ChunkSize <= (b - 1) * ChunkSize
    BY <1>1, <1>2, StreamAssumption
  <2> QED BY <1>1, <1>2, <2>1, StreamAssumption
<1>4. (b - 1) * ChunkSize = b * ChunkSize - ChunkSize /\ (c - 1) * ChunkSize = c * ChunkSize - ChunkSize
  BY <1>1, <1>2, StreamAssumption
<1>5. ASSUME NEW i \in 1 .. b PROVE PartLength(m, i) \in Nat /\ PartLength(m, i) <= PartLength(n, i)
  <2>1. PartLength(m, i) = IF i < b THEN ChunkSize ELSE m - (b - 1) * ChunkSize
    BY DEF PartLength, b
  <2>2. PartLength(n, i) = IF i < c THEN ChunkSize ELSE n - (c - 1) * ChunkSize
    BY DEF PartLength, c
  <2>3. m > 0 /\ b * ChunkSize \in Nat /\ c * ChunkSize \in Nat
    BY <1>1, <1>2, StreamAssumption
  <2>4. CASE i < b
    BY <1>1, <1>2, <1>3, <2>1, <2>2, <2>4, StreamAssumption
  <2>5. CASE ~(i < b) /\ b < c
    BY <1>1, <1>2, <1>4, <2>1, <2>2, <2>3, <2>5, StreamAssumption
  <2>6. CASE ~(i < b) /\ b = c
    BY <1>1, <1>2, <1>4, <2>1, <2>2, <2>3, <2>6, StreamAssumption
  <2> QED BY <1>1, <1>2, <1>3, <2>4, <2>5, <2>6
<1>6. ASSUME m < n, b = c PROVE PartLength(m, b) # PartLength(n, c)
  <2>1. PartLength(m, b) = m - (b - 1) * ChunkSize /\ PartLength(n, c) = n - (c - 1) * ChunkSize
    BY <1>1, <1>2 DEF PartLength, b, c
  <2>2. (b - 1) * ChunkSize \in Int
    BY <1>1, StreamAssumption
  <2> QED BY <1>6, <2>1, <2>2
<1> QED BY <1>3, <1>5, <1>6 DEF b, c

\* What an edit does to the messages, whatever the flush before it left.
LEMMA EditedShape ==
    ASSUME NEW s \in SinkStates, NEW parts \in Seq(TextParts), NEW k \in 1 .. Len(parts) + 1
    PROVE  LET e == Edited(s, parts, k)
           IN /\ e \in SinkStates
              /\ e.pending = s.pending /\ e.state = s.state
              /\ e.prefer = s.prefer /\ e.draft = s.draft
              /\ e.rendered = IF k > Len(parts) THEN parts ELSE s.rendered
              /\ Len(e.msgs) = IF Len(s.msgs) > k - 1 THEN Len(s.msgs) ELSE k - 1
              /\ \A i \in 1 .. Len(e.msgs) :
                    e.msgs[i] = IF i >= k \/ i > Len(parts) \/ Unchanged(s, parts, i)
                                THEN s.msgs[i] ELSE parts[i]
              /\ \A i \in 1 .. Len(e.msgs) :
                    i >= k \/ i > Len(parts) => i <= Len(s.msgs)
<1> DEFINE e == Edited(s, parts, k)
           upto == IF Len(s.msgs) > k - 1 THEN Len(s.msgs) ELSE k - 1
           m == [i \in 1 .. upto |->
                   IF i >= k \/ i > Len(parts) \/ Unchanged(s, parts, i) THEN s.msgs[i] ELSE parts[i]]
           r == IF k > Len(parts) THEN parts ELSE s.rendered
<1>1. s.msgs \in Seq(TextParts) /\ s.rendered \in Seq(TextParts) /\ Len(parts) \in Nat /\ Len(s.msgs) \in Nat
  BY DEF SinkStates
<1>2. e = [s EXCEPT !.msgs = m, !.rendered = r]
  BY DEF Edited
<1>3. upto \in Nat
  BY <1>1
<1>4. \A i \in 1 .. upto : i >= k \/ i > Len(parts) => i <= Len(s.msgs)
  BY <1>1
<1>5. ASSUME NEW i \in 1 .. upto PROVE m[i] \in TextParts
  <2>1. CASE i >= k \/ i > Len(parts) \/ Unchanged(s, parts, i)
    <3>1. i \in 1 .. Len(s.msgs)
      BY <1>1, <1>4, <2>1 DEF Unchanged
    <3> QED BY <1>1, <2>1, <3>1
  <2>2. CASE ~(i >= k \/ i > Len(parts) \/ Unchanged(s, parts, i))
    BY <1>1, <2>2
  <2> QED BY <2>1, <2>2
<1>6. m \in [1 .. upto -> TextParts]
  BY <1>5
<1> HIDE DEF upto
<1>7. m \in Seq(TextParts) /\ Len(m) = upto
  BY <1>3, <1>6
<1>8. r \in Seq(TextParts)
  BY <1>1
<1>9. \A i \in 1 .. Len(m) :
         m[i] = IF i >= k \/ i > Len(parts) \/ Unchanged(s, parts, i) THEN s.msgs[i] ELSE parts[i]
  BY <1>7
<1> HIDE DEF m, r
<1>10. /\ e \in SinkStates /\ e.msgs = m /\ e.rendered = r
       /\ e.pending = s.pending /\ e.state = s.state
       /\ e.prefer = s.prefer /\ e.draft = s.draft
  BY <1>2, <1>7, <1>8 DEF SinkStates
<1> HIDE DEF e
<1>11. Len(e.msgs) = upto /\ \A i \in 1 .. Len(e.msgs) : e.msgs[i] = m[i]
  BY <1>7, <1>10
<1>12. \A i \in 1 .. Len(e.msgs) :
         e.msgs[i] = IF i >= k \/ i > Len(parts) \/ Unchanged(s, parts, i) THEN s.msgs[i] ELSE parts[i]
  BY <1>9, <1>10
<1>13. \A i \in 1 .. Len(e.msgs) : i >= k \/ i > Len(parts) => i <= Len(s.msgs)
  BY <1>4, <1>11
<1>14. /\ e.rendered = IF k > Len(parts) THEN parts ELSE s.rendered
       /\ Len(e.msgs) = IF Len(s.msgs) > k - 1 THEN Len(s.msgs) ELSE k - 1
  BY <1>10, <1>11 DEF r, upto
<1> QED BY <1>10, <1>12, <1>13, <1>14 DEF e

\* An edit that is not interrupted shows every part, when the parts it skips
\* are shown.
LEMMA EditedComplete ==
    ASSUME NEW s \in SinkStates, NEW parts \in Seq(TextParts),
           \A i \in 1 .. Len(parts) : Unchanged(s, parts, i) => s.msgs[i] = parts[i]
    PROVE  \A i \in 1 .. Len(parts) :
              parts[i] \in PartsIn(Edited(s, parts, Len(parts) + 1).msgs)
<1> DEFINE e == Edited(s, parts, Len(parts) + 1)
<1>1. Len(parts) \in Nat /\ Len(s.msgs) \in Nat
  BY DEF SinkStates
<1>2. /\ e \in SinkStates /\ Len(e.msgs) >= Len(parts)
      /\ \A i \in 1 .. Len(e.msgs) :
            e.msgs[i] = IF i >= Len(parts) + 1 \/ i > Len(parts) \/ Unchanged(s, parts, i)
                        THEN s.msgs[i] ELSE parts[i]
  BY <1>1, EditedShape
<1> HIDE DEF e
<1>3. e.msgs \in Seq(TextParts) /\ Len(e.msgs) \in Nat /\ DOMAIN e.msgs = 1 .. Len(e.msgs)
  BY <1>2 DEF SinkStates
<1>4. \A i \in 1 .. Len(parts) : e.msgs[i] = parts[i] /\ i \in DOMAIN e.msgs
  BY <1>1, <1>2, <1>3
<1> QED BY <1>4 DEF PartsIn, e

\* A message that finalize would not edit shows its part of the pending text.
LEMMA SkippedIsShown ==
    ASSUME NEW s \in SinkStates, SinkSound(s), NEW i \in 1 .. PartCount(s.pending.length),
           Unchanged(s, PartsOf(s.pending), i)
    PROVE  s.msgs[i] = PartsOf(s.pending)[i]
<1>1. s.pending \in Texts /\ s.pending.length \in Nat /\ s.msgs \in Seq(TextParts)
      /\ s.rendered \in Seq(TextParts)
  BY DEF SinkStates, Texts
<1>2. PartCount(s.pending.length) \in Nat
  BY <1>1, CountOfParts
<1>3. PartsOf(s.pending)[i] = [version |-> "streamed", index |-> i, length |-> PartLength(s.pending.length, i)]
  BY <1>1, ShapeOfParts DEF SinkSound
<1>4. i \in 1 .. Len(s.msgs) /\ i <= Len(s.rendered) /\ s.rendered[i] = PartsOf(s.pending)[i]
  BY <1>1, <1>2 DEF Unchanged
<1>5. /\ s.msgs[i].version = "streamed" /\ s.msgs[i].index = i
      /\ s.msgs[i].length <= PartLength(s.pending.length, i)
      /\ s.rendered[i].length <= s.msgs[i].length
  BY <1>4 DEF SinkSound
<1>6. s.msgs[i] \in TextParts /\ PartLength(s.pending.length, i) \in Nat
  BY <1>1, <1>2, <1>4, PartsGrow
<1>7. s.msgs[i].length = PartLength(s.pending.length, i)
  BY <1>3, <1>4, <1>5, <1>6 DEF TextParts
<1> QED BY <1>3, <1>5, <1>6, <1>7 DEF TextParts

\* An edit, interrupted or not, keeps a streaming sink sound.
LEMMA EditedSound ==
    ASSUME NEW s \in SinkStates, SinkSound(s), PartsOf(s.pending) # s.rendered,
           NEW k \in 1 .. Len(PartsOf(s.pending)) + 1
    PROVE  SinkSound(Edited(s, PartsOf(s.pending), k))
<1> DEFINE parts == PartsOf(s.pending)
           len == s.pending.length
           e == Edited(s, parts, k)
<1>1. s.pending \in Texts /\ len \in Nat /\ s.msgs \in Seq(TextParts) /\ s.rendered \in Seq(TextParts)
      /\ Len(s.msgs) \in Nat
  BY DEF SinkStates, Texts
<1>2. PartCount(len) \in Nat
  BY <1>1, CountOfParts
<1>3. /\ parts \in Seq(TextParts) /\ Len(parts) = PartCount(len)
      /\ \A i \in 1 .. PartCount(len) :
            parts[i] = [version |-> "streamed", index |-> i, length |-> PartLength(len, i)]
  BY <1>1, ShapeOfParts DEF SinkSound
<1>4. PICK n \in 0 .. len : s.rendered = PartsOf([version |-> "streamed", length |-> n])
  BY DEF SinkSound
<1>5. [version |-> "streamed", length |-> n] \in Texts /\ n \in Nat /\ n <= len
  BY <1>1, <1>4 DEF Texts, TextVersions
<1>6. /\ Len(s.rendered) = PartCount(n)
      /\ \A i \in 1 .. PartCount(n) :
            s.rendered[i] = [version |-> "streamed", index |-> i, length |-> PartLength(n, i)]
  BY <1>4, <1>5, ShapeOfParts
<1>7. /\ PartCount(n) <= PartCount(len) /\ PartCount(n) \in Nat
      /\ \A i \in 1 .. PartCount(n) : PartLength(n, i) <= PartLength(len, i)
      /\ \A i \in 1 .. PartCount(len) : PartLength(len, i) \in Nat
  <2>1. PartCount(n) \in Nat
    BY <1>5, CountOfParts
  <2>2. PartCount(n) <= PartCount(len) /\ \A i \in 1 .. PartCount(n) : PartLength(n, i) <= PartLength(len, i)
    BY <1>1, <1>5, PartsGrow
  <2>3. len <= len /\ \A i \in 1 .. PartCount(len) : PartLength(len, i) \in Nat
    BY <1>1, PartsGrow
  <2> QED BY <2>1, <2>2, <2>3
<1>8. /\ Len(s.msgs) <= PartCount(len)
      /\ \A i \in 1 .. Len(s.msgs) :
            /\ s.msgs[i].version = "streamed" /\ s.msgs[i].index = i
            /\ s.msgs[i].length <= PartLength(len, i)
            /\ i <= Len(s.rendered) => s.rendered[i].length <= s.msgs[i].length
      /\ s.pending.version = "streamed"
  BY DEF SinkSound
<1>9. \A i \in 1 .. PartCount(len) : Unchanged(s, parts, i) => s.msgs[i] = parts[i]
  BY SkippedIsShown
<1>10. /\ e \in SinkStates /\ e.pending = s.pending /\ e.prefer = s.prefer /\ e.draft = s.draft
       /\ e.rendered = IF k > Len(parts) THEN parts ELSE s.rendered
       /\ Len(e.msgs) = IF Len(s.msgs) > k - 1 THEN Len(s.msgs) ELSE k - 1
       /\ \A i \in 1 .. Len(e.msgs) :
             e.msgs[i] = IF i >= k \/ i > Len(parts) \/ Unchanged(s, parts, i)
                         THEN s.msgs[i] ELSE parts[i]
       /\ \A i \in 1 .. Len(e.msgs) : i >= k \/ i > Len(parts) => i <= Len(s.msgs)
  BY <1>3, EditedShape
<1>11. parts # s.rendered /\ k \in 1 .. PartCount(len) + 1 /\ s.pending = [version |-> "streamed", length |-> len]
  BY <1>1, <1>3, <1>8 DEF Texts
<1> HIDE DEF parts, len, e
<1>12. Len(e.msgs) <= PartCount(len) /\ Len(e.msgs) \in Nat
  BY <1>1, <1>2, <1>8, <1>10, <1>11
<1>13. \A i \in 1 .. Len(e.msgs) : i \in 1 .. PartCount(len) /\ i <= Len(parts)
  BY <1>2, <1>3, <1>12
<1>14. ASSUME NEW i \in 1 .. Len(e.msgs)
       PROVE  \/ e.msgs[i] = parts[i]
              \/ e.msgs[i] = s.msgs[i] /\ i \in 1 .. Len(s.msgs) /\ k <= Len(parts)
  <2>1. CASE i >= k
    BY <1>1, <1>3, <1>10, <1>13, <2>1
  <2>2. CASE ~(i >= k)
    BY <1>9, <1>10, <1>13, <2>2
  <2> QED BY <2>1, <2>2
<1>15. ASSUME NEW i \in 1 .. Len(e.msgs)
       PROVE  /\ e.msgs[i].version = "streamed" /\ e.msgs[i].index = i
              /\ e.msgs[i].length <= PartLength(len, i)
              /\ i <= Len(e.rendered) => e.rendered[i].length <= e.msgs[i].length
  <2>1. CASE e.msgs[i] = parts[i]
    <3>1. e.msgs[i] = [version |-> "streamed", index |-> i, length |-> PartLength(len, i)]
      BY <1>3, <1>13, <2>1
    <3>2. PartLength(len, i) \in Nat /\ PartLength(len, i) <= PartLength(len, i)
      BY <1>7, <1>13
    <3>3. CASE k > Len(parts)
      <4>1. e.rendered[i] = e.msgs[i]
        BY <1>10, <2>1, <3>3
      <4>2. e.msgs[i].length = PartLength(len, i) /\ e.msgs[i].version = "streamed" /\ e.msgs[i].index = i
        BY <3>1
      <4> QED BY <3>2, <4>1, <4>2
    <3>4. CASE ~(k > Len(parts))
      <4>1. e.rendered = s.rendered
        BY <1>10, <3>4
      <4>2. i <= Len(e.rendered) => i \in 1 .. PartCount(n)
        BY <1>6, <1>7, <4>1
      <4>3. ASSUME i <= Len(e.rendered) PROVE e.rendered[i].length <= PartLength(len, i)
        <5>1. e.rendered[i] = [version |-> "streamed", index |-> i, length |-> PartLength(n, i)]
          BY <1>6, <4>1, <4>2, <4>3
        <5>2. e.rendered[i].length = PartLength(n, i)
          BY <5>1
        <5> QED BY <1>7, <4>2, <4>3, <5>2
      <4> QED BY <3>1, <3>2, <4>3
    <3> QED BY <3>3, <3>4
  <2>2. CASE e.msgs[i] = s.msgs[i] /\ i \in 1 .. Len(s.msgs) /\ k <= Len(parts)
    <3>1. e.rendered = s.rendered
      BY <1>2, <1>3, <1>10, <1>11, <2>2
    <3> QED BY <1>8, <2>2, <3>1
  <2> QED BY <1>14, <2>1, <2>2
<1>16. \E j \in 0 .. len : e.rendered = PartsOf([version |-> "streamed", length |-> j])
  <2>1. len \in 0 .. len
    BY <1>1
  <2>2. parts = PartsOf([version |-> "streamed", length |-> len])
    BY <1>11 DEF parts
  <2> QED BY <1>4, <1>10, <2>1, <2>2
<1>17. e.rendered = PartsOf(e.pending) => Len(e.msgs) >= Len(e.rendered)
  <2> SUFFICES ASSUME e.rendered = parts PROVE Len(e.msgs) >= Len(parts)
    BY <1>10 DEF parts
  <2>1. k > Len(parts)
    BY <1>10, <1>11
  <2> QED BY <1>1, <1>2, <1>3, <1>10, <1>11, <2>1
<1>18. e.pending.version = "streamed" /\ e.pending.length = len
  BY <1>8, <1>10 DEF len
<1>19. SinkSound(e)
  BY <1>12, <1>15, <1>16, <1>17, <1>18 DEF SinkSound
<1> QED BY <1>19 DEF e, parts

\* What a flush leaves: the same text, a typed sink, and every part shown by an
\* edit that was not interrupted.
LEMMA FlushedShape ==
    ASSUME NEW s \in SinkStates, NEW r \in Flushed(s)
    PROVE  /\ r.sink \in SinkStates /\ r.ok \in BOOLEAN
           /\ r.sink.pending = s.pending /\ r.sink.state = s.state
           /\ r.ok /\ PartsOf(s.pending) # <<>> /\ PartsOf(s.pending) # s.rendered /\ ~DraftsNow(s)
              => r.sink = Edited(s, PartsOf(s.pending), Len(PartsOf(s.pending)) + 1)
<1> DEFINE parts == PartsOf(s.pending)
           plain == [s EXCEPT !.draft = IF DraftsNow(s) THEN FALSE ELSE @]
<1>1. s.pending \in Texts
  BY DEF SinkStates
<1>2. parts \in Seq(TextParts) /\ Len(parts) \in Nat
  BY <1>1, ShapeOfParts
<1>3. plain \in SinkStates /\ plain.pending = s.pending /\ plain.state = s.state
      /\ (~DraftsNow(s) => plain = s)
  BY DEF SinkStates
<1>4. CASE parts = <<>> \/ parts = s.rendered
  <2>1. r = [sink |-> s, ok |-> TRUE]
    BY <1>4 DEF Flushed
  <2>2. r.sink = s /\ r.ok = TRUE
    BY <2>1
  <2> QED BY <1>4, <2>2
<1>5. CASE ~(parts = <<>> \/ parts = s.rendered)
  <2>1. \/ \E k \in 1 .. Len(parts) + 1 : r = [sink |-> Edited(plain, parts, k), ok |-> k > Len(parts)]
        \/ DraftsNow(s) /\ r = [sink |-> Drafted(s, parts), ok |-> TRUE]
    BY <1>5 DEF Flushed
  <2>2. CASE DraftsNow(s) /\ r = [sink |-> Drafted(s, parts), ok |-> TRUE]
    <3>1. /\ Drafted(s, parts) \in SinkStates
          /\ Drafted(s, parts).pending = s.pending /\ Drafted(s, parts).state = s.state
      BY <1>2 DEF Drafted, SinkStates
    <3> QED BY <2>2, <3>1
  <2>3. ASSUME NEW k \in 1 .. Len(parts) + 1, r = [sink |-> Edited(plain, parts, k), ok |-> k > Len(parts)]
        PROVE  /\ r.sink \in SinkStates /\ r.ok \in BOOLEAN
               /\ r.sink.pending = s.pending /\ r.sink.state = s.state
               /\ r.ok /\ ~DraftsNow(s) => r.sink = Edited(s, parts, Len(parts) + 1)
    <3> HIDE DEF plain, parts
    <3>1. /\ Edited(plain, parts, k) \in SinkStates
          /\ Edited(plain, parts, k).pending = plain.pending
          /\ Edited(plain, parts, k).state = plain.state
      BY <1>2, <1>3, EditedShape
    <3>2. r.sink = Edited(plain, parts, k) /\ r.ok = (k > Len(parts))
      BY <2>3
    <3>3. k > Len(parts) => k = Len(parts) + 1
      BY <1>2
    <3>4. r.ok \in BOOLEAN /\ (r.ok => k > Len(parts))
      <4>1. CASE k > Len(parts)
        <5>1. r.ok = TRUE
          BY <2>3, <4>1
        <5> QED BY <4>1, <5>1
      <4>2. CASE ~(k > Len(parts))
        <5>1. (k > Len(parts)) = FALSE
          BY <1>2, <4>2
        <5>2. r.ok = FALSE
          BY <3>2, <5>1, Zenon
        <5> QED BY <5>2
      <4> QED BY <4>1, <4>2
    <3>5. r.ok /\ ~DraftsNow(s) => r.sink = Edited(s, parts, Len(parts) + 1)
      BY <1>3, <3>2, <3>3, <3>4, Zenon
    <3> QED BY <1>3, <3>1, <3>2, <3>4, <3>5
  <2> QED BY <2>1, <2>2, <2>3
<1> QED BY <1>4, <1>5

\* A flush keeps a streaming sink sound.
LEMMA FlushedSound ==
    ASSUME NEW s \in SinkStates, SinkSound(s), NEW r \in Flushed(s)
    PROVE  SinkSound(r.sink)
<1> DEFINE parts == PartsOf(s.pending)
           plain == [s EXCEPT !.draft = IF DraftsNow(s) THEN FALSE ELSE @]
<1>1. s.pending \in Texts /\ s.pending.length \in Nat /\ s.msgs \in Seq(TextParts)
  BY DEF SinkStates, Texts
<1>2. parts \in Seq(TextParts) /\ Len(parts) = PartCount(s.pending.length)
  BY <1>1, ShapeOfParts
<1>3. CASE parts = <<>> \/ parts = s.rendered
  BY <1>3 DEF Flushed
<1>4. CASE ~(parts = <<>> \/ parts = s.rendered)
  <2>1. \/ \E k \in 1 .. Len(parts) + 1 : r = [sink |-> Edited(plain, parts, k), ok |-> k > Len(parts)]
        \/ DraftsNow(s) /\ r = [sink |-> Drafted(s, parts), ok |-> TRUE]
    BY <1>4 DEF Flushed
  <2>2. CASE DraftsNow(s) /\ r = [sink |-> Drafted(s, parts), ok |-> TRUE]
    <3> DEFINE d == Drafted(s, parts)
    <3>1. /\ d.msgs = <<>> /\ Len(d.msgs) = 0 /\ d.rendered = parts /\ d.pending = s.pending
          /\ DraftsNow(d)
      BY <2>2 DEF Drafted, SinkStates, DraftsNow
    <3>2. r.sink = d
      BY <2>2
    <3>3. s.pending = [version |-> "streamed", length |-> s.pending.length]
      BY <1>1 DEF SinkSound, Texts
    <3>4. s.pending.length \in 0 .. s.pending.length /\ parts = PartsOf([version |-> "streamed", length |-> s.pending.length])
      BY <1>1, <3>3
    <3>5. PartCount(s.pending.length) \in Nat
      BY <1>1, CountOfParts
    <3> HIDE DEF d, parts
    <3>6. SinkSound(d)
      BY <3>1, <3>3, <3>4, <3>5 DEF SinkSound
    <3> QED BY <3>2, <3>6
  <2>3. ASSUME NEW k \in 1 .. Len(parts) + 1, r = [sink |-> Edited(plain, parts, k), ok |-> k > Len(parts)]
        PROVE  SinkSound(r.sink)
    <3>1. /\ plain \in SinkStates /\ plain.pending = s.pending /\ plain.msgs = s.msgs
          /\ plain.rendered = s.rendered
      BY DEF SinkStates
    <3>2. parts # plain.rendered /\ r.sink = Edited(plain, parts, k)
      BY <1>4, <2>3, <3>1
    <3> HIDE DEF plain
    <3>3. SinkSound(plain)
      BY <3>1, <3>2 DEF SinkSound
    <3>4. SinkSound(Edited(plain, PartsOf(plain.pending), k))
      BY <3>1, <3>2, <3>3, EditedSound
    <3> QED BY <3>1, <3>2, <3>4
  <2> QED BY <2>1, <2>2, <2>3
<1> QED BY <1>3, <1>4

\* A delta.
LEMMA DeltaKept == StreamInvariant /\ OnDelta => StreamInvariant'
<1> SUFFICES ASSUME StreamInvariant, OnDelta PROVE StreamInvariant'
  OBVIOUS
<1> DEFINE len == sink.pending.length
           text == [version |-> "streamed", length |-> len + 1]
           s == [sink EXCEPT !.pending.length = @ + 1]
<1>1. sink.state = "streaming" /\ sink \in SinkStates /\ SinkSound(sink)
  BY DEF OnDelta, StreamInvariant
<1>2. sink.pending \in Texts /\ len \in Nat /\ sink.pending.version = "streamed"
      /\ sink.pending = [version |-> "streamed", length |-> len]
  BY <1>1 DEF SinkStates, Texts, SinkSound
<1>3. s = [sink EXCEPT !.pending = text] /\ text \in Texts
  BY <1>1, <1>2 DEF SinkStates, Texts, TextVersions
<1>4. /\ s \in SinkStates /\ s.pending = text /\ s.msgs = sink.msgs /\ s.rendered = sink.rendered
      /\ s.state = "streaming"
  BY <1>1, <1>3 DEF SinkStates
<1>5. s.pending.length = len + 1 /\ s.pending.version = "streamed"
  BY <1>4
<1>6. sink' = s \/ \E r \in Flushed(s) : sink' = r.sink
  BY DEF OnDelta
<1> HIDE DEF s, text, len
<1>7. SinkSound(s)
  <2>1. len <= len + 1 /\ len + 1 \in Nat
    BY <1>2
  <2>2. PICK n \in 0 .. len : sink.rendered = PartsOf([version |-> "streamed", length |-> n])
    BY <1>1 DEF SinkSound, len
  <2>3. n \in Nat /\ n < len + 1 /\ n <= len + 1 /\ n \in 0 .. len + 1
        /\ [version |-> "streamed", length |-> n] \in Texts
    BY <1>2, <2>2 DEF Texts, TextVersions
  <2>4. PartCount(len) <= PartCount(len + 1)
        /\ \A i \in 1 .. PartCount(len) : PartLength(len, i) \in Nat /\ PartLength(len, i) <= PartLength(len + 1, i)
    BY <1>2, <2>1, PartsGrow
  <2>5. PartCount(len) \in Nat /\ PartCount(len + 1) \in Nat /\ PartCount(n) \in Nat
    BY <1>2, <2>1, <2>3, CountOfParts
  <2>6. Len(sink.msgs) <= PartCount(len) /\ Len(sink.msgs) \in Nat
        /\ \A i \in 1 .. Len(sink.msgs) :
              /\ sink.msgs[i].version = "streamed" /\ sink.msgs[i].index = i
              /\ sink.msgs[i].length <= PartLength(len, i) /\ sink.msgs[i] \in TextParts
              /\ i <= Len(sink.rendered) => sink.rendered[i].length <= sink.msgs[i].length
    BY <1>1 DEF SinkSound, SinkStates, len
  <2>7. \A i \in 1 .. Len(sink.msgs) :
            PartLength(len + 1, i) \in Nat /\ sink.msgs[i].length <= PartLength(len + 1, i)
    <3>1. \A i \in 1 .. Len(sink.msgs) : sink.msgs[i].length \in Nat /\ i \in 1 .. PartCount(len)
      BY <2>5, <2>6 DEF TextParts
    <3>2. \A i \in 1 .. PartCount(len) : PartLength(len + 1, i) \in Nat
      <4>1. \A i \in 1 .. PartCount(len + 1) : PartLength(len + 1, i) \in Nat
        BY <2>1, PartsGrow
      <4> QED BY <2>4, <2>5, <4>1
    <3> QED BY <2>4, <2>6, <3>1, <3>2
  <2>8. sink.rendered # PartsOf(text)
    <3>1. PartCount(n) # PartCount(len + 1)
          \/ PartLength(n, PartCount(n)) # PartLength(len + 1, PartCount(len + 1))
      BY <2>1, <2>3, PartsGrow
    <3>2. Len(sink.rendered) = PartCount(n) /\ Len(PartsOf(text)) = PartCount(len + 1)
      BY <1>3, <2>2, <2>3, ShapeOfParts DEF text
    <3>3. len + 1 > 0 /\ PartCount(len + 1) > 0
      BY <1>2, <2>1, CountOfParts
    <3> SUFFICES ASSUME sink.rendered = PartsOf(text) PROVE FALSE
      OBVIOUS
    <3>4. PartCount(n) = PartCount(len + 1) /\ PartCount(n) \in 1 .. PartCount(n)
          /\ PartCount(n) \in 1 .. PartCount(len + 1)
      BY <2>5, <3>2, <3>3
    <3>5. sink.rendered[PartCount(n)] = [version |-> "streamed", index |-> PartCount(n),
                                         length |-> PartLength(n, PartCount(n))]
      BY <2>2, <2>3, <3>4, ShapeOfParts
    <3>6. PartsOf(text)[PartCount(n)] = [version |-> "streamed", index |-> PartCount(n),
                                         length |-> PartLength(len + 1, PartCount(n))]
      BY <1>3, <3>4, ShapeOfParts DEF text
    <3>7. sink.rendered[PartCount(n)].length = PartLength(n, PartCount(n))
      BY <3>5
    <3>8. PartsOf(text)[PartCount(n)].length = PartLength(len + 1, PartCount(n))
      BY <3>6
    <3> QED BY <3>1, <3>4, <3>7, <3>8
  <2>9. Len(sink.msgs) <= PartCount(len + 1)
    BY <2>4, <2>5, <2>6
  <2>10. \A i \in 1 .. Len(s.msgs) :
          /\ s.msgs[i].version = "streamed" /\ s.msgs[i].index = i
          /\ s.msgs[i].length <= PartLength(s.pending.length, i)
          /\ i <= Len(s.rendered) => s.rendered[i].length <= s.msgs[i].length
    BY <1>4, <1>5, <2>6, <2>7
  <2>11. \E j \in 0 .. s.pending.length : s.rendered = PartsOf([version |-> "streamed", length |-> j])
    BY <1>4, <1>5, <2>2, <2>3
  <2>12. s.rendered # PartsOf(s.pending) /\ Len(s.msgs) <= PartCount(s.pending.length)
    BY <1>4, <1>5, <2>8, <2>9
  <2> QED BY <1>5, <2>10, <2>11, <2>12 DEF SinkSound
<1>8. sink' \in SinkStates /\ SinkSound(sink') /\ sink'.state = "streaming"
  BY <1>4, <1>6, <1>7, FlushedShape, FlushedSound
<1> QED BY <1>8 DEF StreamInvariant, ReplyReachesChat, SinkSound, DraftsNow

\* A fresh send that fails at some part, or not at all, leaves every part in the
\* chat or in the queue.
LEMMA SentOrQueued ==
    ASSUME NEW parts, Len(parts) \in Nat, NEW k \in 1 .. Len(parts) + 1
    PROVE  \A i \in 1 .. Len(parts) : parts[i] \in Sent(parts, k) \cup Queued(parts, k)
<1> TAKE i \in 1 .. Len(parts)
<1>1. i \in 1 .. k - 1 \/ i \in k .. Len(parts)
  OBVIOUS
<1> QED BY <1>1 DEF Sent, Queued

\* The end of a turn: whatever was drafted, sent and edited before.
LEMMA FinalizeKept == StreamInvariant /\ Finalize => StreamInvariant'
<1> SUFFICES ASSUME StreamInvariant, Finalize PROVE StreamInvariant'
  OBVIOUS
<1>1. sink \in SinkStates /\ SinkSound(sink)
  BY DEF Finalize, StreamInvariant
<1>2. PICK text \in FinalTexts :
         LET parts == PartsOf(text)
             s == [sink EXCEPT !.pending = text]
             retreat == [s EXCEPT !.draft = FALSE]
         IN \/ /\ text.length = 0 \/ (parts = s.rendered /\ ~DraftsNow(s))
               /\ sink' = [s EXCEPT !.state = "ok"]
            \/ /\ text.length > 0 /\ DraftsNow(s)
               /\ sink' = [s EXCEPT !.msgs = parts, !.rendered = parts, !.state = "ok"]
            \/ /\ text.length > 0
               /\ DraftsNow(s) \/ parts # s.rendered
               /\ \E first \in IF DraftsNow(s) THEN 1 .. Len(parts) ELSE {0} :
                  \E r \in Flushed(IF first = 0 THEN s ELSE retreat) :
                    LET shown == IF first = 0 THEN {} ELSE Sent(parts, first)
                        left == IF first = 0 THEN {} ELSE Queued(parts, first)
                    IN \/ /\ r.ok
                          /\ sink' = [r.sink EXCEPT !.state = "ok"]
                          /\ orphans' = orphans \cup shown
                          /\ waiting' = waiting \cup left
                       \/ /\ ~r.ok
                          /\ \E k \in 1 .. Len(parts) + 1 :
                               /\ sink' = [r.sink EXCEPT
                                    !.msgs = IF k > Len(parts) THEN @ \o parts ELSE @,
                                    !.state = IF k > Len(parts) THEN "ok" ELSE "error"]
                               /\ orphans' = orphans \cup shown \cup Sent(parts, k)
                               /\ waiting' = waiting \cup left \cup Queued(parts, k)
  BY DEF Finalize
<1> DEFINE parts == PartsOf(text)
           s == [sink EXCEPT !.pending = text]
           retreat == [s EXCEPT !.draft = FALSE]
<1>3. sink.pending \in Texts /\ sink.pending.length \in Nat /\ sink.msgs \in Seq(TextParts)
      /\ sink.rendered \in Seq(TextParts)
  BY <1>1 DEF SinkStates, Texts
<1>4. text \in Texts /\ text.length \in Nat
  BY <1>3, StreamAssumption DEF FinalTexts, Texts, TextVersions
<1>5. parts \in Seq(TextParts) /\ Len(parts) \in Nat /\ Len(parts) = PartCount(text.length)
      /\ DOMAIN parts = 1 .. Len(parts)
  BY <1>4, ShapeOfParts
<1>6. /\ s \in SinkStates /\ s.pending = text /\ s.msgs = sink.msgs /\ s.rendered = sink.rendered
      /\ s.state = sink.state /\ retreat \in SinkStates /\ retreat.pending = text
  BY <1>1, <1>4 DEF SinkStates
\* A message that is not edited again shows its part of the final text.
<1>7. \A i \in 1 .. Len(parts) : Unchanged(s, parts, i) => s.msgs[i] = parts[i]
  <2>1. CASE sink.pending.length = 0
    <3>1. PartCount(sink.pending.length) = 0
      BY <1>3, <2>1, CountOfParts
    <3>2. Len(sink.msgs) <= 0
      BY <1>1, <3>1 DEF SinkSound
    <3> QED BY <1>5, <1>6, <3>2 DEF Unchanged
  <2>2. CASE sink.pending.length # 0
    <3>1. text = sink.pending
      BY <2>2 DEF FinalTexts
    <3>2. s = sink
      BY <1>1, <3>1 DEF SinkStates
    <3> QED BY <1>1, <1>5, <3>1, <3>2, SkippedIsShown
  <2> QED BY <2>1, <2>2
\* What counts as rendered is shown, unless only a draft showed it.
<1>8. ASSUME text.length # 0, parts = s.rendered, ~DraftsNow(s) PROVE Len(s.msgs) >= Len(parts)
  <2>1. CASE sink.pending.length = 0
    <3>1. sink.rendered = PartsOf([version |-> "streamed", length |-> 0])
      BY <1>1, <2>1 DEF SinkSound
    <3>2. [version |-> "streamed", length |-> 0] \in Texts /\ 0 \in Nat
      BY DEF Texts, TextVersions
    <3>3. Len(sink.rendered) = PartCount(0) /\ PartCount(0) = 0
      BY <3>1, <3>2, ShapeOfParts, CountOfParts
    <3>4. PartCount(text.length) > 0
      BY <1>4, <1>8, CountOfParts
    <3> QED BY <1>5, <1>6, <1>8, <3>3, <3>4
  <2>2. CASE sink.pending.length # 0
    <3>1. text = sink.pending
      BY <2>2 DEF FinalTexts
    <3>2. s = sink
      BY <1>1, <3>1 DEF SinkStates
    <3> QED BY <1>1, <1>8, <3>1, <3>2 DEF SinkSound
  <2> QED BY <2>1, <2>2
<1> SUFFICES /\ sink'.state # "streaming" /\ sink'.pending = text
             /\ \A i \in 1 .. Len(parts) : parts[i] \in PartsIn(sink'.msgs) \cup orphans' \cup waiting'
  <2> HIDE DEF s, retreat
  <2> QED BY <1>5 DEF StreamInvariant, ReplyReachesChat, PartsIn
<1>9. CASE /\ text.length = 0 \/ (parts = s.rendered /\ ~DraftsNow(s))
           /\ sink' = [s EXCEPT !.state = "ok"]
  <2>1. sink'.state = "ok" /\ sink'.pending = text /\ sink'.msgs = s.msgs
    <3> HIDE DEF s
    <3> QED BY <1>6, <1>9 DEF SinkStates
  <2>2. CASE text.length = 0
    <3>1. Len(parts) = 0
      BY <1>4, <1>5, <2>2, CountOfParts
    <3> QED BY <2>1, <3>1
  <2>3. CASE text.length # 0
    <3>1. Len(s.msgs) >= Len(parts) /\ parts = s.rendered
      BY <1>8, <1>9, <2>3
    <3> HIDE DEF s, parts
    <3>2. \A i \in 1 .. Len(parts) : i \in 1 .. Len(s.msgs) /\ i <= Len(s.rendered)
      BY <1>3, <1>5, <1>6, <3>1
    <3>3. \A i \in 1 .. Len(parts) : i \in DOMAIN s.msgs /\ s.msgs[i] = parts[i]
      BY <1>3, <1>6, <1>7, <3>1, <3>2 DEF Unchanged
    <3> QED BY <2>1, <3>3 DEF PartsIn
  <2> QED BY <2>2, <2>3
<1>10. CASE sink' = [s EXCEPT !.msgs = parts, !.rendered = parts, !.state = "ok"]
  <2>1. sink'.state = "ok" /\ sink'.pending = text /\ sink'.msgs = parts
    <3> HIDE DEF s, parts
    <3> QED BY <1>6, <1>10 DEF SinkStates
  <2> QED BY <1>5, <2>1 DEF PartsIn
<1>11. ASSUME text.length > 0, DraftsNow(s) \/ parts # s.rendered,
              NEW first \in IF DraftsNow(s) THEN 1 .. Len(parts) ELSE {0},
              NEW r \in Flushed(IF first = 0 THEN s ELSE retreat),
              LET shown == IF first = 0 THEN {} ELSE Sent(parts, first)
                  left == IF first = 0 THEN {} ELSE Queued(parts, first)
              IN \/ /\ r.ok
                    /\ sink' = [r.sink EXCEPT !.state = "ok"]
                    /\ orphans' = orphans \cup shown
                    /\ waiting' = waiting \cup left
                 \/ /\ ~r.ok
                    /\ \E k \in 1 .. Len(parts) + 1 :
                         /\ sink' = [r.sink EXCEPT
                              !.msgs = IF k > Len(parts) THEN @ \o parts ELSE @,
                              !.state = IF k > Len(parts) THEN "ok" ELSE "error"]
                         /\ orphans' = orphans \cup shown \cup Sent(parts, k)
                         /\ waiting' = waiting \cup left \cup Queued(parts, k)
       PROVE  /\ sink'.state # "streaming" /\ sink'.pending = text
              /\ \A i \in 1 .. Len(parts) : parts[i] \in PartsIn(sink'.msgs) \cup orphans' \cup waiting'
  <2>1. r.sink \in SinkStates /\ r.sink.pending = text
    BY <1>6, FlushedShape
  <2>2. sink'.state \in {"ok", "error"} /\ sink'.pending = text
        /\ (r.ok => sink'.msgs = r.sink.msgs)
    <3> HIDE DEF s, retreat, parts
    <3> QED BY <1>11, <2>1 DEF SinkStates
  <2>3. CASE DraftsNow(s)
    <3>1. first \in 1 .. Len(parts) + 1 /\ first # 0
      BY <1>5, <2>3
    <3> HIDE DEF s, retreat, parts
    <3>2. Sent(parts, first) \subseteq orphans' /\ Queued(parts, first) \subseteq waiting'
      BY <1>11, <3>1
    <3>3. \A i \in 1 .. Len(parts) : parts[i] \in Sent(parts, first) \cup Queued(parts, first)
      BY <1>5, <3>1, SentOrQueued
    <3> QED BY <2>2, <3>2, <3>3
  <2>4. CASE ~DraftsNow(s) /\ r.ok
    <3>1. first = 0 /\ parts # s.rendered /\ r \in Flushed(s)
      BY <1>11, <2>4
    <3>2. PartCount(text.length) > 0
      BY <1>4, <1>11, CountOfParts
    <3> HIDE DEF s, retreat
    <3>3. parts # <<>>
      BY <1>5, <3>2
    <3>4. r.sink = Edited(s, parts, Len(parts) + 1)
      BY <1>6, <2>4, <3>1, <3>3, FlushedShape
    <3>5. \A i \in 1 .. Len(parts) : parts[i] \in PartsIn(r.sink.msgs)
      <4> HIDE DEF parts
      <4> QED BY <1>5, <1>6, <1>7, <3>4, EditedComplete
    <3> QED BY <2>2, <2>4, <3>5
  <2>5. CASE ~r.ok
    <3> HIDE DEF s, retreat, parts
    <3>1. PICK k \in 1 .. Len(parts) + 1 : Sent(parts, k) \subseteq orphans' /\ Queued(parts, k) \subseteq waiting'
      BY <1>11, <2>5
    <3>2. \A i \in 1 .. Len(parts) : parts[i] \in Sent(parts, k) \cup Queued(parts, k)
      BY <1>5, SentOrQueued
    <3> QED BY <2>2, <3>1, <3>2
  <2> QED BY <2>3, <2>4, <2>5
<1> QED BY <1>2, <1>9, <1>10, <1>11

\* Every step keeps the invariant.
LEMMA StreamKept == StreamInvariant /\ [StreamNext]_streamVars => StreamInvariant'
<1> SUFFICES ASSUME StreamInvariant, [StreamNext]_streamVars PROVE StreamInvariant'
  OBVIOUS
<1>1. CASE UNCHANGED streamVars
  BY <1>1 DEF streamVars, StreamInvariant, ReplyReachesChat, SinkSound, DraftsNow, PartsIn
<1>2. CASE StreamBreaks
  <2>1. sink \in SinkStates
    BY <1>2 DEF StreamBreaks, StreamInvariant
  <2>2. sink'.state = "broken"
    BY <1>2, <2>1 DEF StreamBreaks, SinkStates
  <2> QED BY <2>2 DEF StreamInvariant, ReplyReachesChat
<1> QED BY <1>1, <1>2, DeltaKept, FinalizeKept DEF StreamNext

\* A new turn: nothing is rendered or shown.
LEMMA StreamStarts == StreamInit => StreamInvariant
<1> SUFFICES ASSUME StreamInit PROVE StreamInvariant
  OBVIOUS
<1> DEFINE text == [version |-> "streamed", length |-> 0]
<1>1. PICK prefer \in BOOLEAN, private \in BOOLEAN :
         sink = [prefer |-> prefer, draft |-> private, msgs |-> <<>>, pending |-> text,
                 rendered |-> <<>>, state |-> "streaming"]
  BY DEF StreamInit
<1>2. text \in Texts /\ text.length = 0 /\ 0 \in Nat
  BY DEF Texts, TextVersions
<1>3. PartsOf(text) \in Seq(TextParts) /\ Len(PartsOf(text)) = 0 /\ PartCount(0) = 0
  BY <1>2, ShapeOfParts, CountOfParts
<1>4. PartsOf(text) = <<>>
  BY <1>3
<1>5. /\ sink \in SinkStates /\ sink.pending = text /\ sink.msgs = <<>> /\ sink.rendered = <<>>
      /\ sink.state = "streaming"
  BY <1>1, <1>2 DEF SinkStates
<1>6. sink.pending.length = 0 /\ sink.pending.version = "streamed" /\ Len(sink.msgs) = 0 /\ Len(sink.rendered) = 0
  BY <1>5
<1> HIDE DEF text
<1>7. SinkSound(sink)
  <2>1. \E n \in 0 .. 0 : sink.rendered = PartsOf([version |-> "streamed", length |-> n])
    BY <1>4, <1>5 DEF text
  <2> QED BY <1>3, <1>6, <2>1 DEF SinkSound
<1> QED BY <1>5, <1>7 DEF StreamInvariant, ReplyReachesChat

\* Whichever drafts, sends and edits failed while the reply was streamed, a
\* finished reply is in the chat or in the queue, part by part.
THEOREM ReplyHolds == StreamSpec => []ReplyReachesChat
<1>1. StreamInvariant => ReplyReachesChat
  BY DEF StreamInvariant
<1> QED BY <1>1, StreamStarts, StreamKept, PTL DEF StreamSpec

-----------------------------------------------------------------------------
(* The scheduler.                                                           *)
(*                                                                         *)
(* What keeps two loops from sending one reminder is that a claim skips the *)
(* rows with a live lease: a loop that believes in its lease and has a job  *)
(* in hand finds its own token and a live lease in the row, unless the job  *)
(* is excused.  A row has one token and tokens are never given twice.       *)

Running == {"prepare", "send", "complete", "fail"}
JobStates ==
    [status : {"active", "paused", "completed", "canceled"}, kind : JobKinds,
     next : {"none", "later", "due"}, token : Nat, lease : {"none", "live", "expired"},
     streak : Nat, stopped : BOOLEAN]
LoopStates ==
    [at : {"idle", "next"} \cup Running, todo : SUBSET Nat, job : Nat, token : Nat,
     live : BOOLEAN]
DraftStates == [state : {"none", "live", "expired"}, kind : JobKinds, due : BOOLEAN]

SchedulerShape ==
    /\ jobs \in Seq(JobStates) /\ copies \in Seq(Nat) /\ Len(copies) = Len(jobs)
    /\ loop \in [Loops -> LoopStates] /\ claims \in Nat /\ draft \in DraftStates
    /\ order # NoOrder => /\ order.job \in DOMAIN jobs
                          /\ order.status \in {"active", "paused", "canceled"}

HoldsLease(w, j) == jobs[j].token = loop[w].token /\ jobs[j].lease = "live"

LoopSound(w) ==
    /\ loop[w].todo \subseteq DOMAIN jobs
    /\ loop[w].at \in Running => loop[w].job \in DOMAIN jobs \ loop[w].todo
    /\ loop[w].token <= claims
    /\ loop[w].at = "idle" => loop[w].todo = {}
    /\ loop[w].at # "idle" => loop[w].token # 0
    /\ \A v \in Loops \ {w} : loop[v].token = loop[w].token => loop[w].token = 0
    /\ loop[w].live = TRUE =>
          \A j \in DOMAIN jobs : InHand(w, j) => j \in excuse \/ HoldsLease(w, j)
    /\ loop[w].at \in {"send", "complete"} => loop[w].live = TRUE \/ loop[w].job \in excuse

JobSound(j) ==
    /\ Terminal(jobs[j].status) => jobs[j].token = 0
    /\ ~Terminal(jobs[j].status) /\ jobs[j].next = "none" => jobs[j].stopped = TRUE
    /\ copies[j] > 0 =>
          \/ j \in excuse
          \/ copies[j] = 1 /\ \E w \in Loops : loop[w].at = "complete" /\ loop[w].job = j

SchedulerInvariant ==
    /\ SchedulerShape
    /\ \A w \in Loops : LoopSound(w)
    /\ \A j \in DOMAIN jobs : JobSound(j)

\* Writing one element of a sequence.
LEMMA OneWrite ==
    ASSUME NEW S, NEW s \in Seq(S), NEW i \in DOMAIN s, NEW x \in S
    PROVE  /\ [s EXCEPT ![i] = x] \in Seq(S)
           /\ Len([s EXCEPT ![i] = x]) = Len(s)
           /\ DOMAIN [s EXCEPT ![i] = x] = DOMAIN s
           /\ [s EXCEPT ![i] = x][i] = x
           /\ \A k \in DOMAIN s \ {i} : [s EXCEPT ![i] = x][k] = s[k]
OBVIOUS

\* A nonempty set of jobs has a newest one.
LEMMA NewestIn ==
    ASSUME NEW n \in Nat, NEW S, S \subseteq 1 .. n, S # {}
    PROVE  Newest(S) \in S
<1> DEFINE T == {m \in Nat : \E j \in S : m = n - j}
<1>1. T \subseteq Nat /\ T # {}
  <2>1. PICK j \in S : TRUE
    OBVIOUS
  <2>2. n - j \in Nat
    OBVIOUS
  <2>3. n - j \in T
    BY <2>2
  <2> QED BY <2>3
<1>2. PICK t \in T : \A u \in T : ~(<<u, t>> \in OpToRel(<, Nat))
  <2> HIDE DEF T
  <2> QED BY <1>1, NatLessThanWellFounded, WFMin
<1>3. \A u \in T : t <= u
  <2> TAKE u \in T
  <2>1. t \in Nat /\ u \in Nat
    OBVIOUS
  <2>2. ~(u < t)
    <3> HIDE DEF T
    <3> QED BY <1>2, <2>1 DEF OpToRel
  <2> QED BY <2>1, <2>2
<1>4. PICK j \in S : t = n - j
  OBVIOUS
<1>5. \A k \in S : k <= j
  <2> TAKE k \in S
  <2>1. n - k \in T /\ k \in 1 .. n /\ j \in 1 .. n
    OBVIOUS
  <2>2. t <= n - k
    BY <1>3, <2>1
  <2> HIDE DEF T
  <2> QED BY <1>4, <2>1, <2>2
<1> QED BY <1>5 DEF Newest

\* A step of loop w that leaves the rows alone: it moves on with a job of its
\* batch or lets go of one, and a fault of the run is recorded.
LEMMA LoopMoves ==
    ASSUME SchedulerInvariant, NEW w \in Loops, NEW q \in LoopStates,
           loop' = [loop EXCEPT ![w] = q],
           UNCHANGED <<jobs, draft, order, claims, copies>>, excuse \subseteq excuse',
           q.todo \subseteq loop[w].todo,
           q.token = loop[w].token \/ (q.token = 0 /\ q.live = FALSE /\ q.at = "idle"),
           q.live = TRUE => loop[w].live = TRUE,
           q.at = "idle" => q.todo = {},
           q.at # "idle" => loop[w].at # "idle",
           q.at \in Running =>
              /\ q.job \notin q.todo
              /\ q.job \in loop[w].todo \/ (q.job = loop[w].job /\ loop[w].at \in Running),
           q.at \in {"send", "complete"} => q.live = TRUE \/ q.job \in excuse',
           loop[w].at = "complete" => q = loop[w] \/ loop[w].job \in excuse'
    PROVE  SchedulerInvariant'
<1>1. /\ loop \in [Loops -> LoopStates] /\ loop' \in [Loops -> LoopStates] /\ loop'[w] = q
      /\ \A v \in Loops \ {w} : loop'[v] = loop[v]
  BY DEF SchedulerInvariant, SchedulerShape
<1>2. SchedulerShape'
  BY <1>1 DEF SchedulerInvariant, SchedulerShape, NoOrder
<1>3. ASSUME NEW v \in Loops PROVE LoopSound(v)'
  <2>0. LoopSound(v) /\ LoopSound(w) /\ loop[v] \in LoopStates /\ loop[w] \in LoopStates /\ claims \in Nat
    BY <1>1 DEF SchedulerInvariant, SchedulerShape
  <2>1. \A u \in Loops \ {v} : loop'[u].token = loop'[v].token => loop'[v].token = 0
    <3> SUFFICES ASSUME NEW u \in Loops \ {v}, loop'[u].token = loop'[v].token PROVE loop'[v].token = 0
      OBVIOUS
    <3>1. loop[u].token = loop[v].token => loop[v].token = 0
      BY <2>0 DEF LoopSound
    <3> QED BY <1>1, <3>1
  <2>2. CASE v # w
    <3>1. loop'[v] = loop[v]
      BY <1>1, <2>2
    <3> QED BY <2>0, <2>1, <3>1 DEF LoopSound, InHand, HoldsLease
  <2>3. CASE v = w
    <3>1. loop'[v] = q /\ (\A j \in DOMAIN jobs : InHand(w, j)' => InHand(w, j))
      BY <1>1, <2>0, <2>3 DEF InHand, Running, LoopSound
    <3>2. q.token <= claims
      BY <2>0 DEF LoopSound, LoopStates
    <3>3. q.live = TRUE => \A j \in DOMAIN jobs : InHand(w, j)' => j \in excuse' \/ HoldsLease(w, j)'
      BY <1>1, <2>0, <3>1 DEF LoopSound, HoldsLease
    <3> QED BY <1>1, <2>0, <2>1, <2>3, <3>1, <3>2, <3>3 DEF LoopSound
  <2> QED BY <2>2, <2>3
<1>4. ASSUME NEW j \in DOMAIN jobs PROVE JobSound(j)'
  <2>1. JobSound(j)
    BY DEF SchedulerInvariant
  <2> QED BY <1>1, <2>1 DEF JobSound
<1> QED BY <1>2, <1>3, <1>4 DEF SchedulerInvariant

\* The first fence.
LEMMA StartKept ==
    ASSUME SchedulerInvariant, NEW w \in Loops, StartJob(w) PROVE SchedulerInvariant'
<1>1. loop[w] \in LoopStates /\ loop[w].at = "next" /\ LoopSound(w)
  BY DEF StartJob, SchedulerInvariant, SchedulerShape
<1>2. CASE loop' = [loop EXCEPT ![w] = IdleLoop]
  <2>1. IdleLoop \in LoopStates /\ IdleLoop.at = "idle" /\ IdleLoop.todo = {} /\ IdleLoop.token = 0
        /\ IdleLoop.live = FALSE
    BY DEF IdleLoop, LoopStates
  <2> QED BY <1>1, <1>2, <2>1, LoopMoves DEF StartJob, Running
<1>3. ASSUME NEW j \in loop[w].todo,
             loop' = [loop EXCEPT ![w].todo = @ \ {j}, ![w].job = IF loop[w].live THEN j ELSE @,
                                  ![w].at = IF loop[w].live THEN "prepare" ELSE @]
      PROVE  SchedulerInvariant'
  <2> DEFINE q == [loop[w] EXCEPT !.todo = loop[w].todo \ {j},
                                  !.job = IF loop[w].live THEN j ELSE loop[w].job,
                                  !.at = IF loop[w].live THEN "prepare" ELSE loop[w].at]
  <2>1. loop' = [loop EXCEPT ![w] = q]
    BY <1>3
  <2>2. j \in Nat
    BY <1>1, <1>3 DEF LoopStates
  <2>3. q \in LoopStates
    BY <1>1, <2>2 DEF LoopStates, Running
  <2>4. /\ q.todo = loop[w].todo \ {j} /\ q.token = loop[w].token /\ q.live = loop[w].live
        /\ q.at = "next" \/ (q.at = "prepare" /\ q.job = j)
    BY <1>1 DEF LoopStates
  <2> HIDE DEF q
  <2> QED BY <1>1, <2>1, <2>3, <2>4, LoopMoves DEF StartJob, Running
<1> QED BY <1>2, <1>3 DEF StartJob

\* The second fence.
LEMMA PrepareKept ==
    ASSUME SchedulerInvariant, NEW w \in Loops, PrepareText(w) PROVE SchedulerInvariant'
<1>1. loop[w] \in LoopStates /\ loop[w].at = "prepare" /\ LoopSound(w)
  BY DEF PrepareText, SchedulerInvariant, SchedulerShape
<1>2. PICK composed \in BOOLEAN : loop' = [loop EXCEPT ![w].at = FencedStep(w, composed)]
  BY DEF PrepareText
<1> DEFINE q == [loop[w] EXCEPT !.at = FencedStep(w, composed)]
<1>3. FencedStep(w, composed) \in {"send", "fail"} /\ (FencedStep(w, composed) = "send" => loop[w].live = TRUE)
  BY <1>1 DEF FencedStep, LoopStates
<1>4. loop' = [loop EXCEPT ![w] = q]
  BY <1>2
<1>5. /\ q \in LoopStates /\ q.todo = loop[w].todo /\ q.job = loop[w].job /\ q.token = loop[w].token
      /\ q.live = loop[w].live /\ q.at = FencedStep(w, composed)
  BY <1>1, <1>3 DEF LoopStates, Running
<1> HIDE DEF q
<1> QED BY <1>1, <1>3, <1>4, <1>5, LoopMoves DEF PrepareText, Running, LoopSound

\* The loop ends where it stands.
LEMMA DeathKept ==
    ASSUME SchedulerInvariant, NEW w \in Loops, LoopDies(w) PROVE SchedulerInvariant'
<1>1. loop[w] \in LoopStates /\ LoopSound(w)
  BY DEF SchedulerInvariant, SchedulerShape
<1>2. IdleLoop \in LoopStates /\ IdleLoop.at = "idle" /\ IdleLoop.todo = {} /\ IdleLoop.token = 0
      /\ IdleLoop.live = FALSE
  BY DEF IdleLoop, LoopStates
<1> QED BY <1>1, <1>2, LoopMoves DEF LoopDies, Running

\* Two loops that believe in their leases do not have one job in hand, unless
\* it is excused.
LEMMA OneHolder ==
    ASSUME SchedulerInvariant, NEW v \in Loops, NEW w \in Loops, v # w, NEW j \in DOMAIN jobs,
           InHand(v, j), loop[v].live = TRUE, jobs[j].token = loop[w].token, loop[w].at # "idle"
    PROVE  j \in excuse
<1>1. LoopSound(v) /\ LoopSound(w)
  BY DEF SchedulerInvariant
<1>2. j \in excuse \/ jobs[j].token = loop[v].token
  BY <1>1 DEF LoopSound, HoldsLease
<1> QED BY <1>1, <1>2 DEF LoopSound

\* The effect.  It is the first one of the run, or the run is excused.
LEMMA ReminderKept ==
    ASSUME SchedulerInvariant, NEW w \in Loops, SendReminder(w) PROVE SchedulerInvariant'
<1> DEFINE j == loop[w].job
<1>1. loop[w] \in LoopStates /\ loop[w].at = "send" /\ LoopSound(w) /\ loop \in [Loops -> LoopStates]
  BY DEF SendReminder, SchedulerInvariant, SchedulerShape
<1>2. j \in DOMAIN jobs /\ j \in DOMAIN copies /\ copies[j] \in Nat /\ JobSound(j)
      /\ copies \in Seq(Nat) /\ jobs \in Seq(JobStates) /\ Len(jobs) = Len(copies)
  BY <1>1 DEF LoopSound, Running, SchedulerInvariant, SchedulerShape
<1>3. PICK at \in {"complete", "fail"} :
         /\ loop' = [loop EXCEPT ![w].at = at]
         /\ \/ at = "complete" /\ excuse' = excuse
            \/ at = "fail" /\ excuse' = excuse \cup {j}
  BY DEF SendReminder
<1>4. /\ copies' = [copies EXCEPT ![j] = copies[j] + 1]
      /\ UNCHANGED <<jobs, draft, order, claims>>
  BY DEF SendReminder
<1> DEFINE q == [loop[w] EXCEPT !.at = at]
<1>5. loop' = [loop EXCEPT ![w] = q]
  BY <1>3
<1>6. /\ q \in LoopStates /\ q.todo = loop[w].todo /\ q.job = j /\ q.token = loop[w].token
      /\ q.live = loop[w].live /\ q.at = at
  BY <1>1 DEF LoopStates, Running
<1> HIDE DEF q
<1>7. loop' \in [Loops -> LoopStates] /\ loop'[w] = q /\ \A v \in Loops \ {w} : loop'[v] = loop[v]
  BY <1>1, <1>5, <1>6
<1>8. /\ copies' \in Seq(Nat) /\ Len(copies') = Len(copies) /\ copies'[j] = copies[j] + 1
      /\ \A k \in DOMAIN jobs \ {j} : copies'[k] = copies[k]
  <2>1. copies[j] + 1 \in Nat /\ DOMAIN jobs = DOMAIN copies
    BY <1>2
  <2> QED BY <1>2, <1>4, <2>1, OneWrite
<1>9. j \in excuse \/ copies[j] = 0
  <2> SUFFICES ASSUME j \notin excuse, copies[j] > 0 PROVE FALSE
    BY <1>2
  <2>1. PICK v \in Loops : loop[v].at = "complete" /\ loop[v].job = j
    BY <1>2 DEF JobSound
  <2>2. LoopSound(v) /\ v # w /\ InHand(v, j) /\ InHand(w, j)
    BY <1>1, <2>1 DEF SchedulerInvariant, InHand
  <2>3. loop[v].live = TRUE /\ loop[w].live = TRUE
    BY <1>1, <2>1, <2>2 DEF LoopSound
  <2>4. jobs[j].token = loop[w].token
    BY <1>1, <1>2, <2>2, <2>3 DEF LoopSound, HoldsLease
  <2> QED BY <1>1, <1>2, <2>2, <2>3, <2>4, OneHolder
<1> HIDE DEF j
<1>10. SchedulerShape'
  BY <1>4, <1>7, <1>8 DEF SchedulerInvariant, SchedulerShape, NoOrder
<1>11. ASSUME NEW v \in Loops PROVE LoopSound(v)'
  <2>1. LoopSound(v)
    BY DEF SchedulerInvariant
  <2>2. /\ loop'[v].todo = loop[v].todo /\ loop'[v].token = loop[v].token
        /\ loop'[v].job = loop[v].job /\ loop'[v].live = loop[v].live
        /\ loop[v].at \in Running <=> loop'[v].at \in Running
        /\ loop[v].at = "idle" <=> loop'[v].at = "idle"
        /\ loop'[v].at \in {"send", "complete"} => loop[v].at \in {"send", "complete"}
    BY <1>1, <1>6, <1>7 DEF Running, j
  <2>3. \A k \in DOMAIN jobs : InHand(v, k)' <=> InHand(v, k)
    BY <2>2 DEF InHand, Running
  <2>4. \A u \in Loops : loop'[u].token = loop[u].token
    BY <1>6, <1>7
  <2> QED BY <1>3, <1>4, <2>1, <2>2, <2>3, <2>4 DEF LoopSound, HoldsLease
<1>12. ASSUME NEW k \in DOMAIN jobs PROVE JobSound(k)'
  <2>1. JobSound(k)
    BY DEF SchedulerInvariant
  <2>2. CASE k = j
    <3>1. \/ j \in excuse'
          \/ copies'[j] = 1 /\ loop'[w].at = "complete" /\ loop'[w].job = j
      <4>1. copies[j] = 0 => copies'[j] = 1
        BY <1>8
      <4>2. excuse \subseteq excuse' /\ (at = "fail" => j \in excuse')
        BY <1>3
      <4>3. loop'[w].at = at /\ loop'[w].job = j
        BY <1>6, <1>7
      <4> QED BY <1>3, <1>9, <4>1, <4>2, <4>3
    <3> QED BY <1>4, <2>1, <2>2, <3>1 DEF JobSound
  <2>3. CASE k # j
    <3>1. \A v \in Loops : loop[v].at = "complete" /\ loop[v].job = k => loop'[v] = loop[v]
      BY <1>1, <1>7
    <3> QED BY <1>3, <1>4, <1>8, <2>1, <2>3, <3>1 DEF JobSound
  <2> QED BY <2>2, <2>3
<1> QED BY <1>4, <1>10, <1>11, <1>12 DEF SchedulerInvariant

\* A run that is recorded: the loop found its token in the row and clears it.
LEMMA RunEnds ==
    ASSUME SchedulerInvariant, NEW w \in Loops, loop[w].at \in {"complete", "fail"}, Holds(w),
           NEW new \in JobStates, new.token = 0,
           ~Terminal(new.status) /\ new.next = "none" => new.stopped = TRUE,
           jobs' = [jobs EXCEPT ![loop[w].job] = new],
           loop' = [loop EXCEPT ![w].at = "next"],
           \/ /\ loop[w].at = "fail" /\ UNCHANGED <<copies, excuse>>
           \/ /\ copies' = [copies EXCEPT ![loop[w].job] = 0]
              /\ excuse' = IF \E v \in Loops \ {w} : InHand(v, loop[w].job)
                           THEN excuse ELSE excuse \ {loop[w].job},
           UNCHANGED <<draft, order, claims>>
    PROVE  SchedulerInvariant'
<1> DEFINE j == loop[w].job
           q == [loop[w] EXCEPT !.at = "next"]
<1>1. loop[w] \in LoopStates /\ LoopSound(w) /\ loop \in [Loops -> LoopStates]
  BY DEF SchedulerInvariant, SchedulerShape
<1>2. j \in DOMAIN jobs /\ j \in DOMAIN copies /\ copies[j] \in Nat /\ j \notin loop[w].todo
      /\ copies \in Seq(Nat) /\ jobs \in Seq(JobStates) /\ Len(jobs) = Len(copies)
      /\ DOMAIN jobs = DOMAIN copies
  BY <1>1 DEF LoopSound, Running, SchedulerInvariant, SchedulerShape
<1>3. jobs[j].token = loop[w].token /\ loop[w].token # 0
  BY <1>1 DEF Holds, LoopSound
<1>4. loop' = [loop EXCEPT ![w] = q]
  OBVIOUS
<1>5. /\ q \in LoopStates /\ q.todo = loop[w].todo /\ q.job = j /\ q.token = loop[w].token
      /\ q.live = loop[w].live /\ q.at = "next"
  BY <1>1 DEF LoopStates, Running
<1> HIDE DEF q
<1>6. loop' \in [Loops -> LoopStates] /\ loop'[w] = q /\ \A v \in Loops \ {w} : loop'[v] = loop[v]
  BY <1>1, <1>4, <1>5
<1>7. /\ jobs' \in Seq(JobStates) /\ Len(jobs') = Len(jobs) /\ DOMAIN jobs' = DOMAIN jobs
      /\ jobs'[j] = new /\ \A k \in DOMAIN jobs \ {j} : jobs'[k] = jobs[k]
  BY <1>2, OneWrite
<1>8. /\ copies' \in Seq(Nat) /\ Len(copies') = Len(copies)
      /\ \A k \in DOMAIN jobs \ {j} : copies'[k] = copies[k]
      /\ copies'[j] = 0 \/ (copies' = copies /\ loop[w].at = "fail" /\ excuse' = excuse)
  <2>1. CASE loop[w].at = "fail" /\ UNCHANGED <<copies, excuse>>
    BY <1>2, <2>1
  <2>2. CASE copies' = [copies EXCEPT ![j] = 0]
    BY <1>2, <2>2, OneWrite
  <2> QED BY <2>1, <2>2
<1>9. \A k \in DOMAIN jobs \ {j} : k \in excuse <=> k \in excuse'
  OBVIOUS
<1>10. j \in excuse /\ (\E v \in Loops \ {w} : InHand(v, j)) => j \in excuse'
  OBVIOUS
<1> HIDE DEF j
<1>11. SchedulerShape'
  BY <1>2, <1>6, <1>7, <1>8 DEF SchedulerInvariant, SchedulerShape, NoOrder
<1>12. ASSUME NEW v \in Loops PROVE LoopSound(v)'
  <2>1. LoopSound(v)
    BY DEF SchedulerInvariant
  <2>2. /\ loop'[v].todo = loop[v].todo /\ loop'[v].token = loop[v].token
        /\ loop'[v].job = loop[v].job /\ loop'[v].live = loop[v].live
        /\ loop'[v].at \in Running => loop[v].at = loop'[v].at /\ v # w
        /\ loop[v].at = "idle" <=> loop'[v].at = "idle"
    BY <1>1, <1>5, <1>6 DEF Running, j
  <2>3. \A k \in DOMAIN jobs : InHand(v, k)' => InHand(v, k) /\ (v = w => k # j)
    BY <1>2, <2>2 DEF InHand, Running
  <2>4. \A u \in Loops : loop'[u].token = loop[u].token
    BY <1>5, <1>6
  <2>5. ASSUME loop'[v].live = TRUE, NEW k \in DOMAIN jobs, InHand(v, k)'
        PROVE  k \in excuse' \/ HoldsLease(v, k)'
    <3>1. InHand(v, k) /\ loop[v].live = TRUE
      BY <2>2, <2>3, <2>5
    <3>2. CASE k # j
      <4>1. k \in excuse \/ HoldsLease(v, k)
        BY <2>1, <3>1 DEF LoopSound
      <4> QED BY <1>7, <1>9, <2>2, <3>2, <4>1 DEF HoldsLease
    <3>3. CASE k = j
      <4>1. v # w
        BY <2>3, <2>5, <3>3
      <4>2. j \in excuse
        BY <1>2, <1>3, <3>1, <3>3, <4>1, OneHolder
      <4> QED BY <1>10, <3>1, <3>3, <4>1, <4>2
    <3> QED BY <3>2, <3>3
  <2>6. loop'[v].at \in {"send", "complete"} => loop'[v].live = TRUE \/ loop'[v].job \in excuse'
    <3> SUFFICES ASSUME loop'[v].at \in {"send", "complete"}, loop'[v].live # TRUE
                 PROVE  loop'[v].job \in excuse'
      OBVIOUS
    <3>1. loop[v].job \in excuse /\ loop[v].at = loop'[v].at /\ v # w
      BY <2>1, <2>2 DEF LoopSound, Running
    <3>2. InHand(v, loop[v].job) /\ loop[v].job \in DOMAIN jobs
      BY <2>1, <3>1 DEF InHand, Running, LoopSound
    <3> QED BY <1>9, <1>10, <2>2, <3>1, <3>2
  <2> QED BY <1>7, <2>1, <2>2, <2>4, <2>5, <2>6 DEF LoopSound, Running
<1>13. ASSUME NEW k \in DOMAIN jobs PROVE JobSound(k)'
  <2>1. JobSound(k)
    BY DEF SchedulerInvariant
  <2>2. \A v \in Loops : v # w => loop'[v] = loop[v]
    BY <1>6
  <2>3. CASE k # j
    <3>1. loop[w].job # k
      BY <2>3 DEF j
    <3> QED BY <1>7, <1>8, <1>9, <2>1, <2>2, <2>3, <3>1 DEF JobSound
  <2>4. CASE k = j
    <3>1. CASE copies'[j] = 0
      BY <1>7, <2>4, <3>1 DEF JobSound
    <3>2. CASE copies' = copies /\ loop[w].at = "fail" /\ excuse' = excuse
      <4>1. \A v \in Loops : loop[v].at = "complete" => v # w
        BY <3>2
      <4> QED BY <1>7, <2>1, <2>2, <2>4, <3>2, <4>1 DEF JobSound
    <3> QED BY <1>8, <3>1, <3>2
  <2> QED BY <2>3, <2>4
<1> QED BY <1>7, <1>11, <1>12, <1>13 DEF SchedulerInvariant

LEMMA CompleteKept ==
    ASSUME SchedulerInvariant, NEW w \in Loops, CompleteRun(w) PROVE SchedulerInvariant'
<1> DEFINE j == loop[w].job
<1>1. loop[w] \in LoopStates /\ loop[w].at = "complete" /\ LoopSound(w)
  BY DEF CompleteRun, SchedulerInvariant, SchedulerShape
<1>2. j \in DOMAIN jobs /\ jobs[j] \in JobStates
  BY <1>1 DEF LoopSound, Running, SchedulerInvariant, SchedulerShape
<1>3. CASE /\ Holds(w)
           /\ \E plan \in SuccessPlans(jobs[j]) : jobs' = [jobs EXCEPT ![j] = SucceededJob(@, plan)]
           /\ copies' = [copies EXCEPT ![j] = 0]
           /\ excuse' = IF \E v \in Loops \ {w} : InHand(v, j) THEN excuse ELSE excuse \ {j}
           /\ loop' = [loop EXCEPT ![w].at = "next"]
  <2>1. PICK plan \in SuccessPlans(jobs[j]) : jobs' = [jobs EXCEPT ![j] = SucceededJob(jobs[j], plan)]
    BY <1>3
  <2>2. /\ plan.status \in {"active", "completed"} /\ plan.next \in {"none", "later"}
        /\ plan.next = "none" => plan.status = "completed"
    BY <2>1 DEF SuccessPlans
  <2> DEFINE new == SucceededJob(jobs[j], plan)
  <2>3. /\ new \in JobStates /\ new.token = 0 /\ new.status = plan.status /\ new.next = plan.next
    BY <1>2, <2>2 DEF SucceededJob, JobStates
  <2>4. ~Terminal(new.status) /\ new.next = "none" => new.stopped = TRUE
    BY <2>2, <2>3 DEF Terminal
  <2>5. UNCHANGED <<draft, order, claims>>
    BY DEF CompleteRun
  <2> HIDE DEF new
  <2> QED BY <1>1, <1>3, <2>1, <2>3, <2>4, <2>5, RunEnds DEF new
<1>4. CASE /\ loop' = [loop EXCEPT ![w].at = "fail"]
           /\ excuse' = excuse \cup {j}
           /\ UNCHANGED <<jobs, copies>>
  <2> DEFINE q == [loop[w] EXCEPT !.at = "fail"]
  <2>1. loop' = [loop EXCEPT ![w] = q]
    BY <1>4
  <2>2. /\ q \in LoopStates /\ q.todo = loop[w].todo /\ q.job = j /\ q.token = loop[w].token
        /\ q.live = loop[w].live /\ q.at = "fail"
    BY <1>1 DEF LoopStates, Running
  <2>3. UNCHANGED <<draft, order, claims>>
    BY DEF CompleteRun
  <2> HIDE DEF q
  <2> QED BY <1>1, <1>4, <2>1, <2>2, <2>3, LoopMoves DEF Running, LoopSound
<1> QED BY <1>3, <1>4 DEF CompleteRun

LEMMA FailKept ==
    ASSUME SchedulerInvariant, NEW w \in Loops, FailRun(w) PROVE SchedulerInvariant'
<1> DEFINE j == loop[w].job
<1>1. loop[w] \in LoopStates /\ loop[w].at = "fail" /\ LoopSound(w)
  BY DEF FailRun, SchedulerInvariant, SchedulerShape
<1>2. j \in DOMAIN jobs /\ jobs[j] \in JobStates
  BY <1>1 DEF LoopSound, Running, SchedulerInvariant, SchedulerShape
<1>3. loop' = [loop EXCEPT ![w].at = "next"] /\ UNCHANGED <<draft, order, claims, copies, excuse>>
  BY DEF FailRun
<1>4. CASE Holds(w) /\ jobs' = [jobs EXCEPT ![j] = FailedJob(@)]
  <2> DEFINE new == FailedJob(jobs[j])
  <2>1. jobs' = [jobs EXCEPT ![j] = new]
    BY <1>4
  <2>2. Pauses(jobs[j]) \in BOOLEAN /\ jobs[j].streak + 1 \in Nat
    BY <1>2, SchedulerAssumption DEF Pauses, JobStates
  <2>3. new \in JobStates /\ new.token = 0
    BY <1>2, <2>2 DEF FailedJob, JobStates
  <2>4. new.next = "none" => new.stopped = TRUE
    BY <1>2, <2>2 DEF FailedJob, JobStates
  <2> HIDE DEF new
  <2> QED BY <1>1, <1>3, <1>4, <2>1, <2>3, <2>4, RunEnds
<1>5. CASE UNCHANGED jobs
  <2> DEFINE q == [loop[w] EXCEPT !.at = "next"]
  <2>1. loop' = [loop EXCEPT ![w] = q]
    BY <1>3
  <2>2. /\ q \in LoopStates /\ q.todo = loop[w].todo /\ q.job = j /\ q.token = loop[w].token
        /\ q.live = loop[w].live /\ q.at = "next"
    BY <1>1 DEF LoopStates, Running
  <2> HIDE DEF q
  <2> QED BY <1>1, <1>3, <1>5, <2>1, <2>2, LoopMoves DEF Running, LoopSound
<1> QED BY <1>4, <1>5 DEF FailRun

\* A claim takes only rows that no loop believes to hold.
LEMMA ClaimKept ==
    ASSUME SchedulerInvariant, NEW w \in Loops, ClaimDue(w) PROVE SchedulerInvariant'
<1>1. /\ loop \in [Loops -> LoopStates] /\ loop[w].at = "idle" /\ claims \in Nat
      /\ jobs \in Seq(JobStates) /\ DOMAIN jobs \subseteq Nat
  <2>1. /\ loop \in [Loops -> LoopStates] /\ loop[w].at = "idle" /\ claims \in Nat
        /\ jobs \in Seq(JobStates)
    BY DEF ClaimDue, SchedulerInvariant, SchedulerShape
  <2> QED BY <2>1
<1>2. claims' = claims + 1 /\ UNCHANGED <<draft, order, copies, excuse>>
  BY DEF ClaimDue
<1>3. PICK batch \in SUBSET {j \in DOMAIN jobs : Claimable(j)} :
         /\ jobs' = [j \in DOMAIN jobs |->
                       IF j \in batch THEN [jobs[j] EXCEPT !.token = claims + 1, !.lease = "live"]
                       ELSE jobs[j]]
         /\ loop' = [loop EXCEPT ![w] = [at |-> "next", todo |-> batch, job |-> 0,
                                         token |-> claims + 1, live |-> TRUE]]
  BY DEF ClaimDue
<1> DEFINE q == [at |-> "next", todo |-> batch, job |-> 0, token |-> claims + 1, live |-> TRUE]
<1>4. q \in LoopStates /\ q.at = "next" /\ q.todo = batch /\ q.token = claims + 1 /\ q.live = TRUE
  <2>1. batch \in SUBSET Nat /\ claims + 1 \in Nat
    BY <1>1
  <2> QED BY <2>1 DEF LoopStates
<1>5. loop' \in [Loops -> LoopStates] /\ loop'[w] = q /\ \A v \in Loops \ {w} : loop'[v] = loop[v]
  <2> HIDE DEF q
  <2> QED BY <1>1, <1>3, <1>4 DEF q
<1> HIDE DEF q
<1>6. ASSUME NEW j \in DOMAIN jobs
      PROVE  /\ jobs'[j] \in JobStates /\ jobs'[j].status = jobs[j].status
             /\ jobs'[j].next = jobs[j].next /\ jobs'[j].stopped = jobs[j].stopped
             /\ j \notin batch => jobs'[j] = jobs[j]
             /\ j \in batch => /\ jobs'[j].token = claims + 1 /\ jobs'[j].lease = "live"
                               /\ jobs[j].status = "active" /\ jobs[j].lease # "live"
  <2>1. jobs[j] \in JobStates /\ claims + 1 \in Nat
    BY <1>1
  <2>2. CASE j \in batch
    <3> DEFINE new == [jobs[j] EXCEPT !.token = claims + 1, !.lease = "live"]
    <3>1. jobs'[j] = new
      BY <1>3, <2>2
    <3>2. /\ new \in JobStates /\ new.token = claims + 1 /\ new.lease = "live"
          /\ new.status = jobs[j].status /\ new.next = jobs[j].next /\ new.stopped = jobs[j].stopped
      BY <2>1 DEF JobStates
    <3>3. jobs[j].status = "active" /\ jobs[j].lease # "live"
      BY <1>3, <2>2 DEF Claimable
    <3> HIDE DEF new
    <3> QED BY <2>2, <3>1, <3>2, <3>3
  <2>3. CASE j \notin batch
    BY <1>3, <2>1, <2>3
  <2> QED BY <2>2, <2>3
<1>7. DOMAIN jobs' = DOMAIN jobs /\ jobs' \in Seq(JobStates) /\ Len(jobs') = Len(jobs)
  <2>1. DOMAIN jobs = 1 .. Len(jobs) /\ Len(jobs) \in Nat
    BY <1>1
  <2>2. jobs' \in [DOMAIN jobs -> JobStates]
    <3>1. DOMAIN jobs' = DOMAIN jobs /\ jobs' = [j \in DOMAIN jobs |-> jobs'[j]]
      BY <1>3
    <3> QED BY <1>6, <3>1
  <2> QED BY <2>1, <2>2
<1>8. SchedulerShape'
  BY <1>1, <1>2, <1>5, <1>7 DEF SchedulerInvariant, SchedulerShape, NoOrder
<1>9. ASSUME NEW v \in Loops PROVE LoopSound(v)'
  <2>1. \A u \in Loops : LoopSound(u) /\ loop[u] \in LoopStates
    BY <1>1 DEF SchedulerInvariant
  <2>2. \A u \in Loops : loop[u].token \in Nat /\ loop[u].token <= claims
    BY <2>1 DEF LoopSound, LoopStates
  <2>3. \A u \in Loops \ {v} : loop'[u].token = loop'[v].token => loop'[v].token = 0
    <3> TAKE u \in Loops \ {v}
    <3>1. loop[u].token = loop[v].token => loop[v].token = 0
      BY <2>1 DEF LoopSound
    <3> QED BY <1>1, <1>4, <1>5, <2>2, <3>1
  <2>4. CASE v = w
    <3>1. loop'[v].at = "next" /\ loop'[v].todo = batch /\ loop'[v].token = claims + 1
      BY <1>4, <1>5, <2>4
    <3>2. \A j \in DOMAIN jobs : InHand(v, j)' => j \in batch
      BY <3>1 DEF InHand
    <3>3. \A j \in batch : HoldsLease(v, j)'
      BY <1>3, <1>6, <3>1 DEF HoldsLease
    <3>4. batch \subseteq DOMAIN jobs /\ claims + 1 # 0 /\ claims + 1 <= claims'
      BY <1>1, <1>2
    <3>5. \A j \in DOMAIN jobs : InHand(v, j)' => j \in excuse' \/ HoldsLease(v, j)'
      BY <3>2, <3>3
    <3> QED BY <1>7, <2>3, <3>1, <3>4, <3>5 DEF LoopSound, Running
  <2>5. CASE v # w
    <3>1. loop'[v] = loop[v]
      BY <1>5, <2>5
    <3>2. ASSUME loop'[v].live = TRUE, NEW j \in DOMAIN jobs, InHand(v, j)'
          PROVE  j \in excuse' \/ HoldsLease(v, j)'
      <4>1. j \in excuse \/ HoldsLease(v, j)
        BY <2>1, <3>1, <3>2 DEF LoopSound, InHand
      <4> QED BY <1>2, <1>6, <3>1, <4>1 DEF HoldsLease
    <3>3. loop'[v].token <= claims'
      BY <1>1, <1>2, <2>2, <3>1
    <3> QED BY <1>2, <1>7, <2>1, <2>3, <3>1, <3>2, <3>3 DEF LoopSound
  <2> QED BY <2>4, <2>5
<1>10. ASSUME NEW j \in DOMAIN jobs PROVE JobSound(j)'
  <2>1. JobSound(j)
    BY DEF SchedulerInvariant
  <2>2. \A v \in Loops : loop[v].at = "complete" => loop'[v] = loop[v]
    BY <1>1, <1>5
  <2>3. copies[j] > 0 => \/ j \in excuse
                         \/ copies[j] = 1 /\ \E v \in Loops : loop'[v].at = "complete" /\ loop'[v].job = j
    BY <2>1, <2>2 DEF JobSound
  <2> QED BY <1>2, <1>6, <2>1, <2>3 DEF JobSound, Terminal
<1> QED BY <1>7, <1>8, <1>9, <1>10 DEF SchedulerInvariant

\* A lease runs out.  A run that is past the second fence is excused.
LEMMA ExpiryKept ==
    ASSUME SchedulerInvariant, NEW t \in 1 .. claims, TokenExpires(t) PROVE SchedulerInvariant'
<1>1. /\ loop \in [Loops -> LoopStates] /\ claims \in Nat /\ t # 0
      /\ jobs \in Seq(JobStates)
  BY DEF SchedulerInvariant, SchedulerShape
<1>2. UNCHANGED <<draft, order, claims, copies>> /\ excuse \subseteq excuse'
  BY DEF TokenExpires
<1>3. ASSUME NEW j \in DOMAIN jobs
      PROVE  /\ jobs'[j] \in JobStates /\ jobs'[j].status = jobs[j].status
             /\ jobs'[j].next = jobs[j].next /\ jobs'[j].stopped = jobs[j].stopped
             /\ jobs'[j].token = jobs[j].token /\ (jobs[j].token # t => jobs'[j] = jobs[j])
  <2>1. jobs[j] \in JobStates
    BY <1>1
  <2>2. jobs'[j] = IF jobs[j].token = t THEN [jobs[j] EXCEPT !.lease = "expired"] ELSE jobs[j]
    BY DEF TokenExpires
  <2> QED BY <2>1, <2>2 DEF JobStates
<1>4. ASSUME NEW w \in Loops
      PROVE  /\ loop'[w] \in LoopStates /\ loop'[w].at = loop[w].at /\ loop'[w].todo = loop[w].todo
             /\ loop'[w].job = loop[w].job /\ loop'[w].token = loop[w].token
             /\ loop'[w].live = TRUE => loop[w].live = TRUE /\ loop[w].token # t
             /\ loop[w].token # t => loop'[w] = loop[w]
             /\ loop[w].token = t /\ loop[w].at \in {"send", "complete"} => loop[w].job \in excuse'
  <2>1. loop[w] \in LoopStates
    BY <1>1
  <2>2. loop'[w] = IF loop[w].token = t THEN [loop[w] EXCEPT !.live = FALSE] ELSE loop[w]
    BY DEF TokenExpires
  <2>3. loop[w].token = t /\ loop[w].at \in {"send", "complete"} => loop[w].job \in excuse'
    BY DEF TokenExpires
  <2> QED BY <2>1, <2>2, <2>3 DEF LoopStates
<1>5. loop' \in [Loops -> LoopStates]
  <2>1. DOMAIN loop' = Loops /\ loop' = [w \in Loops |-> loop'[w]]
    BY DEF TokenExpires
  <2> QED BY <1>4, <2>1
<1>6. DOMAIN jobs' = DOMAIN jobs /\ jobs' \in Seq(JobStates) /\ Len(jobs') = Len(jobs)
  <2>1. DOMAIN jobs = 1 .. Len(jobs) /\ Len(jobs) \in Nat
    BY <1>1
  <2>2. jobs' \in [DOMAIN jobs -> JobStates]
    <3>1. DOMAIN jobs' = DOMAIN jobs /\ jobs' = [j \in DOMAIN jobs |-> jobs'[j]]
      BY DEF TokenExpires
    <3> QED BY <1>3, <3>1
  <2> QED BY <2>1, <2>2
<1>7. SchedulerShape'
  BY <1>2, <1>5, <1>6 DEF SchedulerInvariant, SchedulerShape, NoOrder
<1>8. ASSUME NEW v \in Loops PROVE LoopSound(v)'
  <2>1. LoopSound(v)
    BY DEF SchedulerInvariant
  <2>2. \A u \in Loops : loop'[u].token = loop[u].token
    BY <1>4
  <2>3. ASSUME loop'[v].live = TRUE, NEW j \in DOMAIN jobs, InHand(v, j)'
        PROVE  j \in excuse' \/ HoldsLease(v, j)'
    <3>1. InHand(v, j) /\ loop[v].live = TRUE /\ loop[v].token # t
      BY <1>4, <2>3 DEF InHand
    <3>2. j \in excuse \/ HoldsLease(v, j)
      BY <2>1, <3>1 DEF LoopSound
    <3> QED BY <1>2, <1>3, <1>4, <3>1, <3>2 DEF HoldsLease
  <2>4. loop'[v].at \in {"send", "complete"} => loop'[v].live = TRUE \/ loop'[v].job \in excuse'
    BY <1>2, <1>4, <2>1 DEF LoopSound
  <2> QED BY <1>2, <1>4, <1>6, <2>1, <2>2, <2>3, <2>4 DEF LoopSound
<1>9. ASSUME NEW j \in DOMAIN jobs PROVE JobSound(j)'
  <2>1. JobSound(j)
    BY DEF SchedulerInvariant
  <2>2. \A v \in Loops : loop'[v].at = loop[v].at /\ loop'[v].job = loop[v].job
    BY <1>4
  <2> QED BY <1>2, <1>3, <2>1, <2>2 DEF JobSound, Terminal
<1> QED BY <1>6, <1>7, <1>8, <1>9 DEF SchedulerInvariant

\* A row changes and the loops do not: the owner's command takes the lease and
\* excuses a run that is under way; a run time that is reached takes nothing.
LEMMA RowMoves ==
    ASSUME SchedulerInvariant, NEW j \in DOMAIN jobs, NEW new \in JobStates,
           jobs' = [jobs EXCEPT ![j] = new],
           UNCHANGED <<loop, claims, copies>>, excuse \subseteq excuse',
           SchedulerShape' ,
           Terminal(new.status) => new.token = 0,
           ~Terminal(new.status) /\ new.next = "none" => new.stopped = TRUE,
           \/ new.token = jobs[j].token /\ new.lease = jobs[j].lease
           \/ (\E w \in Loops : InHand(w, j)) => j \in excuse'
    PROVE  SchedulerInvariant'
<1>1. /\ DOMAIN jobs' = DOMAIN jobs /\ jobs'[j] = new
      /\ \A k \in DOMAIN jobs \ {j} : jobs'[k] = jobs[k]
  BY OneWrite DEF SchedulerInvariant, SchedulerShape
<1>2. ASSUME NEW v \in Loops PROVE LoopSound(v)'
  <2>1. LoopSound(v)
    BY DEF SchedulerInvariant
  <2>2. ASSUME loop'[v].live = TRUE, NEW k \in DOMAIN jobs, InHand(v, k)'
        PROVE  k \in excuse' \/ HoldsLease(v, k)'
    <3>1. InHand(v, k) /\ loop[v].live = TRUE
      BY <2>2 DEF InHand
    <3>2. k \in excuse \/ HoldsLease(v, k)
      BY <2>1, <3>1 DEF LoopSound
    <3> QED BY <1>1, <3>1, <3>2 DEF HoldsLease
  <2> QED BY <1>1, <2>1, <2>2 DEF LoopSound
<1>3. ASSUME NEW k \in DOMAIN jobs PROVE JobSound(k)'
  <2>1. JobSound(k)
    BY DEF SchedulerInvariant
  <2> QED BY <1>1, <2>1 DEF JobSound
<1> QED BY <1>1, <1>2, <1>3 DEF SchedulerInvariant

LEMMA DueKept ==
    ASSUME SchedulerInvariant, NEW j \in DOMAIN jobs, RunTimeReached(j) PROVE SchedulerInvariant'
<1> DEFINE new == [jobs[j] EXCEPT !.next = "due"]
<1>1. jobs[j] \in JobStates /\ jobs \in Seq(JobStates) /\ JobSound(j)
  BY DEF SchedulerInvariant, SchedulerShape
<1>2. /\ jobs' = [jobs EXCEPT ![j] = new] /\ UNCHANGED <<draft, loop, order, claims, copies, excuse>>
  BY DEF RunTimeReached
<1>3. /\ new \in JobStates /\ new.status = jobs[j].status /\ new.next = "due"
      /\ new.token = jobs[j].token /\ new.lease = jobs[j].lease
  BY <1>1 DEF JobStates
<1> HIDE DEF new
<1>4. SchedulerShape'
  <2>1. jobs' \in Seq(JobStates) /\ Len(jobs') = Len(jobs) /\ DOMAIN jobs' = DOMAIN jobs
    BY <1>1, <1>2, <1>3, OneWrite
  <2> QED BY <1>2, <2>1 DEF SchedulerInvariant, SchedulerShape, NoOrder
<1> QED BY <1>1, <1>2, <1>3, <1>4, RowMoves DEF JobSound

LEMMA OrderKept ==
    ASSUME SchedulerInvariant, WriteOrder PROVE SchedulerInvariant'
<1> DEFINE j == order.job
           new == UpdatedStatus(jobs[j], order.status)
<1>1. /\ j \in DOMAIN jobs /\ jobs[j] \in JobStates /\ jobs \in Seq(JobStates) /\ JobSound(j)
      /\ order.status \in {"active", "paused", "canceled"}
  BY DEF WriteOrder, SchedulerInvariant, SchedulerShape
<1>2. /\ jobs' = [jobs EXCEPT ![j] = new] /\ order' = NoOrder
      /\ excuse' = IF \E w \in Loops : InHand(w, j) THEN excuse \cup {j} ELSE excuse
      /\ UNCHANGED <<draft, loop, claims, copies>>
  BY DEF WriteOrder
<1>3. CASE Terminal(jobs[j].status)
  <2>1. new = jobs[j]
    BY <1>3 DEF UpdatedStatus
  <2> HIDE DEF new
  <2>2. SchedulerShape'
    <3>1. jobs' \in Seq(JobStates) /\ Len(jobs') = Len(jobs) /\ DOMAIN jobs' = DOMAIN jobs
      BY <1>1, <1>2, <2>1, OneWrite
    <3> QED BY <1>2, <3>1 DEF SchedulerInvariant, SchedulerShape, NoOrder
  <2> QED BY <1>1, <1>2, <1>3, <2>1, <2>2, RowMoves DEF JobSound
<1>4. CASE ~Terminal(jobs[j].status)
  <2>1. new = [jobs[j] EXCEPT !.status = order.status, !.token = 0, !.lease = "none"]
    BY <1>4 DEF UpdatedStatus
  <2> HIDE DEF new
  <2>2. new \in JobStates /\ new.token = 0 /\ new.next = jobs[j].next /\ new.stopped = jobs[j].stopped
    BY <1>1, <2>1 DEF JobStates
  <2>3. SchedulerShape'
    <3>1. jobs' \in Seq(JobStates) /\ Len(jobs') = Len(jobs) /\ DOMAIN jobs' = DOMAIN jobs
      BY <1>1, <1>2, <2>2, OneWrite
    <3> QED BY <1>2, <3>1 DEF SchedulerInvariant, SchedulerShape, NoOrder
  <2>4. (\E w \in Loops : InHand(w, j)) => j \in excuse'
    BY <1>2
  <2> QED BY <1>1, <1>2, <1>4, <2>2, <2>3, <2>4, RowMoves DEF JobSound
<1> QED BY <1>3, <1>4

\* A new job is in nobody's hands.
LEMMA CreateKept ==
    ASSUME SchedulerInvariant, NEW kind \in JobKinds, NEW next \in {"later", "due"},
           CreateJob(kind, next), draft' \in DraftStates, UNCHANGED <<loop, order, claims, excuse>>
    PROVE  SchedulerInvariant'
<1> DEFINE new == NewJob(kind, next)
           n == Len(jobs) + 1
<1>1. /\ jobs \in Seq(JobStates) /\ copies \in Seq(Nat) /\ Len(copies) = Len(jobs) /\ Len(jobs) \in Nat
      /\ loop \in [Loops -> LoopStates]
  BY DEF SchedulerInvariant, SchedulerShape
<1>2. /\ new \in JobStates /\ new.status = "active" /\ new.next = next
  BY DEF NewJob, JobStates
<1>3. jobs' = Append(jobs, new) /\ copies' = Append(copies, 0)
  BY DEF CreateJob
<1> HIDE DEF new
<1>4. /\ jobs' \in Seq(JobStates) /\ copies' \in Seq(Nat) /\ Len(jobs') = n /\ Len(copies') = n
      /\ DOMAIN jobs = 1 .. Len(jobs) /\ DOMAIN jobs' = 1 .. n
      /\ jobs'[n] = new /\ copies'[n] = 0
      /\ \A k \in DOMAIN jobs : jobs'[k] = jobs[k] /\ copies'[k] = copies[k]
  BY <1>1, <1>2, <1>3
<1>5. SchedulerShape'
  BY <1>1, <1>4 DEF SchedulerInvariant, SchedulerShape, NoOrder
<1>6. n \notin DOMAIN jobs /\ DOMAIN jobs \subseteq DOMAIN jobs' /\ DOMAIN jobs' = DOMAIN jobs \cup {n}
  BY <1>1, <1>4
<1> HIDE DEF n
<1>7. ASSUME NEW v \in Loops PROVE LoopSound(v)'
  <2>1. LoopSound(v)
    BY DEF SchedulerInvariant
  <2>2. ASSUME loop'[v].live = TRUE, NEW k \in DOMAIN jobs', InHand(v, k)'
        PROVE  k \in excuse' \/ HoldsLease(v, k)'
    <3>1. InHand(v, k) /\ loop[v].live = TRUE
      BY <2>2 DEF InHand
    <3>2. k \in DOMAIN jobs
      BY <2>1, <3>1 DEF InHand, LoopSound, Running
    <3>3. k \in excuse \/ HoldsLease(v, k)
      BY <2>1, <3>1, <3>2 DEF LoopSound
    <3> QED BY <1>4, <3>2, <3>3 DEF HoldsLease
  <2> QED BY <1>6, <2>1, <2>2 DEF LoopSound
<1>8. ASSUME NEW k \in DOMAIN jobs' PROVE JobSound(k)'
  <2>1. CASE k = n
    BY <1>2, <1>4, <2>1 DEF JobSound, Terminal
  <2>2. CASE k \in DOMAIN jobs
    <3>1. JobSound(k)
      BY <2>2 DEF SchedulerInvariant
    <3> QED BY <1>4, <2>2, <3>1 DEF JobSound
  <2> QED BY <1>6, <2>1, <2>2
<1> QED BY <1>5, <1>7, <1>8 DEF SchedulerInvariant

\* The owner's command is read from the tables, and the pending draft.
LEMMA ReadKept ==
    ASSUME SchedulerInvariant, ReadOrder PROVE SchedulerInvariant'
<1>0. PICK op \in ManualOps : \E j \in Targets(op) :
         /\ Ordered(jobs[j].status, op) # "invalid"
         /\ order' = [job |-> j, status |-> Ordered(jobs[j].status, op)]
  BY DEF ReadOrder
<1>1. PICK j \in Targets(op) :
         /\ Ordered(jobs[j].status, op) # "invalid"
         /\ order' = [job |-> j, status |-> Ordered(jobs[j].status, op)]
  BY <1>0
<1>2. UNCHANGED <<jobs, draft, loop, claims, copies, excuse>>
  BY DEF ReadOrder
<1>3. Ordered(jobs[j].status, op) \in {"active", "paused", "canceled", "invalid"}
  BY DEF Ordered
<1>4. j \in DOMAIN jobs
  <2> DEFINE fitting == {k \in DOMAIN jobs : Ordered(jobs[k].status, op) # "invalid"}
  <2>1. Len(jobs) \in Nat /\ fitting \subseteq 1 .. Len(jobs)
    BY DEF SchedulerInvariant, SchedulerShape
  <2>2. fitting # {} => Newest(fitting) \in fitting
    <3> HIDE DEF fitting
    <3> QED BY <2>1, NewestIn
  <2> QED BY <2>2 DEF Targets
<1>5. order'.job = j /\ order'.status = Ordered(jobs[j].status, op)
  BY <1>1
<1>6. SchedulerShape'
  BY <1>1, <1>2, <1>3, <1>4, <1>5 DEF SchedulerInvariant, SchedulerShape
<1> QED BY <1>2, <1>6 DEF SchedulerInvariant, LoopSound, JobSound, InHand, HoldsLease

LEMMA DraftKept ==
    ASSUME SchedulerInvariant, ProposeDraft \/ CancelDraft \/ DraftAges PROVE SchedulerInvariant'
<1>1. draft' \in DraftStates
  <2>1. draft \in DraftStates
    BY DEF SchedulerInvariant, SchedulerShape
  <2>2. CASE ProposeDraft
    BY <2>2 DEF ProposeDraft, DraftStates
  <2>3. CASE CancelDraft
    BY <2>3 DEF CancelDraft, DraftStates, NoDraft, JobKinds
  <2>4. CASE DraftAges
    BY <2>1, <2>4 DEF DraftAges, DraftStates
  <2> QED BY <2>2, <2>3, <2>4
<1>2. UNCHANGED <<jobs, loop, order, claims, copies, excuse>>
  BY DEF ProposeDraft, CancelDraft, DraftAges
<1>3. SchedulerShape'
  BY <1>1, <1>2 DEF SchedulerInvariant, SchedulerShape, NoOrder
<1> QED BY <1>2, <1>3 DEF SchedulerInvariant, LoopSound, JobSound, InHand, HoldsLease

\* Every step keeps the invariant.
LEMMA SchedulerKept == SchedulerInvariant /\ [SchedulerNext]_schedulerVars => SchedulerInvariant'
<1> SUFFICES ASSUME SchedulerInvariant, [SchedulerNext]_schedulerVars PROVE SchedulerInvariant'
  OBVIOUS
<1>1. CASE UNCHANGED schedulerVars
  BY <1>1 DEF schedulerVars, SchedulerInvariant, SchedulerShape, LoopSound, JobSound, InHand, HoldsLease, NoOrder
<1>2. draft \in DraftStates /\ NoDraft \in DraftStates
  BY DEF SchedulerInvariant, SchedulerShape, NoDraft, DraftStates, JobKinds
<1>3. CASE TaskCommand
  BY <1>2, <1>3, CreateKept DEF TaskCommand
<1>4. CASE AmendWithoutConfirm
  BY <1>2, <1>4, CreateKept DEF AmendWithoutConfirm
<1>5. CASE ConfirmDraft
  <2>1. draft.kind \in JobKinds
    BY <1>2 DEF DraftStates
  <2> QED BY <1>2, <1>5, <2>1, CreateKept DEF ConfirmDraft
<1>6. CASE ProposeDraft \/ CancelDraft \/ DraftAges
  BY <1>6, DraftKept
<1>7. CASE ReadOrder \/ WriteOrder
  BY <1>7, ReadKept, OrderKept
<1>8. ASSUME NEW w \in Loops,
             \/ ClaimDue(w) \/ StartJob(w) \/ PrepareText(w) \/ SendReminder(w)
             \/ CompleteRun(w) \/ FailRun(w) \/ LoopDies(w)
      PROVE  SchedulerInvariant'
  BY <1>8, ClaimKept, StartKept, PrepareKept, ReminderKept, CompleteKept, FailKept, DeathKept
<1> QED BY <1>1, <1>3, <1>4, <1>5, <1>6, <1>7, <1>8, DueKept, ExpiryKept DEF SchedulerNext

LEMMA SchedulerStarts == SchedulerInit => SchedulerInvariant
<1> SUFFICES ASSUME SchedulerInit PROVE SchedulerInvariant
  OBVIOUS
<1>1. IdleLoop \in LoopStates /\ IdleLoop.at = "idle" /\ IdleLoop.todo = {} /\ IdleLoop.token = 0
      /\ IdleLoop.live = FALSE
  BY DEF IdleLoop, LoopStates
<1>2. NoDraft \in DraftStates
  BY DEF NoDraft, DraftStates, JobKinds
<1>3. /\ jobs \in Seq(JobStates) /\ copies \in Seq(Nat) /\ Len(copies) = Len(jobs) /\ DOMAIN jobs = {}
  BY DEF SchedulerInit
<1>4. loop \in [Loops -> LoopStates] /\ \A w \in Loops : loop[w] = IdleLoop
  <2> HIDE DEF IdleLoop
  <2> QED BY <1>1 DEF SchedulerInit
<1>5. SchedulerShape
  BY <1>2, <1>3, <1>4 DEF SchedulerInit, SchedulerShape
<1>6. \A w \in Loops : LoopSound(w)
  BY <1>1, <1>3, <1>4 DEF SchedulerInit, LoopSound, Running
<1> QED BY <1>3, <1>5, <1>6 DEF SchedulerInvariant

\* The invariant of the scheduler, of every behaviour.
THEOREM SchedulerHolds == SchedulerSpec => []SchedulerInvariant
BY SchedulerStarts, SchedulerKept, PTL DEF SchedulerSpec

\* Whatever loops overlap, die and lose their leases, and whatever the owner
\* orders meanwhile: a run time gets one message unless a fault of the run
\* explains the second, and no job drops out of the schedule.
THEOREM RunsHold == SchedulerSpec => []RunsAreExact
<1>1. SchedulerInvariant => RunsAreExact
  <2> SUFFICES ASSUME SchedulerInvariant PROVE RunsAreExact
    OBVIOUS
  <2>1. OneSenderPerJob
    <3> SUFFICES ASSUME NEW v \in Loops, NEW w \in Loops, v # w, loop[v].job = loop[w].job,
                        loop[v].at = "send", loop[v].live, loop[w].at = "send", loop[w].live
                 PROVE  loop[w].job \in excuse
      BY DEF OneSenderPerJob
    <3> DEFINE j == loop[w].job
    <3>1. loop[v].live = TRUE /\ loop[w].live = TRUE /\ LoopSound(v) /\ LoopSound(w)
      BY DEF SchedulerInvariant, SchedulerShape, LoopStates
    <3>2. j \in DOMAIN jobs /\ InHand(v, j) /\ InHand(w, j)
      BY <3>1 DEF LoopSound, Running, InHand
    <3>3. j \in excuse \/ jobs[j].token = loop[w].token
      BY <3>1, <3>2 DEF LoopSound, HoldsLease
    <3> QED BY <3>1, <3>2, <3>3, OneHolder
  <2>2. OneMessagePerRun
    <3> SUFFICES ASSUME NEW j \in DOMAIN jobs, copies[j] > 1 PROVE j \in excuse
      BY DEF OneMessagePerRun
    <3>1. copies[j] \in Nat /\ JobSound(j)
      BY DEF SchedulerInvariant, SchedulerShape
    <3> QED BY <3>1 DEF JobSound
  <2>3. NeverDropsOut
    BY DEF SchedulerInvariant, JobSound, NeverDropsOut, Terminal
  <2> QED BY <2>1, <2>2, <2>3 DEF RunsAreExact
<1> QED BY <1>1, SchedulerHolds, PTL

\* A completed or canceled job stays so: its row has no token, so a run that is
\* still under way cannot record its end, and a late command is refused.
THEOREM FinishHolds == SchedulerSpec => FinishedStaysFinished
<1>1. SchedulerInvariant /\ [SchedulerNext]_schedulerVars
      => [\A j \in DOMAIN jobs : Terminal(jobs[j].status) => jobs'[j].status = jobs[j].status]_jobs
  <2> SUFFICES ASSUME SchedulerInvariant, SchedulerNext, jobs' # jobs,
                      NEW j \in DOMAIN jobs, Terminal(jobs[j].status)
               PROVE  jobs'[j].status = jobs[j].status
    BY DEF schedulerVars
  <2>1. /\ jobs \in Seq(JobStates) /\ Len(jobs) \in Nat /\ jobs[j] \in JobStates
        /\ JobSound(j) /\ jobs[j].token = 0
    BY DEF SchedulerInvariant, SchedulerShape, JobSound
  <2>2. ASSUME NEW kind, NEW next, CreateJob(kind, next) PROVE jobs'[j].status = jobs[j].status
    BY <2>1, <2>2 DEF CreateJob
  <2>3. CASE TaskCommand \/ AmendWithoutConfirm \/ ConfirmDraft
    BY <2>2, <2>3 DEF TaskCommand, AmendWithoutConfirm, ConfirmDraft
  <2>4. CASE WriteOrder
    <3>1. UpdatedStatus(jobs[j], order.status) = jobs[j]
      BY DEF UpdatedStatus
    <3>2. order.job \in DOMAIN jobs
      BY <2>4 DEF WriteOrder, SchedulerInvariant, SchedulerShape
    <3> QED BY <2>1, <2>4, <3>1, <3>2 DEF WriteOrder
  <2>5. ASSUME NEW w \in Loops, loop[w].at # "idle", Holds(w) PROVE loop[w].job # j
    BY <2>1, <2>5 DEF Holds, SchedulerInvariant, LoopSound
  <2>6. ASSUME NEW w \in Loops, ClaimDue(w) PROVE jobs'[j].status = jobs[j].status
    <3>1. ~Claimable(j)
      BY DEF Claimable, Terminal
    <3>2. jobs'[j] = jobs[j]
      BY <2>6, <3>1 DEF ClaimDue
    <3> QED BY <3>2
  <2>7. ASSUME NEW w \in Loops, CompleteRun(w) \/ FailRun(w) PROVE jobs'[j].status = jobs[j].status
    <3>1. jobs'[j] = jobs[j]
      BY <2>1, <2>5, <2>7 DEF CompleteRun, FailRun
    <3> QED BY <3>1
  <2>8. ASSUME NEW w \in Loops, StartJob(w) \/ PrepareText(w) \/ SendReminder(w) \/ LoopDies(w)
        PROVE  FALSE
    BY <2>8 DEF StartJob, PrepareText, SendReminder, LoopDies
  <2>9. ASSUME NEW k \in DOMAIN jobs, RunTimeReached(k) PROVE jobs'[j].status = jobs[j].status
    <3>1. jobs[k] \in JobStates
      BY <2>1
    <3> QED BY <2>1, <2>9, <3>1 DEF RunTimeReached, JobStates
  <2>10. ASSUME NEW t \in 1 .. claims, TokenExpires(t) PROVE jobs'[j].status = jobs[j].status
    BY <2>1, <2>10 DEF TokenExpires, JobStates
  <2>11. CASE ProposeDraft \/ CancelDraft \/ DraftAges \/ ReadOrder
    BY <2>11 DEF ProposeDraft, CancelDraft, DraftAges, ReadOrder
  <2> QED BY <2>3, <2>4, <2>6, <2>7, <2>8, <2>9, <2>10, <2>11 DEF SchedulerNext
<1> QED BY <1>1, SchedulerHolds, PTL DEF SchedulerSpec, FinishedStaysFinished

\* The two halves of the channel's action property together: no late writer
\* reopens a settled admission or a finished job.
THEOREM ClosedHolds == DeliverySpec /\ SchedulerSpec => ClosedStaysClosed
BY SettlementHolds, FinishHolds DEF ClosedStaysClosed

\* In the specification the run checks one part moves at a time; each part
\* follows its own specification in it.
LEMMA ChannelIsItsParts == Spec => DeliverySpec /\ StreamSpec /\ SchedulerSpec /\ RoutingSpec
<1>1. Init => DeliveryInit /\ StreamInit /\ SchedulerInit /\ RoutingInit
  BY DEF Init
<1>2. [Next]_channelVars =>
         /\ [DeliveryNext]_deliveryVars /\ [StreamNext]_streamVars
         /\ [SchedulerNext]_schedulerVars /\ [RoutingNext]_routingVars
  BY DEF Next, channelVars
<1> QED BY <1>1, <1>2, PTL DEF Spec, DeliverySpec, StreamSpec, SchedulerSpec, RoutingSpec

\* Every property of the channel holds of the specification the run checks,
\* whatever the numbers of updates, parts, jobs and chats.
THEOREM ChannelHolds ==
    Spec => /\ [](UpdatesAreAccounted /\ NoPartLost /\ ReplyReachesChat /\ RunsAreExact /\ OnlyAdminsManage)
            /\ ClosedStaysClosed /\ QuietAfterReply
<1>1. Spec => [](UpdatesAreAccounted /\ NoPartLost /\ ReplyReachesChat /\ RunsAreExact /\ OnlyAdminsManage)
  BY ChannelIsItsParts, AccountsHold, PartsHold, ReplyHolds, RunsHold, AdminsHold, PTL
<1>2. Spec => ClosedStaysClosed /\ QuietAfterReply
  BY ChannelIsItsParts, ClosedHolds, QuietHolds, PTL
<1> QED BY <1>1, <1>2
=============================================================================
