----------------------------- MODULE Scheduler ------------------------------
(***************************************************************************)
(* The Telegram scheduler: jobs of one owner in one chat, the worker loops *)
(* that claim and run the due ones, and the owner's commands.              *)
(*                                                                         *)
(* Two worker loops may overlap: the loop is a task of its own, which a    *)
(* configuration reload that aborts the poller leaves running, and nothing *)
(* stops a second process.  Time is abstracted to the two events that the  *)
(* code compares the clock with: a run time is reached, a lease runs out.  *)
(***************************************************************************)
EXTENDS Integers, Sequences, FiniteSets

CONSTANTS
    Loops,        \* scheduler loops polling the same tables
    BatchSize,    \* jobs one claim takes
    MaxStreak,    \* max_failure_streak_before_pause
    MaxPerOwner,  \* max_jobs_per_owner
    MaxJobs,      \* bound: jobs ever created
    MaxClaims     \* bound: claims ever made (a lease token is a claim number)

ASSUME SchedulerAssumption ==
    /\ BatchSize \in Nat \ {0} /\ MaxStreak \in Nat \ {0}
    /\ MaxPerOwner \in Nat \ {0} /\ MaxJobs \in Nat /\ MaxClaims \in Nat

VARIABLES
    jobs,      \* telegram_scheduler_jobs, oldest first
    draft,     \* the owner's row of telegram_scheduler_pending_intents
    loop,      \* loop -> the claimed jobs, the token and the step it is at
    order,     \* the owner's command between its read and its update
    claims,    \* claims made so far
    copies,    \* history: job -> messages sent for its current run time
    excuse     \* history: jobs whose current run met a fault listed below

schedulerVars == <<jobs, draft, loop, order, claims, copies, excuse>>

JobKinds == {"once", "cron"}
NoDraft == [state |-> "none", kind |-> "once", due |-> FALSE]
NoOrder == [job |-> 0, status |-> "none"]
IdleLoop == [at |-> "idle", todo |-> {}, job |-> 0, token |-> 0, live |-> FALSE]

SchedulerInit ==
    /\ jobs = <<>> /\ draft = NoDraft /\ order = NoOrder
    /\ loop = [w \in Loops |-> IdleLoop]
    /\ claims = 0 /\ copies = <<>> /\ excuse = {}

Terminal(status) == status \in {"completed", "canceled"}

(***************************************************************************)
(* Creation.                                                               *)
(***************************************************************************)

\* enforce_scheduler_job_quota: the open jobs among the newest quota+1.
Counted ==
    {j \in DOMAIN jobs : /\ j > Len(jobs) - (MaxPerOwner + 1)
                         /\ jobs[j].status \in {"active", "paused"}}

WithinQuota == Cardinality(Counted) < MaxPerOwner

NewJob(kind, next) ==
    [status |-> "active", kind |-> kind, next |-> next, token |-> 0,
     lease |-> "none", streak |-> 0, stopped |-> FALSE]

CreateJob(kind, next) ==
    /\ WithinQuota /\ Len(jobs) < MaxJobs
    /\ jobs' = Append(jobs, NewJob(kind, next))
    /\ copies' = Append(copies, 0)

\* /task add and /task every: the run time lies ahead; a pending draft stays.
TaskCommand ==
    /\ \E kind \in JobKinds : CreateJob(kind, "later")
    /\ UNCHANGED <<draft, loop, order, claims, excuse>>

\* A recognised task that wants a confirmation replaces the pending draft.
ProposeDraft ==
    /\ Len(jobs) < MaxJobs
    /\ \E kind \in JobKinds :
          draft' = [state |-> "live", kind |-> kind, due |-> FALSE]
    /\ UNCHANGED <<jobs, loop, order, claims, copies, excuse>>

\* Without a confirmation, a text that amends the pending draft creates the job
\* and drops the draft; that this may fail is ignored.
AmendWithoutConfirm ==
    /\ draft.state = "live"
    /\ \E kind \in JobKinds : CreateJob(kind, "later")
    /\ draft' \in {draft, NoDraft}
    /\ UNCHANGED <<loop, order, claims, excuse>>

\* "confirm": the job is created from the draft as it was stored, even when
\* its one run time has passed meanwhile; over quota the draft stays.
ConfirmDraft ==
    /\ draft.state = "live"
    /\ CreateJob(draft.kind,
                 IF draft.kind = "once" /\ draft.due THEN "due" ELSE "later")
    /\ draft' \in {draft, NoDraft}
    /\ UNCHANGED <<loop, order, claims, excuse>>

CancelDraft ==
    /\ draft.state = "live"
    /\ draft' = NoDraft
    /\ UNCHANGED <<jobs, loop, order, claims, copies, excuse>>

\* The draft's run time passes, or its fifteen minutes are over.
DraftAges ==
    /\ draft.state = "live"
    /\ draft' \in {[draft EXCEPT !.due = TRUE], [draft EXCEPT !.state = "expired"]}
    /\ UNCHANGED <<jobs, loop, order, claims, copies, excuse>>

(***************************************************************************)
(* The owner's pause, resume and delete.                                   *)
(***************************************************************************)

\* apply_scheduler_state_transition, for the manual events.
Ordered(status, op) ==
    CASE op = "pause" /\ status = "active" -> "paused"
      [] op = "resume" /\ status = "paused" -> "active"
      [] op = "delete" /\ status \in {"active", "paused"} -> "canceled"
      [] OTHER -> "invalid"

\* What a text or a /task command may ask for.
ManualOps == {"pause", "resume", "delete"}

Newest(S) == CHOOSE j \in S : \A k \in S : k <= j

\* resolve_scheduler_job_target: a job named in the text, else the newest one
\* the operation applies to; a deletion that names none of several is refused
\* unless the text asks for the latest.
Targets(op) ==
    LET fitting == {j \in DOMAIN jobs : Ordered(jobs[j].status, op) # "invalid"}
    IN DOMAIN jobs \cup (IF fitting = {} THEN {} ELSE {Newest(fitting)})

\* execute_scheduler_job_operation loads the job and computes its next state ...
ReadOrder ==
    /\ order = NoOrder
    /\ \E op \in ManualOps : \E j \in Targets(op) :
          /\ Ordered(jobs[j].status, op) # "invalid"
          /\ order' = [job |-> j, status |-> Ordered(jobs[j].status, op)]
    /\ UNCHANGED <<jobs, draft, loop, claims, copies, excuse>>

\* ... and then updates the row, which clears the lease.
UpdatedStatus(job, status) ==
    IF Terminal(job.status) THEN job
    ELSE [job EXCEPT !.status = status, !.token = 0, !.lease = "none"]

\* The loop has the job in its batch or is running it.
InHand(w, j) ==
    \/ j \in loop[w].todo
    \/ loop[w].at \in {"prepare", "send", "complete", "fail"} /\ loop[w].job = j

WriteOrder ==
    /\ order # NoOrder
    /\ jobs' = [jobs EXCEPT ![order.job] = UpdatedStatus(@, order.status)]
    /\ order' = NoOrder
    /\ excuse' = IF \E w \in Loops : InHand(w, order.job)
                 THEN excuse \cup {order.job} ELSE excuse
    /\ UNCHANGED <<draft, loop, claims, copies>>

\* Mutant: a claim does not look at the lease.
ClaimableAnyLease(j) == jobs[j].status = "active" /\ jobs[j].next = "due"

(***************************************************************************)
(* The scheduler loop.                                                     *)
(***************************************************************************)
Claimable(j) ==
    /\ jobs[j].status = "active" /\ jobs[j].next = "due"
    /\ jobs[j].lease # "live"

\* claim_due_telegram_scheduler_jobs: a batch of the due jobs that nobody
\* holds gets one new token and one lease.
ClaimDue(w) ==
    LET due == {j \in DOMAIN jobs : Claimable(j)}
    IN /\ loop[w].at = "idle" /\ due # {} /\ claims < MaxClaims
       /\ claims' = claims + 1
       /\ \E batch \in SUBSET due :
            /\ Cardinality(batch) =
                 IF Cardinality(due) < BatchSize THEN Cardinality(due) ELSE BatchSize
            /\ jobs' = [j \in DOMAIN jobs |->
                          IF j \in batch
                          THEN [jobs[j] EXCEPT !.token = claims + 1, !.lease = "live"]
                          ELSE jobs[j]]
            /\ loop' = [loop EXCEPT ![w] = [at |-> "next", todo |-> batch, job |-> 0,
                                            token |-> claims + 1, live |-> TRUE]]
       /\ UNCHANGED <<draft, order, copies, excuse>>

\* The first fence: a claim whose lease ran out is dropped.
StartJob(w) ==
    /\ loop[w].at = "next"
    /\ \/ /\ loop[w].todo = {}
          /\ loop' = [loop EXCEPT ![w] = IdleLoop]
       \/ \E j \in loop[w].todo :
             loop' = [loop EXCEPT ![w].todo = @ \ {j},
                        ![w].job = IF loop[w].live THEN j ELSE @,
                        ![w].at = IF loop[w].live THEN "prepare" ELSE @]
    /\ UNCHANGED <<jobs, draft, order, claims, copies, excuse>>

\* The text is composed, by the agent perhaps, and the second fence looks at
\* the lease again before the effect.
FencedStep(w, composed) == IF composed /\ loop[w].live THEN "send" ELSE "fail"

PrepareText(w) ==
    /\ loop[w].at = "prepare"
    /\ \E composed \in BOOLEAN :
          loop' = [loop EXCEPT ![w].at = FencedStep(w, composed)]
    /\ UNCHANGED <<jobs, draft, order, claims, copies, excuse>>

\* The message is sent.  A failed send has put the remainder in the outbound
\* queue, and may have been delivered: it counts as sent all the same.
SendReminder(w) ==
    /\ loop[w].at = "send"
    /\ copies' = [copies EXCEPT ![loop[w].job] = @ + 1]
    /\ \/ /\ loop' = [loop EXCEPT ![w].at = "complete"]
          /\ UNCHANGED excuse
       \/ /\ loop' = [loop EXCEPT ![w].at = "fail"]
          /\ excuse' = excuse \cup {loop[w].job}
    /\ UNCHANGED <<jobs, draft, order, claims>>

Holds(w) == jobs[loop[w].job].token = loop[w].token

\* plan_success_transition: a one-off job is done, a cron job runs again unless
\* it has had its max_runs or its expression has no further time.
SuccessPlans(job) ==
    {[status |-> "completed", next |-> "none"]} \cup
       (IF job.kind = "once" THEN {} ELSE {[status |-> "active", next |-> "later"]})

SucceededJob(job, plan) ==
    [job EXCEPT !.status = plan.status, !.next = plan.next, !.streak = 0,
                !.token = 0, !.lease = "none"]

\* complete_telegram_scheduler_job_run: the run row and the job change in one
\* transaction, or neither when the token is gone (or the store fails); the
\* run then counts as failed.
CompleteRun(w) ==
    /\ loop[w].at = "complete"
    /\ LET j == loop[w].job
       IN \/ /\ Holds(w)
             /\ \E plan \in SuccessPlans(jobs[j]) :
                   jobs' = [jobs EXCEPT ![j] = SucceededJob(@, plan)]
             /\ copies' = [copies EXCEPT ![j] = 0]
             /\ excuse' = IF \E v \in Loops \ {w} : InHand(v, j)
                          THEN excuse ELSE excuse \ {j}
             /\ loop' = [loop EXCEPT ![w].at = "next"]
          \/ /\ loop' = [loop EXCEPT ![w].at = "fail"]
             /\ excuse' = excuse \cup {j}
             /\ UNCHANGED <<jobs, copies>>
    /\ UNCHANGED <<draft, order, claims>>

\* plan_failure_transition: paused when the streak is long enough, else tried
\* again after the back-off.
Pauses(job) == job.streak + 1 >= MaxStreak

FailedJob(job) ==
    [job EXCEPT !.status = IF Pauses(job) THEN "paused" ELSE "active",
                !.next = IF Pauses(job) THEN "none" ELSE "later",
                !.streak = @ + 1, !.stopped = Pauses(job),
                !.token = 0, !.lease = "none"]

FailRun(w) ==
    /\ loop[w].at = "fail"
    /\ \/ /\ Holds(w)
          /\ jobs' = [jobs EXCEPT ![loop[w].job] = FailedJob(@)]
       \/ UNCHANGED jobs
    /\ loop' = [loop EXCEPT ![w].at = "next"]
    /\ UNCHANGED <<draft, order, claims, copies, excuse>>

\* The loop's task or process ends where it stands.
LoopDies(w) ==
    /\ loop[w].at # "idle"
    /\ loop' = [loop EXCEPT ![w] = IdleLoop]
    /\ excuse' = IF loop[w].at \in {"complete", "fail"}
                 THEN excuse \cup {loop[w].job} ELSE excuse
    /\ UNCHANGED <<jobs, draft, order, claims, copies>>

RunTimeReached(j) ==
    /\ jobs[j].next = "later"
    /\ jobs' = [jobs EXCEPT ![j].next = "due"]
    /\ UNCHANGED <<draft, loop, order, claims, copies, excuse>>

\* A lease runs out: for the rows that carry the token and for the loop that
\* took it.
TokenExpires(t) ==
    /\ \/ \E j \in DOMAIN jobs : jobs[j].token = t /\ jobs[j].lease = "live"
       \/ \E w \in Loops : loop[w].token = t /\ loop[w].live
    /\ jobs' = [j \in DOMAIN jobs |-> IF jobs[j].token = t
                                      THEN [jobs[j] EXCEPT !.lease = "expired"]
                                      ELSE jobs[j]]
    /\ loop' = [w \in Loops |-> IF loop[w].token = t
                                THEN [loop[w] EXCEPT !.live = FALSE] ELSE loop[w]]
    /\ excuse' = excuse \cup
          {loop[w].job : w \in {v \in Loops : loop[v].token = t /\
                                   loop[v].at \in {"send", "complete", "fail"}}}
    /\ UNCHANGED <<draft, order, claims, copies>>

SchedulerNext ==
    \/ TaskCommand \/ ProposeDraft \/ AmendWithoutConfirm \/ ConfirmDraft 
    \/ CancelDraft \/ DraftAges \/ ReadOrder \/ WriteOrder
    \/ \E w \in Loops :
          \/ ClaimDue(w) \/ StartJob(w) \/ PrepareText(w) \/ SendReminder(w)
          \/ CompleteRun(w) \/ FailRun(w) \/ LoopDies(w)
    \/ \E j \in DOMAIN jobs : RunTimeReached(j)
    \/ \E t \in 1 .. claims : TokenExpires(t)

SchedulerSpec == SchedulerInit /\ [][SchedulerNext]_schedulerVars

(***************************************************************************)
(* Properties.                                                             *)
(***************************************************************************)
SchedulerTypeOK ==
    /\ jobs \in Seq([status : {"active", "paused", "completed", "canceled"},
                     kind : JobKinds, next : {"none", "later", "due"},
                     token : 0 .. MaxClaims, lease : {"none", "live", "expired"},
                     streak : 0 .. MaxStreak, stopped : BOOLEAN])
    /\ loop \in [Loops -> [at : {"idle", "next", "prepare", "send", "complete", "fail"},
                           todo : SUBSET DOMAIN jobs, job : 0 .. Len(jobs),
                           token : 0 .. MaxClaims, live : BOOLEAN]]
    /\ claims \in 0 .. MaxClaims /\ DOMAIN copies = DOMAIN jobs

\* Two loops are never both past the second fence, with leases they both
\* believe in, for one job, unless the owner's command took the lease of the
\* first away while it was running.
OneSenderPerJob ==
    \A v, w \in Loops :
       /\ v # w /\ loop[v].job = loop[w].job
       /\ loop[v].at = "send" /\ loop[v].live
       /\ loop[w].at = "send" /\ loop[w].live
       => loop[w].job \in excuse

\* A run time is answered by one message, unless a fault of the run explains
\* the second: a failed send or store, a death or an expired lease between the
\* send and its record, or the owner's command during the run.
OneMessagePerRun == \A j \in DOMAIN jobs : copies[j] > 1 => j \in excuse

\* No job drops out of the schedule on its own: an active job has a run time
\* ahead, or was paused by failures and resumed.
NeverDropsOut ==
    \A j \in DOMAIN jobs :
       jobs[j].status = "active" /\ jobs[j].next = "none" => jobs[j].stopped

\* The three together: what the loops' fences and the claim guarantee.
RunsAreExact == OneSenderPerJob /\ OneMessagePerRun /\ NeverDropsOut

\* Completed and canceled jobs stay so, whatever run of them is still under way
\* and whatever command was read before.
FinishedStaysFinished ==
    [][\A j \in DOMAIN jobs :
          Terminal(jobs[j].status) => jobs'[j].status = jobs[j].status]_jobs
=============================================================================
