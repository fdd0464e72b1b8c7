------------------------ MODULE GovernanceScheduler ------------------------
(***************************************************************************)
(* The governance maintenance scheduler: the persisted per-(organization,  *)
(* job) rows, the per-row advisory lock and the bounded page loop of       *)
(* JobRunner.RunDueJob, driven by any number of concurrent callers (ticks  *)
(* that overlap, or replicas).                                             *)
(*                                                                         *)
(*   backend/internal/governance/maintenance/runner.go                     *)
(*   backend/internal/storage/postgres/governance_scheduler_repository.go  *)
(*                                                                         *)
(* A row is one (organization_id, job_name) pair; rows are numbers in the  *)
(* order of that pair.  The work of a row is the set of certificate ids    *)
(* its job would still act on; ids are 1..LastItem in cursor order, and 0  *)
(* is the start sentinel (SchedulerCursorStart).  A page is one committed  *)
(* transaction of the maintenance primitive, so it is one step here.       *)
(*                                                                         *)
(* Time is kept relative to the present: due[r] is next_due_at - now, and  *)
(* Tick lets one time unit pass.  Of next_due_at values in the past only   *)
(* the order matters (ListDueJobs compares them with now and sorts by      *)
(* them), so Tick stores their rank; the state space is finite although    *)
(* time is not bounded.                                                    *)
(***************************************************************************)
EXTENDS Integers, Sequences, FiniteSets

CONSTANTS
    Rows,                \* (organization, job) pairs, as numbers in ORDER BY order
    Registered,          \* rows whose job name the JobRegistry knows
    Runners,             \* concurrent callers of ListDueJobs / RunDueJob
    Keys,                \* values of the 64-bit advisory lock key
    LockKey,             \* schedulerLockKey: a hash, so two rows may share a key
    LastItem,            \* certificate ids are 1..LastItem
    PageSize,
    MaxPagesPerRun,
    MaxRunDuration,
    PartialRequeueDelay,
    JobInterval,
    RetryBase,
    RetryMax,
    ListLimit,           \* limit argument of ListDueJobs
    FaultKinds,          \* the faults a run of the model admits
    MaxFaults,           \* bound: faults injected in one behaviour
    MaxFailures,         \* bound: page failures in a row of one job row
    NoRunner             \* a value that is no runner

Faults == {"crash", "cancel", "database", "session"}

\* RunnerConfig.validate, NewJobRunner: the runner exists only with such a configuration.
ASSUME ConfigAssumption ==
    /\ MaxPagesPerRun \in Nat \ {0}
    /\ MaxRunDuration \in Nat \ {0}
    /\ PageSize \in Nat \ {0}
    /\ PartialRequeueDelay \in Nat \ {0}
    /\ JobInterval \in Nat \ {0}
    /\ RetryBase \in Nat \ {0}
    /\ RetryMax \in Nat /\ RetryMax >= RetryBase
    /\ ListLimit \in Nat \ {0}

ASSUME InstanceAssumption ==
    /\ Rows \subseteq Nat /\ IsFiniteSet(Rows)
    /\ Registered \subseteq Rows
    /\ LockKey \in [Rows -> Keys]
    /\ LastItem \in Nat
    /\ FaultKinds \subseteq Faults
    /\ MaxFaults \in Nat
    /\ MaxFailures \in Nat
    /\ NoRunner \notin Runners

VARIABLES
    row,        \* governance_scheduler_job, without next_due_at
    due,        \* next_due_at relative to now
    lock,       \* holder of each advisory lock key
    pc,         \* where each caller is
    queue,      \* rows each caller has listed; the head is the one it works on
    cursor,     \* runPages: cursor
    pages,      \* runPages: report.PagesRun
    budget,     \* runPages: time left before the deadline
    cancelled,  \* the caller's context is cancelled
    work,       \* eligible items of each row's job
    faults,     \* faults injected so far
    pending,    \* history: items eligible when the row's drain cycle began, not yet processed
    lost        \* history: runners whose lock session died under them

history == <<pending, lost>>
loop == <<cursor, pages, budget>>
vars == <<row, due, lock, pc, queue, loop, cancelled, work, faults, history>>

Items == 1 .. LastItem
Cursors == 0 .. LastItem
SchedulerCursorStart == 0

SchedulerJobStatus == {"pending", "running", "completed", "partial", "error"}
SchedulerJob == [enabled : BOOLEAN, cursor : Cursors, status : SchedulerJobStatus,
                 failures : Nat]

\* What ListDueJobs returned for a row: the jobState argument of RunDueJob.
JobState == [row : Rows, cursor : Cursors, failures : Nat]

\* A caller is between two RunDueJob calls ("ready"), or inside one: it holds the
\* lock ("locked"), runs pages ("paging"), writes the terminal state of an
\* outcome, or drops the lock ("release").
Outcomes == {"completed", "partial", "failed"}
Steps == {"ready", "locked", "paging", "release"} \cup Outcomes

\* The row of the RunDueJob call that runner u makes or is about to make.
JobOf(u) == Head(queue[u])
RowOf(u) == JobOf(u).row
KeyOf(u) == LockKey[RowOf(u)]

Executing == {"locked", "paging"} \cup Outcomes

Init ==
    /\ row = [r \in Rows |-> [enabled |-> FALSE, cursor |-> SchedulerCursorStart,
                              status |-> "pending", failures |-> 0]]
    /\ due = [r \in Rows |-> 0]
    /\ lock = [k \in Keys |-> NoRunner]
    /\ pc = [u \in Runners |-> "ready"]
    /\ queue = [u \in Runners |-> <<>>]
    /\ cursor = [u \in Runners |-> SchedulerCursorStart]
    /\ pages = [u \in Runners |-> 0]
    /\ budget = [u \in Runners |-> 0]
    /\ cancelled = [u \in Runners |-> FALSE]
    /\ work = [r \in Rows |-> {}]
    /\ faults = 0
    /\ pending = [r \in Rows |-> {}]
    /\ lost = {}

(***************************************************************************)
(* The environment: operators, certificates, the clock.                    *)
(***************************************************************************)

\* The enabled column is set outside this code (UpsertJob seeds FALSE).
SetEnabled(r, on) ==
    /\ row[r].enabled # on
    /\ row' = [row EXCEPT ![r].enabled = on]
    /\ UNCHANGED <<due, lock, pc, queue, loop, cancelled, work, faults, history>>

\* A certificate becomes eligible for the job (an override expires, an
\* explanation ages out).
BecomesEligible(r, i) ==
    /\ i \notin work[r]
    /\ work' = [work EXCEPT ![r] = @ \cup {i}]
    /\ UNCHANGED <<row, due, lock, pc, queue, loop, cancelled, faults, history>>

Tick ==
    LET passed == [r \in Rows |-> due[r] - 1]
        overdue == {r \in Rows : passed[r] < 0}
        rank(r) == -Cardinality({passed[s] : s \in {x \in overdue : passed[x] >= passed[r]}})
    IN  /\ due' = [r \in Rows |-> IF r \in overdue THEN rank(r) ELSE passed[r]]
        /\ budget' = [u \in Runners |-> IF budget[u] > 0 THEN budget[u] - 1 ELSE 0]
        /\ UNCHANGED <<row, lock, pc, queue, cursor, pages, cancelled, work, faults, history>>

(***************************************************************************)
(* Selecting work.                                                         *)
(***************************************************************************)

\* Mutant: a row that is marked running is left to the run that marked it.
DueRowsSkipsRunning ==
    {r \in Rows : row[r].enabled /\ due[r] <= 0 /\ row[r].status # "running"}

DueRows == {r \in Rows : row[r].enabled /\ due[r] <= 0}

\* ORDER BY next_due_at ASC, organization_id ASC, job_name ASC
ListedBefore(r, s) == due[r] < due[s] \/ (due[r] = due[s] /\ r < s)

\* list is the result of the query: the first ListLimit due rows, in order.
IsDueList(list) ==
    LET listed == {list[i] : i \in DOMAIN list}
    IN  /\ \A i, j \in DOMAIN list : i < j => ListedBefore(list[i], list[j])
        /\ \A r \in DueRows \ listed : \A s \in listed : ListedBefore(s, r)

Smaller(a, b) == IF a < b THEN a ELSE b

\* A tick reads the due rows; the snapshots it gets are what it later passes,
\* one after the other, to RunDueJob.
ListDueJobs(u) ==
    /\ pc[u] = "ready" /\ queue[u] = <<>>
    /\ DueRows # {}
    /\ \E list \in [1 .. Smaller(ListLimit, Cardinality(DueRows)) -> DueRows] :
        /\ IsDueList(list)
        /\ queue' = [queue EXCEPT ![u] =
            [i \in DOMAIN list |-> [row |-> list[i], cursor |-> row[list[i]].cursor,
                                    failures |-> row[list[i]].failures]]]
    /\ cancelled' = [cancelled EXCEPT ![u] = FALSE]
    /\ UNCHANGED <<row, due, lock, pc, loop, work, faults, history>>

(***************************************************************************)
(* RunDueJob.                                                              *)
(***************************************************************************)

\* The call for the head of the queue returns.
Returns(u) ==
    /\ pc' = [pc EXCEPT ![u] = "ready"]
    /\ queue' = [queue EXCEPT ![u] = Tail(@)]
    /\ cursor' = [cursor EXCEPT ![u] = SchedulerCursorStart]
    /\ pages' = [pages EXCEPT ![u] = 0]
    /\ budget' = [budget EXCEPT ![u] = 0]
    /\ UNCHANGED cancelled

InCall(u, at) == pc[u] = at /\ queue[u] # <<>>

GoTo(u, at) ==
    /\ pc' = [pc EXCEPT ![u] = at]
    /\ UNCHANGED <<queue, cancelled>>

\* A fault of this kind happens now.
Fault(kind) ==
    /\ kind \in FaultKinds
    /\ faults < MaxFaults
    /\ faults' = faults + 1

\* registry.Lookup fails: the row is inert.
UnknownJob(u) ==
    /\ InCall(u, "ready")
    /\ RowOf(u) \notin Registered
    /\ Returns(u)
    /\ UNCHANGED <<row, due, lock, work, faults, history>>

\* Mutant: the result of pg_try_advisory_lock is not looked at.
TryLockIgnoresHolder(u) ==
    /\ InCall(u, "ready")
    /\ RowOf(u) \in Registered
    /\ ~cancelled[u]
    /\ lock' = [lock EXCEPT ![KeyOf(u)] = u]
    /\ GoTo(u, "locked")
    /\ UNCHANGED <<row, due, loop, work, faults, history>>

\* TryLockOrgJob acquires the lock on a fresh connection.
TryLockOrgJob(u) ==
    /\ InCall(u, "ready")
    /\ RowOf(u) \in Registered
    /\ ~cancelled[u]
    /\ lock[KeyOf(u)] = NoRunner
    /\ lock' = [lock EXCEPT ![KeyOf(u)] = u]
    /\ GoTo(u, "locked")
    /\ UNCHANGED <<row, due, loop, work, faults, history>>

\* The lock is held elsewhere: OutcomeSkippedLocked.
SkippedLocked(u) ==
    /\ InCall(u, "ready")
    /\ RowOf(u) \in Registered
    /\ ~cancelled[u]
    /\ lock[KeyOf(u)] # NoRunner
    /\ Returns(u)
    /\ UNCHANGED <<row, due, lock, work, faults, history>>

\* TryLockOrgJob fails: the context is cancelled, or the database is away.
LockError(u) ==
    /\ InCall(u, "ready")
    /\ RowOf(u) \in Registered
    /\ IF cancelled[u] THEN UNCHANGED faults ELSE Fault("database")
    /\ Returns(u)
    /\ UNCHANGED <<row, due, lock, work, history>>

\* MarkJobStarted, and the start of runPages: the page loop works from the cursor
\* of the jobState snapshot, not from the row.
MarkJobStarted(u) ==
    /\ InCall(u, "locked")
    /\ ~cancelled[u]
    /\ row' = [row EXCEPT ![RowOf(u)].status = "running"]
    /\ GoTo(u, "paging")
    /\ cursor' = [cursor EXCEPT ![u] = JobOf(u).cursor]
    /\ pages' = [pages EXCEPT ![u] = 0]
    /\ budget' = [budget EXCEPT ![u] = MaxRunDuration]
    /\ pending' = [pending EXCEPT ![RowOf(u)] =
                        IF row[RowOf(u)].cursor = SchedulerCursorStart THEN work[RowOf(u)] ELSE @]
    /\ UNCHANGED <<due, lock, work, faults, lost>>

\* MarkJobStarted fails: RunDueJob returns, its deferred Release runs.
MarkStartedError(u) ==
    /\ InCall(u, "locked")
    /\ IF cancelled[u] THEN UNCHANGED faults ELSE Fault("database")
    /\ GoTo(u, "release")
    /\ UNCHANGED <<row, due, lock, loop, work, history>>

(***************************************************************************)
(* runPages.                                                               *)
(***************************************************************************)

\* The per-run bounds, checked between pages.
BoundReached(u) ==
    \/ pages[u] >= MaxPagesPerRun
    \/ budget[u] = 0
    \/ cancelled[u]

\* The items a page of row r acts on: the first PageSize eligible ids after the cursor.
PageItems(r, after) ==
    {i \in work[r] : i > after /\ Cardinality({j \in work[r] : after < j /\ j <= i}) <= PageSize}

Done(page) == Cardinality(page) < PageSize

\* Mutant: the cursor moves past the last item of the page, also when there is none.
NextCursorPastPage(page, after) ==
    IF page = {} THEN after + 1 ELSE (CHOOSE i \in page : \A j \in page : j <= i)

NextCursor(page, after) ==
    IF page = {} THEN after ELSE CHOOSE i \in page : \A j \in page : j <= i

\* The primitive's transaction commits.
PageCommits(r, page) ==
    /\ work' = [work EXCEPT ![r] = @ \ page]
    /\ pending' = [pending EXCEPT ![r] = @ \ page]
    /\ UNCHANGED lost

\* One successful Job.RunPage.
RunPage(u) ==
    LET page == PageItems(RowOf(u), cursor[u])
        next == NextCursor(page, cursor[u])
    IN  /\ InCall(u, "paging")
        /\ ~BoundReached(u)
        /\ PageCommits(RowOf(u), page)
        /\ GoTo(u, IF Done(page) THEN "completed" ELSE "paging")
        /\ cursor' = [cursor EXCEPT ![u] = next]
        /\ pages' = [pages EXCEPT ![u] = @ + 1]
        /\ UNCHANGED <<row, due, lock, budget, faults>>

\* Job.RunPage returns an error; the transaction was rolled back, or it
\* committed and the acknowledgement was lost.
RunPageError(u) ==
    LET page == PageItems(RowOf(u), cursor[u])
    IN  /\ InCall(u, "paging")
        /\ ~BoundReached(u)
        /\ row[RowOf(u)].failures < MaxFailures
        /\ \/ UNCHANGED <<work, history>>
           \/ PageCommits(RowOf(u), page)
        /\ GoTo(u, "failed")
        /\ UNCHANGED <<row, due, lock, loop, faults>>

\* Mutant: the lock is dropped before the terminal state is written.
StopAtBoundUnlocks(u) ==
    /\ InCall(u, "paging")
    /\ BoundReached(u)
    /\ GoTo(u, "partial")
    /\ lock' = [k \in Keys |-> IF lock[k] = u THEN NoRunner ELSE lock[k]]
    /\ UNCHANGED <<row, due, loop, work, faults, history>>

StopAtBound(u) ==
    /\ InCall(u, "paging")
    /\ BoundReached(u)
    /\ GoTo(u, "partial")
    /\ UNCHANGED <<row, due, lock, loop, work, faults, history>>

(***************************************************************************)
(* The terminal state of a run.                                            *)
(***************************************************************************)

\* min(RetryMax, RetryBase * 2^(n-1)), n at least 1
backoffFor(n) ==
    LET d == RetryBase * 2^(IF n < 1 THEN 0 ELSE n - 1)
    IN  IF d \in RetryBase .. RetryMax THEN d ELSE RetryMax

\* Mutant: the cursor is kept where the drain ended.
MarkJobCompletedKeepsCursor(u) ==
    /\ InCall(u, "completed")
    /\ row' = [row EXCEPT ![RowOf(u)] =
                [enabled |-> @.enabled, status |-> "completed",
                 cursor |-> cursor[u], failures |-> 0]]
    /\ due' = [due EXCEPT ![RowOf(u)] = JobInterval]

MarkJobCompleted(u) ==
    /\ InCall(u, "completed")
    /\ row' = [row EXCEPT ![RowOf(u)] =
                [enabled |-> @.enabled, status |-> "completed",
                 cursor |-> SchedulerCursorStart, failures |-> 0]]
    /\ due' = [due EXCEPT ![RowOf(u)] = JobInterval]

MarkJobPartial(u) ==
    /\ InCall(u, "partial")
    /\ row' = [row EXCEPT ![RowOf(u)] =
                [enabled |-> @.enabled, status |-> "partial",
                 cursor |-> cursor[u], failures |-> 0]]
    /\ due' = [due EXCEPT ![RowOf(u)] = PartialRequeueDelay]

\* Mutant: the cursor moves past the page that failed.
MarkJobFailedAdvances(u) ==
    /\ InCall(u, "failed")
    /\ row' = [row EXCEPT ![RowOf(u)] =
                [enabled |-> @.enabled, status |-> "error",
                 cursor |-> NextCursor(PageItems(RowOf(u), cursor[u]), cursor[u]),
                 failures |-> @.failures + 1]]
    /\ due' = [due EXCEPT ![RowOf(u)] = backoffFor(JobOf(u).failures + 1)]

\* Mutant: the backoff ignores the failure that has just happened.
MarkJobFailedBackoffOffByOne(u) ==
    /\ InCall(u, "failed")
    /\ row' = [row EXCEPT ![RowOf(u)] =
                [enabled |-> @.enabled, status |-> "error",
                 cursor |-> @.cursor, failures |-> @.failures + 1]]
    /\ due' = [due EXCEPT ![RowOf(u)] = backoffFor(JobOf(u).failures)]

\* The cursor stays where it was: the row keeps the one the run began with.
MarkJobFailed(u) ==
    /\ InCall(u, "failed")
    /\ row' = [row EXCEPT ![RowOf(u)] =
                [enabled |-> @.enabled, status |-> "error",
                 cursor |-> @.cursor, failures |-> @.failures + 1]]
    /\ due' = [due EXCEPT ![RowOf(u)] = backoffFor(JobOf(u).failures + 1)]

\* The terminal write uses a context that cancellation does not reach.
Finish(u) ==
    /\ MarkJobCompleted(u) \/ MarkJobPartial(u) \/ MarkJobFailed(u)
    /\ GoTo(u, "release")
    /\ UNCHANGED <<lock, loop, work, faults, history>>

\* The terminal write fails: the row stays running, the lock is dropped.
FinishError(u) ==
    /\ \E outcome \in Outcomes : InCall(u, outcome)
    /\ Fault("database")
    /\ GoTo(u, "release")
    /\ UNCHANGED <<row, due, lock, loop, work, history>>

\* The locks after runner u's session is gone or has unlocked.
Unlocked(u) == [k \in Keys |-> IF lock[k] = u THEN NoRunner ELSE lock[k]]

\* The deferred lock.Release, and the return of RunDueJob.
Release(u) ==
    /\ InCall(u, "release")
    /\ lock' = Unlocked(u)
    /\ Returns(u)
    /\ UNCHANGED <<row, due, work, faults, history>>

(***************************************************************************)
(* Faults.                                                                 *)
(***************************************************************************)

\* The caller's context is cancelled (shutdown).
Cancel(u) ==
    /\ ~cancelled[u] /\ queue[u] # <<>>
    /\ Fault("cancel")
    /\ cancelled' = [cancelled EXCEPT ![u] = TRUE]
    /\ UNCHANGED <<row, due, lock, pc, queue, loop, work, history>>

\* The process dies; its database sessions end, and their locks with them.
Crash(u) ==
    /\ queue[u] # <<>>
    /\ Fault("crash")
    /\ lock' = Unlocked(u)
    /\ pc' = [pc EXCEPT ![u] = "ready"]
    /\ queue' = [queue EXCEPT ![u] = <<>>]
    /\ cursor' = [cursor EXCEPT ![u] = SchedulerCursorStart]
    /\ pages' = [pages EXCEPT ![u] = 0]
    /\ budget' = [budget EXCEPT ![u] = 0]
    /\ UNCHANGED <<row, due, cancelled, work, history>>

\* The pinned connection of the lock dies; the runner does not notice.
SessionLost(u) ==
    /\ \E k \in Keys : lock[k] = u
    /\ Fault("session")
    /\ lock' = Unlocked(u)
    /\ lost' = lost \cup {u}
    /\ UNCHANGED <<row, due, pc, queue, loop, cancelled, work, pending>>

Call(u) ==
    \/ UnknownJob(u)
    \/ TryLockOrgJob(u)
    \/ SkippedLocked(u)
    \/ LockError(u)
    \/ MarkJobStarted(u)
    \/ MarkStartedError(u)
    \/ RunPage(u)
    \/ RunPageError(u)
    \/ StopAtBound(u)
    \/ Finish(u)
    \/ FinishError(u)
    \/ Release(u)

Next ==
    \/ Tick
    \/ \E r \in Rows, on \in BOOLEAN : SetEnabled(r, on)
    \/ \E r \in Rows, i \in Items : BecomesEligible(r, i)
    \/ \E u \in Runners : ListDueJobs(u) \/ Call(u) \/ Cancel(u) \/ Crash(u) \/ SessionLost(u)

Spec == Init /\ [][Next]_vars

(***************************************************************************)
(* Fairness.  Time passes, a caller's tick loop keeps running and its      *)
(* calls return; a page that is attempted again and again does not always  *)
(* fail.                                                                   *)
(***************************************************************************)
RunPageAt(r, after) ==
    \E u \in Runners : queue[u] # <<>> /\ RowOf(u) = r /\ cursor[u] = after /\ RunPage(u)

FairSpec ==
    /\ Spec
    /\ WF_vars(Tick)
    /\ \A u \in Runners : WF_vars(ListDueJobs(u)) /\ WF_vars(Call(u))
    /\ \A r \in Rows, after \in Cursors : SF_vars(RunPageAt(r, after))

(***************************************************************************)
(* Properties.                                                             *)
(***************************************************************************)

\* Every variable has its type.
TypeOK ==
    /\ row \in [Rows -> SchedulerJob]
    /\ due \in [Rows -> Int]
    /\ lock \in [Keys -> Runners \cup {NoRunner}]
    /\ pc \in [Runners -> Steps]
    /\ queue \in [Runners -> Seq(JobState)]
    /\ cursor \in [Runners -> Cursors]
    /\ pages \in [Runners -> Nat]
    /\ budget \in [Runners -> Nat]
    /\ cancelled \in [Runners -> BOOLEAN]
    /\ work \in [Rows -> SUBSET Items]
    /\ faults \in Nat
    /\ pending \in [Rows -> SUBSET Items]
    /\ lost \in SUBSET Runners

Calling(u) == pc[u] \in Executing /\ queue[u] # <<>>

\* No two callers are inside the locked part of RunDueJob for the same (org, job)
\* row (runner.go: "no duplicate concurrent run"), whatever crashes, errors and
\* cancellations happen on the way and whatever rows share a lock key, as long as
\* no database session that holds a lock is lost under a live runner.
MutualExclusion ==
    lost = {} => \A u, v \in Runners :
                Calling(u) /\ Calling(v) /\ RowOf(u) = RowOf(v) => u = v

\* Nothing eligible when a drain cycle began is left behind the cursor, neither the
\* persisted one nor that of a run in progress (cursor-on-success, runner.go
\* runPages): a crash, an error or a bound never makes the cycle skip an item.  A run that is
\* about to be recorded as completed has drained everything that was eligible when the cycle
\* began (scheduler.go SchedulerJobCompleted).
NothingSkipped ==
    /\ \A r \in Rows : \A i \in pending[r] : row[r].cursor < i
    /\ \A u \in Runners : InCall(u, "paging") => \A i \in pending[RowOf(u)] : cursor[u] < i
    /\ \A u \in Runners : InCall(u, "completed") => pending[RowOf(u)] = {}

\* The backoff of a failed run is the one for the failure count the row then
\* carries (finishFailed: "so the next-due reflects this failure").
BackoffMatchesFailures ==
    [][\A r \in Rows : row'[r].failures > row[r].failures
            => due'[r] = backoffFor(row'[r].failures)]_vars

\* The cursor, failure count or status of a row change only while a caller of
\* RunDueJob for that very row holds the row's lock, so no caller overwrites what
\* a later run recorded; again as long as no lock session is lost.
RowChangesUnderLock ==
    [][lost = {} => \A r \in Rows :
            (row'[r].cursor # row[r].cursor \/ row'[r].failures # row[r].failures
             \/ row'[r].status # row[r].status)
            => /\ lock[LockKey[r]] # NoRunner
               /\ Calling(lock[LockKey[r]]) /\ RowOf(lock[LockKey[r]]) = r]_vars

\* Every item eligible in an enabled, registered row is eventually processed, even if
\* others keep becoming eligible, pages keep failing now and then and runs keep stopping at
\* their bounds (runner.go runPages, StopReason "page_budget").  It is about one row that
\* competes with no other for the limit of ListDueJobs: rows of unknown jobs are never
\* re-armed and can take the whole limit for ever.
EligibleIsProcessed ==
    \A r \in Registered : \A i \in Items : []<>(~row[r].enabled \/ i \notin work[r])

\* A row is never left marked running for ever: after a crash or a failed
\* terminal write the run is attempted again (scheduler.go SchedulerJobRunning).
RunningIsRetried ==
    \A r \in Registered : []<>(~row[r].enabled \/ row[r].status # "running")
=============================================================================
