# Anchorix: TLA+ models and proofs

Anchorix is a control plane for certificate governance: agents report the
certificates they find, the control plane stores them, decides who owns each one,
opens findings about the bad ones, and keeps its own tables in shape with
background jobs.  This directory holds TLA+ models of the control plane, the TLC
configurations that check them on small instances, and TLAPS proofs of the main
safety properties for every instance.

Paths below are relative to `backend/internal/` unless they start with `backend/`
or `docs/`.

## 1. Inventory

State lives in PostgreSQL.  The Go process holds no caches; what is hard is what a
call reads *before* it waits for a lock or a transaction and uses *after* it, what
several replicas do to the same rows, and what a crash leaves behind.

| Component | State | Operations | Talks to |
|---|---|---|---|
| Governance maintenance scheduler (`governance/maintenance`, `storage/postgres/governance_scheduler_repository.go`) | one row per (organization, job): enabled, cursor, status, consecutive failures, next due time; one session advisory lock per pair | ListDueJobs, RunDueJob (lock, mark started, page loop, terminal write, unlock), UpsertJob | the ownership sweep and prune, as `Job.RunPage` |
| Ownership engine (`governance/ownership/{engine,decision,precedence}.go`) | none | compileRules, decideOwnership | called by every ownership writer |
| Ownership writers (`governance/ownership/*.go`, `governance_ownership_repository.go`) | overrides, ownership rows, explanations, audit rows; one advisory lock per organization | CreateOverride, ClearOverride, SweepExpiringOverridesPage, PruneExplanationsPage, Recompute, RecomputeNoWait | rules and services, read without the lock |
| Ownership rules (`rule_mutations.go`) | rule rows | CreateRule, UpdateRule, EnableRule, DisableRule | read by recomputes and re-derivations |
| Findings engine (`findings/{rules_certificate,service_diff}.go`) | none | six rules, the transition of one finding, the paged diff | called by the recompute |
| Findings service (`findings/service.go`, `findings_repository.go`) | findings, audit rows; one advisory lock per organization | Recompute, AcknowledgeFinding, SuppressFinding | certificates, ingested under another lock |
| Findings scheduler (`findings/scheduler.go`) | the position of a sweep, in memory | runOnce, recomputeOrg | the findings service, one organization after the other |
| Transactions and locks (`storage/postgres/postgres.go`) | pool, session and transaction locks | WithTxLocked*, WithTxLocked*RepeatableRead, TryWithTxLocked* | everything above |
| Certificate inventory (`inventory`, `certificate_inventory_repository.go`) | certificates shared by all agents, one observation per agent, certificate and store, audit rows; one advisory lock per agent | Submit (checks, upserts, reconciliation), three paged listings | agents; read by findings and ownership |
| Agent inventory (`agentinventory`) | one snapshot per agent | Submit, ListSummaries | agents |
| Enrollment (`enrollment`) | deployment packages with seats, agents, audit rows | CreatePackage, EnrollAgent, RevokePackage, AuthenticateAgent, RecordHeartbeat | agents |
| Identity (`identity`) | tags, services, service groups, agent groups, assignments and memberships, audit rows | create, update, disable, enable, assign, reparent | rules and overrides refer to services and agent groups |
| Operator authentication (`auth`) | users, sessions, cookies, audit rows | Login, Authenticate, Logout, create the administrator | the middleware of every operator endpoint |
| Migrations (`storage/postgres/migrations.go`) | applied versions | apply | start-up |
| HTTP API, configuration, logging, agent, console | none of their own | decode, validate, call a service | |

What makes the core correct, and why it is hard:

* **Scheduler.** One runner per row at a time; no eligible item is skipped however runs
  end; a failing row backs off and comes back; a crashed run is run again; every due row
  is served although a tick lists only a few.  Hard: overlapping ticks, crashes between
  a page and the terminal write, lock keys that are hashes and may collide, locks that
  live in a database session, rows listed long before they are run.
* **Ownership.** A certificate with an active override is owned by it and by nobody
  else, whatever five writers do; the explanation a row points at exists; the audit log
  tells every override's life and every change of owner.  Hard: each writer reads the
  clock, and ClearOverride reads its target, before it waits for the lock; a recompute
  works on a snapshot.
* **Enrollment.** A package never gives out more seats than it has, each seat is one
  agent, a revoked or expired package gives out none, an installation enrolls once, and
  the audit log is true.  Hard: the pre-check works on a copy, the authoritative check is
  a conditional UPDATE that waits for a row lock, its failure is explained by a second
  read, and several packages share the unique index of installations.
* **Inventory.** Rows follow from the batches that were committed, in whatever order they
  come.  Hard: late and repeated batches, certificate rows written by several agents at
  once (and locked in the order of each batch), listings paged while rows move.
* **Identity and rules.** References resolve, the group hierarchy has no cycle, retired
  rows are not in use, an update changes what it names.  Hard: almost every check is a
  read in a READ COMMITTED transaction, or before it, and the write comes later.
* **Sessions.** A session ends for good by logout, by inactivity or by age.  Hard: each
  request reads, decides and writes the expiry in separate statements without a
  transaction.
* **Findings.** The columns of a row agree with its status after any sequence of
  overrides, expiries, resolves and reopens; the paged diff computes what the load-all
  diff did; an organization that always fails does not starve the others.  Hard: the
  same clock and snapshot races, and paging by random ids.

`PROJECT.json` lists the hazards, each at its line, with the properties aimed at it.

## 2. Modules

| Module | Models |
|---|---|
| `GovernanceScheduler` | rows, locks, callers of RunDueJob, faults |
| `OwnershipEngine` | the ownership decision and the diff against the stored row (operators) |
| `Ownership` | extends it: the writers of one organization |
| `FindingsEngine` | rules, row transitions, paged and load-all diff (operators) |
| `Findings` | extends it: operators, schedulers and organizations |
| `SeatQuota` | what a deployment package promises: the abstract specification |
| `Enrollment` | packages, agents and the calls on them; implements `SeatQuota` |
| `Inventory` | batches, certificate and observation rows, snapshots |
| `InventoryListing` | extends it: an operator pages through the listings |
| `Identity` | tags, services, groups, their members and their hierarchy |
| `OwnershipRules` | extends it: rules and overrides that refer to services and groups |
| `Sessions` | operators, sessions and the requests that use them |
| `MCScheduler`, `MCOwnership`, `MCFindings`, `MCEnrollment`, `MCInventory`, `MCIdentity`, `MCSessions` | values for the constants of the instances TLC checks |
| `NaturalOrder` | a nonempty set of naturals has a least element |
| `GovernanceScheduler_proofs`, `Ownership_proofs`, `Findings_proofs`, `Enrollment_proofs`, `Inventory_proofs`, `Identity_proofs`, `Sessions_proofs` | the theorems about the module each is named for; `Inventory_proofs` covers `InventoryListing`, `Identity_proofs` covers `OwnershipRules`, `Enrollment_proofs` the refinement of `SeatQuota` |

Definitions whose comment begins with "Mutant" are variations of the code with a
plausible mistake in them; no specification uses them.  Each stands before the
definition it varies, and `PROJECT.json` says which property it must break.

### GovernanceScheduler

*State.* `row` and `due` are the table (`due` is `next_due_at` minus now, so time is
unbounded and the state space finite; overdue times keep only their order).  `lock` maps
each 64-bit key to the caller whose session holds it.  A caller has a `queue` of row
copies as ListDueJobs returned them (the `jobState` argument of RunDueJob), a program
counter, the local variables of runPages (`cursor`, `pages`, `budget`) and a
`cancelled` context.  `work` is what each job would still act on.  `pending` and `lost`
are history: what was eligible when the row's drain cycle began, and whose lock session
died.

*Actions.* One per step that another process can see between: the lock attempt
(`TryLockOrgJob`, `SkippedLocked`, `LockError`), `UnknownJob`, `MarkJobStarted` and its
failure, one page (`RunPage`), a page that fails before or after its commit
(`RunPageError`), a bound between pages (`StopAtBound`), the terminal write and its
failure (`Finish`, `FinishError`), the deferred unlock (`Release`), and `Crash`,
`Cancel`, `SessionLost`.  A page is one transaction of the sweep or the prune and hence
one step.

### OwnershipEngine and Ownership

Rules carry the set of certificates they match; how a glob or a regular expression
matches is left out.  The order of rules, ties inside a tier, the reserved tier, the
confidence and expired pins are as in the code.

*State.* Overrides, ownership rows, explanations (their `decided_at`), the audit rows of
each override, the ownership transition rows of the last transaction, the two
maintenance cursors, the lock, the calls and the snapshots.

*Actions.* A call starts by reading what the code reads before the transaction
(`CreateOverride`, `ClearOverride`, `Starts`).  Its locked READ COMMITTED transaction is
one step: everything it reads is written only under the same lock, except the rules,
which it reads once.  A recompute takes its session lock and then its snapshot
(`RecomputeLock`), and commits later (`RecomputeCommit`), with rules changing in
between.  Any transaction may fail and roll back.

### FindingsEngine and Findings

`decideMatchTransition` and `decideNoMatchTransition` are the two state machines of
`service_diff.go`; `runDiffStreaming` walks certificates and rows page by page with
exclusive id cursors; `runDiffLoadAll` is the reference.  `Findings` gives every call its
clock read, its wait, and its transaction, like `Ownership`; a scheduler's sweep is the
set of organizations still to come, in id order; `Broken` organizations never commit.
Certificates are ingested at any time, also between a snapshot and its commit.

### Enrollment and SeatQuota

*State.* Package rows, agent rows, the number of audit rows of each kind, and one record
per call in progress.  The variables hold committed rows only: between its conditional
UPDATE and its commit a call sits in one of `RowLockPcs`, which *is* the row lock, and
what it wrote is in its record.  The INSERT of an agent waits for another open INSERT of
the same (organization, installation id), as a unique index does (`KeyInFlight`).

*Actions.* One per endpoint that begins a call (`DeploymentPackagesCreate`,
`AgentsEnroll`, `DeploymentPackagesRevoke`, `RequireAuthenticatedAgent`), one per
statement after it (`EnrollPrecheck`, `IncrementUses`, `classifyIncrementFailure`,
`CreateAgent`, `EnrollCommit`, `recordRejection`, `RevokeUpdate`, `RevokeCommit`,
`AgentHeartbeat`, `UpdateHeartbeat`), and `CallFails` anywhere.  `DeletePackage` and
`DisableAgent` are an administrator of the database: the code handles both and no
endpoint does either.

`SeatQuota` has packages with a number of seats, agents in seats, and packages that are
closed for good.  The mapping forgets calls, clocks and audit rows: a seat is taken by
`EnrollCommit` and a package closed by `RevokeCommit`.  That is the content of the
refinement: although the check, the count and the agent row are separate statements of
racing transactions, each enrollment happens at one instant, when the package is open
and has a seat.

### Inventory and InventoryListing

A batch is its agent, its `collected_at`, its stores and its entries; an entry is a
certificate in a store, a private key, or a PEM that does not parse.  `verdict` is the
checks of the handler and of Submit in their order.  An accepted batch takes the agent's
advisory lock, upserts entry by entry (each upsert waits for the certificate row if another
transaction has written it), reconciles and commits.  `DeadlockDetected` aborts a
transaction on a cycle of waits.  `log` is history: the committed batches.

`InventoryListing` adds one operator who reads any of the four listings page by page; a
page is one statement.  `steady` is history: the rows that have stood still so far.

### Identity and OwnershipRules

Requests of the handlers (`TagsCreate`, `ServicesUpdate`, `ServiceGroupsSetParent` ...)
begin a call.  A preflight read and the write that depends on it are two steps; the walk
of `checkNoCycle` is one step per ancestor, with `MaxDepth` for the constant 32.  A
write and its commit are one step: the statement that writes is the last one that reads
shared rows, the audit INSERT that follows conflicts with nobody, and a row lock
held in between would only delay others.  `ServicesUpdate` reads the service, merges the
body and writes all columns.  `OwnershipRules` does the same for rules, and checks
services and agent groups before the transaction that writes a rule or an override.

History variables say which calls were overtaken: `overtaken` and `raced` (a row read
by a walk or a preflight was changed before the write), `outdated`, `clobbered` and
`blurred` (the same for merges), `asked` and `wanted` (the values last asked for).  They
occur in no guard.

### Sessions

Users, session rows, the cookies browsers hold, calls.  A request reads the session
(`Get`), decides with its clock (`IsActive`, `NextExpiry`), writes the new expiry when it
differs (`ExtendExpiry`), reads the user (`GetUserByID`) and reaches its handler; a logout
then revokes and audits in one transaction.  `activity` (when requests were
accepted) and `late` (requests that began after the end of their session) are history.

## 3. What TLC checks

| Run | Question and result |
|---|---|
| `SchedulerLocking` | Two callers, two rows with the same lock key, one of them of an unregistered job, and one fault of any kind anywhere.  A row is executed by one caller at a time and written by the lock holder only (`MutualExclusion`, `RowChangesUnderLock`, both until a lock session is lost). |
| `SchedulerDraining` | One caller, three items, runs of at most two pages, failing pages and one fault.  Nothing eligible when a cycle began falls behind the cursor; a run recorded as completed has drained the cycle; the backoff is that of the new failure count; every eligible item is processed and no row stays `running`. |
| `OwnershipOverrides` | Two callers create, clear, sweep and recompute one certificate: the override and the row never disagree, a recompute's snapshot is never stale, each override is audited once created and once ended. |
| `OwnershipExplanations` | Three clock values, two certificates, rule sets with a tie and a reserved tier, rollup threshold 1, explanations written out of time order: the pinned explanation survives the prune, the prune keeps what the policy keeps, and each change of owner by a recompute has its audit row with the right count. |
| `OwnershipSweep` | Two certificates, pages of one: every expired override is eventually cleared wherever the cursor stands. |
| `FindingsDiff` | All six rules, certificates at the rules' boundaries, pages of two, ids in no useful order: paged diff = load-all diff in every reachable state. |
| `FindingsScheduler` | One operator acknowledges, suppresses and recomputes around the expiry of a certificate while a scheduler sweeps two organizations, the first of which always fails.  Row consistency, current snapshots, an idempotent recompute, audit rows that explain the override in force, counters that tell the change; expired certificates of the healthy organization are reported and lapsed suppressions end. |
| `Enrollment` | Two callers, two packages of one seat in one organization, one installation id, an operator of another organization.  Seats equal agents and never exceed the limit; an installation enrolls once; every audited reason is true of the package; each life is audited once; an agent's times are within its package's lifetime; and the calls implement `SeatQuota`. |
| `Inventory` | Two agents, two certificates, two stores, eight batches, two of them with rows in opposite order and four refused for different reasons, pages of one.  A certificate row spans its observations; an observation is current, or removed by a batch that lacks it and is as new as every report, and as the last batch says when batches come in order and the certificate stays in its store (`ObservationsFollowReports`); a batch with key material is audited whatever else is wrong with it; a finished walk has every row that stood still, and none twice; every submission ends. |
| `InventoryReconciliation` | Expects a violation.  `BatchSettlesItsStores` is what `docs/engineering/CERTIFICATE_INVENTORY.md:200-207` and the comment of UpsertObservation say of a batch: each store it covers is reconciled for itself, and an old batch leaves `removed_at` alone.  TLC finds a certificate that moves from one covered store to another and stays current in both (section 5). |
| `Identity` | Two operators of the vocabulary and two of the rules; three groups, two of them present at the start, a depth bound of two.  Cycles and lost fields arise from overlapping requests only.  Something comes to refer to a retired row only by such a race, or where the code checks nothing: a disabled tag is attached, a child is put under a disabled group, a service or an agent group is retired while rules or overrides refer to it (`ChecksFailOnlyByRace`).  No reference dangles; the audit rows account for the tables; every request ends, also a walk in a cycle. |
| `Sessions` | One operator, one session, two callers, idle lifetime 2, absolute lifetime 3, a clock to 4: a request that begins after the end reaches no handler; none is accepted outside the policy; a revoked row never changes; the audit rows account for users, sessions and logouts. |

### Bounds

Every bound is a constant.  Two callers suffice for each race, since locks are
pairwise; the theorems of section 4 remove that bound, and the others, for every safety
property.  Callers (and override ids) are interchangeable, so the safety runs of the
scheduler and of ownership use symmetry; the runs with liveness properties do not.  Three
items with pages of one, and two pages per run, give a run a first, a middle and a
last page and a bound between them.  `MaxFailures` caps the failures of a row in a
row at two, enough for the backoff to reach its cap.  `MaxFaults = 1` admits one
crash, cancellation, database error or lost session per behaviour, at any step; page
failures and rolled-back transactions are not counted.  Clock bounds of two or three give
a time before, at and after each expiry.  Override and explanation ids are never used
again, so their number bounds the length of a history: two overrides allow a pin, its
end, and a new pin while a late clear of the first is waiting.

`MaxRequests` and `MaxSubmits` bound how many requests a behaviour begins: four
enrollments, three batches, three changes of the vocabulary (two groups and a service are
there at the start, so two reparentings can close a cycle and a third walk into it), five
session requests (create the administrator, log in, and three that race).  One seat per
package puts every race at the limit; two packages let an installation race itself across
them.  Time runs to the first value after every expiry.  Three batches of one agent give
every order of a report, a miss and a late report.

### Fairness

* *Maintenance scheduler.* Time passes; a caller lists again and its calls return (weak
  fairness); a page at a given cursor that is attempted again and again succeeds
  eventually (strong fairness per row and cursor).  The last is per cursor
  because a run whose second page fails loses the cursor progress of its first: if
  only *some* page had to succeed, the first could succeed for ever, on items
  that keep becoming eligible, and the second never.  The code that would call
  ListDueJobs and RunDueJob periodically is not in this commit (only tests call them), so
  these liveness results are conditional on such a driver.
* *Ownership sweep.* The same condition; in addition a call that waits for or holds the
  lock ends, and not every sweep fails.
* *Findings scheduler.* Its loop is started by `backend/cmd/anchorix/serve.go`.  The
  ticker fires; PostgreSQL queues waiters of a lock; a recompute ends; the recomputes of
  a healthy organization do not all fail.  Operators need do nothing.
* *Inventory, identity.* Only a call that has begun goes on (weak
  fairness of its own steps, not of any request being made).  A wait for a row or
  an agent's lock ends because its holder is such a call; a cycle of waits ends by
  PostgreSQL's deadlock detector.  Every statement of these services is bounded by the
  request's context.  Enrollment and sessions are checked for safety only.

## 4. What is proved

Every invariant, action property and refinement that a passing run checks is also a theorem: for
all sets of rows, callers, keys, certificates, overrides and organizations, all
configurations that the constants' assumptions allow, and any number of requests and
faults.  Few of the properties are inductive; what had to be added says, in each
component, what a call still knows of the rows it read.

* **GovernanceScheduler.** `TypeCorrect` from `TypeInv` (types, and a caller inside
  RunDueJob has a job).  `MutexHolds` and `RowChangesUnderLockHolds`: mutual exclusion
  does not say who holds the lock; `LockInv` adds `HoldsLock`: from TryLockOrgJob to
  Release the caller is the recorded holder of its row's key, unless a lock session was
  lost.  Colliding keys cost concurrency and never exclusion.
  `NothingSkippedHolds` and `BackoffMatchesFailuresHolds` assume `OneCaller`, as the runs
  do: with two callers both fail (section 5), since RunDueJob starts at the cursor and
  counts from the failures of a row listed earlier.  `DrainInv` says that for one caller
  those copies stand until the terminal write (`SnapshotsStand`; a listing has each row
  once, `RowsDiffer`), and that what was eligible when the cycle began is still there and
  ahead of the row's cursor and of the running one (`Drained`).  Crashes and lost
  sessions are included: the cursor they fall back to is behind all of it.
* **Ownership.** `OverrideGovernsHolds`, `SnapshotIsCurrentHolds`,
  `PinnedExplanationHolds`, `AuditTellsOverrideLifeHolds`, all from one invariant: shapes
  (`StateType`), what a waiting call carries (`CallArgs`: a clear names an override that
  was once active for its certificate), the recompute holds the lock, its snapshot is
  current, and the four tables agree.  They need each other: a commit keeps
  `OverrideGoverns` because its snapshot is current, the snapshot is current because
  every other writer finds the lock taken, and a late clear is harmless because an
  override never becomes active again.  `PruneRespectsPolicyHolds` follows from the same
  invariant: the clock a prune read is never ahead of the present one.  `OwnerChangesAreAuditedHolds`
  needs `OwnersAgree`: a row is "unowned" exactly if it has no service, because the
  audit looks at both; then a change of service is a change that `accumAudit` names, in
  a row of its own or counted by a rollup.
* **Findings.** `RowConsistentHolds`, `SnapshotIsCurrentHolds`,
  `AuditExplainsOverrideHolds`, from the same kind of invariant; the lemmas
  `MatchFollows` and `NoMatchFollows` say what one recompute may do to one row.
  `StreamingEqualsLoadAllHolds` rests on `WalkVisitsAll`: paging through a finite set of
  ids visits all of it, for any page size at least 1.  The walk is a recursive function;
  instead of induction the proof takes, of the cursors from which a walk goes wrong, the
  one with the fewest ids past it: its page is full, and the walk goes on from a cursor
  with fewer.  `RecomputeIsIdempotentHolds` then follows from each transition being
  idempotent at one time (`MatchTwice`, `NoMatchTwice`), and
  `CountersTellTheChangeHolds` from counting the rows by what happens to them, with
  `CounterInv`: a snapshot has certificates of its organization only.
* **Enrollment.** `SeatsMatchAgentsHolds`, `RejectionsAreTrueHolds`, `TablesAgreeHolds`
  and `EnrollmentImplementsSeatQuota`, from `EnrollInv`.  It says what a call knows at
  each step (`CallOK`: from IncrementUses to the commit the package is open and has the
  seat) and that two open transactions have different packages, agents and installation
  ids (`Apart`: the row lock and the unique index), which is why a commit may count on
  what its UPDATE saw.  Each step then maps to one of `SeatQuota` or to none.
* **Inventory.** `TablesAgreeHolds`, `ObservationsFollowReportsHolds` and
  `KeyMaterialIsAuditedHolds` from `InventoryInv`: each row an open transaction has
  merged is still the merge of the committed row with its batch (`Written`), because
  the agent's lock keeps its observations and a row lock keeps a certificate (`Apart`).
  A commit then adds one batch to the log at one moment, and what the log says of an
  observation changes as the row does (`Account`, `Longer`).  `ObservationsFollowReports`
  speaks of what batches report and lack, not of the merge; the invariant behind it
  (`ObservationsAreExplained`) says which report or miss last moved a row's removal, and the
  two meet where every batch that lacks a row misses its certificate (`StaysPut`).
  `WalkIsExactHolds` from `WalkInv`: a row that stood still was returned or is still to come
  after the cursor, and what was returned never moves behind the cursor again
  (`ReturnedStand`).
* **Identity and rules.** `CyclesNeedRaces`: a cycle of service groups contains a group
  whose parent was written by a call that had been overtaken, for any depth bound.  The
  property does not say what a walk in progress knows.  `HierarchyInv` adds `WalksKnow`:
  of a walk that was not overtaken, any set of groups that contains the proposed parent
  and the parent of each group read contains the group the walk is at, and once a root
  was read there is no such set: the edge that is written closes no cycle.
  `CyclesNeedRacesWithRules` extends it to the specification the run checks.
  `TablesAgreeHolds`, `LostFieldsNeedRaces` and `ChecksFailOnlyByRaceHolds` come from
  `VocabularyInv` and `RulesInv`: what a call has read still holds while nobody has
  overtaken it (`Fresh`, `EditsFresh`), rows never disappear, so references resolve
  whatever races, and the audit rows of each table account for it (`RowsAudited`,
  `RulesAudited`; a tag or a rule that is not there has not been retired either).
* **Sessions.** `TablesAgreeHolds`, `OverIsOverHolds`, `SessionsEndHolds` from
  `SessionInv`: every expiry, in the row or in a request's copy, is `Justified` by the
  login and one accepted request, and a request that began too late carries a reason to
  be refused that outlasts the check (`LateCall`).

Assumptions are those named `...Assumption` in the modules: configurations the
constructors accept, finite sets of rows, ids that do not run out, and NULL (`Nil`)
distinct from every value a column can have.  TLC evaluates them on every instance.

*Only model-checked:* liveness, which is outside the prover: `EligibleIsProcessed`,
`RunningIsRetried`, `ExpiredIsCleared`, `ExpiredIsReported`, `SuppressionLapses`,
`SubmitEnds` and `RequestEnds`.

## 5. What the modelling showed

Places where the code and its text differ, or where a maintainer might want to decide, met
while modelling.  The properties above are stated so that they hold of the code as it is.

* `governance/maintenance/runner.go:240-242` says a crash re-runs at most the page in
  flight; the cursor is persisted only by the terminal write, so a crash re-runs every
  page of its run.  Pages are idempotent: the cost is work, not correctness.
* `governance/scheduler.go:151-154` says the lock guarantees no duplicate execution; the
  guarantee ends with the session that holds it, which nothing checks again before a page
  or a terminal write.  This is the condition on `lost`.
* `governance/scheduler.go:80-81` says failures are reset on forward progress; a run
  cancelled before its first page also resets them (`finishPartial` with no pages).
* `docs/governance/B4-governance-scheduler-design.md:287-288` says every due item is
  served before any is served twice, and :265-266 that what exceeds the limit is picked up on
  a later tick.  The row of an unregistered job is not re-armed and stays first in the list.
  With one such row and a listing of one (the `SchedulerDraining` instance with
  `Rows = {1, 2}`, `Registered = {1}` and without faults) TLC finds a behaviour in which the
  registered row runs once, becomes due again behind the other, and is never listed again.
  No run of the project has rows that compete for the limit: `EligibleIsProcessed` is checked
  for one row.
* `governance/types.go:99-100` says ExplanationID points at the latest explanation; a
  writer that waited for the lock stamps it with an earlier `decided_at`.
* `findings/rules_certificate.go:94-95` says a certificate at exactly `not_after` is
  caught by certificate_expired; at that instant neither rule matches.
* `governance/maintenance/runner.go:210` starts at the cursor of the row as it was
  listed.  With two callers a run can start at a cursor that another run has reset since,
  and be recorded as completed with work left before it, although
  `governance/scheduler.go:32-33` says completed means the organization's eligible work was
  drained.
* `findings/service.go:237` reads the clock before the wait for the lock.  A recompute that
  waited while a later one committed stamps `resolved_at` before `last_seen_at`, or moves
  `last_seen_at` before `first_seen_at`.
* `identity/service.go:951`: two overlapping reparentings close a cycle, although
  `docs/engineering/H026_TRUST_GOVERNANCE_PLAN.md:557-558` says the service layer keeps the
  hierarchy acyclic.  A subtree that is moved may also end deeper than 32 levels; the next
  walk from its leaves is then refused as a cycle.
* The same plan, line 1812, lists `service_in_use` (409); DisableService is never refused,
  since `governanceRulesForService` counts nothing (`identity/service.go:744-753`), although
  the comment at :679-683 describes the check.  DisableAgentGroup does not look for rules
  either, AssignTag accepts a disabled tag, and a group may be put under a disabled parent.
  `ChecksFailOnlyByRace` names these cases and claims nothing about them.  An update of an agent_group rule is refused once its group is disabled, whatever it changes.
* `httpapi/handlers/identity_services.go:178` and `governance/ownership/rule_mutations.go:191`:
  of two overlapping updates of different fields the later one restores the other's field.
* `docs/engineering/CERTIFICATE_INVENTORY.md:200-207` reconciles each pair of agent and store:
  rows of it that are not in the batch are removed.  `MarkMissingObservationsRemoved` takes a
  certificate reported in any store as seen in all covered stores, so one that moved from a
  store to another stays current in both (run `InventoryReconciliation`).
* `storage/postgres/certificate_inventory_repository.go:152-154` says an older batch leaves
  `removed_at` alone; the condition compares with `last_seen_at`, which the batch that
  removed the row did not move, so a batch sent between the two, or delivered again, brings
  the row back.  `BatchSettlesItsStores` has this too, as its second half.
* Two agents that report the same certificates in opposite order can deadlock; the victim's
  batch is lost and answered as an internal error.
* `storage/postgres/certificate_inventory_repository.go:238` says a batch without
  certificates is legitimate; the handler refuses it, so a store that became empty is
  never reconciled.
* A row refreshed during a walk moves before the cursor and is not returned by it, and the
  snapshots' `received_at` may go back, so a walk of summaries may return an agent twice.
  `agentinventory/list.go:100-102` says the extra row is the cursor; the code uses the last
  row returned.
* A revocation stamps a clock read before it waited for the row: `revoked_at` may lie before
  an agent's `enrolled_at`.  An enrollment may commit after its package expired, and a
  heartbeat may move `last_seen_at` back.  An agent whose enrollment committed without
  its answer arriving cannot enroll again with its installation id.
* `httpapi/middleware/agent_auth.go:117`: the header is trimmed before, so
  `header_empty_token` is never the reason.
* `auth/service.go:167`: a slide computed earlier and written later can shorten a session,
  or extend one that expired in between (within the limits of `AcceptsWithinPolicy`).
  When the expiry would not change there is no UPDATE, so a request does not notice a
  logout after its read.  Two logouts of one session are both audited.  No code sets
  `users.disabled`.

## 6. Not modelled

* Matching of names, globs, tags and groups, certificate parsing, secrets and password
  hashes, configuration, logging, the agent and the console: data and I/O without a state
  machine.
* Handlers that only read, other than the inventory's listings, and the shape of answers.
* Policies and recompute runs: tables that no service uses yet.
* Migrations: a command run at start-up, one transaction per file.
* The connection pool.  Each waiter for a session lock keeps a connection; what happens when
  none is left is not in any model.
* Several due rows with one slot per listing: the order of the list is modelled, its
  fairness is only checked for one row.
* 64-bit overflow (`ttl_seconds` times a second): past TLC's integers.

## 7. Plan

Done: the scheduler, ownership, findings, enrollment with its abstract specification,
inventory, identity with rules, sessions: modelled, checked, and their safety properties
proved.  Left, in this order:

1. Safety lemmas under the liveness properties (for a failing row: that its due time comes
   down; for a sweep: that the organizations still to come only become fewer), which the
   prover can reach although the properties themselves are not.
2. An abstract specification of the ownership and findings locks, as `SeatQuota` is for
   enrollment: each recompute and override as one atomic change, and its refinement.
3. The migration runner with two starting replicas, and the connection pool.
