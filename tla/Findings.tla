------------------------------ MODULE Findings ------------------------------
(***************************************************************************)
(* Certificate findings: operators that acknowledge, suppress and ask for  *)
(* recomputes, and the background schedulers of the replicas that sweep    *)
(* all organizations, sharing one 'findings-recompute' advisory lock per   *)
(* organization.                                                           *)
(*                                                                         *)
(*   backend/internal/findings/{service,scheduler}.go                      *)
(*   backend/internal/storage/postgres/{postgres,findings_repository}.go   *)
(*                                                                         *)
(* Every call reads the clock BEFORE it waits for the lock.  An override   *)
(* then runs one READ COMMITTED transaction (one step).  A recompute takes *)
(* the lock on its session, works on the snapshot of a REPEATABLE READ     *)
(* transaction and commits: two steps, between which certificates may be   *)
(* ingested, under a lock of another namespace.                            *)
(***************************************************************************)
EXTENDS FindingsEngine

CONSTANTS
    Org,         \* organizations, as numbers in ListOrganizationIDs order
    OrgOf,       \* the organization of each certificate
    Broken,      \* organizations whose recompute always fails or panics
    Operator,    \* concurrent operator requests
    Scheduler,   \* scheduler loops, one per replica
    MaxClock,    \* bound: clock values are 1..MaxClock
    Lifetimes,   \* for how long an operator may suppress; 0 is permanent
    Nil

Caller == Operator \cup Scheduler
Time == 1 .. MaxClock

ASSUME FindingsAssumption ==
    /\ Org \subseteq Nat /\ IsFiniteSet(Org)
    /\ OrgOf \in [Cert -> Org]
    /\ Broken \subseteq Org
    /\ Operator \cap Scheduler = {}
    /\ MaxClock \in Nat \ {0}
    /\ Lifetimes \subseteq Nat
    /\ Nil \notin Caller \cup Org \cup Key

VARIABLES
    clock,
    certs,      \* certificates: the ingested ones
    findings,   \* findings
    override,   \* the last finding.acknowledged / finding.suppressed audit row of a key
    recomputed, \* the counters of the last findings.recomputed audit row of an organization
    lock,       \* holder of each organization's advisory lock between two steps
    call,       \* what each caller is doing
    snap,       \* the snapshot of each running recompute
    sweep       \* runOnce: the organizations still to come

tables == <<findings, override, recomputed>>
vars == <<clock, certs, tables, lock, call, snap, sweep>>

Call == [op : {"none", "recompute", "recomputing", "override"}, org : Org \cup {Nil},
         key : Key \cup {Nil}, status : {"none", "acknowledged", "suppressed"},
         expires : Nat, now : Nat]
Idle == [op |-> "none", org |-> Nil, key |-> Nil, status |-> "none", expires |-> 0, now |-> 0]

Snapshot == [certs : SUBSET Cert, findings : [Key -> Finding]]
NoSnapshot == [certs |-> {}, findings |-> [k \in Key |-> NoFinding]]

AuditRow == [status : {"none", "acknowledged", "suppressed"},
             previous : Status \cup {"none"}, at : Nat]
NoAudit == [status |-> "none", previous |-> "none", at |-> 0]

Counters == [Buckets -> Nat]

Init ==
    /\ clock = 1
    /\ certs = {}
    /\ findings = [k \in Key |-> NoFinding]
    /\ override = [k \in Key |-> NoAudit]
    /\ recomputed = [o \in Org |-> [b \in Buckets |-> 0]]
    /\ lock = [o \in Org |-> Nil]
    /\ call = [p \in Caller |-> Idle]
    /\ snap = [p \in Caller |-> NoSnapshot]
    /\ sweep = [p \in Scheduler |-> {}]

KeysOf(o) == {k \in Key : OrgOf[k[1]] = o}

\* WHERE organization_id = o
CertsIn(o) == {c \in certs : OrgOf[c] = o}
FindingsIn(o) == [k \in Key |-> IF k \in KeysOf(o) THEN findings[k] ELSE NoFinding]

-----------------------------------------------------------------------------
(* Calls up to the wait for the lock *)

Recomputes(p, o) ==
    /\ call[p].op = "none"
    /\ call' = [call EXCEPT ![p] = [op |-> "recompute", org |-> o, key |-> Nil,
                                    status |-> "none", expires |-> 0, now |-> clock]]

Recompute(p, o) ==
    /\ Recomputes(p, o)
    /\ UNCHANGED <<clock, certs, tables, lock, snap, sweep>>

Overrides(p, o, k, status, expires) ==
    /\ call[p].op = "none"
    /\ call' = [call EXCEPT ![p] = [op |-> "override", org |-> o, key |-> k,
                                    status |-> status, expires |-> expires, now |-> clock]]
    /\ UNCHANGED <<clock, certs, tables, lock, snap, sweep>>

AcknowledgeFinding(p, o, k) == Overrides(p, o, k, "acknowledged", 0)

\* validateSuppressInput: an expiry is in the future of the clock read before the wait.
SuppressFinding(p, o, k, life) ==
    Overrides(p, o, k, "suppressed", IF life = 0 THEN 0 ELSE clock + life)

\* The call is over without a commit: not found, an error, a cancelled request.
Returns(p) == call' = [call EXCEPT ![p] = Idle]

CallFails(p) ==
    /\ call[p].op \in {"recompute", "override"}
    /\ Returns(p)
    /\ UNCHANGED <<clock, certs, tables, lock, snap, sweep>>

-----------------------------------------------------------------------------
(* applyOverride, under WithTxLockedFindings *)

\* Mutant of overridden: a resolved row keeps its resolved_at.
overriddenKeepsResolvedAt(f, in) ==
    [status |-> in.status, firstSeenAt |-> f.firstSeenAt, lastSeenAt |-> f.lastSeenAt,
     resolvedAt |-> f.resolvedAt, updatedAt |-> in.now, statusChangedAt |-> in.now,
     suppressExpiresAt |-> in.expires]

\* Mutant of overridden: status_changed_at keeps the time of the first override.
overriddenKeepsChangedAt(f, in) ==
    [status |-> in.status, firstSeenAt |-> f.firstSeenAt, lastSeenAt |-> f.lastSeenAt,
     resolvedAt |-> 0, updatedAt |-> in.now,
     statusChangedAt |-> IF f.statusChangedAt = 0 THEN in.now ELSE f.statusChangedAt,
     suppressExpiresAt |-> in.expires]

overridden(f, in) ==
    [status |-> in.status, firstSeenAt |-> f.firstSeenAt, lastSeenAt |-> f.lastSeenAt,
     resolvedAt |-> 0, updatedAt |-> in.now, statusChangedAt |-> in.now,
     suppressExpiresAt |-> in.expires]

Found(in) == OrgOf[in.key[1]] = in.org /\ Exists(findings[in.key])

applyOverride(p) ==
    LET in == call[p]
    IN  /\ in.op = "override"
        /\ lock[in.org] = Nil
        /\ Found(in)
        /\ findings' = [findings EXCEPT ![in.key] = overridden(findings[in.key], in)]
        /\ override' = [override EXCEPT ![in.key] =
              [status |-> in.status, previous |-> findings[in.key].status, at |-> in.now]]
        /\ Returns(p)
        /\ UNCHANGED <<clock, certs, recomputed, lock, snap, sweep>>

\* ErrFindingNotFound: no such row in the operator's organization.
OverrideNotFound(p) ==
    /\ call[p].op = "override"
    /\ lock[call[p].org] = Nil
    /\ ~ Found(call[p])
    /\ Returns(p)
    /\ UNCHANGED <<clock, certs, tables, lock, snap, sweep>>

-----------------------------------------------------------------------------
(* recomputeWithActor, under WithTxLockedFindingsRepeatableRead *)

Snapshots(p) ==
    /\ call' = [call EXCEPT ![p] = [op |-> "recomputing", org |-> call[p].org, key |-> Nil,
                                    status |-> "none", expires |-> 0, now |-> call[p].now]]
    /\ snap' = [snap EXCEPT ![p] = [certs    |-> CertsIn(call[p].org),
                                    findings |-> FindingsIn(call[p].org)]]
    /\ lock' = [lock EXCEPT ![call[p].org] = p]
    /\ UNCHANGED <<clock, certs, tables, sweep>>

\* Mutant of RecomputeLock: the lock is taken inside the REPEATABLE READ transaction,
\* whose snapshot then predates the wait.
RecomputeSnapshotsFirst(p) ==
    /\ call[p].op = "recompute"
    /\ Snapshots(p)

RecomputeLock(p) ==
    /\ call[p].op = "recompute"
    /\ lock[call[p].org] = Nil
    /\ Snapshots(p)

Unlocks(p) ==
    /\ call[p].op = "recomputing"
    /\ Returns(p)
    /\ lock' = [lock EXCEPT ![call[p].org] = Nil]
    /\ snap' = [snap EXCEPT ![p] = NoSnapshot]
    /\ UNCHANGED <<clock, certs, sweep>>

\* Mutant of countersOf: the summary leaves reopened findings out.
countersOfInserts(s, now) ==
    LET c == runDiffStreaming(s.certs, s.findings, now).counters
    IN  [c EXCEPT !["opened"] = Cardinality(pagedMatches(s.certs, now)
                                            \ pagedFindings(s.findings))]

countersOf(s, now) == runDiffStreaming(s.certs, s.findings, now).counters

\* The rows the pass rewrites have not changed since its snapshot; otherwise
\* PostgreSQL aborts the REPEATABLE READ transaction.
Serializable(p) == snap[p].findings = FindingsIn(call[p].org)

RecomputeCommit(p) ==
    LET s    == snap[p]
        o    == call[p].org
        now  == call[p].now
        diff == runDiffStreaming(s.certs, s.findings, now)
    IN  /\ Unlocks(p)
        /\ o \notin Broken
        /\ Serializable(p)
        /\ ~ insertConflicts(s.certs, s.findings, now)
        /\ findings' = [k \in Key |->
              IF k \in KeysOf(o) THEN diff.findings[k] ELSE findings[k]]
        /\ recomputed' = [recomputed EXCEPT ![o] = countersOf(s, now)]
        /\ UNCHANGED override

\* An error or a panic rolls back, and the deferred calls unlock.
RecomputeFails(p) == Unlocks(p) /\ UNCHANGED tables

-----------------------------------------------------------------------------
(* The scheduler loop *)

\* The ticker fires and ListOrganizationIDs succeeds.
runOnce(p) ==
    /\ call[p].op = "none"
    /\ sweep[p] = {}
    /\ sweep' = [sweep EXCEPT ![p] = Org]
    /\ UNCHANGED <<clock, certs, tables, lock, call, snap>>

\* Mutant of recomputeOrg: the sweep retries an organization that fails before it goes on.
recomputeOrgStuck(p) ==
    \E o \in sweep[p] :
        /\ \A x \in sweep[p] : o <= x
        /\ Recomputes(p, o)
        /\ sweep' = [sweep EXCEPT ![p] = IF o \in Broken THEN @ ELSE @ \ {o}]
        /\ UNCHANGED <<clock, certs, tables, lock, snap>>

recomputeOrg(p) ==
    \E o \in sweep[p] :
        /\ \A x \in sweep[p] : o <= x
        /\ Recomputes(p, o)
        /\ sweep' = [sweep EXCEPT ![p] = @ \ {o}]
        /\ UNCHANGED <<clock, certs, tables, lock, snap>>

\* The process stops between two organizations, and starts again.
Restart(p) ==
    /\ call[p].op = "none"
    /\ sweep[p] # {}
    /\ sweep' = [sweep EXCEPT ![p] = {}]
    /\ UNCHANGED <<clock, certs, tables, lock, call, snap>>

-----------------------------------------------------------------------------
(* The environment *)

\* An agent's batch brings a certificate: UpsertCertificate.
Ingest(c) ==
    /\ c \notin certs
    /\ certs' = certs \cup {c}
    /\ UNCHANGED <<clock, tables, lock, call, snap, sweep>>

Tick ==
    /\ clock < MaxClock
    /\ clock' = clock + 1
    /\ UNCHANGED <<certs, tables, lock, call, snap, sweep>>

Runs(p) ==
    \/ applyOverride(p)
    \/ OverrideNotFound(p)
    \/ RecomputeLock(p)
    \/ RecomputeCommit(p)
    \/ RecomputeFails(p)
    \/ CallFails(p)

Next ==
    \/ \E p \in Operator, o \in Org :
        \/ Recompute(p, o)
        \/ \E k \in Key : AcknowledgeFinding(p, o, k)
        \/ \E k \in Key, life \in Lifetimes : SuppressFinding(p, o, k, life)
    \/ \E p \in Scheduler : runOnce(p) \/ recomputeOrg(p) \/ Restart(p)
    \/ \E p \in Caller : Runs(p)
    \/ \E c \in Cert : Ingest(c)
    \/ Tick

Spec == Init /\ [][Next]_vars

InOrg(p, o) == call'[p].org = o \/ call[p].org = o
Waits(p, o) == call[p].op = "recompute" /\ call[p].org = o

\* Time passes.  The ticker of a scheduler fires, and restarts do not cut every sweep
\* short before an organization.  PostgreSQL queues the waiters of a lock, so of the
\* waits that begin for an organization some end with the lock; the recomputes of a
\* healthy organization do not all fail, and one that holds the lock ends.  Operators
\* need not do anything.
Fairness ==
    /\ WF_vars(Tick)
    /\ \A p \in Scheduler :
        /\ WF_vars(runOnce(p))
        /\ \A o \in Org :
            /\ SF_vars(recomputeOrg(p) /\ InOrg(p, o))
            /\ ([]<>Waits(p, o)) => []<><<RecomputeLock(p) /\ InOrg(p, o)>>_vars
            /\ o \notin Broken => SF_vars(RecomputeCommit(p) /\ InOrg(p, o))
    /\ \A p \in Caller : WF_vars(RecomputeFails(p) \/ RecomputeCommit(p))

FairSpec == Spec /\ Fairness

-----------------------------------------------------------------------------
(* Properties *)

\* The invariant applyOverride documents, and the one of the Finding type: whatever
\* operators and recomputes do to a row in whatever order, resolved_at is set iff the row
\* is resolved, the override columns iff an override is in force, and an expiry only on a
\* suppression.
RowConsistent ==
    \A k \in Key :
        LET f == findings[k]
        IN  /\ f.resolvedAt # 0 <=> f.status = "resolved"
            /\ f.statusChangedAt # 0 <=> f.status \in {"acknowledged", "suppressed"}
            /\ f.suppressExpiresAt # 0 => f.status = "suppressed"

\* WithTxLockedFindingsRepeatableRead takes the lock before its snapshot: a recompute
\* never works on rows that another recompute or an override has outdated, so it cannot
\* insert a key twice nor write over an operator's decision.
SnapshotIsCurrent ==
    \A p \in Caller : call[p].op = "recomputing" => Serializable(p)

\* applyOverride writes the row and its audit row together: an override that is in force
\* is the one the last audit row of the finding tells of, at the time it tells.
AuditExplainsOverride ==
    \A k \in Key : findings[k].status \in {"acknowledged", "suppressed"} =>
        /\ override[k].status = findings[k].status
        /\ override[k].at = findings[k].statusChangedAt

\* The counters of the findings.recomputed audit row tell what the recompute did to the
\* organization's rows: how many became open, how many became resolved, and that it
\* looked at every one of them.
CountersTellTheChange ==
    [][\A p \in Caller : RecomputeCommit(p) =>
        LET o == call[p].org
            c == recomputed'[o]
            Became(status) == {k \in KeysOf(o) : findings'[k].status = status
                                                  /\ findings[k].status # status}
        IN  /\ c["opened"] = Cardinality(Became("open"))
            /\ c["resolved"] = Cardinality(Became("resolved"))
            /\ c["opened"] + c["updated"] + c["resolved"] + c["unchanged"]
                 = Cardinality({k \in KeysOf(o) : Exists(findings'[k])})]_vars

\* The paged diff visits every certificate and every row, whatever ids the rows have: in
\* every reachable state and for every clock value it leaves the rows and the counters
\* of the load-all diff it replaced, and it never inserts a key that has a row.
StreamingEqualsLoadAll ==
    \A o \in Org, now \in Time :
        /\ runDiffStreaming(CertsIn(o), FindingsIn(o), now)
             = runDiffLoadAll(CertsIn(o), FindingsIn(o), now)
        /\ ~ insertConflicts(CertsIn(o), FindingsIn(o), now)

\* Re-running a recompute over an unchanged inventory at the same time is safe: nothing
\* is opened, nothing is resolved, no row changes.
RecomputeIsIdempotent ==
    \A o \in Org, now \in Time :
        LET once  == runDiffStreaming(CertsIn(o), FindingsIn(o), now)
            twice == runDiffStreaming(CertsIn(o), once.findings, now)
        IN  /\ twice.findings = once.findings
            /\ twice.counters["opened"] = 0 /\ twice.counters["resolved"] = 0

Reported(c, rule) == findings[<<c, rule>>].status \notin {"none", "resolved"}

\* The scheduler gets to every organization although another one's recompute always
\* fails or panics: a certificate that has expired is reported.
ExpiredIsReported ==
    \A c \in Cert : OrgOf[c] \notin Broken =>
        (c \in certs /\ clock > Certificate[c].notAfter) ~> Reported(c, "certificate_expired")

\* A suppression whose time is over does not hide its finding for good.
SuppressionLapses ==
    \A k \in Key : OrgOf[k[1]] \notin Broken =>
        (suppressionExpired(findings[k], clock)) ~> ~ suppressionExpired(findings[k], clock)
=============================================================================
