----------------------------- MODULE Ownership -----------------------------
(***************************************************************************)
(* Certificate ownership of one organization: operator overrides, the      *)
(* derived ownership rows and their explanations, and the five writers     *)
(* that share the per-organization 'ownership-recompute' advisory lock:    *)
(* CreateOverride, ClearOverride, SweepExpiringOverridesPage,              *)
(* PruneExplanationsPage and Recompute / RecomputeNoWait.                  *)
(*                                                                         *)
(*   backend/internal/governance/ownership/*.go                            *)
(*   backend/internal/storage/postgres/governance_ownership_repository.go  *)
(*   backend/internal/storage/postgres/postgres.go                         *)
(*                                                                         *)
(* Every writer reads the clock (and ClearOverride the override it will    *)
(* clear) BEFORE it waits for the lock, so a call has two steps at least.  *)
(* The first four then run one READ COMMITTED transaction that takes the   *)
(* lock first: one step, since nothing else they read changes without the  *)
(* lock but the rules, which they read once.  A recompute takes the lock   *)
(* on its session and then works on the snapshot of a REPEATABLE READ      *)
(* transaction, so it has a step for the snapshot and one for the commit.  *)
(*                                                                         *)
(* A NULL expires_at is Never, a time after every clock value.             *)
(***************************************************************************)
EXTENDS OwnershipEngine, Sequences, FiniteSets

CONSTANTS
    Operations,     \* bound: the writers an instance has
    Caller,         \* concurrent calls into the service, over all replicas
    RuleSets,       \* the sets of enabled rules an operator may leave behind
    MaxClock,       \* bound: clock values are 1..MaxClock
    KeepN,          \* RetentionPolicy.KeepN
    MaxAge,         \* RetentionPolicy.MaxAge
    PageSize,       \* page size of the sweep and of the prune
    PruneLimit,     \* prunePerCertLimit
    AuditThreshold, \* bulkAuditThreshold
    SampleCap,      \* auditSampleCap
    Lifetimes       \* for how long an operator may pin (Never: no expiry)

Time == 1 .. MaxClock
Never == MaxClock + 1

Jobs == {"sweep", "prune"}
Writers == Jobs \cup {"create", "clear", "recompute", "recompute_nowait"}

ASSUME OwnershipAssumption ==
    /\ Operations \subseteq Writers
    /\ Cert \subseteq Nat \ {0} /\ IsFiniteSet(Cert)
    /\ ExpId \subseteq Nat
    /\ RuleSets \subseteq SUBSET Rule /\ {} \in RuleSets
    /\ MaxClock \in Nat \ {0}
    /\ KeepN \in Nat \ {0} /\ MaxAge \in Nat \ {0}
    /\ PageSize \in Nat \ {0} /\ PruneLimit \in Nat \ {0}
    /\ AuditThreshold \in Nat /\ SampleCap \in Nat
    /\ Lifetimes \subseteq Nat \ {0}
    /\ Nil \notin Service \cup OverrideId \cup Caller \cup Nat
    /\ Nil \notin {"assigned", "cleared", "flipped", "ambiguous_match"}

VARIABLES
    clock,
    rules,    \* the enabled ownership_rules
    ov,       \* certificate_ownership_overrides
    own,      \* certificate_ownership
    expl,     \* ownership_match_explanations: decided_at, 0 when there is no such row
    audit,    \* override audit rows, per override
    written,  \* ownership transition rows written by the last transaction
    cursor,   \* the cursors the maintenance scheduler persists for its two jobs
    lock,     \* holder of the advisory lock between two steps
    call,     \* what each caller is doing
    snap      \* the snapshot of each running recompute

tables == <<ov, own, expl, audit, written, cursor>>
vars == <<clock, rules, tables, lock, call, snap>>

Override == [state : {"none", "active", "cleared"}, cert : Cert \cup {Nil},
             service : Service \cup {Nil}, expires : Nat]
NoOverride == [state |-> "none", cert |-> Nil, service |-> Nil, expires |-> 0]

Call == [op : Writers \cup {"none", "recomputing"}, cert : Cert \cup {Nil},
         service : Service \cup {Nil}, expires : Nat,
         override : OverrideId \cup {Nil}, now : Nat]
CallOf(op, c, s, x, o, now) ==
    [op |-> op, cert |-> c, service |-> s, expires |-> x, override |-> o, now |-> now]
Idle == CallOf("none", Nil, Nil, 0, Nil, 0)

Snapshot == [rules : RuleSets, ov : [OverrideId -> Override],
             own : [Cert -> CertificateOwnership]]
NoSnapshot == [rules |-> {}, ov |-> [o \in OverrideId |-> NoOverride],
               own |-> [c \in Cert |-> NoRow]]

AuditRow == [action : {"assigned", "cleared", "flipped", "ambiguous_match"},
             from : Decision, to : Decision, driver : Nat \cup {Nil},
             bulk : BOOLEAN, certs : SUBSET Cert, count : Nat]

Init ==
    /\ clock = 1
    /\ rules = {}
    /\ ov = [o \in OverrideId |-> NoOverride]
    /\ own = [c \in Cert |-> NoRow]
    /\ expl = [c \in Cert |-> [e \in ExpId |-> 0]]
    /\ audit = [o \in OverrideId |-> <<>>]
    /\ written = {}
    /\ cursor = [j \in Jobs |-> 0]
    /\ lock = Nil
    /\ call = [p \in Caller |-> Idle]
    /\ snap = [p \in Caller |-> NoSnapshot]

-----------------------------------------------------------------------------
(* Reads *)

Active(overrides, c) == {o \in OverrideId : overrides[o].state = "active" /\ overrides[o].cert = c}

\* The pin that the engine is given for certificate c: loadActiveOverrides.
ActivePin(overrides, c) ==
    IF Active(overrides, c) = {} THEN NoPin
    ELSE LET o == CHOOSE o \in Active(overrides, c) : TRUE
         IN  [id |-> o, service |-> overrides[o].service, expires |-> overrides[o].expires]

\* The first PageSize certificates of S after the cursor.
Page(S, after) ==
    LET rest == {c \in S : c > after}
    IN  {c \in rest : Cardinality({x \in rest : x < c}) < PageSize}

\* Mutant of NextCursor: the walk never starts over.
NextCursorSticks(page) ==
    IF page = {} THEN CHOOSE c \in Cert : \A x \in Cert : x <= c
    ELSE CHOOSE c \in page : \A x \in page : x <= c

\* The cursor to persist: a short page ends the walk.
NextCursor(page) ==
    IF Cardinality(page) < PageSize THEN 0
    ELSE CHOOSE c \in page : \A x \in page : x <= c

Timeline(c) == {e \in ExpId : expl[c][e] # 0}

\* ORDER BY decided_at DESC, id ASC.
ListedBefore(c, a, b) ==
    \/ expl[c][a] > expl[c][b]
    \/ expl[c][a] = expl[c][b] /\ a < b

KeptByCount(c) ==
    {e \in Timeline(c) : Cardinality({x \in Timeline(c) : ListedBefore(c, x, e)}) < KeepN}

ListPrunableExplanationIDs(c, now) ==
    LET prunable == {e \in Timeline(c) \ KeptByCount(c) :
                        expl[c][e] < now - MaxAge /\ own[c].explanation # e}
    IN  {e \in prunable : Cardinality({x \in prunable : ListedBefore(c, e, x)}) < PruneLimit}

\* Mutant of pruneCertificateExplanations: the pinned explanation is taken to be the
\* newest one, which KeepN protects anyway.
PruneTrustsOrder(c, now) ==
    {e \in Timeline(c) \ KeptByCount(c) : expl[c][e] < now - MaxAge}

\* Mutant of pruneCertificateExplanations: the latest KeepN are counted from 1.
PruneKeepsOneLess(c, now) ==
    {e \in Timeline(c) : /\ expl[c][e] < now - MaxAge
                         /\ own[c].explanation # e
                         /\ Cardinality({x \in Timeline(c) : ListedBefore(c, x, e)}) >= KeepN - 1}

pruneCertificateExplanations(c, now) ==
    ListPrunableExplanationIDs(c, now) \ {own[c].explanation}

-----------------------------------------------------------------------------
(* Calls up to the wait for the lock *)

Starts(p, op) ==
    /\ op \in Operations
    /\ call[p].op = "none"
    /\ call' = [call EXCEPT ![p] = CallOf(op, Nil, Nil, 0, Nil, clock)]
    /\ UNCHANGED <<clock, rules, tables, lock, snap>>

CreateOverride(p, c, s, life) ==
    /\ "create" \in Operations
    /\ call[p].op = "none"
    /\ call' = [call EXCEPT ![p] =
          CallOf("create", c, s, IF clock + life < Never THEN clock + life ELSE Never,
                 Nil, clock)]
    /\ UNCHANGED <<clock, rules, tables, lock, snap>>

\* GetActiveOwnershipOverride runs before the transaction.
ClearOverride(p, c, o) ==
    /\ "clear" \in Operations
    /\ call[p].op = "none"
    /\ o \in Active(ov, c)
    /\ call' = [call EXCEPT ![p] = CallOf("clear", c, Nil, 0, o, clock)]
    /\ UNCHANGED <<clock, rules, tables, lock, snap>>

SweepExpiringOverridesPage(p) == Starts(p, "sweep")
PruneExplanationsPage(p) == Starts(p, "prune")
Recompute(p) == Starts(p, "recompute")
RecomputeNoWait(p) == Starts(p, "recompute_nowait")

\* The call is over; it leaves no lock behind.
Returns(p) == call' = [call EXCEPT ![p] = Idle]

\* WithTxLockedOwnership: the transaction runs when nobody holds the lock.
LockedTx(p, op) ==
    /\ call[p].op = op
    /\ lock = Nil
    /\ Returns(p)
    /\ UNCHANGED <<clock, rules, lock, snap>>

\* An error before the commit (a lost connection, a cancelled context, a failed
\* audit write), or a crash of the replica: the transaction rolls back.
TxFails(p) ==
    /\ call[p].op \in Writers
    /\ Returns(p)
    /\ UNCHANGED <<clock, rules, tables, lock, snap>>

-----------------------------------------------------------------------------
(* The locked transactions *)

\* Explanations e[c] for the certificates in C, decided at now.
WriteExplanations(C, e, now) ==
    /\ \A c \in C : expl[c][e[c]] = 0
    /\ expl' = [c \in Cert |-> [i \in ExpId |->
                  IF c \in C /\ i = e[c] THEN now ELSE expl[c][i]]]

\* The certificates in C are decided by the rules in R and the pins, and diffed against
\* their prior rows.
Derive(C, prior, R, pin, now) ==
    LET d == [c \in Cert |-> decideOwnership(c, pin[c], R, now)]
    IN  \E e \in [Cert -> ExpId] :
          /\ WriteExplanations({c \in C : WritesExplanation(prior[c], d[c])}, e, now)
          /\ own' = [c \in Cert |-> IF c \in C THEN Upserted(prior[c], d[c], e[c]) ELSE prior[c]]

rederiveCertificates(C, pin, now) == Derive(C, own, rules, pin, now)

\* ClearOwnershipOverride and the audit row, for each override in O.
ClearOwnershipOverrides(O, action) ==
    /\ ov' = [o \in OverrideId |->
                IF o \in O THEN [state |-> "cleared", cert |-> ov[o].cert,
                                 service |-> ov[o].service, expires |-> ov[o].expires]
                ELSE ov[o]]
    /\ audit' = [o \in OverrideId |-> IF o \in O THEN Append(audit[o], action) ELSE audit[o]]

CreateOverrideTx(p) ==
    LET in == call[p]
    IN  /\ LockedTx(p, "create")
        /\ Active(ov, in.cert) = {}
        /\ \E o \in OverrideId :
             /\ ov[o].state = "none"
             /\ ov' = [ov EXCEPT ![o] = [state |-> "active", cert |-> in.cert,
                                         service |-> in.service, expires |-> in.expires]]
             /\ rederiveCertificates({in.cert},
                  [c \in Cert |-> [id |-> o, service |-> in.service, expires |-> in.expires]],
                  in.now)
             /\ audit' = [audit EXCEPT ![o] = Append(audit[o], "overridden")]
        /\ written' = {}
        /\ UNCHANGED cursor

\* The partial unique index refuses a second active override, expired or not.
CreateOverrideConflict(p) ==
    /\ LockedTx(p, "create")
    /\ Active(ov, call[p].cert) # {}
    /\ UNCHANGED tables

\* The overrides in O are cleared and their certificates re-derived from the rules.
ClearAndRederive(O, action, now) ==
    /\ ClearOwnershipOverrides(O, action)
    /\ rederiveCertificates({c \in Cert : \E o \in O : ov[o].cert = c},
                            [c \in Cert |-> NoPin], now)
    /\ written' = {}

ClearOverrideTx(p) ==
    /\ LockedTx(p, "clear")
    /\ ov[call[p].override].state = "active"
    /\ ClearAndRederive({call[p].override}, "override_cleared", call[p].now)
    /\ UNCHANGED cursor

\* Mutant of ClearOverrideNotFound: the lost race is taken for a success, and the
\* certificate is re-derived from the rules.
ClearOverrideNotFoundRederives(p) ==
    /\ LockedTx(p, "clear")
    /\ ov[call[p].override].state # "active"
    /\ rederiveCertificates({call[p].cert}, [c \in Cert |-> NoPin], call[p].now)
    /\ written' = {}
    /\ UNCHANGED <<ov, audit, cursor>>

\* Mutant of ClearOverrideNotFound: the lost race is audited as a clear.
ClearOverrideNotFoundAudits(p) ==
    /\ LockedTx(p, "clear")
    /\ ov[call[p].override].state # "active"
    /\ audit' = [audit EXCEPT ![call[p].override] = Append(@, "override_cleared")]
    /\ UNCHANGED <<ov, own, expl, written, cursor>>

\* The override was cleared by somebody else since it was read.
ClearOverrideNotFound(p) ==
    /\ LockedTx(p, "clear")
    /\ ov[call[p].override].state # "active"
    /\ UNCHANGED tables

Expired(overrides, now) ==
    {o \in OverrideId : overrides[o].state = "active" /\ overrides[o].expires <= now}

\* ListExpiringOverridesPaged, sweepOneExpiringOverride for each row, and the cursor
\* that the maintenance job makes of the result.
SweepTx(p) ==
    LET now     == call[p].now
        expired == Expired(ov, now)
        page    == Page({ov[o].cert : o \in expired}, cursor["sweep"])
    IN  /\ LockedTx(p, "sweep")
        /\ ClearAndRederive({o \in expired : ov[o].cert \in page}, "override_expired", now)
        /\ cursor' = [cursor EXCEPT !["sweep"] = NextCursor(page)]

PruneTx(p) ==
    LET now  == call[p].now
        page == Page({c \in Cert : Timeline(c) # {}}, cursor["prune"])
    IN  /\ LockedTx(p, "prune")
        /\ expl' = [c \in Cert |-> [e \in ExpId |->
                      IF c \in page /\ e \in pruneCertificateExplanations(c, now)
                      THEN 0 ELSE expl[c][e]]]
        /\ cursor' = [cursor EXCEPT !["prune"] = NextCursor(page)]
        /\ written' = {}
        /\ UNCHANGED <<ov, own, audit>>

-----------------------------------------------------------------------------
(* The recompute: session lock, snapshot, commit *)

\* Mutant of RecomputeLock: the lock is taken inside the REPEATABLE READ transaction,
\* whose snapshot then predates the wait.
RecomputeSnapshotsFirst(p) ==
    /\ call[p].op \in {"recompute", "recompute_nowait"}
    /\ lock' = p
    /\ call' = [call EXCEPT ![p] = CallOf("recomputing", Nil, Nil, 0, Nil, call[p].now)]
    /\ snap' = [snap EXCEPT ![p] = [rules |-> rules, ov |-> ov, own |-> own]]
    /\ UNCHANGED <<clock, rules, tables>>

\* pg_advisory_lock or pg_try_advisory_lock, then BeginTx(RepeatableRead).
RecomputeLock(p) ==
    /\ call[p].op \in {"recompute", "recompute_nowait"}
    /\ lock = Nil
    /\ lock' = p
    /\ call' = [call EXCEPT ![p] = CallOf("recomputing", Nil, Nil, 0, Nil, call[p].now)]
    /\ snap' = [snap EXCEPT ![p] = [rules |-> rules, ov |-> ov, own |-> own]]
    /\ UNCHANGED <<clock, rules, tables>>

\* ErrRecomputeInProgress.
RecomputeBusy(p) ==
    /\ call[p].op = "recompute_nowait"
    /\ lock # Nil
    /\ Returns(p)
    /\ UNCHANGED <<clock, rules, tables, lock, snap>>

Unlocks(p) ==
    /\ call[p].op = "recomputing"
    /\ Returns(p)
    /\ lock' = Nil
    /\ snap' = [snap EXCEPT ![p] = NoSnapshot]

\* The first SampleCap certificates of a group, which a rollup names.
samples(g) == {c \in g : Cardinality({x \in g : x < c}) < SampleCap}

\* Mutant of auditRow: the rollup counts the samples it carries.
auditRowOfSamples(k, g, c) ==
    LET bulk == Cardinality(g) > AuditThreshold
    IN  [action |-> k.action, from |-> k.from, to |-> k.to, driver |-> k.driver, bulk |-> bulk,
         certs |-> IF bulk THEN samples(g) ELSE {c},
         count |-> IF bulk THEN Cardinality(samples(g)) ELSE 1]

\* The row about certificate c of the group g with key k: addAudit rolls a group up
\* when it outgrows the threshold.
auditRow(k, g, c) ==
    LET bulk == Cardinality(g) > AuditThreshold
    IN  [action |-> k.action, from |-> k.from, to |-> k.to, driver |-> k.driver, bulk |-> bulk,
         certs |-> IF bulk THEN samples(g) ELSE {c},
         count |-> IF bulk THEN Cardinality(g) ELSE 1]

auditGroupKey(prior, d) == [action |-> accumAudit(prior, d), from |-> prior.decision,
                            to |-> d.decision, driver |-> d.rule]

\* emitAuditGroups over the transitions that processCert accumulated.
auditGroups(prior, d) ==
    LET key     == [c \in Cert |-> auditGroupKey(prior[c], d[c])]
        changed == {c \in Cert : ownerChanged(prior[c], d[c]) /\ key[c].action # Nil}
    IN  {auditRow(key[c], {x \in changed : key[x] = key[c]}, c) : c \in changed}

\* The rows the pass rewrites have not changed since its snapshot; otherwise
\* PostgreSQL aborts the REPEATABLE READ transaction.
Serializable(p) == snap[p].own = own /\ snap[p].ov = ov

\* runRecomputeTx: expired overrides are cleared and every certificate decided.
RecomputeCommit(p) ==
    LET s   == snap[p]
        now == call[p].now
        pin == [c \in Cert |-> ActivePin(s.ov, c)]
    IN  /\ Unlocks(p)
        /\ Serializable(p)
        /\ Derive(Cert, s.own, s.rules, pin, now)
        /\ ClearOwnershipOverrides(Expired(s.ov, now), "override_expired")
        /\ written' = auditGroups(s.own,
                          [c \in Cert |-> decideOwnership(c, pin[c], s.rules, now)])
        /\ UNCHANGED <<clock, rules, cursor>>

RecomputeFails(p) == Unlocks(p) /\ UNCHANGED <<clock, rules, tables>>

-----------------------------------------------------------------------------
(* The environment *)

\* CreateRule, UpdateRule, EnableRule and DisableRule commit without the lock.
RulesChange(R) ==
    /\ rules # R
    /\ rules' = R
    /\ UNCHANGED <<clock, tables, lock, call, snap>>

Tick ==
    /\ clock < MaxClock
    /\ clock' = clock + 1
    /\ UNCHANGED <<rules, tables, lock, call, snap>>

Runs(p) ==
    \/ CreateOverrideTx(p) \/ CreateOverrideConflict(p)
    \/ ClearOverrideTx(p) \/ ClearOverrideNotFound(p)
    \/ SweepTx(p) \/ PruneTx(p)
    \/ RecomputeLock(p) \/ RecomputeBusy(p) \/ RecomputeCommit(p)

Next ==
    \/ \E p \in Caller :
         \/ \E c \in Cert, s \in Service, life \in Lifetimes : CreateOverride(p, c, s, life)
         \/ \E c \in Cert, o \in OverrideId : ClearOverride(p, c, o)
         \/ SweepExpiringOverridesPage(p) \/ PruneExplanationsPage(p)
         \/ Recompute(p) \/ RecomputeNoWait(p)
         \/ Runs(p)
         \/ TxFails(p) \/ RecomputeFails(p)
    \/ \E R \in RuleSets : RulesChange(R)
    \/ Tick

Spec == Init /\ [][Next]_vars

\* A driver calls the sweep again and again, a call that waits for the lock or holds it
\* ends, and not every sweep fails.
Fairness ==
    \A p \in Caller :
        /\ SF_vars(SweepExpiringOverridesPage(p))
        /\ SF_vars(SweepTx(p))
        /\ WF_vars(Runs(p) \/ TxFails(p) \/ RecomputeFails(p))

FairSpec == Spec /\ Fairness

-----------------------------------------------------------------------------
(* Properties *)

\* The override that governs a certificate is the only active one it has: the stored
\* row names exactly the set of its active overrides, and says "overridden" exactly
\* when there is one.  Creating, clearing, sweeping and recomputing keep the two
\* tables in step whatever each of them read before it got the lock.
OverrideGoverns ==
    \A c \in Cert :
        /\ Active(ov, c) = {own[c].override} \ {Nil}
        /\ own[c].decision = "overridden" <=> own[c].override # Nil

\* The explanation a row points at exists: the retention prune never removes it, not
\* even when a later explanation carries an earlier decided_at.
PinnedExplanationExists ==
    \A c \in Cert : own[c].exists =>
        /\ own[c].explanation \in ExpId
        /\ expl[c][own[c].explanation] # 0

\* What the pass of a recompute writes rests on the tables as they are: its snapshot
\* is taken after the previous holder of the lock committed, so that the transaction
\* cannot fail on a concurrent update or a duplicate key.
SnapshotIsCurrent == \A p \in Caller : call[p].op = "recomputing" => Serializable(p)

\* The audit trail of an override is exactly its life: set, then cleared by an operator
\* or auto-expired, once, and auto-expired only after its expiry.
AuditTellsOverrideLife ==
    \A o \in OverrideId :
        \/ ov[o].state = "none" /\ audit[o] = <<>>
        \/ ov[o].state = "active" /\ audit[o] = <<"overridden">>
        \/ ov[o].state = "cleared" /\ audit[o] = <<"overridden", "override_cleared">>
        \/ /\ ov[o].state = "cleared" /\ audit[o] = <<"overridden", "override_expired">>
           /\ ov[o].expires <= clock

\* A certificate changes owner only in a transaction that leaves an audit row about it:
\* a row of the override that moved it, a transition row that names it, or a rollup
\* whose count is the number of certificates that made the same transition.
OwnerChangesAreAudited ==
    [][\A c \in Cert : own'[c].service # own[c].service =>
         \/ \E o \in OverrideId : ov'[o].cert = c /\ audit'[o] # audit[o]
         \/ \E w \in written' :
              \/ ~ w.bulk /\ w.certs = {c}
              \/ /\ w.bulk
                 /\ w.from = own[c].decision /\ w.to = own'[c].decision
                 /\ w.driver = own'[c].rule
                 /\ w.count = Cardinality({x \in Cert :
                       /\ own[x].decision = w.from /\ own'[x].decision = w.to
                       /\ own'[x].rule = w.driver
                       /\ accumAudit(own[x], own'[x]) = w.action
                       /\ ownerChanged(own[x], own'[x])})]_vars

\* An explanation disappears only if it is not the one its row points at, is not among
\* the KeepN newest, and is older than MaxAge, at the time of the deletion (the prune
\* reads the clock earlier).
PruneRespectsPolicy ==
    [][\A c \in Cert : \A e \in Timeline(c) :
         expl'[c][e] = 0 =>
            /\ own'[c].explanation # e
            /\ e \notin KeptByCount(c)
            /\ expl[c][e] < clock - MaxAge]_vars

\* An override whose expiry has passed does not stay active: the sweep reaches it,
\* wherever its certificate lies relative to the persisted cursor.
ExpiredIsCleared ==
    \A o \in OverrideId :
        (ov[o].state = "active" /\ ov[o].expires <= clock) ~> ov[o].state = "cleared"
=============================================================================
