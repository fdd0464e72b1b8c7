----------------------------- MODULE Inventory -----------------------------
(***************************************************************************)
(* What agents report (backend/internal/inventory and agentinventory):     *)
(* batches of certificates, merged into certificate rows that all agents   *)
(* share and into one observation row per agent, certificate and store,    *)
(* and a snapshot of the machine.  The model covers one organization; the  *)
(* keys of every table begin with the organization, so organizations never *)
(* meet.                                                                   *)
(*                                                                         *)
(* The variables hold committed rows.  A Submit writes in one READ         *)
(* COMMITTED transaction: its rows stay in its call record, locked, until  *)
(* it commits.  Batches may come late, in any order, and more than once.   *)
(***************************************************************************)
EXTENDS Naturals, Sequences, FiniteSets, SequencesExt, Relation

CONSTANTS
    Agent, Cert, Store,   \* sets of numbers: listings order by them
    Batches,              \* what agents send
    Caller,
    maxClockSkew,
    MaxClock,             \* bound of the model: the last clock value
    MaxSubmits,           \* bound of the model: requests that are started
    MaxFaults,            \* bound of the model: calls that fail
    Nil

ASSUME InventoryAssumption ==
    /\ Agent \subseteq Nat \ {0} /\ Cert \subseteq Nat \ {0} /\ Store \subseteq Nat \ {0}
    /\ IsFiniteSet(Agent) /\ IsFiniteSet(Cert) /\ IsFiniteSet(Store) /\ IsFiniteSet(Caller)
    /\ maxClockSkew \in Nat /\ MaxClock \in Nat \ {0}
    /\ MaxSubmits \in Nat /\ MaxFaults \in Nat
    /\ Nil \notin Nat

\* One entry of a batch: a certificate seen in a store, or a PEM that is none.
Entry == [cert : Cert, store : Store, pem : {"certificate", "private_key", "unparseable"}]

\* collectedAt 0 stands for a missing collected_at.
Batch == [agent : Agent, collectedAt : Nat, coverage : Seq(Store), entries : Seq(Entry)]

ASSUME BatchesAssumption == Batches \subseteq Batch

Time == 1 .. MaxClock + maxClockSkew

Key == Agent \X Cert \X Store

CertRow == [first : Time, last : Time]
ObsRow  == [first : Time, last : Time, removed : Time \cup {Nil}]

ASSUME NilAssumption == Nil \notin Batches \cup CertRow \cup ObsRow

reasons == {"agent.certificate_batch_rejected", "agent.certificate_batch_invalid"}

VARIABLES
    certs,      \* the certificate rows
    obs,        \* the observation rows
    snapshots,  \* when each agent's machine snapshot was received
    audit,      \* the number of audit rows of each kind
    call,       \* the calls in progress
    clock, submits, faults,
    log         \* history: the batches in the order they were committed

inventoryVars == <<certs, obs, snapshots, audit, call, clock, submits, faults, log>>

\* newCerts and newObs are the rows the transaction has written; reason is what an audited
\* refusal writes; now is the clock the call has read.
NoCall == [pc |-> "idle", batch |-> Nil, next |-> 1, newCerts |-> <<>>, newObs |-> <<>>,
           reason |-> Nil, agent |-> Nil, now |-> 0]

InventoryInit ==
    /\ certs = [c \in Cert |-> Nil]
    /\ obs = [k \in Key |-> Nil]
    /\ snapshots = [a \in Agent |-> Nil]
    /\ audit = [r \in reasons |-> 0]
    /\ call = [p \in Caller |-> NoCall]
    /\ clock = 1 /\ submits = 0 /\ faults = 0
    /\ log = <<>>

Go(p, rec) == call' = [call EXCEPT ![p] = rec]

\* Function f with the rows of g in place of its own.
Overlay(f, g) == [x \in DOMAIN f |-> IF x \in DOMAIN g THEN g[x] ELSE f[x]]

\* Function g with row v at x.
Put(g, x, v) == [y \in DOMAIN g \cup {x} |-> IF y = x THEN v ELSE g[y]]

Earlier(t, u) == IF t < u THEN t ELSE u
Later(t, u) == IF t > u THEN t ELSE u

----------------------------------------------------------------------------
(* What Submit refuses before it opens a transaction, in the order of its checks. *)

\* The handler's caps: a batch needs a store and an entry.
validateRequestShape(b) == b.coverage # <<>> /\ b.entries # <<>>

shapeOK(b, now) ==
    /\ \A i, j \in DOMAIN b.coverage : i # j => b.coverage[i] # b.coverage[j]
    /\ b.collectedAt # 0
    /\ b.collectedAt <= now + maxClockSkew

containsPrivateKey(b) == \E i \in DOMAIN b.entries : b.entries[i].pem = "private_key"

storesCovered(b) ==
    \A i \in DOMAIN b.entries : \E j \in DOMAIN b.coverage : b.coverage[j] = b.entries[i].store

Unparseable(b, i) == b.entries[i].pem = "unparseable"

Duplicate(b, i) ==
    \E j \in 1 .. i - 1 : <<b.entries[j].cert, b.entries[j].store>>
                          = <<b.entries[i].cert, b.entries[i].store>>

\* The loop over the entries stops at the first one it cannot use.
firstBad(b) == SelectInSeq([i \in DOMAIN b.entries |-> i],
                           LAMBDA i : Unparseable(b, i) \/ Duplicate(b, i))

\* Mutant of verdict: the stores are checked before the scan for private keys.
verdictStoresFirst(b, now) ==
    CASE ~ validateRequestShape(b) \/ ~ shapeOK(b, now) \/ ~ storesCovered(b) -> "refuse"
      [] OTHER -> IF containsPrivateKey(b) THEN "agent.certificate_batch_rejected"
                  ELSE IF firstBad(b) = 0 THEN "accept"
                  ELSE IF Unparseable(b, firstBad(b)) THEN "agent.certificate_batch_invalid"
                  ELSE "refuse"

\* "accept", "refuse" without a trace, or the audit event a refusal leaves.
verdict(b, now) ==
    IF ~ validateRequestShape(b) \/ ~ shapeOK(b, now) THEN "refuse"
    ELSE IF containsPrivateKey(b) THEN "agent.certificate_batch_rejected"
    ELSE IF ~ storesCovered(b) THEN "refuse"
    ELSE IF firstBad(b) = 0 THEN "accept"
    ELSE IF Unparseable(b, firstBad(b)) THEN "agent.certificate_batch_invalid"
    ELSE "refuse"

\* A request of an authenticated agent.
AgentCertificatesIngest(p, b) ==
    /\ call[p].pc = "idle" /\ submits < MaxSubmits
    /\ submits' = submits + 1
    /\ Go(p, [NoCall EXCEPT !.pc = "check", !.batch = b, !.agent = b.agent])
    /\ UNCHANGED <<certs, obs, snapshots, audit, clock, faults, log>>

\* The checks of Submit read nothing but the clock.
Submit(p) ==
    /\ call[p].pc = "check"
    /\ LET v == verdict(call[p].batch, clock)
       IN  \/ v = "accept" /\ Go(p, [call[p] EXCEPT !.pc = "lock"])
           \/ v \in reasons /\ Go(p, [call[p] EXCEPT !.pc = "audit", !.reason = v])
           \/ v = "refuse" /\ Go(p, NoCall)
    /\ UNCHANGED <<certs, obs, snapshots, audit, clock, submits, faults, log>>

\* recordBatchRejection and recordBatchInvalid: the one write of a refused batch.
RecordRefusal(p) ==
    /\ call[p].pc = "audit"
    /\ audit' = [audit EXCEPT ![call[p].reason] = @ + 1]
    /\ Go(p, NoCall)
    /\ UNCHANGED <<certs, obs, snapshots, clock, submits, faults, log>>

----------------------------------------------------------------------------
(* The transaction of an accepted batch. *)

\* Mutant of AgentLockFree: each caller has a lock of its own.
AgentLockAlwaysFree(p, a) == TRUE

\* Mutant of AgentLockFree: those who wait hold the lock too.
AgentLockHeldByWaiters(p, a) ==
    \A q \in Caller \ {p} : ~ (call[q].pc \in {"lock", "upsert"} /\ call[q].agent = a)

\* Nobody else holds the advisory lock of agent a.
AgentLockFree(p, a) == \A q \in Caller \ {p} : ~ (call[q].pc = "upsert" /\ call[q].agent = a)

\* WithTxLockedAgent.
LockAgent(p) ==
    /\ call[p].pc = "lock"
    /\ AgentLockFree(p, call[p].agent)
    /\ Go(p, [call[p] EXCEPT !.pc = "upsert"])
    /\ UNCHANGED <<certs, obs, snapshots, audit, clock, submits, faults, log>>

\* p's transaction has written certificate row c and not yet ended.
Holds(p, c) == c \in DOMAIN call[p].newCerts

\* Mutant of UpsertCertificate: the last report to arrive is the last time seen.
UpsertCertificateByArrival(row, t) ==
    IF row = Nil THEN [first |-> t, last |-> t]
    ELSE [first |-> Earlier(row.first, t), last |-> t]

\* The rows after the two upserts, and after the reconciliation of what a batch misses.
UpsertCertificate(row, t) ==
    IF row = Nil THEN [first |-> t, last |-> t]
    ELSE [first |-> Earlier(row.first, t), last |-> Later(row.last, t)]

UpsertObservation(row, t) ==
    IF row = Nil THEN [first |-> t, last |-> t, removed |-> Nil]
    ELSE [first |-> Earlier(row.first, t), last |-> Later(row.last, t),
          removed |-> IF t >= row.last THEN Nil ELSE row.removed]

\* The certificates batch b reports, in whichever store.
observedCertIDs(b) == {b.entries[i].cert : i \in DOMAIN b.entries}

\* Mutant of Missing: the row may be newer than the batch.
MissingIgnoresAge(b, k, row) ==
    /\ k[1] = b.agent /\ k[3] \in ToSet(b.coverage) /\ k[2] \notin observedCertIDs(b)
    /\ row # Nil /\ row.removed = Nil

\* MarkMissingObservationsRemoved takes row k for removed.  The certificate counts as
\* reported when it is in any store of the batch.
Missing(b, k, row) ==
    /\ k[1] = b.agent /\ k[3] \in ToSet(b.coverage) /\ k[2] \notin observedCertIDs(b)
    /\ row # Nil /\ row.removed = Nil /\ row.last <= b.collectedAt

\* The next entry's two upserts.  The first waits for the lock of the certificate row.
UpsertEntry(p) ==
    /\ call[p].pc = "upsert" /\ call[p].next <= Len(call[p].batch.entries)
    /\ LET b == call[p].batch
           e == b.entries[call[p].next]
           k == <<b.agent, e.cert, e.store>>
       IN  /\ \A q \in Caller \ {p} : ~ Holds(q, e.cert)
           /\ Go(p, [call[p] EXCEPT
                !.next = @ + 1,
                !.newCerts = Put(@, e.cert, UpsertCertificate(
                                    Overlay(certs, call[p].newCerts)[e.cert], b.collectedAt)),
                !.newObs = Put(@, k, UpsertObservation(
                                    Overlay(obs, call[p].newObs)[k], b.collectedAt))])
    /\ UNCHANGED <<certs, obs, snapshots, audit, clock, submits, faults, log>>

\* Reconciliation and commit.
Commit(p) ==
    /\ call[p].pc = "upsert" /\ call[p].next > Len(call[p].batch.entries)
    /\ LET b    == call[p].batch
           mine == Overlay(obs, call[p].newObs)
       IN  /\ obs' = [k \in Key |-> IF Missing(b, k, mine[k])
                                    THEN [mine[k] EXCEPT !.removed = b.collectedAt] ELSE mine[k]]
           /\ certs' = Overlay(certs, call[p].newCerts)
           /\ log' = Append(log, b)
    /\ Go(p, NoCall)
    /\ UNCHANGED <<snapshots, audit, clock, submits, faults>>

\* p waits for a certificate row that q has written.
WaitsFor(p, q) ==
    /\ p # q /\ call[p].pc = "upsert" /\ call[p].next <= Len(call[p].batch.entries)
    /\ Holds(q, call[p].batch.entries[call[p].next].cert)

\* The database ends a cycle of waits by aborting one transaction of it.
DeadlockDetected(p) ==
    /\ \E q \in Caller : WaitsFor(p, q)
    /\ TransitiveClosure([w \in Caller \X Caller |-> WaitsFor(w[1], w[2])], Caller)[p, p]
    /\ Go(p, NoCall)
    /\ UNCHANGED <<certs, obs, snapshots, audit, clock, submits, faults, log>>

----------------------------------------------------------------------------
(* Machine snapshots: the clock is read first, the row replaced by a later statement. *)

SubmitSnapshot(p, a) == Go(p, [NoCall EXCEPT !.pc = "snapshot", !.agent = a, !.now = clock])

\* Every field of the body is optional.
AgentInventorySubmit(p, a) ==
    /\ call[p].pc = "idle" /\ submits < MaxSubmits
    /\ submits' = submits + 1
    /\ SubmitSnapshot(p, a)
    /\ UNCHANGED <<certs, obs, snapshots, audit, clock, faults, log>>

UpsertSnapshot(p) ==
    /\ call[p].pc = "snapshot"
    /\ snapshots' = [snapshots EXCEPT ![call[p].agent] = call[p].now]
    /\ Go(p, NoCall)
    /\ UNCHANGED <<certs, obs, audit, clock, submits, faults, log>>

----------------------------------------------------------------------------
\* A call may meet a database error anywhere; its transaction is rolled back.
CallFails(p) ==
    /\ call[p].pc # "idle" /\ faults < MaxFaults
    /\ faults' = faults + 1
    /\ Go(p, NoCall)
    /\ UNCHANGED <<certs, obs, snapshots, audit, clock, submits, log>>

Tick == /\ clock < MaxClock
        /\ clock' = clock + 1
        /\ UNCHANGED <<certs, obs, snapshots, audit, call, submits, faults, log>>

Step(p) == \/ Submit(p) \/ RecordRefusal(p) \/ LockAgent(p) \/ UpsertEntry(p) \/ Commit(p)
           \/ DeadlockDetected(p) \/ UpsertSnapshot(p)

InventoryNext ==
    \/ Tick
    \/ \E p \in Caller : \/ Step(p)
                         \/ CallFails(p)
                         \/ \E b \in Batches : AgentCertificatesIngest(p, b)
                         \/ \E a \in Agent : AgentInventorySubmit(p, a)

\* A call that can go on does; a wait for a row lock ends with its holder or by the
\* database's deadlock detector.
InventoryFairness == \A p \in Caller : WF_inventoryVars(Step(p))

----------------------------------------------------------------------------
(* Properties. *)

InventoryTypeOK ==
    /\ certs \in [Cert -> CertRow \cup {Nil}]
    /\ obs \in [Key -> ObsRow \cup {Nil}]
    /\ snapshots \in [Agent -> 1 .. MaxClock \cup {Nil}]
    /\ audit \in [reasons -> Nat]
    /\ \A p \in Caller :
        /\ call[p].pc \in {"idle", "check", "audit", "lock", "upsert", "snapshot"}
        /\ call[p].pc \in {"check", "audit", "lock", "upsert"} => call[p].batch \in Batches
        /\ \A c \in DOMAIN call[p].newCerts : c \in Cert /\ call[p].newCerts[c] \in CertRow
        /\ \A k \in DOMAIN call[p].newObs : k \in Key /\ call[p].newObs[k] \in ObsRow
    /\ clock \in 1 .. MaxClock /\ submits \in 0 .. MaxSubmits /\ faults \in 0 .. MaxFaults
    /\ log \in Seq(Batches)

SeenBy(c) == {k \in Key : k[2] = c /\ obs[k] # Nil}

\* A certificate row spans its observations by all agents: batches of two agents that merge
\* into the same row at the same time lose no update, in whichever order they arrive.
CertificateSpansObservations ==
    \A c \in Cert :
        /\ (certs[c] = Nil) <=> (SeenBy(c) = {})
        /\ certs[c] # Nil =>
            /\ \A k \in SeenBy(c) : certs[c].first <= obs[k].first /\ obs[k].last <= certs[c].last
            /\ \E k \in SeenBy(c) : obs[k].first = certs[c].first
            /\ \E k \in SeenBy(c) : obs[k].last = certs[c].last

\* The committed batches that cover the store of row k, those that report its certificate
\* there, and those that do not.
Covers(k) == {i \in DOMAIN log : log[i].agent = k[1] /\ k[3] \in ToSet(log[i].coverage)}
Reports(k) == {i \in DOMAIN log : /\ log[i].agent = k[1]
                                  /\ \E n \in DOMAIN log[i].entries :
                                        /\ log[i].entries[n].cert = k[2]
                                        /\ log[i].entries[n].store = k[3]}
Lacks(k) == Covers(k) \ Reports(k)
At(i) == log[i].collectedAt

\* The batches that cover the store were committed in the order they were collected in, and
\* none of them has the certificate in another store only.
InOrder(k) == \A i, j \in Covers(k) : i < j => At(i) <= At(j)
StaysPut(k) == \A i \in Lacks(k) : k[2] \notin observedCertIDs(log[i])

\* An observation row is what the agent said of that store (UpsertObservation,
\* MarkMissingObservationsRemoved), although its batches overlap, repeat, come late and fail
\* half way.  The row spans its reports.  It is removed only by a batch that lacks it and is
\* as new as every report, so an old batch never takes back what a newer one reported.  Of
\* batches that come in order the last one decides: the row is current exactly when that
\* batch reports it, provided the certificate never turns up in another store instead.
ObservationsFollowReports ==
    \A k \in Key :
        /\ (obs[k] = Nil) <=> (Reports(k) = {})
        /\ obs[k] # Nil =>
            /\ \A i \in Reports(k) : obs[k].first <= At(i) /\ At(i) <= obs[k].last
            /\ \E i \in Reports(k) : At(i) = obs[k].first
            /\ \E i \in Reports(k) : At(i) = obs[k].last
            /\ obs[k].removed # Nil =>
                \E i \in Lacks(k) : /\ At(i) = obs[k].removed
                                    /\ \A j \in Reports(k) : At(j) <= At(i)
            /\ \A n \in Covers(k) :
                (\A i \in Covers(k) : i <= n) /\ InOrder(k) /\ StaysPut(k)
                    => (obs[k].removed = Nil <=> n \in Reports(k))

\* What the documentation says of a commit: the stores a batch covers are reconciled one by
\* one, a row the batch reports is current and any other row of such a store is removed
\* (CERTIFICATE_INVENTORY.md); "an older batch arriving after a newer batch leaves removed_at
\* untouched" (UpsertObservation).  The code takes a certificate for reported when it is in
\* any store of the batch, and compares a late report with last_seen_at, which a removal does
\* not move.
BatchSettlesItsStores ==
    [][\A k \in Key, b \in Batches :
          obs[k] # Nil /\ log' = Append(log, b) /\ Len(log') \in Covers(k)' =>
            /\ (\A i \in Covers(k) : At(i) <= b.collectedAt)
                 => (obs'[k].removed = Nil <=> Len(log') \in Reports(k)')
            /\ (\E i \in Covers(k) : At(i) > b.collectedAt)
                 => obs'[k].removed = obs[k].removed]_inventoryVars

\* A batch with private key material that is complete enough to be looked at ends with an
\* audit row, whatever else is wrong with it, unless the call fails; and it leaves no row.
KeyMaterialIsAudited ==
    [][\A p \in Caller :
          /\ call[p] # call'[p] /\ call'[p].pc = "idle"
          /\ call[p].batch # Nil /\ containsPrivateKey(call[p].batch)
          /\ validateRequestShape(call[p].batch) /\ shapeOK(call[p].batch, clock)
          => /\ UNCHANGED <<certs, obs>>
             /\ faults' = faults => audit'["agent.certificate_batch_rejected"]
                                    = audit["agent.certificate_batch_rejected"] + 1]_inventoryVars

\* Every request ends, also when two agents' batches take certificate rows in opposite order.
SubmitEnds == \A p \in Caller : call[p].pc # "idle" ~> call[p].pc = "idle"
=============================================================================
