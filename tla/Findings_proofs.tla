--------------------------- MODULE Findings_proofs ---------------------------
(***************************************************************************)
(* Proofs about Findings, for every number of organizations, certificates, *)
(* callers and clock values, and for every set of rules and page size.     *)
(*                                                                         *)
(* The inductive invariant adds to the three properties that the state has *)
(* its type, that a call carries the arguments of its operation, and that  *)
(* a recompute past its snapshot holds its organization's lock.  What the  *)
(* paged diff visits does not matter for it: whichever rows it diffs,      *)
(* keeps or inserts, each one stays consistent with its override columns.  *)
(*                                                                         *)
(* The second half is about the diff.  Paging through a finite set of ids  *)
(* visits all of it, whatever the page size, by a smallest counterexample: *)
(* a cursor with the fewest ids past it from which the walk goes wrong.    *)
(* So the paged diff is the load-all one, and the rest follows from what   *)
(* the two transitions do to one row.                                      *)
(***************************************************************************)
EXTENDS Findings, NaturalOrder, FiniteSetTheorems

Overriding == {"acknowledged", "suppressed"}

RowOK(f) ==
    /\ f.resolvedAt # 0 <=> f.status = "resolved"
    /\ f.statusChangedAt # 0 <=> f.status \in Overriding
    /\ f.suppressExpiresAt # 0 => f.status = "suppressed"

\* A transition of a recompute: the new row is consistent, and an override in it is the old one.
Follows(g, f) ==
    /\ g \in Finding
    /\ RowOK(g)
    /\ g.status \in Overriding => g.status = f.status /\ g.statusChangedAt = f.statusChangedAt

StateType ==
    /\ clock \in Time
    /\ certs \subseteq Cert
    /\ findings \in [Key -> Finding]
    /\ override \in [Key -> AuditRow]
    /\ lock \in [Org -> Caller \cup {Nil}]
    /\ call \in [Caller -> Call]
    /\ snap \in [Caller -> Snapshot]
    /\ sweep \in [Scheduler -> SUBSET Org]

CallArgs ==
    \A p \in Caller :
        /\ call[p].op # "none" => call[p].org \in Org /\ call[p].now # 0
        /\ call[p].op = "override" =>
            /\ call[p].key \in Key
            /\ call[p].status \in Overriding
            /\ call[p].expires # 0 => call[p].status = "suppressed"

HoldsLock ==
    \A p \in Caller : call[p].op = "recomputing" => lock[call[p].org] = p

\* What organization o reads of the rows F.
RowsIn(F, o) == [k \in Key |-> IF OrgOf[k[1]] = o THEN F[k] ELSE NoFinding]

CallInv == CallArgs /\ HoldsLock /\ SnapshotIsCurrent
RowInv == RowConsistent /\ AuditExplainsOverride
Inv == StateType /\ CallInv /\ RowInv

-----------------------------------------------------------------------------
(* The lifecycle of one row *)

\* decideMatchTransition keeps a row consistent and an override in force as it was.
LEMMA MatchFollows ==
    ASSUME NEW f \in Finding, RowOK(f), NEW now \in Nat \ {0}
    PROVE  Follows(decideMatchTransition(f, now), f)
  <1>1. CASE f.status = "none"
    <2>1. decideMatchTransition(f, now) = Automatic("open", now, now, 0, now)
      BY <1>1 DEF decideMatchTransition, suppressionExpired
    <2>. QED
      BY <2>1 DEF Follows, Automatic, Finding, Status, RowOK, Overriding
  <1>2. CASE f.status # "none" /\ (f.status = "resolved" \/ suppressionExpired(f, now))
    <2>1. decideMatchTransition(f, now) = Automatic("open", f.firstSeenAt, now, 0, now)
      BY <1>2 DEF decideMatchTransition
    <2>. QED
      BY <2>1 DEF Follows, Automatic, Finding, Status, RowOK, Overriding
  <1>3. CASE f.status # "none" /\ ~ (f.status = "resolved" \/ suppressionExpired(f, now))
    <2>1. decideMatchTransition(f, now) = Confirmed(f, now)
      BY <1>3 DEF decideMatchTransition
    <2>. QED
      BY <2>1 DEF Follows, Confirmed, Finding, Status, RowOK, Overriding
  <1>. QED
    BY <1>1, <1>2, <1>3

\* So does decideNoMatchTransition.
LEMMA NoMatchFollows ==
    ASSUME NEW f \in Finding, RowOK(f), NEW now \in Nat \ {0}
    PROVE  Follows(decideNoMatchTransition(f, now), f)
  <1>1. CASE f.status \in {"none", "resolved"}
    BY <1>1 DEF decideNoMatchTransition, Follows
  <1>2. CASE f.status \notin {"none", "resolved"}
    <2>1. decideNoMatchTransition(f, now)
            = Automatic("resolved", f.firstSeenAt, f.lastSeenAt, now, now)
      BY <1>2 DEF decideNoMatchTransition
    <2>. QED
      BY <2>1 DEF Follows, Automatic, Finding, Status, RowOK, Overriding
  <1>. QED
    BY <1>1, <1>2

\* There being no row is consistent.
LEMMA NoFindingOK == NoFinding \in Finding /\ RowOK(NoFinding)
  BY DEF NoFinding, Finding, Status, RowOK, Overriding

\* Whatever the paged diff visits, the row it leaves follows the row of the snapshot.
LEMMA StreamedFollows ==
    ASSUME NEW matches, NEW visited, NEW F \in [Key -> Finding], NEW k \in Key,
           RowOK(F[k]), NEW now \in Nat \ {0}
    PROVE  Follows(streamedRow(matches, visited, F, k, now), F[k])
  <1>1. CASE k \in visited /\ k \in matches
    BY <1>1, MatchFollows DEF streamedRow
  <1>2. CASE k \in visited /\ k \notin matches
    BY <1>2, NoMatchFollows DEF streamedRow
  <1>3. CASE k \notin visited /\ k \in matches
    <2>1. streamedRow(matches, visited, F, k, now) = decideMatchTransition(NoFinding, now)
      BY <1>3 DEF streamedRow
    <2>2. Follows(decideMatchTransition(NoFinding, now), NoFinding)
      BY NoFindingOK, MatchFollows
    <2>. QED
      BY <2>1, <2>2 DEF Follows, NoFinding, Overriding
  <1>4. CASE k \notin visited /\ k \notin matches
    BY <1>4 DEF streamedRow, Follows
  <1>. QED
    BY <1>1, <1>2, <1>3, <1>4

-----------------------------------------------------------------------------
(* Steps that leave the rows alone *)

\* The initial state satisfies the invariant.
LEMMA InitInv == Init => Inv
  <1>. SUFFICES ASSUME Init PROVE Inv
    OBVIOUS
  <1>1. StateType
    <2>1. Idle \in Call
      BY DEF Idle, Call
    <2>2. NoSnapshot \in Snapshot
      BY NoFindingOK DEF NoSnapshot, Snapshot
    <2>3. NoAudit \in AuditRow
      BY DEF NoAudit, AuditRow
    <2>. QED
      BY <2>1, <2>2, <2>3, NoFindingOK, FindingsAssumption DEF Init, StateType, Time
  <1>2. CallInv
    BY DEF Init, CallInv, CallArgs, HoldsLock, SnapshotIsCurrent, Idle
  <1>3. RowInv
    BY DEF Init, RowInv, RowConsistent, AuditExplainsOverride, NoFinding
  <1>. QED
    BY <1>1, <1>2, <1>3 DEF Inv

\* A recompute that begins reads the clock; nothing else of the invariant is concerned.
LEMMA RecomputesInv ==
    ASSUME Inv, NEW p \in Caller, NEW o \in Org, Recomputes(p, o),
           UNCHANGED <<clock, certs, tables, lock, snap>>, sweep' \in [Scheduler -> SUBSET Org]
    PROVE  Inv'
  <1> DEFINE c == [op |-> "recompute", org |-> o, key |-> Nil,
                   status |-> "none", expires |-> 0, now |-> clock]
  <1>1. clock \in Nat /\ clock # 0
    BY FindingsAssumption DEF Inv, StateType, Time
  <1>2. c \in Call
    BY <1>1 DEF Call
  <1>3. /\ call' = [call EXCEPT ![p] = c]
        /\ call' \in [Caller -> Call]
    BY <1>2 DEF Recomputes, Inv, StateType
  <1>4. StateType'
    BY <1>3 DEF Inv, StateType, tables
  <1>5. CallArgs'
    BY <1>1, <1>3 DEF Inv, StateType, CallInv, CallArgs
  <1>6. HoldsLock' /\ SnapshotIsCurrent'
    BY <1>3 DEF Inv, StateType, CallInv, HoldsLock, SnapshotIsCurrent, Serializable,
                FindingsIn, tables
  <1>7. RowInv'
    BY DEF Inv, RowInv, RowConsistent, AuditExplainsOverride, tables
  <1>. QED
    BY <1>4, <1>5, <1>6, <1>7 DEF Inv, CallInv

\* An override that begins carries the override it asks for.
LEMMA OverridesInv ==
    ASSUME Inv, NEW p \in Caller, NEW o \in Org, NEW k \in Key,
           NEW status \in Overriding, NEW expires \in Nat,
           expires # 0 => status = "suppressed", Overrides(p, o, k, status, expires)
    PROVE  Inv'
  <1> DEFINE c == [op |-> "override", org |-> o, key |-> k,
                   status |-> status, expires |-> expires, now |-> clock]
  <1>1. clock \in Nat /\ clock # 0
    BY FindingsAssumption DEF Inv, StateType, Time
  <1>2. c \in Call
    BY <1>1 DEF Call, Overriding
  <1>3. /\ call' = [call EXCEPT ![p] = c]
        /\ call' \in [Caller -> Call]
    BY <1>2 DEF Overrides, Inv, StateType
  <1>4. StateType'
    BY <1>3 DEF Inv, StateType, tables, Overrides
  <1>5. CallArgs'
    BY <1>1, <1>3 DEF Inv, StateType, CallInv, CallArgs
  <1>6. HoldsLock' /\ SnapshotIsCurrent'
    BY <1>3 DEF Inv, StateType, CallInv, HoldsLock, SnapshotIsCurrent, Serializable,
                FindingsIn, tables, Overrides
  <1>7. RowInv'
    BY DEF Inv, RowInv, RowConsistent, AuditExplainsOverride, tables, Overrides
  <1>. QED
    BY <1>4, <1>5, <1>6, <1>7 DEF Inv, CallInv

\* A call that waits for the lock or finds nothing may end at any time.
LEMMA ReturnsInv ==
    ASSUME Inv, NEW p \in Caller, Returns(p), UNCHANGED <<clock, certs, tables, lock, snap, sweep>>
    PROVE  Inv'
  <1>1. Idle \in Call
    BY DEF Idle, Call
  <1>2. StateType'
    BY <1>1 DEF Inv, StateType, tables, Returns
  <1>3. CallArgs'
    BY DEF Inv, StateType, CallInv, CallArgs, Returns, Idle
  <1>4. HoldsLock' /\ SnapshotIsCurrent'
    BY DEF Inv, StateType, CallInv, HoldsLock, SnapshotIsCurrent, Serializable,
           FindingsIn, tables, Returns, Idle
  <1>5. RowInv'
    BY DEF Inv, RowInv, RowConsistent, AuditExplainsOverride, tables
  <1>. QED
    BY <1>2, <1>3, <1>4, <1>5 DEF Inv, CallInv

\* So may the clock, the inventory and the sweep of a scheduler change: a snapshot has
\* been taken, and no call reads them again.
LEMMA EnvironmentInv ==
    ASSUME Inv, UNCHANGED <<tables, lock, call, snap>>,
           clock' \in Time, certs' \subseteq Cert, sweep' \in [Scheduler -> SUBSET Org]
    PROVE  Inv'
  <1>1. StateType'
    BY DEF Inv, StateType, tables
  <1>2. CallInv'
    BY DEF Inv, CallInv, CallArgs, HoldsLock, SnapshotIsCurrent, Serializable, FindingsIn, tables
  <1>3. RowInv'
    BY DEF Inv, RowInv, RowConsistent, AuditExplainsOverride, tables
  <1>. QED
    BY <1>1, <1>2, <1>3 DEF Inv

-----------------------------------------------------------------------------
(* Steps under the lock *)

\* RecomputeLock snapshots the rows as it takes the lock.
LEMMA RecomputeLockInv ==
    ASSUME Inv, NEW p \in Caller, RecomputeLock(p)
    PROVE  Inv'
  <1> DEFINE c == [op |-> "recomputing", org |-> call[p].org, key |-> Nil,
                   status |-> "none", expires |-> 0, now |-> call[p].now]
             s == [certs |-> CertsIn(call[p].org), findings |-> FindingsIn(call[p].org)]
  <1>1. /\ call[p] \in Call
        /\ call[p].org \in Org /\ call[p].now \in Nat /\ call[p].now # 0
        /\ lock[call[p].org] = Nil
    BY DEF Inv, StateType, CallInv, CallArgs, RecomputeLock, Call
  <1>2. c \in Call
    BY <1>1 DEF Call
  <1>3. s \in Snapshot
    BY NoFindingOK DEF Snapshot, CertsIn, FindingsIn, Inv, StateType
  <1>4. /\ call' = [call EXCEPT ![p] = c]
        /\ snap' = [snap EXCEPT ![p] = s]
        /\ lock' = [lock EXCEPT ![call[p].org] = p]
        /\ UNCHANGED <<clock, certs, findings, override, sweep>>
    BY DEF RecomputeLock, Snapshots, tables
  <1>5. StateType'
    BY <1>1, <1>2, <1>3, <1>4 DEF Inv, StateType
  <1>6. CallArgs'
    BY <1>1, <1>4 DEF Inv, StateType, CallInv, CallArgs
  <1>7. HoldsLock'
    <2>. SUFFICES ASSUME NEW q \in Caller, call'[q].op = "recomputing"
                  PROVE  lock'[call'[q].org] = q
      BY DEF HoldsLock
    <2>1. CASE q = p
      BY <1>1, <1>4, <2>1 DEF Inv, StateType
    <2>2. CASE q # p
      <3>1. call'[q] = call[q]
        BY <1>4, <2>2 DEF Inv, StateType
      <3>2. lock[call[q].org] = q /\ call[q].org \in Org
        BY <3>1 DEF Inv, CallInv, HoldsLock, CallArgs
      <3>3. call[q].org # call[p].org
        BY <1>1, <3>2, FindingsAssumption
      <3>. QED
        BY <1>4, <3>1, <3>2, <3>3 DEF Inv, StateType
    <2>. QED
      BY <2>1, <2>2
  <1>8. SnapshotIsCurrent'
    <2>. SUFFICES ASSUME NEW q \in Caller, call'[q].op = "recomputing"
                  PROVE  snap'[q].findings = RowsIn(findings', call'[q].org)
      BY DEF SnapshotIsCurrent, Serializable, FindingsIn, KeysOf, RowsIn
    <2>1. CASE q = p
      BY <1>4, <2>1 DEF Inv, StateType, FindingsIn, KeysOf, RowsIn
    <2>2. CASE q # p
      BY <1>4, <2>2 DEF Inv, StateType, CallInv, SnapshotIsCurrent, Serializable,
                        FindingsIn, KeysOf, RowsIn
    <2>. QED
      BY <2>1, <2>2
  <1>9. RowInv'
    BY <1>4 DEF Inv, RowInv, RowConsistent, AuditExplainsOverride
  <1>. QED
    BY <1>5, <1>6, <1>7, <1>8, <1>9 DEF Inv, CallInv

\* What ending a recompute does to the calls and the locks: the lock of its organization
\* is released, and no other recompute of that organization was under way.
LEMMA UnlocksInv ==
    ASSUME Inv, NEW p \in Caller, Unlocks(p)
    PROVE  /\ call' \in [Caller -> Call] /\ snap' \in [Caller -> Snapshot]
           /\ lock' \in [Org -> Caller \cup {Nil}]
           /\ CallArgs' /\ HoldsLock'
           /\ \A q \in Caller : call'[q].op = "recomputing" =>
                /\ q # p /\ call'[q] = call[q] /\ snap'[q] = snap[q]
                /\ call[q].org # call[p].org
  <1>1. Idle \in Call
    BY DEF Idle, Call
  <1>2. NoSnapshot \in Snapshot
    BY NoFindingOK DEF NoSnapshot, Snapshot
  <1>3. /\ call' = [call EXCEPT ![p] = Idle]
        /\ snap' = [snap EXCEPT ![p] = NoSnapshot]
        /\ lock' = [lock EXCEPT ![call[p].org] = Nil]
        /\ call[p].op = "recomputing"
    BY DEF Unlocks, Returns
  <1>4. call' \in [Caller -> Call] /\ snap' \in [Caller -> Snapshot]
    BY <1>1, <1>2, <1>3 DEF Inv, StateType
  <1>5. lock' \in [Org -> Caller \cup {Nil}]
    BY <1>3 DEF Inv, StateType
  <1>6. CallArgs'
    BY <1>3 DEF Inv, StateType, CallInv, CallArgs, Idle
  <1>7. ASSUME NEW q \in Caller, call'[q].op = "recomputing"
        PROVE  /\ q # p /\ call'[q] = call[q] /\ snap'[q] = snap[q]
               /\ call[q].org # call[p].org
    <2>1. q # p
      BY <1>3, <1>7 DEF Inv, StateType, Idle
    <2>2. call'[q] = call[q] /\ snap'[q] = snap[q]
      BY <1>3, <2>1 DEF Inv, StateType
    <2>3. lock[call[q].org] = q /\ lock[call[p].org] = p
      BY <1>3, <1>7, <2>2 DEF Inv, CallInv, HoldsLock
    <2>. QED
      BY <2>1, <2>2, <2>3
  <1>8. HoldsLock'
    <2>. SUFFICES ASSUME NEW q \in Caller, call'[q].op = "recomputing"
                  PROVE  lock'[call'[q].org] = q
      BY DEF HoldsLock
    <2>1. call'[q] = call[q] /\ call[q].org # call[p].org
      BY <1>7
    <2>2. call[q].org \in Org /\ lock[call[q].org] = q
      BY <2>1 DEF Inv, CallInv, HoldsLock, CallArgs
    <2>. QED
      BY <1>3, <2>1, <2>2 DEF Inv, StateType
  <1>. QED
    BY <1>4, <1>5, <1>6, <1>7, <1>8

\* A failed recompute leaves the rows alone.
LEMMA RecomputeFailsInv ==
    ASSUME Inv, NEW p \in Caller, RecomputeFails(p)
    PROVE  Inv'
  <1>1. Unlocks(p) /\ UNCHANGED <<clock, certs, findings, override, sweep>>
    BY DEF RecomputeFails, Unlocks, tables
  <1>2. StateType'
    BY <1>1, UnlocksInv DEF Inv, StateType
  <1>3. SnapshotIsCurrent'
    <2>. SUFFICES ASSUME NEW q \in Caller, call'[q].op = "recomputing"
                  PROVE  snap'[q].findings = RowsIn(findings', call'[q].org)
      BY DEF SnapshotIsCurrent, Serializable, FindingsIn, KeysOf, RowsIn
    <2>1. call'[q] = call[q] /\ snap'[q] = snap[q]
      BY <1>1, UnlocksInv
    <2>. QED
      BY <1>1, <2>1 DEF Inv, CallInv, SnapshotIsCurrent, Serializable,
                        FindingsIn, KeysOf, RowsIn
  <1>4. RowInv'
    BY <1>1 DEF Inv, RowInv, RowConsistent, AuditExplainsOverride
  <1>. QED
    BY <1>1, <1>2, <1>3, <1>4, UnlocksInv DEF Inv, CallInv

\* RecomputeCommit: every row of the organization follows the row of the snapshot, which
\* is the row of the table; the snapshots of other organizations stay current.
LEMMA RecomputeCommitInv ==
    ASSUME Inv, NEW p \in Caller, RecomputeCommit(p)
    PROVE  Inv'
  <1> DEFINE s == snap[p]
             o == call[p].org
             now == call[p].now
             matches == pagedMatches(s.certs, now)
             visited == pagedFindings(s.findings)
  <1>1. Unlocks(p) /\ UNCHANGED <<clock, certs, override, sweep>>
    BY DEF RecomputeCommit, Unlocks
  <1>2. now \in Nat \ {0} /\ o \in Org
    BY <1>1 DEF Unlocks, Inv, StateType, CallInv, CallArgs, Call
  <1>3. s.findings = FindingsIn(o) /\ s.findings \in [Key -> Finding]
    BY DEF RecomputeCommit, Serializable, Inv, StateType, Snapshot
  <1>4. findings' = [k \in Key |->
            IF k \in KeysOf(o) THEN streamedRow(matches, visited, s.findings, k, now)
            ELSE findings[k]]
    BY DEF RecomputeCommit, runDiffStreaming, KeysOf
  <1>5. \A k \in Key : RowOK(findings[k])
    BY DEF Inv, RowInv, RowConsistent, RowOK, Overriding
  <1>6. \A k \in Key : Follows(findings'[k], findings[k])
    <2>. SUFFICES ASSUME NEW k \in Key PROVE Follows(findings'[k], findings[k])
      OBVIOUS
    <2>1. CASE k \in KeysOf(o)
      <3>1. s.findings[k] = findings[k]
        BY <1>3, <2>1 DEF FindingsIn
      <3>2. findings'[k] = streamedRow(matches, visited, s.findings, k, now)
        BY <1>4, <2>1
      <3>3. Follows(streamedRow(matches, visited, s.findings, k, now), s.findings[k])
        <4>. HIDE DEF s, o, now, matches, visited
        <4>. QED
          BY <1>2, <1>3, <1>5, <3>1, StreamedFollows
      <3>. QED
        BY <3>1, <3>2, <3>3
    <2>2. CASE k \notin KeysOf(o)
      <3>1. findings'[k] = findings[k]
        BY <1>4, <2>2
      <3>. QED
        BY <1>5, <3>1 DEF Follows, Inv, StateType
    <2>. QED
      BY <2>1, <2>2
  <1>7. findings' \in [Key -> Finding]
    BY <1>4, <1>6 DEF Follows
  <1>8. StateType'
    BY <1>1, <1>7, UnlocksInv DEF Inv, StateType
  <1>9. SnapshotIsCurrent'
    <2>. SUFFICES ASSUME NEW q \in Caller, call'[q].op = "recomputing"
                  PROVE  snap'[q].findings = RowsIn(findings', call'[q].org)
      BY DEF SnapshotIsCurrent, Serializable, FindingsIn, KeysOf, RowsIn
    <2>1. call'[q] = call[q] /\ snap'[q] = snap[q] /\ call[q].org # o
      BY <1>1, UnlocksInv
    <2>2. \A k \in KeysOf(call[q].org) : findings'[k] = findings[k]
      BY <1>4, <2>1 DEF KeysOf
    <2>3. RowsIn(findings', call[q].org) = RowsIn(findings, call[q].org)
      BY <2>2 DEF RowsIn, KeysOf
    <2>4. snap[q].findings = RowsIn(findings, call[q].org)
      BY <2>1 DEF Inv, CallInv, SnapshotIsCurrent, Serializable, FindingsIn, KeysOf, RowsIn
    <2>. QED
      BY <2>1, <2>3, <2>4
  <1>10. RowConsistent'
    BY <1>6 DEF RowConsistent, Follows, RowOK, Overriding
  <1>11. AuditExplainsOverride'
    BY <1>1, <1>6 DEF Inv, RowInv, AuditExplainsOverride, Follows, Overriding
  <1>. QED
    BY <1>1, <1>8, <1>9, <1>10, <1>11, UnlocksInv DEF Inv, CallInv, RowInv

\* applyOverride: the row and its audit row agree, and no recompute of the organization
\* is under way.
LEMMA applyOverrideInv ==
    ASSUME Inv, NEW p \in Caller, applyOverride(p)
    PROVE  Inv'
  <1> DEFINE in == call[p]
             g == overridden(findings[in.key], in)
             a == [status |-> in.status, previous |-> findings[in.key].status, at |-> in.now]
  <1>1. /\ in.key \in Key /\ in.org \in Org /\ in.status \in Overriding
        /\ in.now \in Nat /\ in.now # 0 /\ in.expires \in Nat
        /\ in.expires # 0 => in.status = "suppressed"
    BY DEF applyOverride, Inv, StateType, CallInv, CallArgs, Call
  <1>2. /\ lock[in.org] = Nil
        /\ OrgOf[in.key[1]] = in.org
        /\ findings' = [findings EXCEPT ![in.key] = g]
        /\ override' = [override EXCEPT ![in.key] = a]
        /\ call' = [call EXCEPT ![p] = Idle]
        /\ UNCHANGED <<clock, certs, lock, snap, sweep>>
    BY DEF applyOverride, Found, Returns
  <1>3. g \in Finding /\ RowOK(g) /\ g.status = in.status /\ g.statusChangedAt = in.now
    <2>1. findings[in.key] \in Finding
      BY <1>1 DEF Inv, StateType
    <2>. QED
      BY <1>1, <2>1 DEF overridden, Finding, Status, RowOK, Overriding
  <1>4. a \in AuditRow
    BY <1>1 DEF AuditRow, Overriding, Inv, StateType, Finding
  <1>5. Idle \in Call
    BY DEF Idle, Call
  <1>6. StateType'
    BY <1>1, <1>2, <1>3, <1>4, <1>5 DEF Inv, StateType
  <1>7. CallArgs' /\ HoldsLock'
    BY <1>2 DEF Inv, StateType, CallInv, CallArgs, HoldsLock, Idle
  <1>8. SnapshotIsCurrent'
    <2>. SUFFICES ASSUME NEW q \in Caller, call'[q].op = "recomputing"
                  PROVE  snap'[q].findings = RowsIn(findings', call'[q].org)
      BY DEF SnapshotIsCurrent, Serializable, FindingsIn, KeysOf, RowsIn
    <2>1. call'[q] = call[q] /\ snap'[q] = snap[q]
      BY <1>2 DEF Inv, StateType, Idle
    <2>2. lock[call[q].org] = q
      BY <2>1 DEF Inv, CallInv, HoldsLock
    <2>3. call[q].org # in.org
      BY <1>2, <2>2, FindingsAssumption
    <2>4. \A k \in KeysOf(call[q].org) : findings'[k] = findings[k]
      BY <1>2, <2>3 DEF KeysOf, Inv, StateType
    <2>5. RowsIn(findings', call[q].org) = RowsIn(findings, call[q].org)
      BY <2>4 DEF RowsIn, KeysOf
    <2>6. snap[q].findings = RowsIn(findings, call[q].org)
      BY <2>1 DEF Inv, CallInv, SnapshotIsCurrent, Serializable, FindingsIn, KeysOf, RowsIn
    <2>. QED
      BY <2>1, <2>5, <2>6
  <1>9. RowConsistent'
    <2>1. \A k \in Key : RowOK(findings'[k])
      <3>. HIDE DEF g
      <3>. QED
        BY <1>2, <1>3 DEF Inv, StateType, RowInv, RowConsistent, RowOK, Overriding
    <2>. QED
      BY <2>1 DEF RowConsistent, RowOK, Overriding
  <1>10. AuditExplainsOverride'
    <2>. SUFFICES ASSUME NEW k \in Key, findings'[k].status \in Overriding
                  PROVE  /\ override'[k].status = findings'[k].status
                         /\ override'[k].at = findings'[k].statusChangedAt
      BY DEF AuditExplainsOverride, Overriding
    <2>1. CASE k = in.key
      <3>1. findings'[k] = g /\ override'[k] = a
        BY <1>2, <2>1 DEF Inv, StateType
      <3>. QED
        BY <1>3, <3>1
    <2>2. CASE k # in.key
      <3>1. findings'[k] = findings[k] /\ override'[k] = override[k]
        BY <1>2, <2>2 DEF Inv, StateType
      <3>. QED
        BY <3>1 DEF Inv, RowInv, AuditExplainsOverride, Overriding
    <2>. QED
      BY <2>1, <2>2
  <1>. QED
    BY <1>6, <1>7, <1>8, <1>9, <1>10 DEF Inv, CallInv, RowInv

-----------------------------------------------------------------------------
(* The rows and the snapshots *)

\* Every step preserves the invariant.
LEMMA NextInv == Inv /\ [Next]_vars => Inv'
  <1>. SUFFICES ASSUME Inv, [Next]_vars PROVE Inv'
    OBVIOUS
  <1>0. sweep \in [Scheduler -> SUBSET Org] /\ clock \in Time /\ certs \subseteq Cert
    BY DEF Inv, StateType
  <1>1. ASSUME NEW p \in Operator, NEW o \in Org, Recompute(p, o) PROVE Inv'
    BY <1>0, <1>1, RecomputesInv DEF Recompute, Caller
  <1>2. ASSUME NEW p \in Operator, NEW o \in Org, NEW k \in Key, AcknowledgeFinding(p, o, k)
        PROVE  Inv'
    BY <1>2, OverridesInv DEF AcknowledgeFinding, Caller, Overriding
  <1>3. ASSUME NEW p \in Operator, NEW o \in Org, NEW k \in Key, NEW life \in Lifetimes,
               SuppressFinding(p, o, k, life)
        PROVE  Inv'
    <2>1. (IF life = 0 THEN 0 ELSE clock + life) \in Nat
      BY <1>0, FindingsAssumption DEF Time
    <2>. QED
      BY <1>3, <2>1, OverridesInv DEF SuppressFinding, Caller, Overriding
  <1>4. ASSUME NEW p \in Scheduler, runOnce(p) PROVE Inv'
    BY <1>0, <1>4, EnvironmentInv DEF runOnce
  <1>5. ASSUME NEW p \in Scheduler, recomputeOrg(p) PROVE Inv'
    <2>1. PICK o \in sweep[p] :
            /\ Recomputes(p, o)
            /\ sweep' = [sweep EXCEPT ![p] = @ \ {o}]
            /\ UNCHANGED <<clock, certs, tables, lock, snap>>
      BY <1>5 DEF recomputeOrg
    <2>2. o \in Org /\ sweep' \in [Scheduler -> SUBSET Org]
      BY <1>0, <1>5, <2>1
    <2>. QED
      BY <2>1, <2>2, RecomputesInv DEF Caller
  <1>6. ASSUME NEW p \in Scheduler, Restart(p) PROVE Inv'
    BY <1>0, <1>6, EnvironmentInv DEF Restart
  <1>7. ASSUME NEW p \in Caller, Runs(p) PROVE Inv'
    <2>1. CASE applyOverride(p)
      BY <2>1, applyOverrideInv
    <2>2. CASE OverrideNotFound(p) \/ CallFails(p)
      BY <2>2, ReturnsInv DEF OverrideNotFound, CallFails
    <2>3. CASE RecomputeLock(p)
      BY <2>3, RecomputeLockInv
    <2>4. CASE RecomputeCommit(p)
      BY <2>4, RecomputeCommitInv
    <2>5. CASE RecomputeFails(p)
      BY <2>5, RecomputeFailsInv
    <2>. QED
      BY <1>7, <2>1, <2>2, <2>3, <2>4, <2>5 DEF Runs
  <1>8. ASSUME NEW c \in Cert, Ingest(c) PROVE Inv'
    BY <1>0, <1>8, EnvironmentInv DEF Ingest
  <1>9. ASSUME Tick PROVE Inv'
    <2>1. clock' \in Time
      BY <1>0, <1>9, FindingsAssumption DEF Tick, Time
    <2>. QED
      BY <1>0, <1>9, <2>1, EnvironmentInv DEF Tick
  <1>10. CASE UNCHANGED vars
    BY <1>0, <1>10, EnvironmentInv DEF vars
  <1>. QED
    BY <1>1, <1>2, <1>3, <1>4, <1>5, <1>6, <1>7, <1>8, <1>9, <1>10 DEF Next

\* The invariant holds in every reachable state.
LEMMA InvHolds == Spec => []Inv
  BY InitInv, NextInv, PTL DEF Spec

\* Whatever operators and recomputes do to a row in whatever order, its resolution and
\* override columns agree with its status.
THEOREM RowConsistentHolds == Spec => []RowConsistent
  <1>1. Inv => RowConsistent
    BY DEF Inv, RowInv
  <1>. QED
    BY <1>1, InvHolds, PTL

\* A recompute that holds the lock works on rows that are still those of the table, so
\* it neither fails on them nor overwrites an operator's decision.
THEOREM SnapshotIsCurrentHolds == Spec => []SnapshotIsCurrent
  <1>1. Inv => SnapshotIsCurrent
    BY DEF Inv, CallInv
  <1>. QED
    BY <1>1, InvHolds, PTL

\* An override in force is the one its last audit row tells of.
THEOREM AuditExplainsOverrideHolds == Spec => []AuditExplainsOverride
  <1>1. Inv => AuditExplainsOverride
    BY DEF Inv, RowInv
  <1>. QED
    BY <1>1, InvHolds, PTL

-----------------------------------------------------------------------------
(* What the paged walk visits *)

\* The ids of I past a cursor.
Above(I, after) == {i \in I : i > after}

\* Less is past a later cursor.
LEMMA AboveFalls ==
    ASSUME NEW S \in SUBSET Nat, NEW m \in Nat, NEW n \in Above(S, m)
    PROVE  Above(S, n) \in SUBSET Above(S, m) /\ Above(S, n) # Above(S, m)
  <1>1. n \in Nat /\ n > m /\ n \notin Above(S, n)
    BY DEF Above
  <1>2. ASSUME NEW i \in Above(S, n) PROVE i \in Above(S, m)
    <2>1. i \in S /\ i \in Nat /\ i > n
      BY DEF Above
    <2>2. i > m
      BY <1>1, <2>1
    <2>. QED
      BY <2>1, <2>2 DEF Above
  <1>. QED
    BY <1>1, <1>2

\* A finite nonempty set of natural numbers has a largest element.
LEMMA LargestNat ==
    ASSUME NEW S \in SUBSET Nat, IsFiniteSet(S), S # {}
    PROVE  \E m \in S : \A n \in S : n <= m
  <1> DEFINE N == {Cardinality(Above(S, n)) : n \in S}
  <1>1. \A n \in S : /\ Above(S, n) \in SUBSET S
                     /\ IsFiniteSet(Above(S, n))
                     /\ Cardinality(Above(S, n)) \in Nat
    <2>. SUFFICES ASSUME NEW n \in S
                  PROVE  /\ Above(S, n) \in SUBSET S
                         /\ IsFiniteSet(Above(S, n))
                         /\ Cardinality(Above(S, n)) \in Nat
      OBVIOUS
    <2>1. Above(S, n) \in SUBSET S
      BY DEF Above
    <2>2. IsFiniteSet(Above(S, n))
      BY <2>1, FS_Subset
    <2>. QED
      BY <2>1, <2>2, FS_CardinalityType
  <1>2. PICK c \in N : \A d \in N : c <= d
    <2>1. N \in SUBSET Nat /\ N # {}
      BY <1>1
    <2>. HIDE DEF N
    <2>. QED
      BY <2>1, SmallestNat
  <1>3. PICK m \in S : c = Cardinality(Above(S, m))
    BY <1>2
  <1>4. ASSUME NEW n \in S, n > m PROVE FALSE
    <2>1. Above(S, n) \in SUBSET Above(S, m) /\ Above(S, n) # Above(S, m)
      <3>1. n \in Above(S, m)
        BY <1>4 DEF Above
      <3>. QED
        BY <3>1, AboveFalls
    <2>2. /\ Cardinality(Above(S, n)) <= Cardinality(Above(S, m))
          /\ Cardinality(Above(S, n)) # Cardinality(Above(S, m))
      BY <1>1, <2>1, FS_Subset
    <2>3. Cardinality(Above(S, m)) <= Cardinality(Above(S, n))
      BY <1>2, <1>3, <1>4
    <2>. QED
      BY <1>1, <1>4, <2>2, <2>3
  <1>. QED
    BY <1>4

\* What paging through finite sets of ids is about.
Ids(I) == I \subseteq Nat \ {0} /\ IsFiniteSet(I)

\* A page takes ids past the cursor, and with an id every smaller one.
LEMMA PageTakesFirst ==
    ASSUME NEW I, Ids(I), NEW after \in Nat
    PROVE  /\ Page(I, after) \in SUBSET Above(I, after)
           /\ IsFiniteSet(Page(I, after)) /\ Cardinality(Page(I, after)) \in Nat
           /\ \A i \in Page(I, after), j \in Above(I, after) : j <= i => j \in Page(I, after)
  <1>1. Page(I, after) \in SUBSET Above(I, after) /\ Page(I, after) \in SUBSET I
    BY DEF Page, Above
  <1>2. IsFiniteSet(Page(I, after)) /\ Cardinality(Page(I, after)) \in Nat
    BY <1>1, FS_Subset, FS_CardinalityType DEF Ids
  <1>3. ASSUME NEW i \in Page(I, after), NEW j \in Above(I, after), j <= i
        PROVE  j \in Page(I, after)
    <2> DEFINE B(x) == {y \in I : after < y /\ y < x}
    <2>0. i \in Nat /\ j \in Nat
      BY <1>1, <1>3 DEF Above, Ids
    <2>1. B(i) \in SUBSET I /\ B(j) \in SUBSET B(i)
      <3>1. ASSUME NEW y \in I, y < j PROVE y < i
        BY <1>3, <2>0, <3>1 DEF Ids
      <3>. QED
        BY <3>1
    <2>2. IsFiniteSet(B(i)) /\ Cardinality(B(j)) <= Cardinality(B(i))
      BY <2>1, FS_Subset DEF Ids
    <2>3. IsFiniteSet(B(j)) /\ Cardinality(B(i)) \in Nat /\ Cardinality(B(j)) \in Nat
      BY <2>1, <2>2, FS_Subset, FS_CardinalityType
    <2>4. Cardinality(B(i)) < PageSize
      BY DEF Page
    <2>5. Cardinality(B(j)) < PageSize
      BY <2>2, <2>3, <2>4, EngineAssumption
    <2>. QED
      BY <1>3, <2>5 DEF Page, Above
  <1>. QED
    BY <1>1, <1>2, <1>3

\* A page that is not full is the last one: nothing is past it.
LEMMA ShortPageIsLast ==
    ASSUME NEW I, Ids(I), NEW after \in Nat, Cardinality(Page(I, after)) < PageSize
    PROVE  Page(I, after) = Above(I, after)
  <1> DEFINE Rest == Above(I, after) \ Page(I, after)
  <1>. SUFFICES ASSUME Rest # {} PROVE FALSE
    BY PageTakesFirst
  <1>1. PICK i \in Rest : \A j \in Rest : i <= j
    <2>1. Rest \in SUBSET Nat
      BY DEF Above, Ids
    <2>. HIDE DEF Rest
    <2>. QED
      BY <2>1, SmallestNat
  <1> DEFINE B == {j \in I : after < j /\ j < i}
  <1>2. B \in SUBSET Page(I, after)
    <2>. SUFFICES ASSUME NEW j \in I, after < j, j < i PROVE j \in Page(I, after)
      OBVIOUS
    <2>1. i \in Nat /\ j \in Nat
      BY DEF Above, Ids
    <2>2. j \in Above(I, after) /\ ~ i <= j
      BY <2>1 DEF Above
    <2>. QED
      BY <1>1, <2>2
  <1>3. IsFiniteSet(B) /\ Cardinality(B) <= Cardinality(Page(I, after))
    BY <1>2, PageTakesFirst, FS_Subset
  <1>4. Cardinality(B) \in Nat
    BY <1>3, FS_CardinalityType
  <1>5. Cardinality(B) < PageSize
    BY <1>3, <1>4, PageTakesFirst, EngineAssumption
  <1>. QED
    BY <1>1, <1>5 DEF Page, Above

\* A full page has a last id, and what is past the cursor is the page and what is past
\* that id.
LEMMA FullPageGoesOn ==
    ASSUME NEW I, Ids(I), NEW after \in Nat, ~ Cardinality(Page(I, after)) < PageSize,
           NEW m, m = CHOOSE i \in Page(I, after) : \A j \in Page(I, after) : j <= i
    PROVE  /\ m \in I /\ m \in Above(I, after)
           /\ Page(I, after) \cup Above(I, m) = Above(I, after)
  <1>1. Page(I, after) # {}
    BY FS_EmptySet, EngineAssumption
  <1>2. Page(I, after) \in SUBSET Nat /\ Page(I, after) \in SUBSET I
    BY DEF Page, Ids
  <1>3. \E i \in Page(I, after) : \A j \in Page(I, after) : j <= i
    BY <1>1, <1>2, PageTakesFirst, LargestNat
  <1>4. m \in Page(I, after) /\ \A j \in Page(I, after) : j <= m
    BY <1>3
  <1>5. m \in I /\ m \in Above(I, after)
    BY <1>2, <1>4, PageTakesFirst
  <1>6. \A j \in Above(I, after) : j \in Page(I, after) \/ j \in Above(I, m)
    <2>. SUFFICES ASSUME NEW j \in Above(I, after), j \notin Above(I, m)
                  PROVE  j \in Page(I, after)
      OBVIOUS
    <2>0. j \in I /\ j \in Nat /\ m \in Nat
      BY <1>5 DEF Above, Ids
    <2>1. j <= m
      BY <2>0 DEF Above
    <2>. QED
      BY <1>4, <2>1, PageTakesFirst
  <1>7. Above(I, m) \in SUBSET Above(I, after)
    BY <1>5, AboveFalls DEF Ids
  <1>. QED
    BY <1>5, <1>6, <1>7, PageTakesFirst

\* The body of the recursion of Walk.
Visits(I, v, after) ==
    IF Cardinality(Page(I, after)) < PageSize THEN Page(I, after)
    ELSE Page(I, after) \cup v[CHOOSE i \in Page(I, after) : \A j \in Page(I, after) : j <= i]

Visiting(I, v) == v = [after \in {0} \cup I |-> Visits(I, v, after)]

\* The recursion has a solution: from each cursor, what is past it.
LEMMA WalkHasSolution ==
    ASSUME NEW I, Ids(I)
    PROVE  Visiting(I, [after \in {0} \cup I |-> Above(I, after)])
  <1> DEFINE g == [after \in {0} \cup I |-> Above(I, after)]
  <1>1. ASSUME NEW after \in {0} \cup I PROVE Visits(I, g, after) = Above(I, after)
    <2>0. after \in Nat
      BY DEF Ids
    <2>1. CASE Cardinality(Page(I, after)) < PageSize
      BY <2>0, <2>1, ShortPageIsLast DEF Visits
    <2>2. CASE ~ Cardinality(Page(I, after)) < PageSize
      <3>1. PICK m : m = CHOOSE i \in Page(I, after) : \A j \in Page(I, after) : j <= i
        OBVIOUS
      <3>2. m \in I /\ Page(I, after) \cup Above(I, m) = Above(I, after)
        BY <2>0, <2>2, <3>1, FullPageGoesOn
      <3>3. Visits(I, g, after) = Page(I, after) \cup g[m]
        BY <2>2, <3>1 DEF Visits
      <3>4. g[m] = Above(I, m)
        BY <3>2
      <3>. QED
        BY <3>2, <3>3, <3>4
    <2>. QED
      BY <2>1, <2>2
  <1>2. g = [after \in {0} \cup I |-> Visits(I, g, after)]
    BY <1>1
  <1>. QED
    BY <1>2 DEF Visiting

\* It has no other one: a smallest counterexample, by what is past the cursor, has none
\* behind its page.
LEMMA WalkHasOneSolution ==
    ASSUME NEW I, Ids(I), NEW v, Visiting(I, v)
    PROVE  v[0] = Above(I, 0)
  <1> DEFINE Wrong == {a \in {0} \cup I : v[a] # Above(I, a)}
             N == {Cardinality(Above(I, a)) : a \in Wrong}
  <1>1. \A a \in {0} \cup I : /\ a \in Nat
                              /\ IsFiniteSet(Above(I, a))
                              /\ Cardinality(Above(I, a)) \in Nat
    <2>. SUFFICES ASSUME NEW a \in {0} \cup I
                  PROVE  /\ a \in Nat
                         /\ IsFiniteSet(Above(I, a))
                         /\ Cardinality(Above(I, a)) \in Nat
      OBVIOUS
    <2>1. Above(I, a) \in SUBSET I
      BY DEF Above
    <2>2. IsFiniteSet(Above(I, a))
      BY <2>1, FS_Subset DEF Ids
    <2>. QED
      BY <2>1, <2>2, FS_CardinalityType DEF Ids
  <1>. SUFFICES ASSUME Wrong # {} PROVE FALSE
    OBVIOUS
  <1>2. PICK c \in N : \A d \in N : c <= d
    <2>1. N \in SUBSET Nat /\ N # {}
      BY <1>1
    <2>. HIDE DEF N
    <2>. QED
      BY <2>1, SmallestNat
  <1>3. PICK a \in Wrong : c = Cardinality(Above(I, a))
    BY <1>2
  <1>4. v[a] = Visits(I, v, a)
    BY DEF Visiting
  <1>5. CASE Cardinality(Page(I, a)) < PageSize
    BY <1>1, <1>4, <1>5, ShortPageIsLast DEF Visits
  <1>6. CASE ~ Cardinality(Page(I, a)) < PageSize
    <2>1. PICK m : m = CHOOSE i \in Page(I, a) : \A j \in Page(I, a) : j <= i
      OBVIOUS
    <2>2. /\ m \in I /\ m \in Above(I, a)
          /\ Page(I, a) \cup Above(I, m) = Above(I, a)
      BY <1>1, <1>6, <2>1, FullPageGoesOn
    <2>3. v[a] = Page(I, a) \cup v[m]
      BY <1>4, <1>6, <2>1 DEF Visits
    <2>4. Above(I, m) \in SUBSET Above(I, a) /\ Above(I, m) # Above(I, a)
      BY <1>1, <2>2 DEF Above, Ids
    <2>5. /\ Cardinality(Above(I, m)) <= Cardinality(Above(I, a))
          /\ Cardinality(Above(I, m)) # Cardinality(Above(I, a))
      BY <1>1, <2>4, FS_Subset
    <2>6. ~ c <= Cardinality(Above(I, m))
      BY <1>1, <1>3, <2>2, <2>5
    <2>7. m \notin Wrong
      BY <1>2, <2>6
    <2>8. v[m] = Above(I, m)
      BY <2>2, <2>7
    <2>. QED
      BY <2>2, <2>3, <2>8
  <1>. QED
    BY <1>5, <1>6

\* Paging visits every id once the ids are finitely many, whatever they are.
LEMMA WalkVisitsAll ==
    ASSUME NEW I, Ids(I)
    PROVE  Walk(I) = I
  <1>1. Walk(I) = (CHOOSE v : Visiting(I, v))[0]
    BY DEF Walk, Visiting, Visits
  <1>2. Visiting(I, CHOOSE v : Visiting(I, v))
    BY WalkHasSolution
  <1>3. Walk(I) = Above(I, 0)
    BY <1>1, <1>2, WalkHasOneSolution
  <1>4. Above(I, 0) = I
    <2>1. \A i \in I : i \in Nat /\ i # 0
      BY DEF Ids
    <2>2. \A i \in I : i > 0
      BY <2>1
    <2>. QED
      BY <2>2 DEF Above
  <1>. QED
    BY <1>3, <1>4

-----------------------------------------------------------------------------
(* The two diffs *)

\* Disjoint finite sets add up.
LEMMA DisjointSum ==
    ASSUME NEW S, IsFiniteSet(S), NEW T, IsFiniteSet(T), S \cap T = {}
    PROVE  /\ Cardinality(S \cup T) = Cardinality(S) + Cardinality(T)
           /\ Cardinality(S) \in Nat /\ Cardinality(T) \in Nat
  <1>1. Cardinality(S) \in Nat /\ Cardinality(T) \in Nat
    BY FS_CardinalityType
  <1>2. Cardinality(S \cap T) = 0
    BY FS_EmptySet
  <1>3. Cardinality(S \cup T) = Cardinality(S) + Cardinality(T) - Cardinality(S \cap T)
    BY FS_Union
  <1>4. \A s, t, i \in Nat : i = 0 => s + t - i = s + t
    OBVIOUS
  <1>. QED
    BY <1>1, <1>2, <1>3, <1>4

\* There are finitely many keys.
LEMMA KeyIsFinite == IsFiniteSet(Key)
  <1>0. ASSUME NEW a, NEW b PROVE IsFiniteSet({a, b})
    <2>1. IsFiniteSet({a}) /\ IsFiniteSet({b})
      BY FS_Singleton
    <2>2. IsFiniteSet({a} \cup {b})
      BY <2>1, FS_Union
    <2>3. {a, b} = {a} \cup {b}
      OBVIOUS
    <2>. QED
      BY <2>2, <2>3
  <1>1. IsFiniteSet({"certificate_expired", "certificate_expiring_soon"})
    BY <1>0
  <1>2. IsFiniteSet({"weak_signature_algorithm", "weak_rsa_key"})
    BY <1>0
  <1>3. IsFiniteSet({"self_signed_leaf", "long_lived_certificate"})
    BY <1>0
  <1>4. DefaultRules = ({"certificate_expired", "certificate_expiring_soon"}
                        \cup {"weak_signature_algorithm", "weak_rsa_key"})
                       \cup {"self_signed_leaf", "long_lived_certificate"}
    BY DEF DefaultRules
  <1>5. IsFiniteSet(DefaultRules)
    BY <1>1, <1>2, <1>3, <1>4, FS_Union
  <1>6. IsFiniteSet(Rules)
    BY <1>5, EngineAssumption, FS_Subset
  <1>. QED
    BY <1>6, EngineAssumption, FS_Product DEF Key

\* A set of keys is finite.
LEMMA KeysAreFinite ==
    ASSUME NEW S \in SUBSET Key
    PROVE  IsFiniteSet(S) /\ Cardinality(S) \in Nat
  BY KeyIsFinite, FS_Subset, FS_CardinalityType

\* Phase 1 evaluates every certificate.
LEMMA PagedMatches ==
    ASSUME NEW C \in SUBSET Cert, NEW now
    PROVE  /\ pagedMatches(C, now) = matchesOf(C, now)
           /\ matchesOf(C, now) \in SUBSET Key
  <1>1. Ids(C)
    BY EngineAssumption, FS_Subset DEF Ids
  <1>. QED
    BY <1>1, WalkVisitsAll DEF pagedMatches, matchesOf, Key

\* Phase 2 visits every row, for its ids are distinct positive numbers.
LEMMA PagedFindings ==
    ASSUME NEW F
    PROVE  pagedFindings(F) = existing(F) /\ existing(F) \in SUBSET Key
  <1> DEFINE E == existing(F)
             I == {IdOf[l] : l \in E}
             f == [l \in E |-> IdOf[l]]
  <1>1. E \in SUBSET Key
    BY DEF existing
  <1>2. IsFiniteSet(E)
    BY <1>1, KeysAreFinite
  <1>3. f \in Surjection(E, I)
    BY DEF Surjection
  <1>4. IsFiniteSet(I)
    <2>. HIDE DEF f, E, I
    <2>. QED
      BY <1>2, <1>3, FS_Surjection
  <1>5. I \subseteq Nat \ {0}
    BY <1>1, EngineAssumption
  <1>6. Walk(I) = I
    <2>. HIDE DEF I
    <2>. QED
      BY <1>4, <1>5, WalkVisitsAll DEF Ids
  <1>7. pagedFindings(F) = {k \in E : IdOf[k] \in Walk(I)}
    BY DEF pagedFindings
  <1>. QED
    BY <1>1, <1>6, <1>7

\* A matched key that has no row counts as opened.
LEMMA NewRowIsOpened ==
    ASSUME NEW F, NEW k \in Key, k \notin existing(F), NEW now
    PROVE  MatchBucket(F[k], now) = "opened"
  BY DEF existing, Exists, MatchBucket

\* The paged diff is the load-all diff, and its inserts do not conflict.
LEMMA StreamingIsLoadAll ==
    ASSUME NEW C \in SUBSET Cert, NEW F, NEW now
    PROVE  /\ runDiffStreaming(C, F, now) = runDiffLoadAll(C, F, now)
           /\ ~ insertConflicts(C, F, now)
  <1> DEFINE M == matchesOf(C, now)
             E == existing(F)
  <1>1. /\ pagedMatches(C, now) = M /\ M \in SUBSET Key
        /\ pagedFindings(F) = E /\ E \in SUBSET Key
    BY PagedMatches, PagedFindings
  <1>2. ASSUME NEW k \in Key
        PROVE  streamedRow(M, E, F, k, now)
                 = IF k \in M THEN decideMatchTransition(F[k], now)
                   ELSE decideNoMatchTransition(F[k], now)
    <2>. HIDE DEF M, E
    <2>1. CASE k \in E /\ k \in M
      BY <2>1 DEF streamedRow
    <2>2. CASE k \in E /\ k \notin M
      BY <2>2 DEF streamedRow
    <2>3. CASE k \notin E /\ k \in M
      <3>1. F[k].status = "none"
        BY <2>3 DEF E, existing, Exists
      <3>2. decideMatchTransition(F[k], now) = Automatic("open", now, now, 0, now)
        BY <3>1 DEF decideMatchTransition, suppressionExpired
      <3>3. decideMatchTransition(NoFinding, now) = Automatic("open", now, now, 0, now)
        BY DEF decideMatchTransition, suppressionExpired, NoFinding
      <3>. QED
        BY <2>3, <3>2, <3>3 DEF streamedRow
    <2>4. CASE k \notin E /\ k \notin M
      <3>1. F[k].status = "none"
        BY <2>4 DEF E, existing, Exists
      <3>. QED
        BY <2>4, <3>1 DEF streamedRow, decideNoMatchTransition
    <2>. QED
      BY <2>1, <2>2, <2>3, <2>4
  <1>3. ASSUME NEW b \in Buckets
        PROVE  Cardinality({k \in M \cap E : MatchBucket(F[k], now) = b})
                 + Cardinality({k \in E \ M : NoMatchBucket(F[k]) = b})
                 + (IF b = "opened" THEN Cardinality(M \ E) ELSE 0)
               = Cardinality({k \in M : MatchBucket(F[k], now) = b})
                 + Cardinality({k \in E \ M : NoMatchBucket(F[k]) = b})
    <2> DEFINE A == {k \in M \cap E : MatchBucket(F[k], now) = b}
               B == {k \in M : MatchBucket(F[k], now) = b}
               N == {k \in E \ M : NoMatchBucket(F[k]) = b}
    <2>1. \A k \in M \ E : MatchBucket(F[k], now) = "opened"
      BY <1>1, NewRowIsOpened
    <2>2. /\ IsFiniteSet(A) /\ Cardinality(A) \in Nat /\ Cardinality(N) \in Nat
          /\ IsFiniteSet(M \ E)
      <3>1. A \in SUBSET Key /\ N \in SUBSET Key /\ M \ E \in SUBSET Key
        BY <1>1
      <3>. HIDE DEF A, N
      <3>. QED
        BY <3>1, KeysAreFinite
    <2>3. CASE b = "opened"
      <3>1. B = A \cup (M \ E) /\ A \cap (M \ E) = {}
        BY <2>1, <2>3
      <3>2. /\ Cardinality(B) = Cardinality(A) + Cardinality(M \ E)
            /\ Cardinality(M \ E) \in Nat
        <4>. HIDE DEF A, B, M, E
        <4>. QED
          BY <2>2, <3>1, DisjointSum
      <3>. HIDE DEF A, B, N, M, E
      <3>3. Cardinality(A) + Cardinality(N) + Cardinality(M \ E) = Cardinality(B) + Cardinality(N)
        BY <2>2, <3>2
      <3>. QED
        BY <2>3, <3>3 DEF A, B, N
    <2>4. CASE b # "opened"
      <3>1. B = A
        BY <2>1, <2>4
      <3>. HIDE DEF A, B, N, M, E
      <3>2. Cardinality(A) + Cardinality(N) + 0 = Cardinality(B) + Cardinality(N)
        BY <2>2, <3>1
      <3>. QED
        BY <2>4, <3>2 DEF A, B, N
    <2>. QED
      BY <2>3, <2>4
  <1>4. runDiffStreaming(C, F, now) = runDiffLoadAll(C, F, now)
    <2>1. [k \in Key |-> streamedRow(M, E, F, k, now)]
            = [k \in Key |-> IF k \in M THEN decideMatchTransition(F[k], now)
                             ELSE decideNoMatchTransition(F[k], now)]
      BY <1>2
    <2>2. [b \in Buckets |->
               Cardinality({k \in M \cap E : MatchBucket(F[k], now) = b})
               + Cardinality({k \in E \ M : NoMatchBucket(F[k]) = b})
               + (IF b = "opened" THEN Cardinality(M \ E) ELSE 0)]
            = [b \in Buckets |->
               Cardinality({k \in M : MatchBucket(F[k], now) = b})
               + Cardinality({k \in E \ M : NoMatchBucket(F[k]) = b})]
      BY <1>3
    <2>. QED
      BY <1>1, <2>1, <2>2, Zenon DEF runDiffStreaming, runDiffLoadAll
  <1>5. ~ insertConflicts(C, F, now)
    BY <1>1 DEF insertConflicts
  <1>. QED
    BY <1>4, <1>5

\* In every reachable state the paged diff does what the load-all diff it replaced does.
THEOREM StreamingEqualsLoadAllHolds == Spec => []StreamingEqualsLoadAll
  <1>1. Inv => StreamingEqualsLoadAll
    <2>. SUFFICES ASSUME Inv, NEW o \in Org, NEW now \in Time
                  PROVE  /\ runDiffStreaming(CertsIn(o), FindingsIn(o), now)
                              = runDiffLoadAll(CertsIn(o), FindingsIn(o), now)
                         /\ ~ insertConflicts(CertsIn(o), FindingsIn(o), now)
      BY DEF StreamingEqualsLoadAll
    <2>1. CertsIn(o) \in SUBSET Cert
      BY DEF Inv, StateType, CertsIn
    <2>. QED
      BY <2>1, StreamingIsLoadAll
  <1>. QED
    BY <1>1, InvHolds, PTL

-----------------------------------------------------------------------------
(* A recompute run twice *)

\* A row that has matched is open or overridden, and no expired suppression is left.
Settled(f, now) ==
    /\ f.status \notin {"none", "resolved"}
    /\ ~ suppressionExpired(f, now)

\* decideMatchTransition settles a row, and leaves what it left alone.
LEMMA MatchTwice ==
    ASSUME NEW f \in Finding, NEW now
    PROVE  LET g == decideMatchTransition(f, now)
           IN  /\ Settled(g, now)
               /\ decideMatchTransition(g, now) = g
               /\ g.status = "open" <=>
                    f.status = "open" \/ MatchBucket(f, now) = "opened"
               /\ g.status # "resolved"
  <1> DEFINE g == decideMatchTransition(f, now)
  <1>1. CASE f.status = "none"
    <2>1. g = Automatic("open", now, now, 0, now)
      BY <1>1 DEF decideMatchTransition, suppressionExpired
    <2>. HIDE DEF g
    <2>2. Settled(g, now) /\ g.status = "open"
      BY <2>1 DEF Settled, suppressionExpired, Automatic
    <2>3. decideMatchTransition(g, now) = Confirmed(g, now)
      BY <2>2 DEF decideMatchTransition, Settled
    <2>4. Confirmed(g, now) = g
      BY <2>1 DEF Confirmed, Automatic
    <2>5. MatchBucket(f, now) = "opened"
      BY <1>1 DEF MatchBucket
    <2>. QED
      BY <2>2, <2>3, <2>4, <2>5 DEF g
  <1>2. CASE f.status # "none" /\ (f.status = "resolved" \/ suppressionExpired(f, now))
    <2>1. g = Automatic("open", f.firstSeenAt, now, 0, now)
      BY <1>2 DEF decideMatchTransition
    <2>. HIDE DEF g
    <2>2. Settled(g, now) /\ g.status = "open"
      BY <2>1 DEF Settled, suppressionExpired, Automatic
    <2>3. decideMatchTransition(g, now) = Confirmed(g, now)
      BY <2>2 DEF decideMatchTransition, Settled
    <2>4. Confirmed(g, now) = g
      BY <2>1 DEF Confirmed, Automatic
    <2>5. MatchBucket(f, now) = "opened"
      BY <1>2 DEF MatchBucket
    <2>. QED
      BY <2>2, <2>3, <2>4, <2>5 DEF g
  <1>3. CASE f.status # "none" /\ ~ (f.status = "resolved" \/ suppressionExpired(f, now))
    <2>1. g = Confirmed(f, now)
      BY <1>3 DEF decideMatchTransition
    <2>. HIDE DEF g
    <2>2. g.status = f.status /\ g.suppressExpiresAt = f.suppressExpiresAt
      BY <2>1 DEF Confirmed
    <2>3. Settled(g, now)
      BY <1>3, <2>2 DEF Settled, suppressionExpired
    <2>4. decideMatchTransition(g, now) = Confirmed(g, now)
      BY <2>3 DEF decideMatchTransition, Settled
    <2>5. Confirmed(g, now) = g
      BY <2>1 DEF Confirmed
    <2>6. MatchBucket(f, now) # "opened"
      BY <1>3 DEF MatchBucket
    <2>. QED
      BY <1>3, <2>2, <2>3, <2>4, <2>5, <2>6 DEF g
  <1>. QED
    BY <1>1, <1>2, <1>3

\* decideNoMatchTransition leaves no row or a resolved one, and leaves that alone.
LEMMA NoMatchTwice ==
    ASSUME NEW f \in Finding, NEW now
    PROVE  LET g == decideNoMatchTransition(f, now)
           IN  /\ decideNoMatchTransition(g, now) = g
               /\ g.status = IF f.status = "none" THEN "none" ELSE "resolved"
  <1> DEFINE g == decideNoMatchTransition(f, now)
  <1>1. CASE f.status \in {"none", "resolved"}
    BY <1>1 DEF decideNoMatchTransition
  <1>2. CASE f.status \notin {"none", "resolved"}
    <2>1. g = Automatic("resolved", f.firstSeenAt, f.lastSeenAt, now, now)
      BY <1>2 DEF decideNoMatchTransition
    <2>. HIDE DEF g
    <2>2. g.status = "resolved"
      BY <2>1 DEF Automatic
    <2>3. decideNoMatchTransition(g, now) = g
      BY <2>2 DEF decideNoMatchTransition
    <2>. QED
      BY <1>2, <2>2, <2>3 DEF g
  <1>. QED
    BY <1>1, <1>2

\* The rows and the counters that the diff of the matches M leaves.
DiffRow(M, F, k, now) ==
    IF k \in M THEN decideMatchTransition(F[k], now) ELSE decideNoMatchTransition(F[k], now)

DiffCount(M, F, b, now) ==
    Cardinality({k \in M : MatchBucket(F[k], now) = b})
    + Cardinality({k \in existing(F) \ M : NoMatchBucket(F[k]) = b})

\* The paged diff, by its rows and its counters.
LEMMA StreamingDiff ==
    ASSUME NEW C \in SUBSET Cert, NEW F, NEW now
    PROVE  /\ runDiffStreaming(C, F, now).findings
                = [k \in Key |-> DiffRow(matchesOf(C, now), F, k, now)]
           /\ \A b \in Buckets : runDiffStreaming(C, F, now).counters[b]
                                   = DiffCount(matchesOf(C, now), F, b, now)
  <1>1. runDiffStreaming(C, F, now) = runDiffLoadAll(C, F, now)
    BY StreamingIsLoadAll
  <1>2. runDiffLoadAll(C, F, now).findings
          = [k \in Key |-> DiffRow(matchesOf(C, now), F, k, now)]
    BY DEF runDiffLoadAll, DiffRow
  <1>3. runDiffLoadAll(C, F, now).counters
          = [b \in Buckets |-> DiffCount(matchesOf(C, now), F, b, now)]
    BY DEF runDiffLoadAll, DiffCount
  <1>. QED
    BY <1>1, <1>2, <1>3

\* A second diff of the same matches at the same time changes no row and opens and
\* resolves nothing.
LEMMA DiffTwice ==
    ASSUME NEW M \in SUBSET Key, NEW F \in [Key -> Finding], NEW now,
           NEW G, G = [k \in Key |-> DiffRow(M, F, k, now)]
    PROVE  /\ \A k \in Key : DiffRow(M, G, k, now) = G[k]
           /\ DiffCount(M, G, "opened", now) = 0
           /\ DiffCount(M, G, "resolved", now) = 0
  <1>1. ASSUME NEW k \in Key, k \in M
        PROVE  /\ DiffRow(M, G, k, now) = G[k]
               /\ MatchBucket(G[k], now) = "updated"
    <2>1. G[k] = decideMatchTransition(F[k], now) /\ F[k] \in Finding
      BY <1>1 DEF DiffRow
    <2>2. Settled(G[k], now) /\ decideMatchTransition(G[k], now) = G[k]
      BY <2>1, MatchTwice
    <2>. QED
      BY <1>1, <2>2 DEF DiffRow, Settled, MatchBucket
  <1>2. ASSUME NEW k \in Key, k \notin M
        PROVE  /\ DiffRow(M, G, k, now) = G[k]
               /\ k \in existing(G) => NoMatchBucket(G[k]) = "unchanged"
    <2>1. G[k] = decideNoMatchTransition(F[k], now) /\ F[k] \in Finding
      BY <1>2 DEF DiffRow
    <2>2. /\ decideNoMatchTransition(G[k], now) = G[k]
          /\ G[k].status = IF F[k].status = "none" THEN "none" ELSE "resolved"
      BY <2>1, NoMatchTwice
    <2>. QED
      BY <1>2, <2>2 DEF DiffRow, NoMatchBucket, existing, Exists
  <1>3. existing(G) \in SUBSET Key
    BY DEF existing
  <1>4. ASSUME NEW b \in {"opened", "resolved"} PROVE DiffCount(M, G, b, now) = 0
    <2>1. /\ {k \in M : MatchBucket(G[k], now) = b} = {}
          /\ {k \in existing(G) \ M : NoMatchBucket(G[k]) = b} = {}
      BY <1>1, <1>2, <1>3
    <2>2. DiffCount(M, G, b, now) = 0 + 0
      BY <2>1, FS_EmptySet DEF DiffCount
    <2>. QED
      BY <2>2
  <1>. QED
    BY <1>1, <1>2, <1>4

\* In every reachable state a recompute that is run again at once changes nothing.
THEOREM RecomputeIsIdempotentHolds == Spec => []RecomputeIsIdempotent
  <1>1. Inv => RecomputeIsIdempotent
    <2>. SUFFICES ASSUME Inv, NEW o \in Org, NEW now \in Time
                  PROVE  LET once  == runDiffStreaming(CertsIn(o), FindingsIn(o), now)
                             twice == runDiffStreaming(CertsIn(o), once.findings, now)
                         IN  /\ twice.findings = once.findings
                             /\ twice.counters["opened"] = 0
                             /\ twice.counters["resolved"] = 0
      BY DEF RecomputeIsIdempotent
    <2>1. PICK C \in SUBSET Cert : C = CertsIn(o)
      BY DEF Inv, StateType, CertsIn
    <2>2. PICK F \in [Key -> Finding] : F = FindingsIn(o)
      BY NoFindingOK DEF Inv, StateType, FindingsIn
    <2>3. PICK M \in SUBSET Key : M = matchesOf(C, now)
      BY PagedMatches
    <2>4. PICK G : G = runDiffStreaming(C, F, now).findings
      OBVIOUS
    <2>5. G = [k \in Key |-> DiffRow(M, F, k, now)]
      BY <2>3, <2>4, StreamingDiff
    <2>6. /\ runDiffStreaming(C, G, now).findings = [k \in Key |-> DiffRow(M, G, k, now)]
          /\ runDiffStreaming(C, G, now).counters["opened"] = DiffCount(M, G, "opened", now)
          /\ runDiffStreaming(C, G, now).counters["resolved"] = DiffCount(M, G, "resolved", now)
      BY <2>3, StreamingDiff DEF Buckets
    <2>7. /\ \A k \in Key : DiffRow(M, G, k, now) = G[k]
          /\ DiffCount(M, G, "opened", now) = 0
          /\ DiffCount(M, G, "resolved", now) = 0
      BY <2>5, DiffTwice
    <2>8. runDiffStreaming(C, G, now).findings = G
      BY <2>5, <2>6, <2>7
    <2>. QED
      BY <2>1, <2>2, <2>4, <2>6, <2>7, <2>8
  <1>. QED
    BY <1>1, InvHolds, PTL

-----------------------------------------------------------------------------
(* The counters of a recompute *)

CertsOf(o) == {c \in Cert : OrgOf[c] = o}

\* A snapshot holds certificates of the organization only.
SnapshotsAreOfOrg ==
    \A p \in Caller : call[p].op = "recomputing" => snap[p].certs \in SUBSET CertsOf(call[p].org)

CounterInv == recomputed \in [Org -> Counters] /\ SnapshotsAreOfOrg

\* The counters are natural numbers.
LEMMA CountersAreNat ==
    ASSUME NEW C \in SUBSET Cert, NEW F, NEW now
    PROVE  runDiffStreaming(C, F, now).counters \in Counters
  <1>1. runDiffStreaming(C, F, now) = runDiffLoadAll(C, F, now)
    BY StreamingIsLoadAll
  <1>2. runDiffLoadAll(C, F, now).counters
          = [b \in Buckets |-> DiffCount(matchesOf(C, now), F, b, now)]
    BY DEF runDiffLoadAll, DiffCount
  <1>3. ASSUME NEW b \in Buckets PROVE DiffCount(matchesOf(C, now), F, b, now) \in Nat
    <2> DEFINE A == {k \in matchesOf(C, now) : MatchBucket(F[k], now) = b}
               B == {k \in existing(F) \ matchesOf(C, now) : NoMatchBucket(F[k]) = b}
    <2>1. A \in SUBSET Key /\ B \in SUBSET Key
      BY PagedMatches DEF existing
    <2>2. Cardinality(A) \in Nat /\ Cardinality(B) \in Nat
      <3>. HIDE DEF A, B
      <3>. QED
        BY <2>1, KeysAreFinite
    <2>. QED
      BY <2>2 DEF DiffCount
  <1>. QED
    BY <1>1, <1>2, <1>3 DEF Counters

\* A step that leaves the snapshots and the recomputes under way alone.
LEMMA OthersKeepCounters ==
    ASSUME Inv, CounterInv, UNCHANGED <<recomputed, snap>>,
           \A q \in Caller : call'[q].op = "recomputing" => call'[q] = call[q]
    PROVE  CounterInv'
  BY DEF CounterInv, SnapshotsAreOfOrg, CertsOf

\* So does a call that begins or ends.
LEMMA CallsKeepCounters ==
    ASSUME Inv, CounterInv, UNCHANGED <<recomputed, snap>>, NEW p \in Caller, NEW c,
           c.op # "recomputing", call' = [call EXCEPT ![p] = c]
    PROVE  CounterInv'
  <1>1. \A q \in Caller : call'[q].op = "recomputing" => call'[q] = call[q]
    BY DEF Inv, StateType
  <1>. QED
    BY <1>1, OthersKeepCounters

\* Every step preserves it.
LEMMA CounterStep == Inv /\ CounterInv /\ [Next]_vars => CounterInv'
  <1>. SUFFICES ASSUME Inv, CounterInv, [Next]_vars PROVE CounterInv'
    OBVIOUS
  <1>1. ASSUME NEW p \in Caller, NEW o, Recomputes(p, o), UNCHANGED <<recomputed, snap>>
        PROVE  CounterInv'
    <2> DEFINE c == [op |-> "recompute", org |-> o, key |-> Nil,
                     status |-> "none", expires |-> 0, now |-> clock]
    <2>1. call' = [call EXCEPT ![p] = c] /\ c.op # "recomputing"
      BY <1>1 DEF Recomputes
    <2>. HIDE DEF c
    <2>. QED
      BY <1>1, <2>1, CallsKeepCounters
  <1>2. ASSUME NEW p \in Caller, NEW o, NEW k, NEW status, NEW expires,
               Overrides(p, o, k, status, expires)
        PROVE  CounterInv'
    <2> DEFINE c == [op |-> "override", org |-> o, key |-> k,
                     status |-> status, expires |-> expires, now |-> clock]
    <2>1. call' = [call EXCEPT ![p] = c] /\ c.op # "recomputing"
      BY <1>2 DEF Overrides
    <2>2. UNCHANGED <<recomputed, snap>>
      BY <1>2 DEF Overrides, tables
    <2>. HIDE DEF c
    <2>. QED
      BY <2>1, <2>2, CallsKeepCounters
  <1>3. ASSUME NEW p \in Caller, Returns(p), UNCHANGED <<recomputed, snap>> PROVE CounterInv'
    <2>1. call' = [call EXCEPT ![p] = Idle] /\ Idle.op # "recomputing"
      BY <1>3 DEF Returns, Idle
    <2>. QED
      BY <1>3, <2>1, CallsKeepCounters
  <1>4. ASSUME NEW p \in Caller, RecomputeLock(p) PROVE CounterInv'
    <2> DEFINE c == [op |-> "recomputing", org |-> call[p].org, key |-> Nil,
                     status |-> "none", expires |-> 0, now |-> call[p].now]
               s == [certs |-> CertsIn(call[p].org), findings |-> FindingsIn(call[p].org)]
    <2>1. /\ call' = [call EXCEPT ![p] = c] /\ c.org = call[p].org
          /\ snap' = [snap EXCEPT ![p] = s] /\ s.certs = CertsIn(call[p].org)
          /\ recomputed' = recomputed
      BY <1>4 DEF RecomputeLock, Snapshots, tables
    <2>2. CertsIn(call[p].org) \in SUBSET CertsOf(call[p].org)
      BY DEF CertsIn, CertsOf, Inv, StateType
    <2>3. ASSUME NEW q \in Caller, call'[q].op = "recomputing"
          PROVE  snap'[q].certs \in SUBSET CertsOf(call'[q].org)
      <3>. HIDE DEF c, s
      <3>1. CASE q = p
        BY <2>1, <2>2, <3>1 DEF Inv, StateType
      <3>2. CASE q # p
        <4>1. call'[q] = call[q] /\ snap'[q] = snap[q]
          BY <2>1, <3>2 DEF Inv, StateType
        <4>. QED
          BY <2>3, <4>1 DEF CounterInv, SnapshotsAreOfOrg
      <3>. QED
        BY <3>1, <3>2
    <2>. QED
      BY <2>1, <2>3 DEF CounterInv, SnapshotsAreOfOrg, CertsOf
  <1>5. ASSUME NEW p \in Caller, Unlocks(p), recomputed' \in [Org -> Counters]
        PROVE  CounterInv'
    <2>1. \A q \in Caller : call'[q].op = "recomputing" =>
              call'[q] = call[q] /\ snap'[q] = snap[q]
      BY <1>5, UnlocksInv
    <2>. QED
      BY <1>5, <2>1 DEF CounterInv, SnapshotsAreOfOrg, CertsOf
  <1>6. ASSUME NEW p \in Caller, RecomputeCommit(p) PROVE CounterInv'
    <2>1. Unlocks(p)
      BY <1>6 DEF RecomputeCommit
    <2>2. snap[p].certs \in SUBSET Cert
      BY DEF Inv, StateType, Snapshot
    <2>3. recomputed' = [recomputed EXCEPT ![call[p].org] =
                runDiffStreaming(snap[p].certs, snap[p].findings, call[p].now).counters]
      BY <1>6 DEF RecomputeCommit, countersOf
    <2>4. PICK n \in Counters :
            n = runDiffStreaming(snap[p].certs, snap[p].findings, call[p].now).counters
      BY <2>2, CountersAreNat
    <2>5. recomputed' \in [Org -> Counters]
      BY <2>3, <2>4 DEF CounterInv
    <2>. QED
      BY <1>5, <2>1, <2>5
  <1>7. ASSUME NEW p \in Caller, Runs(p) PROVE CounterInv'
    <2>1. CASE applyOverride(p)
      BY <1>3, <2>1 DEF applyOverride
    <2>2. CASE OverrideNotFound(p) \/ CallFails(p)
      BY <1>3, <2>2 DEF OverrideNotFound, CallFails, tables
    <2>3. CASE RecomputeFails(p)
      BY <1>5, <2>3 DEF RecomputeFails, tables, CounterInv
    <2>. QED
      BY <1>4, <1>6, <1>7, <2>1, <2>2, <2>3 DEF Runs
  <1>8. ASSUME UNCHANGED <<call, snap, recomputed>> PROVE CounterInv'
    BY <1>8, OthersKeepCounters
  <1>9. ASSUME NEW p \in Scheduler, runOnce(p) \/ recomputeOrg(p) \/ Restart(p)
        PROVE  CounterInv'
    <2>1. CASE runOnce(p) \/ Restart(p)
      BY <1>8, <2>1 DEF runOnce, Restart, tables
    <2>2. CASE recomputeOrg(p)
      BY <1>1, <2>2 DEF recomputeOrg, tables, Caller
    <2>. QED
      BY <1>9, <2>1, <2>2
  <1>10. ASSUME NEW p \in Operator, NEW o \in Org,
                \/ Recompute(p, o)
                \/ \E k \in Key : AcknowledgeFinding(p, o, k)
                \/ \E k \in Key, life \in Lifetimes : SuppressFinding(p, o, k, life)
         PROVE  CounterInv'
    <2>1. CASE Recompute(p, o)
      BY <1>1, <2>1 DEF Recompute, tables, Caller
    <2>2. CASE \E k \in Key : AcknowledgeFinding(p, o, k)
      BY <1>2, <2>2 DEF AcknowledgeFinding, Caller
    <2>3. CASE \E k \in Key, life \in Lifetimes : SuppressFinding(p, o, k, life)
      BY <1>2, <2>3 DEF SuppressFinding, Caller
    <2>. QED
      BY <1>10, <2>1, <2>2, <2>3
  <1>11. CASE (\E c \in Cert : Ingest(c)) \/ Tick \/ UNCHANGED vars
    BY <1>8, <1>11 DEF Ingest, Tick, vars, tables
  <1>. QED
    BY <1>7, <1>9, <1>10, <1>11 DEF Next

\* It holds in every reachable state.
LEMMA CounterInvHolds == Spec => [](Inv /\ CounterInv)
  <1>1. Init => CounterInv
    BY DEF Init, CounterInv, SnapshotsAreOfOrg, Counters, Idle
  <1>. QED
    BY <1>1, InvHolds, CounterStep, PTL DEF Spec

\* The keys of K whose row got a status, and those that have a row.
Became(K, F, G, status) == {k \in K : G[k].status = status /\ F[k].status # status}
Present(K, G) == {k \in K : Exists(G[k])}

\* What the counters of the diff of the matches M over the rows F tell, when M and the
\* rows are of the keys in K.
LEMMA CountsTellTheChange ==
    ASSUME NEW K \in SUBSET Key, NEW M \in SUBSET K, NEW F \in [Key -> Finding], NEW now,
           existing(F) \in SUBSET K,
           NEW G, \A k \in K : G[k] = DiffRow(M, F, k, now)
    PROVE  /\ DiffCount(M, F, "opened", now) = Cardinality(Became(K, F, G, "open"))
           /\ DiffCount(M, F, "resolved", now) = Cardinality(Became(K, F, G, "resolved"))
           /\ DiffCount(M, F, "opened", now) + DiffCount(M, F, "updated", now)
              + DiffCount(M, F, "resolved", now) + DiffCount(M, F, "unchanged", now)
                = Cardinality(Present(K, G))
  <1> DEFINE E == existing(F)
             A(b) == {k \in M : MatchBucket(F[k], now) = b}
             B(b) == {k \in E \ M : NoMatchBucket(F[k]) = b}
  <1>1. \A k \in K : k \in E <=> F[k].status # "none"
    BY DEF existing, Exists
  <1>2. \A k \in M : MatchBucket(F[k], now) \in {"opened", "updated"}
    BY DEF MatchBucket
  <1>3. \A k \in E \ M : NoMatchBucket(F[k]) = IF F[k].status = "resolved"
                                               THEN "unchanged" ELSE "resolved"
    BY DEF NoMatchBucket
  <1>4. ASSUME NEW k \in M
        PROVE  /\ G[k].status \notin {"none", "resolved"}
               /\ G[k].status = "open" <=>
                    F[k].status = "open" \/ MatchBucket(F[k], now) = "opened"
               /\ F[k].status = "open" => MatchBucket(F[k], now) # "opened"
    <2>1. G[k] = decideMatchTransition(F[k], now) /\ F[k] \in Finding
      BY DEF DiffRow
    <2>2. F[k].status = "open" => MatchBucket(F[k], now) # "opened"
      BY DEF MatchBucket, suppressionExpired
    <2>. QED
      BY <2>1, <2>2, MatchTwice DEF Settled
  <1>5. ASSUME NEW k \in K \ M
        PROVE  G[k].status = IF F[k].status = "none" THEN "none" ELSE "resolved"
    <2>1. G[k] = decideNoMatchTransition(F[k], now) /\ F[k] \in Finding
      BY DEF DiffRow
    <2>. QED
      BY <2>1, NoMatchTwice
  <1>6. \A b : DiffCount(M, F, b, now) = Cardinality(A(b)) + Cardinality(B(b))
    BY DEF DiffCount
  <1>7. \A b : /\ IsFiniteSet(A(b)) /\ Cardinality(A(b)) \in Nat
               /\ IsFiniteSet(B(b)) /\ Cardinality(B(b)) \in Nat
    <2>. SUFFICES ASSUME NEW b
                  PROVE  /\ IsFiniteSet(A(b)) /\ Cardinality(A(b)) \in Nat
                         /\ IsFiniteSet(B(b)) /\ Cardinality(B(b)) \in Nat
      OBVIOUS
    <2>1. A(b) \in SUBSET Key /\ B(b) \in SUBSET Key
      BY DEF existing
    <2>. HIDE DEF A, B
    <2>. QED
      BY <2>1, KeysAreFinite
  <1>8. /\ B("opened") = {} /\ B("updated") = {}
        /\ A("resolved") = {} /\ A("unchanged") = {}
    BY <1>2, <1>3
  <1>9. A("opened") = Became(K, F, G, "open")
    BY <1>4, <1>5 DEF Became
  <1>10. B("resolved") = Became(K, F, G, "resolved")
    BY <1>1, <1>3, <1>4, <1>5 DEF Became
  <1>11. M \cup (E \ M) = Present(K, G)
    BY <1>1, <1>4, <1>5 DEF Present, Exists
  <1>12. /\ A("opened") \cup A("updated") = M /\ A("opened") \cap A("updated") = {}
         /\ B("resolved") \cup B("unchanged") = E \ M
         /\ B("resolved") \cap B("unchanged") = {}
    BY <1>2, <1>3
  <1>13. IsFiniteSet(M) /\ IsFiniteSet(E \ M) /\ M \cap (E \ M) = {}
    BY KeysAreFinite DEF existing
  <1>. HIDE DEF A, B, E
  <1>14. /\ Cardinality(M) = Cardinality(A("opened")) + Cardinality(A("updated"))
         /\ Cardinality(E \ M) = Cardinality(B("resolved")) + Cardinality(B("unchanged"))
    BY <1>7, <1>12, DisjointSum
  <1>15. Cardinality(M \cup (E \ M)) = Cardinality(M) + Cardinality(E \ M)
    BY <1>13, DisjointSum
  <1>16. /\ DiffCount(M, F, "opened", now) = Cardinality(A("opened"))
         /\ DiffCount(M, F, "updated", now) = Cardinality(A("updated"))
         /\ DiffCount(M, F, "resolved", now) = Cardinality(B("resolved"))
         /\ DiffCount(M, F, "unchanged", now) = Cardinality(B("unchanged"))
    <2>1. Cardinality({}) = 0
      BY FS_EmptySet
    <2>. QED
      BY <1>6, <1>7, <1>8, <2>1
  <1>17. DiffCount(M, F, "opened", now) + DiffCount(M, F, "updated", now)
           + DiffCount(M, F, "resolved", now) + DiffCount(M, F, "unchanged", now)
           = Cardinality(M \cup (E \ M))
    BY <1>7, <1>14, <1>15, <1>16
  <1>. QED
    BY <1>9, <1>10, <1>11, <1>16, <1>17

\* The counters that a recompute audits tell what it did to the organization's rows.
THEOREM CountersTellTheChangeHolds == Spec => CountersTellTheChange
  <1> DEFINE Told(p) ==
        LET o == call[p].org
            c == recomputed'[o]
            Get(status) == {k \in KeysOf(o) : findings'[k].status = status
                                               /\ findings[k].status # status}
        IN  /\ c["opened"] = Cardinality(Get("open"))
            /\ c["resolved"] = Cardinality(Get("resolved"))
            /\ c["opened"] + c["updated"] + c["resolved"] + c["unchanged"]
                 = Cardinality({k \in KeysOf(o) : Exists(findings'[k])})
  <1>1. ASSUME Inv, CounterInv, NEW p \in Caller, RecomputeCommit(p) PROVE Told(p)
    <2>1. PICK o \in Org : o = call[p].org
      BY <1>1 DEF RecomputeCommit, Unlocks, Inv, CallInv, CallArgs
    <2>2. PICK now : now = call[p].now
      OBVIOUS
    <2>3. PICK C \in SUBSET CertsOf(o) : C = snap[p].certs
      BY <1>1, <2>1 DEF RecomputeCommit, Unlocks, CounterInv, SnapshotsAreOfOrg
    <2>4. PICK F \in [Key -> Finding] : F = snap[p].findings
      BY <1>1 DEF Inv, StateType, Snapshot
    <2>5. F = FindingsIn(o)
      BY <1>1, <2>1, <2>4 DEF RecomputeCommit, Serializable
    <2>6. C \in SUBSET Cert
      BY DEF CertsOf
    <2>7. PICK K \in SUBSET Key : K = KeysOf(o)
      BY DEF KeysOf
    <2>8. PICK M \in SUBSET K : M = matchesOf(C, now)
      BY <2>6, <2>7 DEF matchesOf, CertsOf, KeysOf, Key
    <2>9. PICK n : n = runDiffStreaming(C, F, now).counters
      OBVIOUS
    <2>10. /\ n["opened"] = DiffCount(M, F, "opened", now)
           /\ n["updated"] = DiffCount(M, F, "updated", now)
           /\ n["resolved"] = DiffCount(M, F, "resolved", now)
           /\ n["unchanged"] = DiffCount(M, F, "unchanged", now)
      <3>1. \A b \in Buckets : runDiffStreaming(C, F, now).counters[b]
                                 = DiffCount(matchesOf(C, now), F, b, now)
        BY <2>6, StreamingDiff
      <3>. QED
        BY <2>8, <2>9, <3>1 DEF Buckets
    <2>11. recomputed' = [recomputed EXCEPT ![o] = n]
      BY <1>1, <2>1, <2>2, <2>3, <2>4, <2>9 DEF RecomputeCommit, countersOf
    <2>12. recomputed'[o] = n
      BY <1>1, <2>11 DEF CounterInv
    <2>13. findings' = [k \in Key |-> IF k \in KeysOf(o)
                                      THEN runDiffStreaming(C, F, now).findings[k]
                                      ELSE findings[k]]
      BY <1>1, <2>1, <2>2, <2>3, <2>4 DEF RecomputeCommit
    <2>14. PICK G : G = findings'
      OBVIOUS
    <2>15. \A k \in K : G[k] = DiffRow(M, F, k, now)
      <3>1. runDiffStreaming(C, F, now).findings
              = [k \in Key |-> DiffRow(matchesOf(C, now), F, k, now)]
        BY <2>6, StreamingDiff
      <3>. QED
        BY <2>7, <2>8, <2>13, <2>14, <3>1
    <2>16. \A k \in K : F[k] = findings[k]
      BY <2>5, <2>7 DEF FindingsIn
    <2>17. existing(F) \in SUBSET K
      BY <2>5, <2>7 DEF existing, Exists, FindingsIn, NoFinding
    <2>18. /\ n["opened"] = Cardinality(Became(K, F, G, "open"))
           /\ n["resolved"] = Cardinality(Became(K, F, G, "resolved"))
           /\ n["opened"] + n["updated"] + n["resolved"] + n["unchanged"]
                = Cardinality(Present(K, G))
      BY <2>10, <2>15, <2>17, CountsTellTheChange
    <2>19. /\ Became(K, F, G, "open")
                = {k \in KeysOf(o) : findings'[k].status = "open" /\ findings[k].status # "open"}
           /\ Became(K, F, G, "resolved")
                = {k \in KeysOf(o) : findings'[k].status = "resolved"
                                      /\ findings[k].status # "resolved"}
           /\ Present(K, G) = {k \in KeysOf(o) : Exists(findings'[k])}
      BY <2>7, <2>14, <2>16 DEF Became, Present
    <2>. QED
      BY <2>1, <2>12, <2>18, <2>19
  <1>2. Inv /\ CounterInv /\ [Next]_vars => [\A p \in Caller : RecomputeCommit(p) => Told(p)]_vars
    BY <1>1
  <1>. QED
    BY <1>2, CounterInvHolds, PTL DEF Spec, CountersTellTheChange
=============================================================================
