-------------------------- MODULE Ownership_proofs --------------------------
(***************************************************************************)
(* Proofs about certificate ownership, for every set of certificates,      *)
(* services, rules and concurrent callers.                                 *)
(*                                                                         *)
(* The tables agree because a recompute's snapshot is current, and it is   *)
(* current because every other writer finds the lock taken (Inv).  That    *)
(* each change of owner is audited needs in addition that a decision and   *)
(* its service fit together (OwnersAgree): the audit looks at both.        *)
(***************************************************************************)
EXTENDS Ownership, NaturalOrder, SequenceTheorems, TLAPS

(***************************************************************************)
(* The inductive invariant.                                                *)
(***************************************************************************)

\* The part of TypeOK the argument below rests on.
StateType ==
    /\ clock \in Time
    /\ rules \in RuleSets
    /\ ov \in [OverrideId -> Override]
    /\ own \in [Cert -> CertificateOwnership]
    /\ expl \in [Cert -> [ExpId -> 0 .. MaxClock]]
    /\ audit \in [OverrideId -> Seq({"overridden", "override_cleared", "override_expired"})]
    /\ lock \in Caller \cup {Nil}
    /\ call \in [Caller -> Call]
    /\ snap \in [Caller -> Snapshot]

\* An override row that was ever written is about a certificate.
OverrideRows == \A o \in OverrideId : ov[o].state # "none" => ov[o].cert \in Cert

\* A call read the clock in the past, an operator pins into the future of what it read,
\* and clears an override that exists.
CallArgs ==
    \A p \in Caller :
        /\ call[p].op # "none" => call[p].now \in 1 .. clock
        /\ call[p].op = "create" => /\ call[p].cert \in Cert
                                    /\ call[p].expires > call[p].now
        /\ call[p].op = "clear" => call[p].override \in OverrideId

\* A recompute that is past its snapshot holds the lock.
HoldsLock == \A p \in Caller : call[p].op = "recomputing" => lock = p

CallInv == CallArgs /\ HoldsLock /\ SnapshotIsCurrent

TableInv == OverrideRows /\ OverrideGoverns /\ PinnedExplanationExists /\ AuditTellsOverrideLife

Inv == StateType /\ CallInv /\ TableInv

(***************************************************************************)
(* The engine.                                                             *)
(***************************************************************************)

\* The tiers are ordered by natural numbers.
LEMMA OrdinalType == \A t \in Tier : tierOrdinal[t] \in Nat
  BY DEF Tier, tierOrdinal

\* The walk order has a first rule in every nonempty set of rules.
LEMMA WinnerExists ==
    ASSUME NEW M \in SUBSET Rule, M # {}
    PROVE  Winner(M) \in M
  <1> DEFINE T1 == {tierOrdinal[r.tier] : r \in M}
  <1>1. PICK m1 \in T1 : \A n \in T1 : m1 <= n
    <2>1. T1 \in SUBSET Nat /\ T1 # {}
      BY OrdinalType DEF Rule
    <2>. QED
      BY <2>1, SmallestNat
  <1> DEFINE M1 == {r \in M : tierOrdinal[r.tier] = m1}
  <1> DEFINE T2 == {r.priority : r \in M1}
  <1>2. PICK m2 \in T2 : \A n \in T2 : m2 <= n
    <2>1. T2 \in SUBSET Nat /\ T2 # {}
      BY <1>1 DEF Rule
    <2>. QED
      BY <2>1, SmallestNat
  <1> DEFINE M2 == {r \in M1 : r.priority = m2}
  <1> DEFINE T3 == {r.created : r \in M2}
  <1>3. PICK m3 \in T3 : \A n \in T3 : m3 <= n
    <2>1. T3 \in SUBSET Nat /\ T3 # {}
      BY <1>2 DEF Rule
    <2>. QED
      BY <2>1, SmallestNat
  <1> DEFINE M3 == {r \in M2 : r.created = m3}
  <1> DEFINE T4 == {r.id : r \in M3}
  <1>4. PICK m4 \in T4 : \A n \in T4 : m4 <= n
    <2>1. T4 \in SUBSET Nat /\ T4 # {}
      BY <1>3 DEF Rule
    <2>. QED
      BY <2>1, SmallestNat
  <1>5. PICK w \in M3 : w.id = m4
    BY <1>4
  <1>6. \A s \in M : ~ WalksBefore(s, w)
    <2> SUFFICES ASSUME NEW s \in M, WalksBefore(s, w)
                 PROVE  FALSE
      OBVIOUS
    <2>1. /\ s.tier \in Tier /\ s.priority \in Nat /\ s.created \in Nat /\ s.id \in Nat
          /\ w.tier \in Tier /\ w.priority \in Nat /\ w.created \in Nat /\ w.id \in Nat
          /\ tierOrdinal[s.tier] \in Nat /\ tierOrdinal[w.tier] \in Nat
      BY OrdinalType DEF Rule
    <2>2. m1 <= tierOrdinal[s.tier] /\ tierOrdinal[w.tier] = m1
      BY <1>1
    <2>3. s.tier = w.tier
      BY <2>1, <2>2 DEF WalksBefore
    <2>4. s \in M1 /\ m2 <= s.priority /\ w.priority = m2
      BY <1>2, <2>2, <2>3
    <2>5. s.priority = w.priority
      BY <2>1, <2>2, <2>4 DEF WalksBefore
    <2>6. s \in M2 /\ m3 <= s.created /\ w.created = m3
      BY <1>3, <2>4, <2>5
    <2>7. s.created = w.created
      BY <2>1, <2>2, <2>4, <2>5, <2>6 DEF WalksBefore
    <2>8. s \in M3 /\ m4 <= s.id /\ w.id = m4
      BY <1>4, <1>5, <2>6, <2>7
    <2>. QED
      BY <2>1, <2>2, <2>5, <2>7, <2>8 DEF WalksBefore
  <1>. QED
    BY <1>6 DEF Winner

\* A decision has its type; an active pin decides, and nothing else names an override.
LEMMA DecisionFacts ==
    ASSUME NEW c \in Cert, NEW pin \in Pin, NEW R \in SUBSET Rule, NEW now \in Nat
    PROVE  LET d == decideOwnership(c, pin, R, now)
           IN  /\ d \in OwnershipDecision
               /\ overrideActive(pin, now) => d.override = pin.id /\ d.decision = "overridden"
               /\ ~ overrideActive(pin, now) => d.override = Nil /\ d.decision # "overridden"
  <1> DEFINE M == matched(R, c)
  <1>1. CASE overrideActive(pin, now)
    BY <1>1 DEF decideOwnership, Overridden, OwnershipDecision, Pin, Decision, Confidence
  <1>2. CASE ~ overrideActive(pin, now) /\ M = {}
    BY <1>2 DEF decideOwnership, Unowned, OwnershipDecision, Decision, Confidence
  <1>3. CASE ~ overrideActive(pin, now) /\ M # {}
    <2>1. M \in SUBSET Rule
      BY DEF matched, compileRules
    <2>2. PICK w \in Rule : w = Winner(M)
      BY <1>3, <2>1, WinnerExists
    <2>3. decideOwnership(c, pin, R, now) = MatchedBy(w, M)
      BY <1>3, <2>2 DEF decideOwnership
    <2>4. confidenceForTier(w.tier) \in Confidence
      BY DEF confidenceForTier, Confidence
    <2>. QED
      BY <1>3, <2>2, <2>3, <2>4 DEF MatchedBy, OwnershipDecision, Decision, Rule
  <1>. QED
    BY <1>1, <1>2, <1>3

\* The row after a decision carries the decision, and points at the fresh explanation
\* exactly when one was written.
LEMMA UpsertFacts ==
    ASSUME NEW prior \in CertificateOwnership, NEW d \in OwnershipDecision, NEW e \in ExpId
    PROVE  LET row == Upserted(prior, d, e)
           IN  /\ row \in CertificateOwnership
               /\ row.override = d.override
               /\ row.decision = d.decision
               /\ row.exists
               /\ row.explanation = IF WritesExplanation(prior, d) THEN e
                                    ELSE prior.explanation
               /\ ~ WritesExplanation(prior, d) => prior.exists
  BY DEF Upserted, WritesExplanation, ownerChanged, basisChanged, buildOwnership,
         CertificateOwnership, OwnershipDecision

(***************************************************************************)
(* The tables.                                                             *)
(***************************************************************************)

\* Deciding the certificates in C leaves well-formed rows that carry their decisions
\* and point at explanations that exist, and leaves the other rows alone.
LEMMA DeriveFacts ==
    ASSUME StateType, PinnedExplanationExists,
           NEW C \in SUBSET Cert, NEW R \in SUBSET Rule, NEW pin \in [Cert -> Pin],
           NEW now \in Time, Derive(C, own, R, pin, now)
    PROVE  /\ own' \in [Cert -> CertificateOwnership]
           /\ expl' \in [Cert -> [ExpId -> 0 .. MaxClock]]
           /\ PinnedExplanationExists'
           /\ \A c \in Cert \ C : own'[c] = own[c]
           /\ \A c \in C : IF overrideActive(pin[c], now)
                            THEN own'[c].override = pin[c].id /\ own'[c].decision = "overridden"
                            ELSE own'[c].override = Nil /\ own'[c].decision # "overridden"
  <1> DEFINE d == [c \in Cert |-> decideOwnership(c, pin[c], R, now)]
             W == {c \in C : WritesExplanation(own[c], d[c])}
  <1>1. PICK e \in [Cert -> ExpId] :
          /\ \A c \in W : expl[c][e[c]] = 0
          /\ expl' = [c \in Cert |-> [i \in ExpId |->
                        IF c \in W /\ i = e[c] THEN now ELSE expl[c][i]]]
          /\ own' = [c \in Cert |-> IF c \in C THEN Upserted(own[c], d[c], e[c]) ELSE own[c]]
    BY DEF Derive, WriteExplanations
  <1>2. now \in Nat /\ now \in 0 .. MaxClock /\ now # 0 /\ MaxClock \in Nat
    BY OwnershipAssumption DEF Time
  <1>3. \A c \in Cert : /\ d[c] \in OwnershipDecision
                        /\ IF overrideActive(pin[c], now)
                           THEN d[c].override = pin[c].id /\ d[c].decision = "overridden"
                           ELSE d[c].override = Nil /\ d[c].decision # "overridden"
    BY <1>2, DecisionFacts
  <1> HIDE DEF d
  <1>4. \A c \in Cert : own[c] \in CertificateOwnership
    BY DEF StateType
  <1>5. \A c \in C : /\ own'[c] \in CertificateOwnership
                     /\ own'[c].override = d[c].override
                     /\ own'[c].decision = d[c].decision
                     /\ own'[c].explanation = IF c \in W THEN e[c] ELSE own[c].explanation
                     /\ c \notin W => own[c].exists
    BY <1>1, <1>3, <1>4, UpsertFacts
  <1>6. \A c \in Cert \ C : own'[c] = own[c]
    BY <1>1
  <1>7. own' \in [Cert -> CertificateOwnership]
    <2>1. \A c \in Cert : own'[c] \in CertificateOwnership
      BY <1>4, <1>5, <1>6
    <2>. QED
      BY <1>1, <2>1
  <1>8. expl' \in [Cert -> [ExpId -> 0 .. MaxClock]]
    BY <1>1, <1>2 DEF StateType
  <1>9. PinnedExplanationExists'
    <2> SUFFICES ASSUME NEW c \in Cert, own'[c].exists
                 PROVE  /\ own'[c].explanation \in ExpId
                        /\ expl'[c][own'[c].explanation] # 0
      BY DEF PinnedExplanationExists
    <2>1. CASE c \in W
      BY <1>1, <1>2, <1>5, <2>1
    <2>2. CASE c \notin W
      <3>1. own[c].exists /\ own'[c].explanation = own[c].explanation
        BY <1>5, <1>6, <2>2
      <3>2. own[c].explanation \in ExpId /\ expl[c][own[c].explanation] # 0
        BY <3>1 DEF PinnedExplanationExists
      <3>. QED
        BY <1>1, <2>2, <3>1, <3>2
    <2>. QED
      BY <2>1, <2>2
  <1>. QED
    BY <1>3, <1>5, <1>6, <1>7, <1>8, <1>9

\* An audit trail of one row, extended.
LEMMA AppendOne ==
    ASSUME NEW S, NEW a \in S, NEW b \in S
    PROVE  Append(<<a>>, b) = <<a, b>>
  <1>1. <<a>> \in Seq(S) /\ Len(<<a>>) = 1 /\ <<a>>[1] = a
    OBVIOUS
  <1>2. Append(<<a>>, b) \in Seq(S) /\ Len(Append(<<a>>, b)) = 2
    BY <1>1
  <1>3. Append(<<a>>, b)[1] = a /\ Append(<<a>>, b)[2] = b
    BY <1>1
  <1>4. <<a, b>> \in Seq(S) /\ Len(<<a, b>>) = 2 /\ <<a, b>>[1] = a /\ <<a, b>>[2] = b
    OBVIOUS
  <1>5. \A i \in 1 .. 2 : Append(<<a>>, b)[i] = <<a, b>>[i]
    BY <1>3, <1>4
  <1>. QED
    BY <1>2, <1>4, <1>5, SeqEqual

\* Clearing active overrides takes exactly them out of the active set, and extends
\* their audit trail.
LEMMA ClearFacts ==
    ASSUME StateType, OverrideRows, AuditTellsOverrideLife,
           NEW O \in SUBSET OverrideId, \A o \in O : ov[o].state = "active",
           NEW action \in {"override_cleared", "override_expired"},
           action = "override_expired" => \A o \in O : ov[o].expires <= clock,
           ClearOwnershipOverrides(O, action), clock' = clock
    PROVE  /\ ov' \in [OverrideId -> Override]
           /\ audit' \in [OverrideId -> Seq({"overridden", "override_cleared", "override_expired"})]
           /\ OverrideRows'
           /\ AuditTellsOverrideLife'
           /\ \A c \in Cert : Active(ov', c) = Active(ov, c) \ O
  <1>1. /\ ov' = [o \in OverrideId |->
                   IF o \in O THEN [state |-> "cleared", cert |-> ov[o].cert,
                                    service |-> ov[o].service, expires |-> ov[o].expires]
                   ELSE ov[o]]
        /\ audit' = [o \in OverrideId |-> IF o \in O THEN Append(audit[o], action) ELSE audit[o]]
    BY DEF ClearOwnershipOverrides
  <1>2. \A o \in OverrideId : ov[o] \in Override
    BY DEF StateType
  <1>3. ov' \in [OverrideId -> Override]
    BY <1>1, <1>2 DEF Override
  <1>4. audit' \in [OverrideId -> Seq({"overridden", "override_cleared", "override_expired"})]
    BY <1>1 DEF StateType
  <1>5. OverrideRows'
    BY <1>1 DEF OverrideRows
  <1>6. AuditTellsOverrideLife'
    <2> SUFFICES ASSUME NEW o \in OverrideId
                 PROVE  \/ ov'[o].state = "none" /\ audit'[o] = <<>>
                        \/ ov'[o].state = "active" /\ audit'[o] = <<"overridden">>
                        \/ /\ ov'[o].state = "cleared"
                           /\ audit'[o] = <<"overridden", "override_cleared">>
                        \/ /\ ov'[o].state = "cleared"
                           /\ audit'[o] = <<"overridden", "override_expired">>
                           /\ ov'[o].expires <= clock'
      BY DEF AuditTellsOverrideLife
    <2>1. CASE o \in O
      <3>1. audit[o] = <<"overridden">>
        BY <2>1 DEF AuditTellsOverrideLife
      <3>2. audit'[o] = <<"overridden", action>>
        <4>1. Append(<<"overridden">>, action) = <<"overridden", action>>
          <5> DEFINE S == {"overridden", "override_cleared", "override_expired"}
          <5>1. "overridden" \in S /\ action \in S
            OBVIOUS
          <5> HIDE DEF S
          <5>. QED
            BY <5>1, AppendOne
        <4>. QED
          BY <1>1, <2>1, <3>1, <4>1
      <3>3. ov'[o].state = "cleared" /\ ov'[o].expires = ov[o].expires
        BY <1>1, <2>1
      <3>. QED
        BY <2>1, <3>2, <3>3
    <2>2. CASE o \notin O
      BY <1>1, <2>2 DEF AuditTellsOverrideLife
    <2>. QED
      BY <2>1, <2>2
  <1>7. \A c \in Cert : Active(ov', c) = Active(ov, c) \ O
    BY <1>1 DEF Active
  <1>. QED
    BY <1>3, <1>4, <1>5, <1>6, <1>7

\* A locked transaction runs when no recompute is past its snapshot.
LEMMA LockedTxFacts ==
    ASSUME StateType, CallInv, NEW p \in Caller, NEW op \in Writers, LockedTx(p, op)
    PROVE  /\ clock' = clock /\ clock' \in Time /\ rules' \in RuleSets
           /\ lock' \in Caller \cup {Nil}
           /\ call' \in [Caller -> Call]
           /\ snap' \in [Caller -> Snapshot]
           /\ CallInv'
           /\ call[p].now \in Time /\ call[p].now <= clock
  <1>1. /\ call[p].op = op /\ lock = Nil
        /\ call' = [call EXCEPT ![p] = Idle]
        /\ clock' = clock /\ rules' = rules /\ lock' = lock /\ snap' = snap
    BY DEF LockedTx, Returns
  <1>2. Idle \in Call /\ Idle.op = "none"
    BY DEF Idle, CallOf, Call
  <1>3. call' \in [Caller -> Call] /\ \A q \in Caller : call'[q] = call[q] \/ call'[q].op = "none"
    BY <1>1, <1>2 DEF StateType
  <1>4. \A q \in Caller : call[q].op # "recomputing"
    BY <1>1, OwnershipAssumption DEF CallInv, HoldsLock
  <1>5. CallInv'
    <2>1. CallArgs'
      BY <1>1, <1>3 DEF CallInv, CallArgs
    <2>2. HoldsLock' /\ SnapshotIsCurrent'
      BY <1>3, <1>4 DEF HoldsLock, SnapshotIsCurrent
    <2>. QED
      BY <2>1, <2>2 DEF CallInv
  <1>6. call[p].now \in 1 .. clock
    BY <1>1 DEF CallInv, CallArgs, Writers, Jobs
  <1>. QED
    BY <1>1, <1>3, <1>5, <1>6, OwnershipAssumption DEF StateType, Time

(***************************************************************************)
(* One lemma per transaction.                                              *)
(***************************************************************************)

\* A transaction that clears the active overrides in O and re-derives their
\* certificates from the rules keeps the tables in step.
LEMMA ClearAndRederiveInv ==
    ASSUME StateType, TableInv,
           NEW O \in SUBSET OverrideId, \A o \in O : ov[o].state = "active",
           NEW action \in {"override_cleared", "override_expired"},
           action = "override_expired" => \A o \in O : ov[o].expires <= clock,
           NEW now \in Time,
           ClearAndRederive(O, action, now), clock' = clock
    PROVE  /\ ov' \in [OverrideId -> Override]
           /\ audit' \in [OverrideId -> Seq({"overridden", "override_cleared", "override_expired"})]
           /\ own' \in [Cert -> CertificateOwnership]
           /\ expl' \in [Cert -> [ExpId -> 0 .. MaxClock]]
           /\ TableInv'
  <1> DEFINE C == {c \in Cert : \E o \in O : ov[o].cert = c}
             pin == [c \in Cert |-> NoPin]
  <1>1. ClearOwnershipOverrides(O, action) /\ Derive(C, own, rules, pin, now)
    BY DEF ClearAndRederive, rederiveCertificates
  <1>2. pin \in [Cert -> Pin] /\ \A c \in Cert : ~ overrideActive(pin[c], now)
    BY DEF NoPin, Pin, overrideActive
  <1>3. rules \in SUBSET Rule /\ C \in SUBSET Cert
    BY OwnershipAssumption DEF StateType
  <1>4. /\ ov' \in [OverrideId -> Override]
        /\ audit' \in [OverrideId -> Seq({"overridden", "override_cleared", "override_expired"})]
        /\ OverrideRows'
        /\ AuditTellsOverrideLife'
        /\ \A c \in Cert : Active(ov', c) = Active(ov, c) \ O
    BY <1>1, ClearFacts DEF TableInv
  <1> HIDE DEF C, pin
  <1>5. /\ own' \in [Cert -> CertificateOwnership]
        /\ expl' \in [Cert -> [ExpId -> 0 .. MaxClock]]
        /\ PinnedExplanationExists'
        /\ \A c \in Cert \ C : own'[c] = own[c]
        /\ \A c \in C : own'[c].override = Nil /\ own'[c].decision # "overridden"
    BY <1>1, <1>2, <1>3, DeriveFacts DEF TableInv
  <1>6. OverrideGoverns'
    <2> SUFFICES ASSUME NEW c \in Cert
                 PROVE  /\ Active(ov', c) = {own'[c].override} \ {Nil}
                        /\ own'[c].decision = "overridden" <=> own'[c].override # Nil
      BY DEF OverrideGoverns, Active
    <2>0. /\ Active(ov, c) = {own[c].override} \ {Nil}
          /\ own[c].decision = "overridden" <=> own[c].override # Nil
      BY DEF TableInv, OverrideGoverns
    <2>1. CASE c \in C
      <3>1. PICK o \in O : o \in Active(ov, c)
        BY <2>1 DEF C, Active
      <3>2. Active(ov, c) = {o}
        BY <2>0, <3>1
      <3>3. Active(ov', c) = {}
        BY <1>4, <3>2
      <3>. QED
        BY <1>5, <2>1, <3>3
    <2>2. CASE c \notin C
      <3>1. Active(ov, c) \cap O = {}
        BY <2>2 DEF C, Active
      <3>. QED
        BY <1>4, <1>5, <2>0, <2>2, <3>1
    <2>. QED
      BY <2>1, <2>2
  <1>. QED
    BY <1>4, <1>5, <1>6 DEF TableInv

\* ClearOverride, under the lock: one override cleared, its certificate re-derived.
LEMMA ClearOverrideTxInv ==
    ASSUME Inv, NEW p \in Caller, ClearOverrideTx(p)
    PROVE  Inv'
  <1>1. LockedTx(p, "clear")
    BY DEF ClearOverrideTx
  <1>2. StateType /\ CallInv /\ TableInv
    BY DEF Inv
  <1>3. /\ clock' = clock /\ clock' \in Time /\ rules' \in RuleSets
        /\ lock' \in Caller \cup {Nil} /\ call' \in [Caller -> Call]
        /\ snap' \in [Caller -> Snapshot] /\ CallInv' /\ call[p].now \in Time
    BY <1>1, <1>2, LockedTxFacts DEF Writers
  <1>4. call[p].override \in OverrideId
    BY <1>1, <1>2 DEF LockedTx, CallInv, CallArgs
  <1>5. /\ ov[call[p].override].state = "active"
        /\ ClearAndRederive({call[p].override}, "override_cleared", call[p].now)
    BY DEF ClearOverrideTx
  <1>6. /\ ov' \in [OverrideId -> Override]
        /\ audit' \in [OverrideId -> Seq({"overridden", "override_cleared", "override_expired"})]
        /\ own' \in [Cert -> CertificateOwnership]
        /\ expl' \in [Cert -> [ExpId -> 0 .. MaxClock]]
        /\ TableInv'
    BY <1>2, <1>3, <1>4, <1>5, ClearAndRederiveInv
  <1>. QED
    BY <1>3, <1>6 DEF Inv, StateType

\* A page of the sweep, under the lock: the expired overrides of the page are cleared and
\* their certificates re-derived.
LEMMA SweepTxInv ==
    ASSUME Inv, NEW p \in Caller, SweepTx(p)
    PROVE  Inv'
  <1> DEFINE now  == call[p].now
             page == Page({ov[o].cert : o \in Expired(ov, now)}, cursor["sweep"])
             O    == {o \in Expired(ov, now) : ov[o].cert \in page}
  <1>1. LockedTx(p, "sweep") /\ ClearAndRederive(O, "override_expired", now)
    BY DEF SweepTx
  <1>2. StateType /\ CallInv /\ TableInv
    BY DEF Inv
  <1>3. /\ clock' = clock /\ clock' \in Time /\ rules' \in RuleSets
        /\ lock' \in Caller \cup {Nil} /\ call' \in [Caller -> Call]
        /\ snap' \in [Caller -> Snapshot] /\ CallInv' /\ now \in Time /\ now <= clock
    BY <1>1, <1>2, LockedTxFacts DEF Writers, Jobs
  <1>4. O \in SUBSET OverrideId /\ \A o \in O : ov[o].state = "active" /\ ov[o].expires <= clock
    <2>1. \A o \in OverrideId : ov[o].expires \in Nat
      BY <1>2 DEF StateType, Override
    <2>2. clock \in Nat /\ now \in Nat
      BY <1>2, <1>3, OwnershipAssumption DEF StateType, Time
    <2>. QED
      BY <1>3, <2>1, <2>2 DEF Expired
  <1> HIDE DEF O, now
  <1>5. /\ ov' \in [OverrideId -> Override]
        /\ audit' \in [OverrideId -> Seq({"overridden", "override_cleared", "override_expired"})]
        /\ own' \in [Cert -> CertificateOwnership]
        /\ expl' \in [Cert -> [ExpId -> 0 .. MaxClock]]
        /\ TableInv'
    BY <1>1, <1>2, <1>3, <1>4, ClearAndRederiveInv
  <1>. QED
    BY <1>3, <1>5 DEF Inv, StateType

\* CreateOverride, under the lock: a new pin for a certificate that had no active one.
LEMMA CreateOverrideTxInv ==
    ASSUME Inv, NEW p \in Caller, CreateOverrideTx(p)
    PROVE  Inv'
  <1> DEFINE in == call[p]
  <1>1. LockedTx(p, "create") /\ Active(ov, in.cert) = {}
    BY DEF CreateOverrideTx
  <1>2. StateType /\ CallInv /\ TableInv
    BY DEF Inv
  <1>3. /\ clock' = clock /\ clock' \in Time /\ rules' \in RuleSets
        /\ lock' \in Caller \cup {Nil} /\ call' \in [Caller -> Call]
        /\ snap' \in [Caller -> Snapshot] /\ CallInv' /\ in.now \in Time
    BY <1>1, <1>2, LockedTxFacts DEF Writers
  <1>4. /\ in.cert \in Cert /\ in.expires > in.now
        /\ in.service \in Service \cup {Nil} /\ in.expires \in Nat
    <2>1. in \in Call /\ in.op = "create"
      BY <1>1, <1>2 DEF StateType, LockedTx
    <2>. QED
      BY <1>2, <2>1 DEF CallInv, CallArgs, Call
  <1>5. PICK o \in OverrideId :
          /\ ov[o].state = "none"
          /\ ov' = [ov EXCEPT ![o] = [state |-> "active", cert |-> in.cert,
                                      service |-> in.service, expires |-> in.expires]]
          /\ rederiveCertificates({in.cert},
               [c \in Cert |-> [id |-> o, service |-> in.service, expires |-> in.expires]],
               in.now)
          /\ audit' = [audit EXCEPT ![o] = Append(audit[o], "overridden")]
    BY DEF CreateOverrideTx
  <1> DEFINE pin == [c \in Cert |-> [id |-> o, service |-> in.service, expires |-> in.expires]]
             C   == {in.cert}
  <1>6. pin \in [Cert -> Pin] /\ \A c \in Cert : overrideActive(pin[c], in.now) /\ pin[c].id = o
    BY <1>4, OwnershipAssumption DEF Pin, overrideActive
  <1>7. rules \in SUBSET Rule /\ C \in SUBSET Cert
    BY <1>2, <1>4, OwnershipAssumption DEF StateType
  <1>8. Derive(C, own, rules, pin, in.now)
    BY <1>5 DEF rederiveCertificates
  <1> HIDE DEF pin, C
  <1>9. /\ own' \in [Cert -> CertificateOwnership]
        /\ expl' \in [Cert -> [ExpId -> 0 .. MaxClock]]
        /\ PinnedExplanationExists'
        /\ \A c \in Cert \ C : own'[c] = own[c]
        /\ \A c \in C : own'[c].override = o /\ own'[c].decision = "overridden"
    <2> DEFINE now == in.now
    <2>1. PinnedExplanationExists
      BY <1>2 DEF TableInv
    <2>2. /\ now \in Time /\ Derive(C, own, rules, pin, now)
          /\ \A c \in Cert : overrideActive(pin[c], now) /\ pin[c].id = o
      BY <1>3, <1>6, <1>8
    <2> HIDE DEF now
    <2>3. pin \in [Cert -> Pin]
      BY <1>6
    <2>4. /\ own' \in [Cert -> CertificateOwnership]
          /\ expl' \in [Cert -> [ExpId -> 0 .. MaxClock]]
          /\ PinnedExplanationExists'
          /\ \A c \in Cert \ C : own'[c] = own[c]
          /\ \A c \in C : IF overrideActive(pin[c], now)
                           THEN own'[c].override = pin[c].id /\ own'[c].decision = "overridden"
                           ELSE own'[c].override = Nil /\ own'[c].decision # "overridden"
      BY <1>2, <1>7, <2>1, <2>2, <2>3, DeriveFacts
    <2>. QED
      BY <1>7, <2>2, <2>4
  <1>10. ov' \in [OverrideId -> Override]
    BY <1>2, <1>4, <1>5 DEF StateType, Override
  <1>11. audit[o] = <<>>
    BY <1>2, <1>5 DEF TableInv, AuditTellsOverrideLife
  <1>12. audit'[o] = <<"overridden">>
    BY <1>2, <1>5, <1>11 DEF StateType
  <1>13. audit' \in [OverrideId -> Seq({"overridden", "override_cleared", "override_expired"})]
    BY <1>2, <1>5 DEF StateType
  <1>14. ov'[o].state = "active" /\ ov'[o].cert = in.cert
    BY <1>2, <1>5 DEF StateType
  <1>15. \A x \in OverrideId : x # o => ov'[x] = ov[x] /\ audit'[x] = audit[x]
    BY <1>2, <1>5 DEF StateType
  <1>16. OverrideRows'
    BY <1>2, <1>4, <1>14, <1>15 DEF TableInv, OverrideRows
  <1>17. AuditTellsOverrideLife'
    BY <1>2, <1>3, <1>12, <1>14, <1>15 DEF TableInv, AuditTellsOverrideLife
  <1>18. OverrideGoverns'
    <2> SUFFICES ASSUME NEW c \in Cert
                 PROVE  /\ Active(ov', c) = {own'[c].override} \ {Nil}
                        /\ own'[c].decision = "overridden" <=> own'[c].override # Nil
      BY DEF OverrideGoverns, Active
    <2>0. o # Nil
      BY OwnershipAssumption
    <2>1. CASE c = in.cert
      <3>1. Active(ov', c) = {o}
        BY <1>1, <1>14, <1>15, <2>1 DEF Active
      <3>. QED
        BY <1>9, <2>0, <2>1, <3>1 DEF C
    <2>2. CASE c # in.cert
      <3>1. Active(ov', c) = Active(ov, c)
        BY <1>5, <1>14, <1>15, <2>2 DEF Active
      <3>2. own'[c] = own[c]
        BY <1>9, <2>2 DEF C
      <3>. QED
        BY <1>2, <3>1, <3>2 DEF TableInv, OverrideGoverns
    <2>. QED
      BY <2>1, <2>2
  <1>. QED
    BY <1>3, <1>9, <1>10, <1>13, <1>16, <1>17, <1>18 DEF Inv, StateType, TableInv

\* A page of the retention prune deletes explanations, never one that a row pins.
LEMMA PruneTxInv ==
    ASSUME Inv, NEW p \in Caller, PruneTx(p)
    PROVE  Inv'
  <1> DEFINE page == Page({c \in Cert : Timeline(c) # {}}, cursor["prune"])
             now == call[p].now
  <1>1. /\ LockedTx(p, "prune")
        /\ expl' = [c \in Cert |-> [e \in ExpId |->
                      IF c \in page /\ e \in pruneCertificateExplanations(c, now)
                      THEN 0 ELSE expl[c][e]]]
        /\ ov' = ov /\ own' = own /\ audit' = audit
    BY DEF PruneTx
  <1>2. StateType /\ CallInv /\ TableInv
    BY DEF Inv
  <1>3. /\ clock' = clock /\ clock' \in Time /\ rules' \in RuleSets
        /\ lock' \in Caller \cup {Nil} /\ call' \in [Caller -> Call]
        /\ snap' \in [Caller -> Snapshot] /\ CallInv'
    BY <1>1, <1>2, LockedTxFacts DEF Writers, Jobs
  <1> HIDE DEF page, now
  <1>4. expl' \in [Cert -> [ExpId -> 0 .. MaxClock]]
    BY <1>1, <1>2, OwnershipAssumption DEF StateType
  <1>5. PinnedExplanationExists'
    <2> SUFFICES ASSUME NEW c \in Cert, own'[c].exists
                 PROVE  /\ own'[c].explanation \in ExpId
                        /\ expl'[c][own'[c].explanation] # 0
      BY DEF PinnedExplanationExists
    <2>1. own[c].explanation \in ExpId /\ expl[c][own[c].explanation] # 0
      BY <1>1, <1>2 DEF TableInv, PinnedExplanationExists
    <2>2. own[c].explanation \notin pruneCertificateExplanations(c, now)
      BY DEF pruneCertificateExplanations
    <2>. QED
      BY <1>1, <2>1, <2>2
  <1>6. OverrideRows' /\ OverrideGoverns' /\ AuditTellsOverrideLife'
    BY <1>1, <1>2, <1>3 DEF TableInv, OverrideRows, OverrideGoverns, AuditTellsOverrideLife, Active
  <1>. QED
    BY <1>1, <1>2, <1>3, <1>4, <1>5, <1>6 DEF Inv, StateType, TableInv

\* The pin the engine is given is the override that governs the certificate.
LEMMA ActivePinFacts ==
    ASSUME StateType, TableInv, NEW c \in Cert
    PROVE  /\ ActivePin(ov, c) \in Pin
           /\ ActivePin(ov, c).id = own[c].override
           /\ own[c].override # Nil =>
                /\ own[c].override \in Active(ov, c)
                /\ ActivePin(ov, c).expires = ov[own[c].override].expires
  <1>1. Active(ov, c) = {own[c].override} \ {Nil}
    BY DEF TableInv, OverrideGoverns
  <1>2. CASE own[c].override = Nil
    BY <1>1, <1>2 DEF ActivePin, NoPin, Pin
  <1>3. CASE own[c].override # Nil
    <2> DEFINE o == own[c].override
    <2>1. Active(ov, c) = {o} /\ o \in OverrideId
      BY <1>1, <1>3 DEF StateType, CertificateOwnership
    <2>2. (CHOOSE x \in Active(ov, c) : TRUE) = o
      BY <2>1
    <2>3. ActivePin(ov, c) = [id |-> o, service |-> ov[o].service, expires |-> ov[o].expires]
      BY <2>1, <2>2 DEF ActivePin
    <2>4. ov[o] \in Override
      BY <2>1 DEF StateType
    <2>. QED
      BY <2>1, <2>3, <2>4 DEF Pin, Override
  <1>. QED
    BY <1>2, <1>3

\* A recompute commits what it decided on its snapshot, which the lock kept current.
LEMMA RecomputeCommitInv ==
    ASSUME Inv, NEW p \in Caller, RecomputeCommit(p)
    PROVE  Inv'
  <1> DEFINE now == call[p].now
             pin == [c \in Cert |-> ActivePin(ov, c)]
             O   == Expired(ov, now)
             R   == snap[p].rules
  <1>1. StateType /\ CallInv /\ TableInv
    BY DEF Inv
  <1>2. /\ call[p].op = "recomputing" /\ call' = [call EXCEPT ![p] = Idle] /\ lock' = Nil
        /\ snap' = [snap EXCEPT ![p] = NoSnapshot]
        /\ clock' = clock /\ rules' = rules
        /\ snap[p].own = own /\ snap[p].ov = ov
    BY DEF RecomputeCommit, Unlocks, Returns, Serializable
  <1>3. Derive(Cert, own, R, pin, now) /\ ClearOwnershipOverrides(O, "override_expired")
    BY <1>2 DEF RecomputeCommit
  <1>4. now \in Time /\ now <= clock /\ clock \in Nat /\ now \in Nat
    <2>1. now \in 1 .. clock
      BY <1>1, <1>2 DEF CallInv, CallArgs
    <2>. QED
      BY <1>1, <2>1, OwnershipAssumption DEF StateType, Time
  <1>5. R \in SUBSET Rule
    <2>1. snap[p] \in Snapshot
      BY <1>1 DEF StateType
    <2>. QED
      BY <2>1, OwnershipAssumption DEF Snapshot
  <1>6. /\ pin \in [Cert -> Pin]
        /\ \A c \in Cert : /\ pin[c].id = own[c].override
                           /\ own[c].override # Nil =>
                                /\ own[c].override \in Active(ov, c)
                                /\ pin[c].expires = ov[own[c].override].expires
    BY <1>1, ActivePinFacts
  <1>7. O \in SUBSET OverrideId /\ \A o \in O : ov[o].state = "active" /\ ov[o].expires <= clock
    <2>1. \A o \in OverrideId : ov[o].expires \in Nat
      BY <1>1 DEF StateType, Override
    <2>. QED
      BY <1>4, <2>1 DEF Expired
  <1> HIDE DEF pin, O, R, now
  <1>8. /\ ov' \in [OverrideId -> Override]
        /\ audit' \in [OverrideId -> Seq({"overridden", "override_cleared", "override_expired"})]
        /\ OverrideRows'
        /\ AuditTellsOverrideLife'
        /\ \A c \in Cert : Active(ov', c) = Active(ov, c) \ O
    BY <1>1, <1>2, <1>3, <1>7, ClearFacts DEF TableInv
  <1>9. /\ own' \in [Cert -> CertificateOwnership]
        /\ expl' \in [Cert -> [ExpId -> 0 .. MaxClock]]
        /\ PinnedExplanationExists'
        /\ \A c \in Cert : IF overrideActive(pin[c], now)
                            THEN own'[c].override = pin[c].id /\ own'[c].decision = "overridden"
                            ELSE own'[c].override = Nil /\ own'[c].decision # "overridden"
    <2>1. PinnedExplanationExists
      BY <1>1 DEF TableInv
    <2>. QED
      BY <1>1, <1>3, <1>4, <1>5, <1>6, <2>1, DeriveFacts
  <1>10. OverrideGoverns'
    <2> SUFFICES ASSUME NEW c \in Cert
                 PROVE  /\ Active(ov', c) = {own'[c].override} \ {Nil}
                        /\ own'[c].decision = "overridden" <=> own'[c].override # Nil
      BY DEF OverrideGoverns, Active
    <2> DEFINE o == own[c].override
    <2>0. Active(ov, c) = {o} \ {Nil}
      BY <1>1 DEF TableInv, OverrideGoverns
    <2>1. CASE o = Nil
      <3>1. ~ overrideActive(pin[c], now)
        BY <1>6, <2>1 DEF overrideActive
      <3>. QED
        BY <1>8, <1>9, <2>0, <2>1, <3>1
    <2>2. CASE o # Nil
      <3>1. /\ o \in OverrideId /\ ov[o].state = "active" /\ pin[c].expires = ov[o].expires
            /\ ov[o].expires \in Nat /\ pin[c].id = o
        BY <1>1, <1>6, <2>2 DEF Active, StateType, Override
      <3>2. overrideActive(pin[c], now) <=> o \notin O
        BY <1>4, <2>2, <3>1 DEF overrideActive, O, Expired
      <3>3. CASE o \in O
        BY <1>8, <1>9, <2>0, <3>2, <3>3
      <3>4. CASE o \notin O
        BY <1>8, <1>9, <2>0, <2>2, <3>1, <3>2, <3>4
      <3>. QED
        BY <3>3, <3>4
    <2>. QED
      BY <2>1, <2>2
  <1>11. Idle \in Call /\ Idle.op = "none"
    BY DEF Idle, CallOf, Call
  <1>12. /\ call' \in [Caller -> Call]
         /\ \A q \in Caller : IF q = p THEN call'[q].op = "none" ELSE call'[q] = call[q]
    BY <1>1, <1>2, <1>11 DEF StateType
  <1>13. CallInv'
    <2>1. \A q \in Caller : q # p => call[q].op # "recomputing"
      BY <1>1, <1>2 DEF CallInv, HoldsLock
    <2>2. \A q \in Caller : call'[q].op # "recomputing"
      BY <1>12, <2>1
    <2>3. HoldsLock' /\ SnapshotIsCurrent'
      BY <2>2 DEF HoldsLock, SnapshotIsCurrent
    <2>4. CallArgs'
      BY <1>1, <1>2, <1>12 DEF CallInv, CallArgs
    <2>. QED
      BY <2>3, <2>4 DEF CallInv
  <1>14. snap' \in [Caller -> Snapshot]
    <2>1. NoSnapshot \in Snapshot
      BY OwnershipAssumption DEF NoSnapshot, Snapshot, NoOverride, Override, NoRow,
                                 CertificateOwnership, Decision, Confidence
    <2>. QED
      BY <1>1, <1>2, <2>1 DEF StateType
  <1>. QED
    BY <1>1, <1>2, <1>8, <1>9, <1>10, <1>12, <1>13, <1>14 DEF Inv, StateType, TableInv

(***************************************************************************)
(* The other steps leave the tables alone.                                 *)
(***************************************************************************)

\* The tables stay in step while only time passes.
LEMMA TablesUnchanged ==
    ASSUME StateType, TableInv, UNCHANGED <<ov, own, expl, audit>>,
           clock' \in Time, clock <= clock'
    PROVE  TableInv'
  <1>1. OverrideRows' /\ OverrideGoverns' /\ PinnedExplanationExists'
    BY DEF TableInv, OverrideRows, OverrideGoverns, PinnedExplanationExists, Active
  <1>2. AuditTellsOverrideLife'
    <2>1. \A o \in OverrideId : ov[o].expires <= clock => ov[o].expires <= clock'
      BY OwnershipAssumption DEF StateType, Override, Time
    <2>. QED
      BY <2>1 DEF TableInv, AuditTellsOverrideLife
  <1>. QED
    BY <1>1, <1>2 DEF TableInv

\* A call that is not past its snapshot starts, waits or returns.
LEMMA CallStep ==
    ASSUME Inv, NEW p \in Caller, NEW k \in Call, call' = [call EXCEPT ![p] = k],
           UNCHANGED <<clock, rules, ov, own, expl, audit, lock, snap>>,
           k.op # "recomputing",
           k.op # "none" => k.now \in 1 .. clock,
           k.op = "create" => k.cert \in Cert /\ k.expires > k.now,
           k.op = "clear" => k.override \in OverrideId
    PROVE  Inv'
  <1>1. StateType /\ CallInv /\ TableInv
    BY DEF Inv
  <1>2. /\ call' \in [Caller -> Call]
        /\ \A q \in Caller : call'[q] = IF q = p THEN k ELSE call[q]
    BY <1>1 DEF StateType
  <1>3. StateType'
    BY <1>1, <1>2 DEF StateType
  <1>4. CallArgs'
    BY <1>1, <1>2 DEF CallInv, CallArgs
  <1>5. HoldsLock'
    BY <1>1, <1>2 DEF CallInv, HoldsLock
  <1>6. SnapshotIsCurrent'
    BY <1>1, <1>2 DEF CallInv, SnapshotIsCurrent, Serializable
  <1>7. TableInv'
    BY <1>1, <1>3, TablesUnchanged, OwnershipAssumption DEF StateType, Time
  <1>. QED
    BY <1>3, <1>4, <1>5, <1>6, <1>7 DEF Inv, CallInv

\* A recompute takes the lock and only then its snapshot.
LEMMA RecomputeLockInv ==
    ASSUME Inv, NEW p \in Caller, RecomputeLock(p)
    PROVE  Inv'
  <1> DEFINE k == CallOf("recomputing", Nil, Nil, 0, Nil, call[p].now)
             s == [rules |-> rules, ov |-> ov, own |-> own]
  <1>1. StateType /\ CallInv /\ TableInv
    BY DEF Inv
  <1>2. /\ call[p].op \in {"recompute", "recompute_nowait"}
        /\ lock = Nil /\ lock' = p
        /\ call' = [call EXCEPT ![p] = k]
        /\ snap' = [snap EXCEPT ![p] = s]
        /\ UNCHANGED <<clock, rules, ov, own, expl, audit>>
    BY DEF RecomputeLock, tables
  <1>3. call[p].now \in 1 .. clock /\ clock \in Time
    BY <1>1, <1>2 DEF CallInv, CallArgs, StateType
  <1>4. k \in Call /\ k.op = "recomputing" /\ k.now = call[p].now
    BY <1>3, OwnershipAssumption DEF CallOf, Call, Time
  <1>5. s \in Snapshot /\ s.own = own /\ s.ov = ov
    BY <1>1 DEF StateType, Snapshot
  <1> HIDE DEF k, s
  <1>6. /\ call' \in [Caller -> Call]
        /\ snap' \in [Caller -> Snapshot]
        /\ \A q \in Caller : call'[q] = IF q = p THEN k ELSE call[q]
        /\ snap'[p] = s
    BY <1>1, <1>2, <1>4, <1>5 DEF StateType
  <1>7. \A q \in Caller : call[q].op # "recomputing"
    BY <1>1, <1>2, OwnershipAssumption DEF CallInv, HoldsLock
  <1>8. StateType'
    BY <1>1, <1>2, <1>6 DEF StateType
  <1>9. CallArgs'
    BY <1>1, <1>2, <1>3, <1>4, <1>6 DEF CallInv, CallArgs
  <1>10. HoldsLock'
    BY <1>2, <1>6, <1>7 DEF HoldsLock
  <1>11. SnapshotIsCurrent'
    BY <1>2, <1>5, <1>6, <1>7 DEF SnapshotIsCurrent, Serializable
  <1>12. TableInv'
    BY <1>1, <1>2, <1>8, TablesUnchanged, OwnershipAssumption DEF StateType, Time
  <1>. QED
    BY <1>8, <1>9, <1>10, <1>11, <1>12 DEF Inv, CallInv

\* A recompute that fails rolls back and unlocks.
LEMMA RecomputeFailsInv ==
    ASSUME Inv, NEW p \in Caller, RecomputeFails(p)
    PROVE  Inv'
  <1>1. StateType /\ CallInv /\ TableInv
    BY DEF Inv
  <1>2. /\ call[p].op = "recomputing" /\ call' = [call EXCEPT ![p] = Idle] /\ lock' = Nil
        /\ snap' = [snap EXCEPT ![p] = NoSnapshot]
        /\ UNCHANGED <<clock, rules, ov, own, expl, audit>>
    BY DEF RecomputeFails, Unlocks, Returns, tables
  <1>3. Idle \in Call /\ Idle.op = "none"
    BY DEF Idle, CallOf, Call
  <1>4. NoSnapshot \in Snapshot
    BY OwnershipAssumption DEF NoSnapshot, Snapshot, NoOverride, Override, NoRow,
                               CertificateOwnership, Decision, Confidence
  <1>5. /\ call' \in [Caller -> Call] /\ snap' \in [Caller -> Snapshot]
        /\ \A q \in Caller : IF q = p THEN call'[q].op = "none" ELSE call'[q] = call[q]
    BY <1>1, <1>2, <1>3, <1>4 DEF StateType
  <1>6. \A q \in Caller : call'[q].op # "recomputing"
    BY <1>1, <1>2, <1>5 DEF CallInv, HoldsLock
  <1>7. HoldsLock' /\ SnapshotIsCurrent'
    BY <1>6 DEF HoldsLock, SnapshotIsCurrent
  <1>8. CallArgs'
    BY <1>1, <1>2, <1>5 DEF CallInv, CallArgs
  <1>9. StateType'
    BY <1>1, <1>2, <1>5 DEF StateType
  <1>10. TableInv'
    BY <1>1, <1>2, <1>9, TablesUnchanged, OwnershipAssumption DEF StateType, Time
  <1>. QED
    BY <1>7, <1>8, <1>9, <1>10 DEF Inv, CallInv

(***************************************************************************)
(* The invariant holds.                                                    *)
(***************************************************************************)

\* A new organization: no overrides, no ownership rows, nobody in a call.
LEMMA InitInv == Init => Inv
  <1> SUFFICES ASSUME Init PROVE Inv
    OBVIOUS
  <1> USE OwnershipAssumption
  <1>1. NoOverride \in Override /\ NoRow \in CertificateOwnership /\ Idle \in Call
    BY DEF NoOverride, Override, NoRow, CertificateOwnership, Decision, Confidence,
           Idle, CallOf, Call
  <1>2. NoSnapshot \in Snapshot
    BY <1>1 DEF NoSnapshot, Snapshot
  <1>3. StateType
    BY <1>1, <1>2 DEF Init, StateType, Time
  <1>4. CallInv
    BY DEF Init, CallInv, CallArgs, HoldsLock, SnapshotIsCurrent, Idle, CallOf
  <1>5. TableInv
    BY DEF Init, TableInv, OverrideRows, OverrideGoverns, PinnedExplanationExists,
           AuditTellsOverrideLife, Active, NoOverride, NoRow
  <1>. QED
    BY <1>3, <1>4, <1>5 DEF Inv

\* Every step of every caller keeps the inductive invariant.
LEMMA NextInv == Inv /\ [Next]_vars => Inv'
  <1> SUFFICES ASSUME Inv, [Next]_vars PROVE Inv'
    OBVIOUS
  <1>0. StateType /\ CallInv /\ TableInv
    BY DEF Inv
  <1>1. /\ clock \in 1 .. clock /\ clock \in Nat
    BY <1>0, OwnershipAssumption DEF StateType, Time
  <1>2. Idle \in Call /\ Idle.op = "none"
    BY DEF Idle, CallOf, Call
  <1>3. ASSUME NEW p \in Caller, NEW op \in Writers, op \notin {"create", "clear"}, Starts(p, op)
        PROVE  Inv'
    <2> DEFINE k == CallOf(op, Nil, Nil, 0, Nil, clock)
    <2>1. call' = [call EXCEPT ![p] = k] /\ UNCHANGED <<clock, rules, tables, lock, snap>>
      BY <1>3 DEF Starts
    <2>2. /\ k \in Call /\ k.op = op /\ k.now = clock
      BY <1>1 DEF CallOf, Call
    <2>3. op # "recomputing" /\ op # "none"
      BY DEF Writers, Jobs
    <2> HIDE DEF k
    <2>. QED
      BY <1>1, <1>3, <2>1, <2>2, <2>3, CallStep DEF tables
  <1>4. ASSUME NEW p \in Caller, NEW c \in Cert, NEW s \in Service, NEW life \in Lifetimes,
               CreateOverride(p, c, s, life)
        PROVE  Inv'
    <2> DEFINE x == IF clock + life < Never THEN clock + life ELSE Never
               k == CallOf("create", c, s, x, Nil, clock)
    <2>1. call' = [call EXCEPT ![p] = k] /\ UNCHANGED <<clock, rules, tables, lock, snap>>
      BY <1>4 DEF CreateOverride
    <2>2. x \in Nat /\ x > clock
      BY <1>0, OwnershipAssumption DEF Never, StateType, Time
    <2> HIDE DEF x
    <2>3. /\ k \in Call /\ k.op = "create" /\ k.now = clock /\ k.cert = c /\ k.expires = x
      BY <1>1, <2>2 DEF CallOf, Call, Writers, Jobs
    <2> HIDE DEF k
    <2>. QED
      BY <1>1, <2>1, <2>2, <2>3, CallStep DEF tables
  <1>5. ASSUME NEW p \in Caller, NEW c \in Cert, NEW o \in OverrideId, ClearOverride(p, c, o)
        PROVE  Inv'
    <2> DEFINE k == CallOf("clear", c, Nil, 0, o, clock)
    <2>1. call' = [call EXCEPT ![p] = k] /\ UNCHANGED <<clock, rules, tables, lock, snap>>
      BY <1>5 DEF ClearOverride
    <2>2. k \in Call /\ k.op = "clear" /\ k.now = clock /\ k.override = o
      BY <1>1 DEF CallOf, Call, Writers, Jobs
    <2> HIDE DEF k
    <2>. QED
      BY <1>1, <2>1, <2>2, CallStep DEF tables
  <1>6. ASSUME NEW p \in Caller,
               \/ TxFails(p) \/ CreateOverrideConflict(p)
               \/ ClearOverrideNotFound(p) \/ RecomputeBusy(p)
        PROVE  Inv'
    <2>1. /\ call' = [call EXCEPT ![p] = Idle]
          /\ UNCHANGED <<clock, rules, ov, own, expl, audit, lock, snap>>
      BY <1>6 DEF TxFails, CreateOverrideConflict, ClearOverrideNotFound, RecomputeBusy,
                  LockedTx, Returns, tables
    <2>. QED
      BY <1>2, <2>1, CallStep
  <1>7. ASSUME NEW R \in RuleSets, RulesChange(R)
        PROVE  Inv'
    <2>1. /\ rules' \in RuleSets
          /\ UNCHANGED <<clock, ov, own, expl, audit, lock, call, snap>>
      BY <1>7 DEF RulesChange, tables
    <2>2. StateType'
      BY <1>0, <2>1 DEF StateType
    <2>3. CallInv'
      BY <1>0, <2>1 DEF CallInv, CallArgs, HoldsLock, SnapshotIsCurrent, Serializable
    <2>4. TableInv'
      BY <1>0, <1>1, <2>1, <2>2, TablesUnchanged DEF StateType
    <2>. QED
      BY <2>2, <2>3, <2>4 DEF Inv
  <1>8. CASE Tick
    <2>1. /\ clock' = clock + 1 /\ clock' \in Time
          /\ UNCHANGED <<rules, ov, own, expl, audit, lock, call, snap>>
      BY <1>0, <1>1, <1>8, OwnershipAssumption DEF Tick, tables, StateType, Time
    <2>2. StateType'
      BY <1>0, <2>1 DEF StateType
    <2>3. CallInv'
      BY <1>0, <1>1, <2>1 DEF CallInv, CallArgs, HoldsLock, SnapshotIsCurrent, Serializable
    <2>4. TableInv'
      BY <1>0, <1>1, <2>1, TablesUnchanged
    <2>. QED
      BY <2>2, <2>3, <2>4 DEF Inv
  <1>9. CASE UNCHANGED vars
    <2>1. UNCHANGED <<clock, rules, ov, own, expl, audit, lock, call, snap>>
      BY <1>9 DEF vars, tables
    <2>2. StateType'
      BY <1>0, <2>1 DEF StateType
    <2>3. CallInv'
      BY <1>0, <2>1 DEF CallInv, CallArgs, HoldsLock, SnapshotIsCurrent, Serializable
    <2>4. TableInv'
      BY <1>0, <1>1, <2>1, <2>2, TablesUnchanged DEF StateType
    <2>. QED
      BY <2>2, <2>3, <2>4 DEF Inv
  <1>10. ASSUME NEW p \in Caller,
                \/ SweepExpiringOverridesPage(p) \/ PruneExplanationsPage(p)
                \/ Recompute(p) \/ RecomputeNoWait(p)
         PROVE  Inv'
    BY <1>3, <1>10 DEF SweepExpiringOverridesPage, PruneExplanationsPage, Recompute,
                       RecomputeNoWait, Writers, Jobs
  <1>11. ASSUME NEW p \in Caller, Runs(p)
         PROVE  Inv'
    BY <1>6, <1>11, CreateOverrideTxInv, ClearOverrideTxInv, SweepTxInv, PruneTxInv,
       RecomputeLockInv, RecomputeCommitInv DEF Runs
  <1>. QED
    BY <1>4, <1>5, <1>6, <1>7, <1>8, <1>9, <1>10, <1>11, RecomputeFailsInv DEF Next

\* The inductive invariant holds in every behaviour.
LEMMA InvHolds == Spec => []Inv
  BY InitInv, NextInv, PTL DEF Spec

\* Whatever callers race for the lock, and whatever they read before they got it, the
\* override that a stored row names is the only active override of its certificate.
THEOREM OverrideGovernsHolds == Spec => []OverrideGoverns
  <1>1. Inv => OverrideGoverns
    BY DEF Inv, TableInv
  <1>. QED
    BY <1>1, InvHolds, PTL

\* No recompute works on a snapshot that an override mutation, a sweep or another
\* recompute has outdated.
THEOREM SnapshotIsCurrentHolds == Spec => []SnapshotIsCurrent
  <1>1. Inv => SnapshotIsCurrent
    BY DEF Inv, CallInv
  <1>. QED
    BY <1>1, InvHolds, PTL

\* The prune never removes the explanation a row points at, for every KeepN, MaxAge and
\* page size, and in whatever order explanations were decided.
THEOREM PinnedExplanationHolds == Spec => []PinnedExplanationExists
  <1>1. Inv => PinnedExplanationExists
    BY DEF Inv, TableInv
  <1>. QED
    BY <1>1, InvHolds, PTL

\* Every override is audited once when it is set and once when it is cleared or expires.
THEOREM AuditTellsOverrideLifeHolds == Spec => []AuditTellsOverrideLife
  <1>1. Inv => AuditTellsOverrideLife
    BY DEF Inv, TableInv
  <1>. QED
    BY <1>1, InvHolds, PTL

(***************************************************************************)
(* What a step may not do.                                                 *)
(***************************************************************************)

\* A transaction that derives rows adds explanations and removes none.
LEMMA DeriveKeepsExplanations ==
    ASSUME NEW C, NEW prior, NEW R, NEW pin, NEW now \in Time, Derive(C, prior, R, pin, now),
           NEW c \in Cert, NEW e \in Timeline(c)
    PROVE  expl'[c][e] # 0
  <1>1. PICK f \in [Cert -> ExpId] : \E W : WriteExplanations(W, f, now)
    BY DEF Derive
  <1>2. PICK W : expl' = [x \in Cert |-> [i \in ExpId |->
                            IF x \in W /\ i = f[x] THEN now ELSE expl[x][i]]]
    BY <1>1 DEF WriteExplanations
  <1>3. now # 0 /\ expl[c][e] # 0 /\ e \in ExpId
    BY OwnershipAssumption DEF Time, Timeline
  <1>. QED
    BY <1>2, <1>3

\* What a step that removes an explanation may rest on.
PruneStep ==
    \A c \in Cert : \A e \in Timeline(c) : expl'[c][e] = 0 =>
        /\ own'[c].explanation # e
        /\ e \notin KeptByCount(c)
        /\ expl[c][e] < clock - MaxAge

\* An explanation is removed only by the prune, and only one that its row does not point at,
\* that is not among the KeepN newest and that is older than MaxAge when it goes.
THEOREM PruneRespectsPolicyHolds == Spec => PruneRespectsPolicy
  <1>1. Inv /\ [Next]_vars => [PruneStep]_vars
    <2> SUFFICES ASSUME Inv, Next, NEW c \in Cert, NEW e \in Timeline(c), expl'[c][e] = 0
                 PROVE  /\ own'[c].explanation # e
                        /\ e \notin KeptByCount(c)
                        /\ expl[c][e] < clock - MaxAge
      BY DEF PruneStep
    <2>0. StateType /\ CallInv /\ TableInv
      BY DEF Inv
    <2>1. CASE UNCHANGED expl
      BY <2>1 DEF Timeline
    <2>2. ASSUME NEW p \in Caller, CreateOverrideTx(p) PROVE FALSE
      <3>1. LockedTx(p, "create") /\ "create" \in Writers
        BY <2>2 DEF CreateOverrideTx, Writers
      <3>2. call[p].now \in Time
        BY <2>0, <3>1, LockedTxFacts
      <3>3. \E C, R, pin : Derive(C, own, R, pin, call[p].now)
        BY <2>2 DEF CreateOverrideTx, rederiveCertificates
      <3>. QED
        BY <3>2, <3>3, DeriveKeepsExplanations
    <2>3. ASSUME NEW p \in Caller, ClearOverrideTx(p) PROVE FALSE
      <3>1. LockedTx(p, "clear") /\ "clear" \in Writers
        BY <2>3 DEF ClearOverrideTx, Writers
      <3>2. call[p].now \in Time
        BY <2>0, <3>1, LockedTxFacts
      <3>3. \E C, R, pin : Derive(C, own, R, pin, call[p].now)
        BY <2>3 DEF ClearOverrideTx, ClearAndRederive, rederiveCertificates
      <3>. QED
        BY <3>2, <3>3, DeriveKeepsExplanations
    <2>4. ASSUME NEW p \in Caller, SweepTx(p) PROVE FALSE
      <3>1. LockedTx(p, "sweep") /\ "sweep" \in Writers
        BY <2>4 DEF SweepTx, Writers, Jobs
      <3>2. call[p].now \in Time
        BY <2>0, <3>1, LockedTxFacts
      <3>3. \E C, R, pin : Derive(C, own, R, pin, call[p].now)
        BY <2>4 DEF SweepTx, ClearAndRederive, rederiveCertificates
      <3>. QED
        BY <3>2, <3>3, DeriveKeepsExplanations
    <2>5. ASSUME NEW p \in Caller, RecomputeCommit(p) PROVE FALSE
      <3>1. call[p].op = "recomputing"
        BY <2>5 DEF RecomputeCommit, Unlocks
      <3>2. call[p].now \in Time
        <4>1. call[p].now \in 1 .. clock
          BY <2>0, <3>1 DEF CallInv, CallArgs
        <4>. QED
          BY <2>0, <4>1, OwnershipAssumption DEF StateType, Time
      <3>3. \E C, prior, R, pin : Derive(C, prior, R, pin, call[p].now)
        BY <2>5 DEF RecomputeCommit
      <3>. QED
        BY <3>2, <3>3, DeriveKeepsExplanations
    <2>6. ASSUME NEW p \in Caller, PruneTx(p)
          PROVE  /\ own'[c].explanation # e
                 /\ e \notin KeptByCount(c)
                 /\ expl[c][e] < clock - MaxAge
      <3> DEFINE now == call[p].now
      <3>1. LockedTx(p, "prune") /\ "prune" \in Writers
        BY <2>6 DEF PruneTx, Writers, Jobs
      <3>2. now \in Time /\ now <= clock
        BY <2>0, <3>1, LockedTxFacts
      <3>3. e \in ExpId /\ expl[c][e] # 0
        BY DEF Timeline
      <3>4. e \in pruneCertificateExplanations(c, now) /\ own' = own
        BY <2>6, <3>3 DEF PruneTx
      <3>5. /\ own[c].explanation # e
            /\ e \notin KeptByCount(c)
            /\ expl[c][e] < now - MaxAge
        BY <3>4 DEF pruneCertificateExplanations, ListPrunableExplanationIDs
      <3>6. expl[c][e] \in Nat /\ now \in Nat /\ clock \in Nat /\ MaxAge \in Nat
        BY <2>0, <3>2, <3>3, OwnershipAssumption DEF StateType, Time
      <3>. QED
        BY <3>2, <3>4, <3>5, <3>6
    <2>. QED
      BY <2>1, <2>2, <2>3, <2>4, <2>5, <2>6
         DEF Next, Runs, CreateOverride, ClearOverride, SweepExpiringOverridesPage,
             PruneExplanationsPage, Recompute, RecomputeNoWait, Starts, CreateOverrideConflict,
             ClearOverrideNotFound, RecomputeLock, RecomputeBusy, TxFails, RecomputeFails,
             RulesChange, Tick, tables
  <1>. QED
    BY <1>1, InvHolds, PTL DEF Spec, PruneRespectsPolicy, PruneStep

(***************************************************************************)
(* Owner changes.  accumAudit tells an owned row by its decision and an    *)
(* owned decision by its service, so a change of service could slip        *)
(* through where the two disagree.  OwnersAgree says that they never do.   *)
(***************************************************************************)

\* A decision or a row has an owner exactly if it is not "unowned".
Owned(d) == d.decision = "unowned" <=> d.service = Nil

\* Rows are consistent about having an owner; overrides and requests to pin name one.
OwnersAgree ==
    /\ \A c \in Cert : Owned(own[c])
    /\ \A o \in OverrideId : ov[o].state = "active" => ov[o].service \in Service
    /\ \A p \in Caller : call[p].op = "create" => call[p].service \in Service

\* A decision names an owner exactly if it is not "unowned".
LEMMA DecisionOwned ==
    ASSUME NEW c \in Cert, NEW pin \in Pin, NEW R \in SUBSET Rule, NEW now \in Nat,
           overrideActive(pin, now) => pin.service \in Service
    PROVE  Owned(decideOwnership(c, pin, R, now))
  <1> DEFINE M == matched(R, c)
  <1>0. Nil \notin Service
    BY OwnershipAssumption
  <1>1. CASE overrideActive(pin, now)
    BY <1>0, <1>1 DEF decideOwnership, Overridden, Owned
  <1>2. CASE ~ overrideActive(pin, now) /\ M = {}
    BY <1>2 DEF decideOwnership, Unowned, Owned
  <1>3. CASE ~ overrideActive(pin, now) /\ M # {}
    <2>1. M \in SUBSET Rule
      BY DEF matched, compileRules
    <2>2. PICK w \in Rule : w = Winner(M)
      BY <1>3, <2>1, WinnerExists
    <2>3. decideOwnership(c, pin, R, now) = MatchedBy(w, M)
      BY <1>3, <2>2 DEF decideOwnership
    <2>4. w.service \in Service
      BY DEF Rule
    <2>. QED
      BY <1>0, <2>3, <2>4 DEF MatchedBy, Owned
  <1>. QED
    BY <1>1, <1>2, <1>3

\* The row after a decision has the decision's owner, decision and rule.
LEMMA UpsertOwner ==
    ASSUME NEW prior \in CertificateOwnership, NEW d \in OwnershipDecision, NEW e \in ExpId
    PROVE  LET row == Upserted(prior, d, e)
           IN  row.decision = d.decision /\ row.service = d.service /\ row.rule = d.rule
  BY DEF Upserted, WritesExplanation, ownerChanged, basisChanged, buildOwnership

\* Deriving the certificates in C leaves rows with their decisions' owners, the others alone.
LEMMA DeriveOwners ==
    ASSUME StateType,
           NEW C \in SUBSET Cert, NEW R \in SUBSET Rule, NEW pin \in [Cert -> Pin],
           NEW now \in Time, Derive(C, own, R, pin, now)
    PROVE  /\ \A c \in Cert \ C : own'[c] = own[c]
           /\ \A c \in C : LET d == decideOwnership(c, pin[c], R, now)
                           IN  /\ own'[c].decision = d.decision
                               /\ own'[c].service = d.service
                               /\ own'[c].rule = d.rule
  <1> DEFINE d == [c \in Cert |-> decideOwnership(c, pin[c], R, now)]
  <1>1. PICK e \in [Cert -> ExpId] :
          own' = [c \in Cert |-> IF c \in C THEN Upserted(own[c], d[c], e[c]) ELSE own[c]]
    BY DEF Derive
  <1>2. now \in Nat
    BY OwnershipAssumption DEF Time
  <1>3. \A c \in Cert : d[c] \in OwnershipDecision /\ d[c] = decideOwnership(c, pin[c], R, now)
    BY <1>2, DecisionFacts
  <1> HIDE DEF d
  <1>4. ASSUME NEW c \in C
        PROVE  own'[c].decision = d[c].decision /\ own'[c].service = d[c].service /\ own'[c].rule = d[c].rule
    <2>1. own'[c] = Upserted(own[c], d[c], e[c])
      BY <1>1
    <2>2. own[c] \in CertificateOwnership /\ d[c] \in OwnershipDecision /\ e[c] \in ExpId
      BY <1>3 DEF StateType
    <2>. QED
      BY <2>1, <2>2, UpsertOwner
  <1>5. \A c \in Cert \ C : own'[c] = own[c]
    BY <1>1
  <1>. QED
    BY <1>3, <1>4, <1>5

\* The rows that a transaction derives from pins with an owner agree about having one.
LEMMA DeriveAgrees ==
    ASSUME StateType, OwnersAgree,
           NEW C \in SUBSET Cert, NEW R \in SUBSET Rule, NEW pin \in [Cert -> Pin],
           NEW now \in Time, Derive(C, own, R, pin, now),
           \A c \in C : overrideActive(pin[c], now) => pin[c].service \in Service
    PROVE  \A c \in Cert : Owned(own[c])'
  <1> SUFFICES ASSUME NEW c \in Cert PROVE Owned(own'[c])
    BY DEF Owned
  <1>1. now \in Nat
    BY OwnershipAssumption DEF Time
  <1>2. CASE c \in C
    <2>1. pin[c] \in Pin
      OBVIOUS
    <2>2. Owned(decideOwnership(c, pin[c], R, now))
      BY <1>1, <1>2, <2>1, DecisionOwned
    <2>. QED
      BY <1>2, <2>2, DeriveOwners DEF Owned
  <1>3. CASE c \notin C
    BY <1>3, DeriveOwners DEF OwnersAgree, Owned
  <1>. QED
    BY <1>2, <1>3

\* Clearing overrides sets none active.
LEMMA ClearKeepsActive ==
    ASSUME NEW O \in SUBSET OverrideId, NEW action, ClearOwnershipOverrides(O, action),
           NEW o \in OverrideId, ov'[o].state = "active"
    PROVE  ov[o].state = "active" /\ ov'[o] = ov[o]
  BY DEF ClearOwnershipOverrides

\* A call that ends or takes the lock asks for no pin.
LEMMA CallsAgree ==
    ASSUME StateType, OwnersAgree, NEW p \in Caller, NEW k \in Call, call' = [call EXCEPT ![p] = k],
           k.op = "create" => k.service \in Service
    PROVE  \A q \in Caller : call'[q].op = "create" => call'[q].service \in Service
  BY DEF StateType, OwnersAgree

\* The pins a recompute works with name owners.
LEMMA ActivePinOwned ==
    ASSUME StateType, OwnersAgree, NEW c \in Cert, ActivePin(ov, c).id # Nil
    PROVE  ActivePin(ov, c).service \in Service
  <1>1. Active(ov, c) # {}
    BY DEF ActivePin, NoPin
  <1>2. PICK o \in Active(ov, c) : o = CHOOSE x \in Active(ov, c) : TRUE
    BY <1>1
  <1>3. ActivePin(ov, c).service = ov[o].service
    BY <1>1, <1>2 DEF ActivePin
  <1>. QED
    BY <1>2, <1>3 DEF OwnersAgree, Active

\* A transaction that clears overrides and derives from the rules keeps rows and overrides
\* consistent about their owners.
LEMMA ClearAgrees ==
    ASSUME StateType, OwnersAgree, NEW O \in SUBSET OverrideId, NEW action, NEW now \in Time,
           ClearAndRederive(O, action, now)
    PROVE  /\ \A c \in Cert : Owned(own[c])'
           /\ \A o \in OverrideId : ov'[o].state = "active" => ov'[o].service \in Service
  <1> DEFINE C == {c \in Cert : \E o \in O : ov[o].cert = c}
             pin == [c \in Cert |-> NoPin]
  <1>1. ClearOwnershipOverrides(O, action) /\ Derive(C, own, rules, pin, now)
    BY DEF ClearAndRederive, rederiveCertificates
  <1>2. pin \in [Cert -> Pin] /\ \A c \in Cert : ~ overrideActive(pin[c], now)
    BY DEF NoPin, Pin, overrideActive
  <1>3. rules \in SUBSET Rule /\ C \in SUBSET Cert
    BY OwnershipAssumption DEF StateType
  <1> HIDE DEF C, pin
  <1>4. \A c \in Cert : Owned(own[c])'
    BY <1>1, <1>2, <1>3, DeriveAgrees
  <1>5. \A o \in OverrideId : ov'[o].state = "active" => ov'[o].service \in Service
    BY <1>1, ClearKeepsActive DEF OwnersAgree
  <1>. QED
    BY <1>4, <1>5

\* Every step keeps rows, overrides and requests consistent about their owners.
LEMMA OwnersStep == Inv /\ OwnersAgree /\ [Next]_vars => OwnersAgree'
  <1> SUFFICES ASSUME Inv, OwnersAgree, [Next]_vars PROVE OwnersAgree'
    OBVIOUS
  <1>0. StateType /\ CallInv /\ TableInv
    BY DEF Inv
  <1>1. Idle \in Call /\ Idle.op = "none"
    BY DEF Idle, CallOf, Call
  <1>2. ASSUME NEW p \in Caller, NEW k \in Call, call' = [call EXCEPT ![p] = k],
               k.op = "create" => k.service \in Service, UNCHANGED <<ov, own>>
        PROVE  OwnersAgree'
    <2>1. \A q \in Caller : call'[q].op = "create" => call'[q].service \in Service
      BY <1>0, <1>2, CallsAgree
    <2>. QED
      BY <1>2, <2>1 DEF OwnersAgree, Owned
  <1>3. ASSUME NEW p \in Caller, call' = [call EXCEPT ![p] = Idle],
               \A c \in Cert : Owned(own[c])',
               \A o \in OverrideId : ov'[o].state = "active" => ov'[o].service \in Service
        PROVE  OwnersAgree'
    <2>1. \A q \in Caller : call'[q].op = "create" => call'[q].service \in Service
      BY <1>0, <1>1, <1>3, CallsAgree
    <2>. QED
      BY <1>3, <2>1 DEF OwnersAgree
  <1>4. ASSUME NEW p \in Caller,
               \/ TxFails(p) \/ CreateOverrideConflict(p) \/ ClearOverrideNotFound(p)
               \/ RecomputeBusy(p) \/ RecomputeFails(p) \/ PruneTx(p)
        PROVE  OwnersAgree'
    <2>1. call' = [call EXCEPT ![p] = Idle] /\ UNCHANGED <<ov, own>>
      BY <1>4 DEF TxFails, CreateOverrideConflict, ClearOverrideNotFound, RecomputeBusy,
                  RecomputeFails, PruneTx, Unlocks, LockedTx, Returns, tables
    <2>. QED
      BY <1>1, <1>2, <2>1
  <1>5. clock \in Nat
    BY <1>0, OwnershipAssumption DEF StateType, Time
  <1>6. ASSUME NEW p \in Caller,
               \/ SweepExpiringOverridesPage(p) \/ PruneExplanationsPage(p)
               \/ Recompute(p) \/ RecomputeNoWait(p)
        PROVE  OwnersAgree'
    <2>1. PICK op \in {"sweep", "prune", "recompute", "recompute_nowait"} : Starts(p, op)
      BY <1>6 DEF SweepExpiringOverridesPage, PruneExplanationsPage, Recompute, RecomputeNoWait
    <2> DEFINE k == CallOf(op, Nil, Nil, 0, Nil, clock)
    <2>2. call' = [call EXCEPT ![p] = k] /\ UNCHANGED <<ov, own>>
      BY <2>1 DEF Starts, tables
    <2>3. k \in Call /\ k.op = op
      BY <1>5 DEF CallOf, Call, Writers, Jobs
    <2> HIDE DEF k
    <2>. QED
      BY <1>2, <2>2, <2>3
  <1>7. ASSUME NEW p \in Caller, NEW c \in Cert, NEW s \in Service, NEW life \in Lifetimes,
               CreateOverride(p, c, s, life)
        PROVE  OwnersAgree'
    <2> DEFINE x == IF clock + life < Never THEN clock + life ELSE Never
               k == CallOf("create", c, s, x, Nil, clock)
    <2>1. call' = [call EXCEPT ![p] = k] /\ UNCHANGED <<ov, own>>
      BY <1>7 DEF CreateOverride, tables
    <2>2. x \in Nat
      BY <1>5, OwnershipAssumption DEF Never
    <2> HIDE DEF x
    <2>3. k \in Call /\ k.service = s
      BY <1>5, <2>2 DEF CallOf, Call, Writers, Jobs
    <2> HIDE DEF k
    <2>. QED
      BY <1>2, <2>1, <2>3
  <1>8. ASSUME NEW p \in Caller, NEW c \in Cert, NEW o \in OverrideId, ClearOverride(p, c, o)
        PROVE  OwnersAgree'
    <2> DEFINE k == CallOf("clear", c, Nil, 0, o, clock)
    <2>1. call' = [call EXCEPT ![p] = k] /\ UNCHANGED <<ov, own>>
      BY <1>8 DEF ClearOverride, tables
    <2>2. k \in Call /\ k.op = "clear"
      BY <1>5 DEF CallOf, Call, Writers, Jobs
    <2> HIDE DEF k
    <2>. QED
      BY <1>2, <2>1, <2>2
  <1>9. ASSUME NEW p \in Caller, RecomputeLock(p) PROVE OwnersAgree'
    <2> DEFINE k == CallOf("recomputing", Nil, Nil, 0, Nil, call[p].now)
    <2>1. call' = [call EXCEPT ![p] = k] /\ UNCHANGED <<ov, own>>
      BY <1>9 DEF RecomputeLock, tables
    <2>2. call[p] \in Call
      BY <1>0 DEF StateType
    <2>3. k \in Call /\ k.op = "recomputing"
      BY <2>2 DEF CallOf, Call
    <2> HIDE DEF k
    <2>. QED
      BY <1>2, <2>1, <2>3
  <1>10. ASSUME NEW p \in Caller, CreateOverrideTx(p) PROVE OwnersAgree'
    <2> DEFINE in == call[p]
    <2>1. LockedTx(p, "create") /\ in.op = "create" /\ call' = [call EXCEPT ![p] = Idle]
      BY <1>10 DEF CreateOverrideTx, LockedTx, Returns
    <2>2. in.now \in Time /\ in.cert \in Cert /\ in.service \in Service /\ in.expires \in Nat
      <3>1. in.now \in Time
        BY <1>0, <2>1, LockedTxFacts DEF Writers
      <3>2. in \in Call
        BY <1>0 DEF StateType
      <3>. QED
        BY <1>0, <2>1, <3>1, <3>2 DEF CallInv, CallArgs, OwnersAgree, Call
    <2>3. PICK o \in OverrideId :
            /\ ov' = [ov EXCEPT ![o] = [state |-> "active", cert |-> in.cert,
                                        service |-> in.service, expires |-> in.expires]]
            /\ Derive({in.cert}, own, rules,
                  [c \in Cert |-> [id |-> o, service |-> in.service, expires |-> in.expires]], in.now)
      BY <1>10 DEF CreateOverrideTx, rederiveCertificates
    <2> DEFINE pin == [c \in Cert |-> [id |-> o, service |-> in.service, expires |-> in.expires]]
    <2>4. pin \in [Cert -> Pin] /\ \A c \in Cert : pin[c].service \in Service
      BY <2>2 DEF Pin
    <2>5. rules \in SUBSET Rule /\ {in.cert} \in SUBSET Cert
      BY <1>0, <2>2, OwnershipAssumption DEF StateType
    <2>6. Derive({in.cert}, own, rules, pin, in.now)
      BY <2>3
    <2>7. \A x \in OverrideId : ov'[x].state = "active" => ov'[x].service \in Service
      <3> SUFFICES ASSUME NEW x \in OverrideId, ov'[x].state = "active" PROVE ov'[x].service \in Service
        OBVIOUS
      <3>1. CASE x = o
        BY <1>0, <2>2, <2>3, <3>1 DEF StateType
      <3>2. CASE x # o
        BY <1>0, <2>3, <3>2 DEF StateType, OwnersAgree
      <3>. QED
        BY <3>1, <3>2
    <2> HIDE DEF pin
    <2>8. \A c \in Cert : Owned(own[c])'
      BY <1>0, <2>2, <2>4, <2>5, <2>6, DeriveAgrees
    <2>. QED
      BY <1>3, <2>1, <2>7, <2>8
  <1>11. ASSUME NEW p \in Caller, ClearOverrideTx(p) \/ SweepTx(p) PROVE OwnersAgree'
    <2>1. PICK op \in Writers : LockedTx(p, op)
      BY <1>11 DEF ClearOverrideTx, SweepTx, Writers, Jobs
    <2>2. call[p].now \in Time /\ call' = [call EXCEPT ![p] = Idle]
      BY <1>0, <2>1, LockedTxFacts DEF LockedTx, Returns
    <2>3. PICK O \in SUBSET OverrideId : \E action : ClearAndRederive(O, action, call[p].now)
      <3>1. CASE ClearOverrideTx(p)
        BY <1>0, <3>1 DEF ClearOverrideTx, LockedTx, CallInv, CallArgs
      <3>2. CASE SweepTx(p)
        BY <3>2 DEF SweepTx, Expired
      <3>. QED
        BY <1>11, <3>1, <3>2
    <2>4. /\ \A c \in Cert : Owned(own[c])'
          /\ \A o \in OverrideId : ov'[o].state = "active" => ov'[o].service \in Service
      BY <1>0, <2>2, <2>3, ClearAgrees
    <2>. QED
      BY <1>3, <2>2, <2>4
  <1>12. ASSUME NEW p \in Caller, RecomputeCommit(p) PROVE OwnersAgree'
    <2> DEFINE now == call[p].now
               pin == [c \in Cert |-> ActivePin(ov, c)]
               O   == Expired(ov, now)
               R   == snap[p].rules
    <2>1. /\ call[p].op = "recomputing" /\ call' = [call EXCEPT ![p] = Idle]
          /\ snap[p].own = own /\ snap[p].ov = ov
      BY <1>12 DEF RecomputeCommit, Unlocks, Returns, Serializable
    <2>2. Derive(Cert, own, R, pin, now) /\ ClearOwnershipOverrides(O, "override_expired")
      BY <1>12, <2>1 DEF RecomputeCommit
    <2>3. now \in Time
      <3>1. now \in 1 .. clock
        BY <1>0, <2>1 DEF CallInv, CallArgs
      <3>. QED
        BY <1>0, <3>1, OwnershipAssumption DEF StateType, Time
    <2>4. R \in SUBSET Rule
      <3>1. snap[p] \in Snapshot
        BY <1>0 DEF StateType
      <3>. QED
        BY <3>1, OwnershipAssumption DEF Snapshot
    <2>5. pin \in [Cert -> Pin]
      BY <1>0, ActivePinFacts
    <2>6. \A c \in Cert : overrideActive(pin[c], now) => pin[c].service \in Service
      BY <1>0, ActivePinOwned DEF overrideActive
    <2>7. O \in SUBSET OverrideId
      BY DEF Expired
    <2> HIDE DEF pin, O, R, now
    <2>8. \A c \in Cert : Owned(own[c])'
      BY <1>0, <2>2, <2>3, <2>4, <2>5, <2>6, DeriveAgrees
    <2>9. \A o \in OverrideId : ov'[o].state = "active" => ov'[o].service \in Service
      BY <2>2, <2>7, ClearKeepsActive DEF OwnersAgree
    <2>. QED
      BY <1>3, <2>1, <2>8, <2>9
  <1>13. CASE UNCHANGED <<call, ov, own>>
    BY <1>13 DEF OwnersAgree, Owned
  <1>. QED
    BY <1>4, <1>6, <1>7, <1>8, <1>9, <1>10, <1>11, <1>12, <1>13
       DEF Next, Runs, RulesChange, Tick, vars, tables

\* Rows, overrides and requests are consistent about their owners in every behaviour.
LEMMA OwnersAgreeHolds == Spec => []OwnersAgree
  <1>1. Init => OwnersAgree
    BY DEF Init, OwnersAgree, Owned, NoRow, NoOverride, Idle, CallOf
  <1>. QED
    BY <1>1, OwnersStep, InvHolds, PTL DEF Spec

\* The audit action of a transition depends on what the new row or decision says of owner and
\* decision alone.
LEMMA AuditOfRow ==
    ASSUME NEW prior, NEW d, NEW r, r.decision = d.decision, r.service = d.service
    PROVE  /\ accumAudit(prior, r) = accumAudit(prior, d)
           /\ ownerChanged(prior, r) <=> ownerChanged(prior, d)
  BY DEF accumAudit, ownerChanged

\* A transition to another owner has an audit action.
LEMMA OwnerChangeHasAction ==
    ASSUME NEW prior, NEW d, Owned(prior), Owned(d), prior.service # d.service
    PROVE  accumAudit(prior, d) # Nil /\ ownerChanged(prior, d)
  <1>0. Nil \notin {"assigned", "cleared", "flipped", "ambiguous_match"}
    BY OwnershipAssumption
  <1>1. CASE prior.decision = "unowned"
    <2>1. d.service # Nil
      BY <1>1 DEF Owned
    <2>2. accumAudit(prior, d) \in {"assigned", "ambiguous_match"}
      BY <1>1, <2>1 DEF accumAudit
    <2>. QED
      BY <1>0, <2>2 DEF ownerChanged
  <1>2. CASE prior.decision # "unowned" /\ d.service = Nil
    <2>1. accumAudit(prior, d) = "cleared"
      BY <1>2 DEF accumAudit
    <2>. QED
      BY <1>0, <2>1 DEF ownerChanged
  <1>3. CASE prior.decision # "unowned" /\ d.service # Nil
    <2>1. prior.service # Nil
      BY <1>3 DEF Owned
    <2>2. accumAudit(prior, d) \in {"flipped", "ambiguous_match"}
      BY <1>3, <2>1 DEF accumAudit
    <2>. QED
      BY <1>0, <2>2 DEF ownerChanged
  <1>. QED
    BY <1>1, <1>2, <1>3

\* A certificate to which a recompute gives another owner is named by a transition row, or
\* counted by the rollup of its group.
LEMMA RecomputeAudits ==
    ASSUME Inv, OwnersAgree, NEW p \in Caller, RecomputeCommit(p), NEW c \in Cert,
           own'[c].service # own[c].service
    PROVE  \E w \in written' :
              \/ ~ w.bulk /\ w.certs = {c}
              \/ /\ w.bulk
                 /\ w.from = own[c].decision /\ w.to = own'[c].decision
                 /\ w.driver = own'[c].rule
                 /\ w.count = Cardinality({x \in Cert :
                       /\ own[x].decision = w.from /\ own'[x].decision = w.to
                       /\ own'[x].rule = w.driver
                       /\ accumAudit(own[x], own'[x]) = w.action
                       /\ ownerChanged(own[x], own'[x])})
  <1> DEFINE now == call[p].now
             pin == [x \in Cert |-> ActivePin(ov, x)]
             R   == snap[p].rules
             d   == [x \in Cert |-> decideOwnership(x, pin[x], R, now)]
  <1>0. StateType /\ CallInv /\ TableInv
    BY DEF Inv
  <1>1. call[p].op = "recomputing" /\ snap[p].own = own /\ snap[p].ov = ov
    BY DEF RecomputeCommit, Unlocks, Serializable
  <1>2. Derive(Cert, own, R, pin, now) /\ written' = auditGroups(own, d)
    BY <1>1 DEF RecomputeCommit
  <1>3. now \in Time /\ now \in Nat
    <2>1. now \in 1 .. clock
      BY <1>0, <1>1 DEF CallInv, CallArgs
    <2>. QED
      BY <1>0, <2>1, OwnershipAssumption DEF StateType, Time
  <1>4. R \in SUBSET Rule
    <2>1. snap[p] \in Snapshot
      BY <1>0 DEF StateType
    <2>. QED
      BY <2>1, OwnershipAssumption DEF Snapshot
  <1>5. /\ pin \in [Cert -> Pin]
        /\ \A x \in Cert : overrideActive(pin[x], now) => pin[x].service \in Service
    BY <1>0, ActivePinFacts, ActivePinOwned DEF overrideActive
  <1> HIDE DEF pin, R, now
  <1>6. \A x \in Cert : /\ own'[x].decision = d[x].decision
                        /\ own'[x].service = d[x].service
                        /\ own'[x].rule = d[x].rule
    BY <1>0, <1>2, <1>3, <1>4, <1>5, DeriveOwners
  <1>7. Owned(d[c])
    <2>1. pin[c] \in Pin
      BY <1>5
    <2>. QED
      BY <1>3, <1>4, <1>5, <2>1, DecisionOwned
  <1> HIDE DEF d
  <1>8. \A x \in Cert : /\ accumAudit(own[x], own'[x]) = accumAudit(own[x], d[x])
                        /\ ownerChanged(own[x], own'[x]) <=> ownerChanged(own[x], d[x])
    BY <1>6, AuditOfRow
  <1>9. accumAudit(own[c], d[c]) # Nil /\ ownerChanged(own[c], d[c])
    <2>1. Owned(own[c]) /\ own[c].service # d[c].service
      BY <1>6 DEF OwnersAgree
    <2>. QED
      BY <1>7, <2>1, OwnerChangeHasAction
  <1> DEFINE key     == [x \in Cert |-> auditGroupKey(own[x], d[x])]
             changed == {x \in Cert : ownerChanged(own[x], d[x]) /\ key[x].action # Nil}
             g       == {x \in changed : key[x] = key[c]}
             w       == auditRow(key[c], g, c)
  <1>10. \A x \in Cert : /\ key[x].action = accumAudit(own[x], d[x]) /\ key[x].from = own[x].decision
                         /\ key[x].to = d[x].decision /\ key[x].driver = d[x].rule
    BY DEF auditGroupKey
  <1>11. \A x \in Cert : key[x] = key[c] <=>
            /\ key[x].action = key[c].action /\ key[x].from = key[c].from
            /\ key[x].to = key[c].to /\ key[x].driver = key[c].driver
    BY DEF auditGroupKey
  <1>12. written' = {auditRow(key[x], {y \in changed : key[y] = key[x]}, x) : x \in changed}
    BY <1>2 DEF auditGroups
  <1> HIDE DEF key
  <1>13. c \in changed
    BY <1>9, <1>10
  <1>14. w \in written'
    BY <1>12, <1>13
  <1> DEFINE same == {x \in Cert : /\ own[x].decision = key[c].from /\ own'[x].decision = key[c].to
                                   /\ own'[x].rule = key[c].driver
                                   /\ accumAudit(own[x], own'[x]) = key[c].action
                                   /\ ownerChanged(own[x], own'[x])}
  <1>15. g = same
    <2>1. ASSUME NEW x \in Cert PROVE x \in g <=> x \in same
      <3>1. x \in g <=> ownerChanged(own[x], d[x]) /\ key[x].action # Nil /\ key[x] = key[c]
        OBVIOUS
      <3>2. key[c].action # Nil
        BY <1>9, <1>10
      <3>3. x \in g <=> /\ ownerChanged(own[x], d[x]) /\ key[x].action = key[c].action
                        /\ key[x].from = key[c].from /\ key[x].to = key[c].to
                        /\ key[x].driver = key[c].driver
        BY <1>11, <3>1, <3>2
      <3>. QED
        BY <1>6, <1>8, <1>10, <3>3
    <2>. QED
      BY <2>1
  <1> HIDE DEF g, same
  <1>16. /\ w.from = key[c].from /\ w.to = key[c].to /\ w.driver = key[c].driver
         /\ w.action = key[c].action
         /\ w.bulk <=> Cardinality(g) > AuditThreshold
         /\ w.bulk => w.count = Cardinality(g)
         /\ ~ w.bulk => w.certs = {c}
    BY DEF auditRow
  <1> HIDE DEF w
  <1>17. CASE ~ w.bulk
    BY <1>14, <1>16, <1>17
  <1>18. CASE w.bulk
    <2>1. w.count = Cardinality({x \in Cert :
                       /\ own[x].decision = w.from /\ own'[x].decision = w.to
                       /\ own'[x].rule = w.driver
                       /\ accumAudit(own[x], own'[x]) = w.action
                       /\ ownerChanged(own[x], own'[x])})
      BY <1>15, <1>16, <1>18 DEF same
    <2>2. w.from = own[c].decision /\ w.to = own'[c].decision /\ w.driver = own'[c].rule
      BY <1>6, <1>10, <1>16
    <2>. QED
      BY <1>14, <1>18, <2>1, <2>2
  <1>. QED
    BY <1>17, <1>18

\* A trail that gets a row is another trail.
LEMMA AppendDiffers ==
    ASSUME NEW S, NEW q \in Seq(S), NEW a \in S
    PROVE  Append(q, a) # q
  <1>1. Len(Append(q, a)) = Len(q) + 1 /\ Len(q) \in Nat
    OBVIOUS
  <1>. QED
    BY <1>1

\* What a step that changes the owner of a certificate leaves behind.
OwnerStep ==
    \A c \in Cert : own'[c].service # own[c].service =>
         \/ \E o \in OverrideId : ov'[o].cert = c /\ audit'[o] # audit[o]
         \/ \E w \in written' :
              \/ ~ w.bulk /\ w.certs = {c}
              \/ /\ w.bulk
                 /\ w.from = own[c].decision /\ w.to = own'[c].decision
                 /\ w.driver = own'[c].rule
                 /\ w.count = Cardinality({x \in Cert :
                       /\ own[x].decision = w.from /\ own'[x].decision = w.to
                       /\ own'[x].rule = w.driver
                       /\ accumAudit(own[x], own'[x]) = w.action
                       /\ ownerChanged(own[x], own'[x])})

\* A certificate gets another owner only in a transaction that audits it: the override that
\* moved it gets an audit row, or the recompute names it in a transition row, or it is one of
\* the certificates that the rollup of its transition counts, whatever the thresholds.
THEOREM OwnerChangesAreAuditedHolds == Spec => OwnerChangesAreAudited
  <1>1. Inv /\ OwnersAgree /\ [Next]_vars => [OwnerStep]_vars
    <2> SUFFICES ASSUME Inv, OwnersAgree, Next PROVE OwnerStep
      OBVIOUS
    <2>0. StateType /\ CallInv /\ TableInv
      BY DEF Inv
    <2> DEFINE A == {"overridden", "override_cleared", "override_expired"}
    <2>1. \A o \in OverrideId : audit[o] \in Seq(A)
      BY <2>0 DEF StateType
    <2>2. ASSUME UNCHANGED own PROVE OwnerStep
      BY <2>2 DEF OwnerStep
    <2>3. ASSUME NEW p \in Caller, CreateOverrideTx(p) PROVE OwnerStep
      <3> DEFINE in == call[p]
      <3>1. LockedTx(p, "create") /\ in.op = "create"
        BY <2>3 DEF CreateOverrideTx, LockedTx
      <3>2. PICK o \in OverrideId :
              /\ ov' = [ov EXCEPT ![o] = [state |-> "active", cert |-> in.cert,
                                          service |-> in.service, expires |-> in.expires]]
              /\ \E pin : Derive({in.cert}, own, rules, pin, in.now)
              /\ audit' = [audit EXCEPT ![o] = Append(audit[o], "overridden")]
        BY <2>3 DEF CreateOverrideTx, rederiveCertificates
      <3>3. \A c \in Cert : c # in.cert => own'[c] = own[c]
        BY <3>2 DEF Derive
      <3>4. ov'[o].cert = in.cert /\ audit'[o] = Append(audit[o], "overridden")
        BY <2>0, <3>2 DEF StateType
      <3>5. audit'[o] # audit[o]
        <4>1. "overridden" \in A
          OBVIOUS
        <4> HIDE DEF A
        <4>. QED
          BY <2>1, <3>4, <4>1, AppendDiffers
      <3>. QED
        BY <3>3, <3>4, <3>5 DEF OwnerStep
    <2>4. ASSUME NEW O \in SUBSET OverrideId, NEW action \in A, NEW now,
                 ClearAndRederive(O, action, now)
          PROVE  OwnerStep
      <3>1. /\ ClearOwnershipOverrides(O, action)
            /\ \E pin : Derive({c \in Cert : \E o \in O : ov[o].cert = c}, own, rules, pin, now)
        BY <2>4 DEF ClearAndRederive, rederiveCertificates
      <3>2. \A c \in Cert : own'[c] # own[c] => \E o \in O : ov[o].cert = c
        BY <3>1 DEF Derive
      <3>3. ASSUME NEW o \in O PROVE ov'[o].cert = ov[o].cert /\ audit'[o] # audit[o]
        <4>1. ov'[o].cert = ov[o].cert /\ audit'[o] = Append(audit[o], action)
          BY <3>1 DEF ClearOwnershipOverrides
        <4> HIDE DEF A
        <4>. QED
          BY <2>1, <4>1, AppendDiffers
      <3>. QED
        BY <3>2, <3>3 DEF OwnerStep
    <2>5. ASSUME NEW p \in Caller, ClearOverrideTx(p) PROVE OwnerStep
      <3>1. call[p].override \in OverrideId
        BY <2>0, <2>5 DEF ClearOverrideTx, LockedTx, CallInv, CallArgs
      <3>2. ClearAndRederive({call[p].override}, "override_cleared", call[p].now)
        BY <2>5 DEF ClearOverrideTx
      <3>. QED
        BY <2>4, <3>1, <3>2
    <2>6. ASSUME NEW p \in Caller, SweepTx(p) PROVE OwnerStep
      <3>1. PICK O \in SUBSET OverrideId : ClearAndRederive(O, "override_expired", call[p].now)
        BY <2>6 DEF SweepTx, Expired
      <3>. QED
        BY <2>4, <3>1
    <2>7. ASSUME NEW p \in Caller, RecomputeCommit(p) PROVE OwnerStep
      BY <2>7, RecomputeAudits DEF OwnerStep
    <2>. QED
      BY <2>2, <2>3, <2>5, <2>6, <2>7
         DEF Next, Runs, CreateOverride, ClearOverride, SweepExpiringOverridesPage, PruneTx,
             PruneExplanationsPage, Recompute, RecomputeNoWait, Starts, CreateOverrideConflict,
             ClearOverrideNotFound, RecomputeLock, RecomputeBusy, TxFails, RecomputeFails,
             RulesChange, Tick, tables
  <1>. QED
    BY <1>1, InvHolds, OwnersAgreeHolds, PTL DEF Spec, OwnerChangesAreAudited, OwnerStep
=============================================================================
