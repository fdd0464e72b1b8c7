-------------------------- MODULE Inventory_proofs --------------------------
(***************************************************************************)
(* What agents report is merged without loss and listed without gaps, for  *)
(* any number of agents, certificates, stores and callers, any batches and *)
(* any size of a page.                                                     *)
(*                                                                         *)
(* A transaction keeps copies of rows it has merged.  The invariant says   *)
(* that each copy is still the merge of the committed row with the batch   *)
(* (Written): the lock of the agent keeps its observations in place, and   *)
(* the lock of a certificate row that row (Apart).  A commit then merges   *)
(* one batch at one moment, and the tables follow from the batches in the  *)
(* order of the log.                                                       *)
(***************************************************************************)
EXTENDS InventoryListing, NaturalOrder, FiniteSetTheorems, SequenceTheorems

Partial(S, T) == UNION {[D -> T] : D \in SUBSET S}

CallRec == [pc : {"idle", "check", "audit", "lock", "upsert", "snapshot"},
            batch : Batches \cup {Nil}, next : Nat, newCerts : Partial(Cert, CertRow),
            newObs : Partial(Key, ObsRow), reason : reasons \cup {Nil}, agent : Agent \cup {Nil},
            now : 0 .. MaxClock]

EntryKey(b, n) == <<b.agent, b.entries[n].cert, b.entries[n].store>>

\* The rows that the first n entries of b touch.
CertsUpTo(b, n) == {b.entries[m].cert : m \in 1 .. n}
KeysUpTo(b, n) == {EntryKey(b, m) : m \in 1 .. n}

\* The copies of the transaction x are the committed rows merged with its batch.
Written(x) ==
    /\ x.next \in 1 .. Len(x.batch.entries) + 1
    /\ DOMAIN x.newCerts = CertsUpTo(x.batch, x.next - 1)
    /\ DOMAIN x.newObs = KeysUpTo(x.batch, x.next - 1)
    /\ \A c \in DOMAIN x.newCerts : x.newCerts[c] = UpsertCertificate(certs[c], x.batch.collectedAt)
    /\ \A k \in DOMAIN x.newObs : x.newObs[k] = UpsertObservation(obs[k], x.batch.collectedAt)

\* What a call has settled by the step it is at.
Settled(x) ==
    /\ x.pc \in {"check", "audit", "lock", "upsert"} => x.batch \in Batches /\ x.agent = x.batch.agent
    /\ x.pc = "audit" => /\ x.reason \in reasons
                         /\ containsPrivateKey(x.batch) => x.reason = "agent.certificate_batch_rejected"
    /\ x.pc \in {"lock", "upsert"} => /\ ~ containsPrivateKey(x.batch) /\ storesCovered(x.batch)
                                      /\ x.batch.collectedAt \in Time
    /\ x.pc \in {"check", "audit", "lock"} => x.next = 1
    /\ x.pc # "upsert" => DOMAIN x.newCerts = {} /\ DOMAIN x.newObs = {}
    /\ x.pc = "snapshot" => x.batch = Nil /\ x.agent \in Agent /\ x.now \in 1 .. MaxClock

\* Two transactions under way are of different agents and hold different certificate rows.
Apart(x, y) ==
    /\ x.pc = "upsert" /\ y.pc = "upsert" => x.agent # y.agent
    /\ DOMAIN x.newCerts \cap DOMAIN y.newCerts = {}

RowsTypeOK ==
    /\ certs \in [Cert -> CertRow \cup {Nil}] /\ obs \in [Key -> ObsRow \cup {Nil}]
    /\ snapshots \in [Agent -> 1 .. MaxClock \cup {Nil}] /\ audit \in [reasons -> Nat]
    /\ clock \in 1 .. MaxClock /\ submits \in 0 .. MaxSubmits /\ faults \in 0 .. MaxFaults
    /\ log \in Seq(Batches)

CallsOK ==
    /\ call \in [Caller -> CallRec]
    /\ \A p \in Caller : Settled(call[p]) /\ (call[p].pc = "upsert" => Written(call[p]))
    /\ \A p, q \in Caller : p # q => Apart(call[p], call[q])

\* The committed batches whose merge takes row k for removed, if it is theirs to take.
Misses(k) == {i \in DOMAIN log : /\ log[i].agent = k[1] /\ k[3] \in ToSet(log[i].coverage)
                                 /\ k[2] \notin observedCertIDs(log[i])}

\* How each row follows from the merges, one by one: which report or miss was the last that
\* could move its removal.
ObservationsAreExplained ==
    \A k \in Key :
        /\ (obs[k] = Nil) <=> (Reports(k) = {})
        /\ obs[k] # Nil =>
            /\ \A i \in Reports(k) : obs[k].first <= At(i) /\ At(i) <= obs[k].last
            /\ \E i \in Reports(k) : At(i) = obs[k].first
            /\ \E i \in Reports(k) : At(i) = obs[k].last
            /\ obs[k].removed = Nil =>
                \A i \in Misses(k) :
                    At(i) >= obs[k].last /\ (\E j \in Reports(k) : j < i)
                        => \E j \in Reports(k) : j > i /\ At(j) = obs[k].last
            /\ obs[k].removed # Nil =>
                /\ obs[k].removed >= obs[k].last
                /\ \E i \in Misses(k) : /\ At(i) = obs[k].removed
                                        /\ \A j \in Reports(k) : j > i => At(j) < obs[k].last

\* A committed batch reports nothing outside the stores it covers.
CoverageStands == \A i \in DOMAIN log : storesCovered(log[i])

\* The inductive invariant of the tables.
InventoryInv ==
    RowsTypeOK /\ CallsOK /\ CoverageStands /\ CertificateSpansObservations /\ ObservationsAreExplained

ListRow == [at : Time, id : Nat \X Nat]

\* The committed row behind the id of a listed row.
Behind(l, id) == IF l.kind = "observations" THEN obs[<<id[1], l.of, id[2]>>] ELSE certs[id[1]]

\* There is a row of the tables behind the id.
Listed(l, id) ==
    /\ IF l.kind = "observations" THEN <<id[1], l.of, id[2]>> \in Key ELSE id[1] \in Cert
    /\ Behind(l, id) # Nil

WalkRec == [pc : {"idle", "page", "done"}, list : Lists \cup {Nil}, cursor : ListRow \cup {Nil},
            returned : SUBSET (Nat \X Nat), steady : SUBSET ListRow, repeats : Nat]

\* The rows behind what was returned exist, and have not moved behind the cursor.
ReturnedStand(w) ==
    \A id \in w.returned :
        /\ Listed(w.list, id)
        /\ w.cursor # Nil /\ ~ Before(w.cursor, Row(Behind(w.list, id).last, id))

WalkOK(w) ==
    /\ w \in WalkRec
    /\ w.pc # "idle" => w.list \in Lists
    /\ w.pc # "idle" /\ w.list.kind # "summaries" => w.repeats = 0
    /\ w.pc = "page" =>
          /\ \A r \in w.steady : r.id \in w.returned \/ w.cursor = Nil \/ Before(w.cursor, r)
          /\ w.list.kind # "summaries" => ReturnedStand(w)
    /\ w.pc = "done" => w.steady = {}

\* The inductive invariant of the listings.
WalkInv == WalkOK(walk)

----------------------------------------------------------------------------
(* Rows. *)

\* What the two upserts make of a row.
LEMMA CertificateRows ==
    ASSUME NEW row \in CertRow \cup {Nil}, NEW t \in Time
    PROVE  /\ UpsertCertificate(row, t) \in CertRow
           /\ UpsertCertificate(row, t) # Nil
           /\ row = Nil => /\ UpsertCertificate(row, t).first = t
                           /\ UpsertCertificate(row, t).last = t
           /\ row # Nil => /\ UpsertCertificate(row, t).first = Earlier(row.first, t)
                           /\ UpsertCertificate(row, t).last = Later(row.last, t)
  <1>1. UpsertCertificate(row, t) \in CertRow
    <2>1. CASE row = Nil
      BY <2>1 DEF UpsertCertificate, CertRow
    <2>2. CASE row # Nil
      BY <2>2 DEF UpsertCertificate, CertRow, Earlier, Later
    <2>. QED
      BY <2>1, <2>2
  <1>2. row # Nil => /\ UpsertCertificate(row, t).first = Earlier(row.first, t)
                     /\ UpsertCertificate(row, t).last = Later(row.last, t)
    BY DEF UpsertCertificate
  <1>3. row = Nil => UpsertCertificate(row, t).first = t /\ UpsertCertificate(row, t).last = t
    BY DEF UpsertCertificate
  <1>. QED
    BY <1>1, <1>2, <1>3, NilAssumption

LEMMA ObservationRows ==
    ASSUME NEW row \in ObsRow \cup {Nil}, NEW t \in Time
    PROVE  /\ UpsertObservation(row, t) \in ObsRow
           /\ UpsertObservation(row, t) # Nil
           /\ row = Nil => /\ UpsertObservation(row, t).first = t
                           /\ UpsertObservation(row, t).last = t
                           /\ UpsertObservation(row, t).removed = Nil
           /\ row # Nil => /\ UpsertObservation(row, t).first = Earlier(row.first, t)
                           /\ UpsertObservation(row, t).last = Later(row.last, t)
                           /\ t >= row.last => UpsertObservation(row, t).removed = Nil
                           /\ t < row.last => UpsertObservation(row, t).removed = row.removed
  <1>1. UpsertObservation(row, t) \in ObsRow
    <2>1. CASE row = Nil
      BY <2>1 DEF UpsertObservation, ObsRow
    <2>2. CASE row # Nil
      <3>1. /\ Earlier(row.first, t) \in Time /\ Later(row.last, t) \in Time
            /\ (IF t >= row.last THEN Nil ELSE row.removed) \in Time \cup {Nil}
        BY <2>2 DEF ObsRow, Earlier, Later
      <3>. QED
        BY <2>2, <3>1 DEF UpsertObservation, ObsRow
    <2>. QED
      BY <2>1, <2>2
  <1>2. ASSUME row # Nil
        PROVE  /\ UpsertObservation(row, t).first = Earlier(row.first, t)
               /\ UpsertObservation(row, t).last = Later(row.last, t)
               /\ UpsertObservation(row, t).removed = IF t >= row.last THEN Nil ELSE row.removed
    BY <1>2 DEF UpsertObservation
  <1>3. row # Nil => (t < row.last => ~ (t >= row.last))
    BY InventoryAssumption DEF ObsRow, Time
  <1>4. row = Nil => /\ UpsertObservation(row, t).first = t /\ UpsertObservation(row, t).last = t
                     /\ UpsertObservation(row, t).removed = Nil
    BY DEF UpsertObservation
  <1>. QED
    BY <1>1, <1>2, <1>3, <1>4, NilAssumption

LEMMA Bounds ==
    ASSUME NEW t \in Time, NEW u \in Time
    PROVE  /\ Earlier(t, u) \in Time /\ Earlier(t, u) <= t /\ Earlier(t, u) <= u
           /\ Earlier(t, u) \in {t, u}
           /\ Later(t, u) \in Time /\ Later(t, u) >= t /\ Later(t, u) >= u
           /\ Later(t, u) \in {t, u}
  BY InventoryAssumption DEF Time, Earlier, Later

\* A second upsert of the same report changes nothing.
LEMMA CertificateTwice ==
    ASSUME NEW row \in CertRow \cup {Nil}, NEW t \in Time
    PROVE  UpsertCertificate(UpsertCertificate(row, t), t) = UpsertCertificate(row, t)
  <1> DEFINE once == UpsertCertificate(row, t)
             twice == UpsertCertificate(once, t)
  <1>1. once \in CertRow /\ once # Nil /\ once.first <= t /\ once.last >= t
    <2>1. row # Nil => row.first \in Time /\ row.last \in Time
      BY DEF CertRow
    <2>2. t <= t /\ t >= t
      BY InventoryAssumption DEF Time
    <2>3. CASE row = Nil
      BY <2>2, <2>3, CertificateRows
    <2>4. CASE row # Nil
      <3>1. Earlier(row.first, t) <= t /\ Later(row.last, t) >= t
        BY <2>1, <2>4, Bounds
      <3>. QED
        BY <2>4, <3>1, CertificateRows
    <2>. QED
      BY <2>3, <2>4
  <1>2. once.first \in Time /\ once.last \in Time
    BY <1>1 DEF CertRow
  <1>3. Earlier(once.first, t) = once.first /\ Later(once.last, t) = once.last
    BY <1>1, <1>2, InventoryAssumption DEF Earlier, Later, Time
  <1>4. twice = [first |-> once.first, last |-> once.last]
    BY <1>1, <1>3 DEF UpsertCertificate
  <1> HIDE DEF once, twice
  <1>5. once = [first |-> once.first, last |-> once.last]
    BY <1>1 DEF CertRow
  <1>. QED
    BY <1>4, <1>5 DEF once, twice

LEMMA ObservationTwice ==
    ASSUME NEW row \in ObsRow \cup {Nil}, NEW t \in Time
    PROVE  UpsertObservation(UpsertObservation(row, t), t) = UpsertObservation(row, t)
  <1> DEFINE once == UpsertObservation(row, t)
             twice == UpsertObservation(once, t)
  <1>0. row # Nil => row.first \in Time /\ row.last \in Time
    BY DEF ObsRow
  <1>1. once \in ObsRow /\ once # Nil /\ once.first <= t /\ once.last >= t
    <2>2. t <= t /\ t >= t
      BY InventoryAssumption DEF Time
    <2>3. CASE row = Nil
      BY <2>2, <2>3, ObservationRows
    <2>4. CASE row # Nil
      <3>1. Earlier(row.first, t) <= t /\ Later(row.last, t) >= t
        BY <1>0, <2>4, Bounds
      <3>. QED
        BY <2>4, <3>1, ObservationRows
    <2>. QED
      BY <2>3, <2>4
  <1>2. once.first \in Time /\ once.last \in Time
    BY <1>1 DEF ObsRow
  <1>3. Earlier(once.first, t) = once.first /\ Later(once.last, t) = once.last
    BY <1>1, <1>2, InventoryAssumption DEF Earlier, Later, Time
  <1>4. t >= once.last => once.removed = Nil
    <2>1. CASE row = Nil
      BY <2>1, ObservationRows
    <2>2. CASE row # Nil
      <3>1. t >= once.last => t >= row.last
        <4>1. once.last >= row.last
          BY <2>2, <1>0, ObservationRows, Bounds
        <4>. QED
          BY <4>1, <1>0, <1>2, <2>2, InventoryAssumption DEF Time
      <3>. QED
        BY <2>2, <3>1, ObservationRows
    <2>. QED
      BY <2>1, <2>2
  <1>5. twice = [first |-> once.first, last |-> once.last, removed |-> once.removed]
    <2>1. (IF t >= once.last THEN Nil ELSE once.removed) = once.removed
      BY <1>4
    <2>. QED
      BY <1>1, <1>3, <2>1 DEF UpsertObservation
  <1> HIDE DEF once, twice
  <1>6. once = [first |-> once.first, last |-> once.last, removed |-> once.removed]
    BY <1>1 DEF ObsRow
  <1>. QED
    BY <1>5, <1>6 DEF once, twice

----------------------------------------------------------------------------
(* Batches and the copies of a transaction. *)

LEMMA BatchFacts ==
    ASSUME NEW b \in Batches
    PROVE  /\ b \in Batch /\ b # Nil
           /\ b.agent \in Agent /\ b.collectedAt \in Nat
           /\ b.entries \in Seq(Entry) /\ Len(b.entries) \in Nat
           /\ DOMAIN b.entries = 1 .. Len(b.entries)
           /\ \A n \in 1 .. Len(b.entries) :
                 b.entries[n].cert \in Cert /\ b.entries[n].store \in Store /\ EntryKey(b, n) \in Key
  <1>1. b \in Batch /\ b # Nil
    BY BatchesAssumption, NilAssumption
  <1>2. b.agent \in Agent /\ b.collectedAt \in Nat /\ b.entries \in Seq(Entry)
    BY <1>1 DEF Batch
  <1>3. Len(b.entries) \in Nat /\ DOMAIN b.entries = 1 .. Len(b.entries)
    BY <1>2, LenProperties
  <1>4. ASSUME NEW n \in 1 .. Len(b.entries)
        PROVE  b.entries[n].cert \in Cert /\ b.entries[n].store \in Store /\ EntryKey(b, n) \in Key
    <2>1. b.entries[n] \in Entry
      BY <1>2, ElementOfSeq
    <2>. QED
      BY <2>1, <1>2 DEF Entry, EntryKey, Key
  <1>. QED
    BY <1>1, <1>2, <1>3, <1>4

LEMMA PutCertificate ==
    ASSUME NEW g \in Partial(Cert, CertRow), NEW c \in Cert, NEW u \in CertRow
    PROVE  /\ Put(g, c, u) \in Partial(Cert, CertRow)
           /\ DOMAIN Put(g, c, u) = DOMAIN g \cup {c}
           /\ Put(g, c, u)[c] = u
           /\ \A d \in DOMAIN g : d # c => Put(g, c, u)[d] = g[d]
  <1>1. PICK D \in SUBSET Cert : g \in [D -> CertRow]
    BY DEF Partial
  <1>2. DOMAIN g = D /\ D \cup {c} \in SUBSET Cert
    BY <1>1
  <1>3. Put(g, c, u) \in [D \cup {c} -> CertRow]
    BY <1>1, <1>2 DEF Put
  <1>. QED
    BY <1>1, <1>2, <1>3 DEF Put, Partial

LEMMA PutObservation ==
    ASSUME NEW h \in Partial(Key, ObsRow), NEW k \in Key, NEW v \in ObsRow
    PROVE  /\ Put(h, k, v) \in Partial(Key, ObsRow)
           /\ DOMAIN Put(h, k, v) = DOMAIN h \cup {k}
           /\ Put(h, k, v)[k] = v
           /\ \A j \in DOMAIN h : j # k => Put(h, k, v)[j] = h[j]
  <1>1. PICK D \in SUBSET Key : h \in [D -> ObsRow]
    BY DEF Partial
  <1>2. DOMAIN h = D /\ D \cup {k} \in SUBSET Key
    BY <1>1
  <1>3. Put(h, k, v) \in [D \cup {k} -> ObsRow]
    BY <1>1, <1>2 DEF Put
  <1>. QED
    BY <1>1, <1>2, <1>3 DEF Put, Partial

LEMMA PartialFacts ==
    ASSUME NEW S, NEW T, NEW g \in Partial(S, T)
    PROVE  DOMAIN g \in SUBSET S /\ \A y \in DOMAIN g : g[y] \in T
  BY DEF Partial

LEMMA EmptyPartial ==
    ASSUME NEW S, NEW T
    PROVE  <<>> \in Partial(S, T) /\ DOMAIN <<>> = {}
  <1>1. <<>> \in Seq(T) /\ Len(<<>>) = 0
    BY EmptySeq
  <1>2. <<>> \in [1 .. 0 -> T] /\ DOMAIN <<>> = 1 .. 0
    BY <1>1, LenProperties
  <1>3. 1 .. 0 = {}
    OBVIOUS
  <1>. QED
    BY <1>2, <1>3 DEF Partial

\* A call that is over, or has not begun.
LEMMA NoCallFacts ==
    /\ NoCall \in CallRec /\ Settled(NoCall) /\ NoCall.pc = "idle"
    /\ \A y : Apart(NoCall, y) /\ Apart(y, NoCall)
  <1>1. /\ NoCall.pc = "idle" /\ NoCall.batch = Nil /\ NoCall.next = 1 /\ NoCall.newCerts = <<>>
        /\ NoCall.newObs = <<>> /\ NoCall.reason = Nil /\ NoCall.agent = Nil /\ NoCall.now = 0
    BY DEF NoCall
  <1>2. /\ <<>> \in Partial(Cert, CertRow) /\ <<>> \in Partial(Key, ObsRow) /\ DOMAIN <<>> = {}
    BY EmptyPartial
  <1>3. 0 \in 0 .. MaxClock /\ 1 \in Nat
    BY InventoryAssumption
  <1>4. NoCall \in CallRec
    BY <1>2, <1>3 DEF NoCall, CallRec
  <1>5. Settled(NoCall)
    BY <1>1, <1>2 DEF Settled
  <1>6. \A y : Apart(NoCall, y) /\ Apart(y, NoCall)
    <2>1. DOMAIN NoCall.newCerts = {}
      BY <1>1, <1>2
    <2>. QED
      BY <1>1, <2>1 DEF Apart
  <1>. QED
    BY <1>1, <1>4, <1>5, <1>6

\* One call goes on; the tables stand still.
LEMMA CallReplaced ==
    ASSUME CallsOK, NEW p \in Caller, NEW x \in CallRec, Go(p, x), UNCHANGED <<certs, obs>>,
           Settled(x), x.pc = "upsert" => Written(x),
           \A q \in Caller : q # p => Apart(x, call[q]) /\ Apart(call[q], x)
    PROVE  CallsOK'
  <1>1. /\ call' \in [Caller -> CallRec] /\ call'[p] = x
        /\ \A q \in Caller : q # p => call'[q] = call[q]
    BY DEF CallsOK, Go
  <1>2. ASSUME NEW q \in Caller
        PROVE  (Settled(call[q]) /\ (call[q].pc = "upsert" => Written(call[q])))'
    <2>1. PICK y \in CallRec : y = call'[q]
      BY <1>1
    <2>2. Settled(y) /\ (y.pc = "upsert" => Written(y))
      <3>1. CASE q = p
        BY <1>1, <2>1, <3>1
      <3>2. CASE q # p
        BY <1>1, <2>1, <3>2 DEF CallsOK
      <3>. QED
        BY <3>1, <3>2
    <2>3. Settled(call[q])'
      BY <2>1, <2>2 DEF Settled
    <2>4. y.pc = "upsert" => Written(call[q])'
      BY <2>1, <2>2 DEF Written
    <2>. QED
      BY <2>1, <2>3, <2>4
  <1>3. ASSUME NEW q \in Caller, NEW r \in Caller, q # r
        PROVE  Apart(call[q], call[r])'
    <2>1. Apart(call'[q], call'[r])
      BY <1>1, <1>3 DEF CallsOK
    <2>. QED
      BY <2>1 DEF Apart
  <1>. QED
    BY <1>1, <1>2, <1>3 DEF CallsOK

LEMMA CallEnds ==
    ASSUME CallsOK, NEW p \in Caller, Go(p, NoCall), UNCHANGED <<certs, obs>>
    PROVE  CallsOK'
  BY NoCallFacts, CallReplaced

----------------------------------------------------------------------------
(* The steps of a call that leave the tables alone. *)

LEMMA VerdictFacts ==
    ASSUME NEW b \in Batches, NEW now \in 1 .. MaxClock
    PROVE  /\ verdict(b, now) = "accept" => /\ ~ containsPrivateKey(b) /\ storesCovered(b)
                                           /\ b.collectedAt \in Time
           /\ verdict(b, now) \in reasons /\ containsPrivateKey(b)
                => verdict(b, now) = "agent.certificate_batch_rejected"
           /\ validateRequestShape(b) /\ shapeOK(b, now) /\ containsPrivateKey(b)
                => verdict(b, now) = "agent.certificate_batch_rejected"
  <1>1. shapeOK(b, now) => b.collectedAt \in Time
    BY BatchFacts, InventoryAssumption DEF shapeOK, Time
  <1>2. verdict(b, now) = "accept" => shapeOK(b, now) /\ ~ containsPrivateKey(b) /\ storesCovered(b)
    BY DEF verdict
  <1>3. verdict(b, now) \in reasons /\ containsPrivateKey(b)
            => verdict(b, now) = "agent.certificate_batch_rejected"
    BY DEF verdict, reasons
  <1>4. validateRequestShape(b) /\ shapeOK(b, now) /\ containsPrivateKey(b)
            => verdict(b, now) = "agent.certificate_batch_rejected"
    BY DEF verdict
  <1>. QED
    BY <1>1, <1>2, <1>3, <1>4

\* A call whose transaction has written nothing is apart from all others.
LEMMA ApartBeforeWriting ==
    ASSUME CallsOK, NEW q \in Caller, NEW x \in CallRec, x.pc # "upsert", Settled(x)
    PROVE  Apart(x, call[q]) /\ Apart(call[q], x)
  BY DEF Apart, Settled

LEMMA IngestKeepsCalls ==
    ASSUME CallsOK, NEW p \in Caller, NEW b \in Batches, AgentCertificatesIngest(p, b)
    PROVE  CallsOK'
  <1> DEFINE x == [NoCall EXCEPT !.pc = "check", !.batch = b, !.agent = b.agent]
  <1>1. /\ x.pc = "check" /\ x.batch = b /\ x.agent = b.agent /\ x.next = 1
        /\ x.newCerts = <<>> /\ x.newObs = <<>>
    BY DEF NoCall
  <1>2. x \in CallRec
    BY NoCallFacts, BatchFacts DEF CallRec
  <1>3. Go(p, x) /\ UNCHANGED <<certs, obs>>
    BY DEF AgentCertificatesIngest
  <1> HIDE DEF x
  <1>4. Settled(x)
    BY <1>1, EmptyPartial DEF Settled
  <1>5. \A q \in Caller : Apart(x, call[q]) /\ Apart(call[q], x)
    BY <1>1, <1>2, <1>4, ApartBeforeWriting
  <1>. QED
    BY <1>1, <1>2, <1>3, <1>4, <1>5, CallReplaced

LEMMA SubmitKeepsCalls ==
    ASSUME CallsOK, RowsTypeOK, NEW p \in Caller, Submit(p)
    PROVE  CallsOK'
  <1>1. PICK y \in CallRec : y = call[p]
    BY DEF CallsOK
  <1>2. y.pc = "check" /\ Settled(y) /\ y.batch \in Batches /\ UNCHANGED <<certs, obs>>
    BY <1>1 DEF CallsOK, Submit, Settled
  <1>3. PICK now \in 1 .. MaxClock : now = clock
    BY DEF RowsTypeOK
  <1>4. PICK v : v = verdict(y.batch, now)
    OBVIOUS
  <1>5. \/ v = "accept" /\ Go(p, [y EXCEPT !.pc = "lock"])
        \/ v \in reasons /\ Go(p, [y EXCEPT !.pc = "audit", !.reason = v])
        \/ v = "refuse" /\ Go(p, NoCall)
    BY <1>1, <1>3, <1>4 DEF Submit
  <1>6. CASE v = "accept" /\ Go(p, [y EXCEPT !.pc = "lock"])
    <2> DEFINE x == [y EXCEPT !.pc = "lock"]
    <2>1. /\ x \in CallRec /\ x.pc = "lock" /\ x.batch = y.batch /\ x.agent = y.agent
          /\ x.next = y.next /\ x.newCerts = y.newCerts /\ x.newObs = y.newObs
      BY DEF CallRec
    <2> HIDE DEF x
    <2>2. ~ containsPrivateKey(y.batch) /\ storesCovered(y.batch) /\ y.batch.collectedAt \in Time
      BY <1>2, <1>4, <1>6, VerdictFacts
    <2>3. Settled(x)
      BY <1>2, <2>1, <2>2 DEF Settled
    <2>4. \A q \in Caller : Apart(x, call[q]) /\ Apart(call[q], x)
      BY <2>1, <2>3, ApartBeforeWriting
    <2>5. Go(p, x)
      BY <1>6 DEF x
    <2>. QED
      BY <1>2, <2>1, <2>3, <2>4, <2>5, CallReplaced
  <1>7. CASE v \in reasons /\ Go(p, [y EXCEPT !.pc = "audit", !.reason = v])
    <2> DEFINE x == [y EXCEPT !.pc = "audit", !.reason = v]
    <2>1. /\ x \in CallRec /\ x.pc = "audit" /\ x.batch = y.batch /\ x.agent = y.agent
          /\ x.next = y.next /\ x.newCerts = y.newCerts /\ x.newObs = y.newObs /\ x.reason = v
      BY <1>7 DEF CallRec
    <2> HIDE DEF x
    <2>2. containsPrivateKey(y.batch) => v = "agent.certificate_batch_rejected"
      BY <1>2, <1>4, <1>7, VerdictFacts
    <2>3. Settled(x)
      BY <1>2, <1>7, <2>1, <2>2 DEF Settled
    <2>4. \A q \in Caller : Apart(x, call[q]) /\ Apart(call[q], x)
      BY <2>1, <2>3, ApartBeforeWriting
    <2>5. Go(p, x)
      BY <1>7 DEF x
    <2>. QED
      BY <1>2, <2>1, <2>3, <2>4, <2>5, CallReplaced
  <1>. QED
    BY <1>2, <1>5, <1>6, <1>7, CallEnds

LEMMA LockAgentKeepsCalls ==
    ASSUME CallsOK, NEW p \in Caller, LockAgent(p)
    PROVE  CallsOK'
  <1>1. PICK y \in CallRec : y = call[p]
    BY DEF CallsOK
  <1>2. y.pc = "lock" /\ Settled(y) /\ y.batch \in Batches /\ UNCHANGED <<certs, obs>>
    BY <1>1 DEF CallsOK, LockAgent, Settled
  <1> DEFINE x == [y EXCEPT !.pc = "upsert"]
  <1>3. /\ x \in CallRec /\ x.pc = "upsert" /\ x.batch = y.batch /\ x.agent = y.agent
        /\ x.next = y.next /\ x.newCerts = y.newCerts /\ x.newObs = y.newObs
    BY DEF CallRec
  <1>4. Go(p, x)
    BY <1>1 DEF LockAgent
  <1> HIDE DEF x
  <1>5. /\ x.next = 1 /\ DOMAIN x.newCerts = {} /\ DOMAIN x.newObs = {}
    BY <1>2, <1>3 DEF Settled
  <1>6. Settled(x)
    BY <1>2, <1>3 DEF Settled
  <1>7. Written(x)
    <2>1. 1 \in 1 .. Len(x.batch.entries) + 1 /\ 1 .. (1 - 1) = {}
      BY <1>2, <1>3, BatchFacts
    <2>2. CertsUpTo(x.batch, x.next - 1) = {} /\ KeysUpTo(x.batch, x.next - 1) = {}
      BY <1>5, <2>1 DEF CertsUpTo, KeysUpTo
    <2>. QED
      BY <1>5, <2>1, <2>2 DEF Written
  <1>8. ASSUME NEW q \in Caller, q # p
        PROVE  Apart(x, call[q]) /\ Apart(call[q], x)
    <2>1. ~ (call[q].pc = "upsert" /\ call[q].agent = y.agent)
      BY <1>1, <1>8 DEF LockAgent, AgentLockFree
    <2>. QED
      BY <1>3, <1>5, <2>1 DEF Apart
  <1>. QED
    BY <1>2, <1>3, <1>4, <1>6, <1>7, <1>8, CallReplaced

LEMMA SnapshotKeepsCalls ==
    ASSUME CallsOK, RowsTypeOK, NEW p \in Caller, NEW a \in Agent, AgentInventorySubmit(p, a)
    PROVE  CallsOK'
  <1> DEFINE x == [NoCall EXCEPT !.pc = "snapshot", !.agent = a, !.now = clock]
  <1>1. /\ x.pc = "snapshot" /\ x.batch = Nil /\ x.agent = a /\ x.now = clock
        /\ x.newCerts = <<>> /\ x.newObs = <<>>
    BY DEF NoCall
  <1>2. clock \in 1 .. MaxClock /\ clock \in 0 .. MaxClock
    BY InventoryAssumption DEF RowsTypeOK
  <1>3. x \in CallRec
    BY <1>2, NoCallFacts DEF CallRec
  <1>4. Go(p, x) /\ UNCHANGED <<certs, obs>>
    BY DEF AgentInventorySubmit, SubmitSnapshot
  <1> HIDE DEF x
  <1>5. PICK y \in CallRec : y = x
    BY <1>3
  <1>6. Settled(y)
    BY <1>1, <1>2, <1>5, EmptyPartial DEF Settled
  <1>7. \A q \in Caller : Apart(y, call[q]) /\ Apart(call[q], y)
    BY <1>1, <1>5, <1>6, ApartBeforeWriting
  <1>8. Go(p, y)
    BY <1>4, <1>5
  <1>. QED
    BY <1>1, <1>4, <1>5, <1>6, <1>7, <1>8, CallReplaced

LEMMA UpsertEntryKeepsCalls ==
    ASSUME CallsOK, RowsTypeOK, NEW p \in Caller, UpsertEntry(p)
    PROVE  CallsOK'
  <1>1. PICK y \in CallRec : y = call[p]
    BY DEF CallsOK
  <1>2. /\ y.pc = "upsert" /\ Settled(y) /\ Written(y) /\ UNCHANGED <<certs, obs>>
        /\ y.next <= Len(y.batch.entries)
    BY <1>1 DEF CallsOK, UpsertEntry
  <1>3. PICK b \in Batches : b = y.batch /\ b.collectedAt \in Time /\ y.agent = b.agent
    BY <1>2 DEF Settled
  <1>4. PICK n \in 1 .. Len(b.entries) : n = y.next
    BY <1>2, <1>3, BatchFacts DEF Written
  <1>5. PICK c \in Cert, k \in Key : c = b.entries[n].cert /\ k = EntryKey(b, n)
    BY <1>4, BatchFacts
  <1>6. PICK t \in Time : t = b.collectedAt
    BY <1>3
  <1>7. PICK g \in Partial(Cert, CertRow), h \in Partial(Key, ObsRow) : g = y.newCerts /\ h = y.newObs
    BY DEF CallRec
  <1>8. /\ DOMAIN g = CertsUpTo(b, n - 1) /\ DOMAIN h = KeysUpTo(b, n - 1)
        /\ \A d \in DOMAIN g : g[d] = UpsertCertificate(certs[d], t)
        /\ \A j \in DOMAIN h : h[j] = UpsertObservation(obs[j], t)
    BY <1>2, <1>3, <1>4, <1>6, <1>7 DEF Written
  <1>9. PICK u \in CertRow : u = UpsertCertificate(certs[c], t)
    <2>1. certs[c] \in CertRow \cup {Nil}
      BY DEF RowsTypeOK
    <2>. QED
      BY <2>1, CertificateRows
  <1>10. PICK v \in ObsRow : v = UpsertObservation(obs[k], t)
    <2>1. obs[k] \in ObsRow \cup {Nil}
      BY DEF RowsTypeOK
    <2>. QED
      BY <2>1, ObservationRows
  <1>11. UpsertCertificate(Overlay(certs, g)[c], t) = u
    <2>1. certs[c] \in CertRow \cup {Nil} /\ DOMAIN certs = Cert
      BY DEF RowsTypeOK
    <2>2. CASE c \in DOMAIN g
      <3>1. Overlay(certs, g)[c] = u
        BY <1>8, <1>9, <2>1, <2>2 DEF Overlay
      <3>. QED
        BY <1>9, <2>1, <3>1, CertificateTwice
    <2>3. CASE c \notin DOMAIN g
      BY <1>9, <2>1, <2>3 DEF Overlay
    <2>. QED
      BY <2>2, <2>3
  <1>12. UpsertObservation(Overlay(obs, h)[k], t) = v
    <2>1. obs[k] \in ObsRow \cup {Nil} /\ DOMAIN obs = Key
      BY DEF RowsTypeOK
    <2>2. CASE k \in DOMAIN h
      <3>1. Overlay(obs, h)[k] = v
        BY <1>8, <1>10, <2>1, <2>2 DEF Overlay
      <3>. QED
        BY <1>10, <2>1, <3>1, ObservationTwice
    <2>3. CASE k \notin DOMAIN h
      BY <1>10, <2>1, <2>3 DEF Overlay
    <2>. QED
      BY <2>2, <2>3
  <1> DEFINE x == [y EXCEPT !.next = n + 1, !.newCerts = Put(g, c, u), !.newObs = Put(h, k, v)]
  <1>13. /\ Go(p, x) /\ \A q \in Caller : q # p => c \notin DOMAIN call[q].newCerts
    <2>1. /\ \A q \in Caller \ {p} : ~ Holds(q, c)
          /\ Go(p, [y EXCEPT !.next = @ + 1,
                       !.newCerts = Put(@, c, UpsertCertificate(Overlay(certs, y.newCerts)[c], t)),
                       !.newObs = Put(@, k, UpsertObservation(Overlay(obs, y.newObs)[k], t))])
      BY <1>1, <1>3, <1>4, <1>5, <1>6 DEF UpsertEntry, EntryKey
    <2>2. Go(p, [y EXCEPT !.next = y.next + 1,
                       !.newCerts = Put(y.newCerts, c, UpsertCertificate(Overlay(certs, y.newCerts)[c], t)),
                       !.newObs = Put(y.newObs, k, UpsertObservation(Overlay(obs, y.newObs)[k], t))])
      BY <2>1
    <2>3. Go(p, x)
      BY <2>2, <1>4, <1>7, <1>11, <1>12
    <2>. QED
      BY <2>1, <2>3 DEF Holds
  <1>14. n + 1 \in Nat
    BY BatchFacts
  <1>g. /\ Put(g, c, u) \in Partial(Cert, CertRow) /\ DOMAIN Put(g, c, u) = DOMAIN g \cup {c}
        /\ Put(g, c, u)[c] = u /\ \A d \in DOMAIN g : d # c => Put(g, c, u)[d] = g[d]
    BY PutCertificate
  <1>h. /\ Put(h, k, v) \in Partial(Key, ObsRow) /\ DOMAIN Put(h, k, v) = DOMAIN h \cup {k}
        /\ Put(h, k, v)[k] = v /\ \A j \in DOMAIN h : j # k => Put(h, k, v)[j] = h[j]
    BY PutObservation
  <1>15. /\ x \in CallRec /\ x.pc = "upsert" /\ x.batch = b /\ x.agent = b.agent
         /\ x.next = n + 1 /\ x.newCerts = Put(g, c, u) /\ x.newObs = Put(h, k, v)
    BY <1>2, <1>3, <1>14, <1>g, <1>h DEF CallRec
  <1> HIDE DEF x
  <1>16. Settled(x)
    BY <1>2, <1>3, <1>15 DEF Settled
  <1>17. DOMAIN x.newCerts = CertsUpTo(b, n) /\ DOMAIN x.newObs = KeysUpTo(b, n)
    <2>1. 1 .. n = (1 .. n - 1) \cup {n}
      BY <1>4, BatchFacts
    <2>2. CertsUpTo(b, n) = CertsUpTo(b, n - 1) \cup {c} /\ KeysUpTo(b, n) = KeysUpTo(b, n - 1) \cup {k}
      BY <1>5, <2>1 DEF CertsUpTo, KeysUpTo
    <2>. QED
      BY <1>8, <1>15, <1>g, <1>h, <2>2
  <1>18. Written(x)
    <2>1. n + 1 \in 1 .. Len(b.entries) + 1 /\ (n + 1) - 1 = n
      BY <1>4, BatchFacts
    <2>2. \A d \in DOMAIN Put(g, c, u) : Put(g, c, u)[d] = UpsertCertificate(certs[d], t)
      BY <1>8, <1>9, <1>g
    <2>3. \A j \in DOMAIN Put(h, k, v) : Put(h, k, v)[j] = UpsertObservation(obs[j], t)
      BY <1>8, <1>10, <1>h
    <2>. QED
      BY <1>6, <1>15, <1>17, <2>1, <2>2, <2>3 DEF Written
  <1>19. ASSUME NEW q \in Caller, q # p
         PROVE  Apart(x, call[q]) /\ Apart(call[q], x)
    <2>1. Apart(y, call[q]) /\ Apart(call[q], y)
      BY <1>1, <1>19 DEF CallsOK
    <2>2. DOMAIN x.newCerts = DOMAIN y.newCerts \cup {c}
      BY <1>7, <1>15, <1>g
    <2>. QED
      BY <1>2, <1>3, <1>13, <1>15, <1>19, <2>1, <2>2 DEF Apart
  <1>. QED
    BY <1>2, <1>13, <1>15, <1>16, <1>18, <1>19, CallReplaced

----------------------------------------------------------------------------
(* A commit merges one batch into the tables. *)

KeysOf(b) == KeysUpTo(b, Len(b.entries))

Merged(b) ==
    /\ \A c \in Cert :
          /\ c \in observedCertIDs(b) => certs'[c] = UpsertCertificate(certs[c], b.collectedAt)
          /\ c \notin observedCertIDs(b) => certs'[c] = certs[c]
    /\ \A k \in Key :
          /\ k \in KeysOf(b) => obs'[k] = UpsertObservation(obs[k], b.collectedAt)
          /\ k \notin KeysOf(b) =>
                obs'[k] = IF Missing(b, k, obs[k]) THEN [obs[k] EXCEPT !.removed = b.collectedAt]
                          ELSE obs[k]

LEMMA KeysOfBatch ==
    ASSUME NEW b \in Batches
    PROVE  /\ observedCertIDs(b) = CertsUpTo(b, Len(b.entries)) /\ observedCertIDs(b) \subseteq Cert
           /\ \A k \in KeysOf(b) : k \in Key /\ k[1] = b.agent /\ k[2] \in observedCertIDs(b)
           /\ \A c \in observedCertIDs(b) : \E k \in KeysOf(b) : k[2] = c
  <1>1. observedCertIDs(b) = CertsUpTo(b, Len(b.entries)) /\ observedCertIDs(b) \subseteq Cert
    BY BatchFacts DEF observedCertIDs, CertsUpTo
  <1>2. ASSUME NEW n \in 1 .. Len(b.entries)
        PROVE  /\ EntryKey(b, n)[1] = b.agent /\ EntryKey(b, n)[2] = b.entries[n].cert
    BY DEF EntryKey
  <1>3. ASSUME NEW k \in KeysOf(b) PROVE k \in Key /\ k[1] = b.agent /\ k[2] \in observedCertIDs(b)
    <2>1. PICK n \in 1 .. Len(b.entries) : k = EntryKey(b, n)
      BY DEF KeysOf, KeysUpTo
    <2>. QED
      BY <1>1, <1>2, <2>1, BatchFacts DEF CertsUpTo
  <1>4. ASSUME NEW c \in observedCertIDs(b) PROVE \E k \in KeysOf(b) : k[2] = c
    <2>1. PICK n \in 1 .. Len(b.entries) : c = b.entries[n].cert
      BY <1>1 DEF CertsUpTo
    <2>. QED
      BY <1>2, <2>1 DEF KeysOf, KeysUpTo
  <1>. QED
    BY <1>1, <1>3, <1>4

LEMMA CommitMerges ==
    ASSUME RowsTypeOK, CallsOK, NEW p \in Caller, Commit(p)
    PROVE  \E b \in Batches :
              /\ b = call[p].batch /\ b.agent = call[p].agent /\ b.collectedAt \in Time
              /\ DOMAIN call[p].newCerts = observedCertIDs(b) /\ storesCovered(b)
              /\ Merged(b) /\ log' = Append(log, b)
  <1>1. PICK y \in CallRec : y = call[p]
    BY DEF CallsOK
  <1>2. y.pc = "upsert" /\ Settled(y) /\ Written(y) /\ y.next > Len(y.batch.entries)
    BY <1>1 DEF CallsOK, Commit
  <1>3. PICK b \in Batches :
           b = y.batch /\ b.collectedAt \in Time /\ y.agent = b.agent /\ storesCovered(b)
    BY <1>2 DEF Settled
  <1>4. y.next - 1 = Len(b.entries)
    BY <1>2, <1>3, BatchFacts DEF Written
  <1>5. DOMAIN y.newCerts = observedCertIDs(b) /\ DOMAIN y.newObs = KeysOf(b)
    BY <1>2, <1>3, <1>4, KeysOfBatch DEF Written, KeysOf
  <1>6. PICK mine : mine = Overlay(obs, y.newObs)
    OBVIOUS
  <1>7. /\ obs' = [k \in Key |-> IF Missing(b, k, mine[k])
                                 THEN [mine[k] EXCEPT !.removed = b.collectedAt] ELSE mine[k]]
        /\ certs' = Overlay(certs, y.newCerts) /\ log' = Append(log, b)
    BY <1>1, <1>3, <1>6 DEF Commit
  <1>8. DOMAIN certs = Cert /\ DOMAIN obs = Key
    BY DEF RowsTypeOK
  <1>9. ASSUME NEW c \in Cert
        PROVE  /\ c \in observedCertIDs(b) => certs'[c] = UpsertCertificate(certs[c], b.collectedAt)
               /\ c \notin observedCertIDs(b) => certs'[c] = certs[c]
    <2>1. c \in observedCertIDs(b) => y.newCerts[c] = UpsertCertificate(certs[c], b.collectedAt)
      BY <1>2, <1>3, <1>5 DEF Written
    <2>. QED
      BY <1>5, <1>7, <1>8, <2>1 DEF Overlay
  <1>10. ASSUME NEW k \in Key
         PROVE  /\ k \in KeysOf(b) => obs'[k] = UpsertObservation(obs[k], b.collectedAt)
                /\ k \notin KeysOf(b) =>
                     obs'[k] = IF Missing(b, k, obs[k]) THEN [obs[k] EXCEPT !.removed = b.collectedAt]
                               ELSE obs[k]
    <2>1. CASE k \in KeysOf(b)
      <3>1. mine[k] = UpsertObservation(obs[k], b.collectedAt)
        BY <1>2, <1>3, <1>5, <1>6, <1>8, <2>1 DEF Overlay, Written
      <3>2. ~ Missing(b, k, mine[k])
        BY <2>1, KeysOfBatch DEF Missing
      <3>. QED
        BY <1>7, <2>1, <3>1, <3>2
    <2>2. CASE k \notin KeysOf(b)
      <3>1. mine[k] = obs[k]
        BY <1>5, <1>6, <1>8, <2>2 DEF Overlay
      <3>. QED
        BY <1>7, <2>2, <3>1
    <2>. QED
      BY <2>1, <2>2
  <1>11. Merged(b)
    BY <1>9, <1>10 DEF Merged
  <1>. QED
    BY <1>1, <1>3, <1>5, <1>7, <1>11

\* What a merge does to one observation row.
LEMMA MergedRow ==
    ASSUME RowsTypeOK, NEW b \in Batches, b.collectedAt \in Time, Merged(b), NEW k \in Key
    PROVE  /\ obs'[k] \in ObsRow \cup {Nil}
           /\ obs[k] # Nil => obs'[k] # Nil
           /\ k \in KeysOf(b) => obs'[k] # Nil
           /\ k \notin KeysOf(b) =>
                /\ obs[k] = Nil => obs'[k] = Nil
                /\ obs[k] # Nil => obs'[k].first = obs[k].first /\ obs'[k].last = obs[k].last
                /\ Missing(b, k, obs[k]) => obs'[k].removed = b.collectedAt
                /\ ~ Missing(b, k, obs[k]) => obs'[k] = obs[k]
  <1>1. PICK row \in ObsRow \cup {Nil} : row = obs[k]
    BY DEF RowsTypeOK
  <1>2. PICK t \in Time : t = b.collectedAt
    OBVIOUS
  <1>3. CASE k \in KeysOf(b)
    <2>1. obs'[k] = UpsertObservation(row, t)
      BY <1>1, <1>2, <1>3 DEF Merged
    <2>2. UpsertObservation(row, t) \in ObsRow /\ UpsertObservation(row, t) # Nil
      BY ObservationRows
    <2>. QED
      BY <1>3, <2>1, <2>2
  <1>4. CASE k \notin KeysOf(b)
    <2>1. CASE Missing(b, k, row)
      <3>1. row # Nil /\ row \in ObsRow
        BY <1>1, <2>1 DEF Missing
      <3>2. /\ [row EXCEPT !.removed = t] \in ObsRow
            /\ [row EXCEPT !.removed = t].first = row.first
            /\ [row EXCEPT !.removed = t].last = row.last
            /\ [row EXCEPT !.removed = t].removed = t
        BY <3>1 DEF ObsRow
      <3>3. obs'[k] = [row EXCEPT !.removed = t]
        BY <1>1, <1>2, <1>4, <2>1 DEF Merged
      <3>. QED
        BY <1>1, <1>2, <1>4, <2>1, <3>1, <3>2, <3>3, NilAssumption
    <2>2. CASE ~ Missing(b, k, row)
      <3>1. obs'[k] = row
        BY <1>1, <1>2, <1>4, <2>2 DEF Merged
      <3>. QED
        BY <1>1, <1>2, <1>4, <2>2, <3>1
    <2>. QED
      BY <2>1, <2>2
  <1>. QED
    BY <1>3, <1>4

LEMMA MergedCertificate ==
    ASSUME RowsTypeOK, NEW b \in Batches, b.collectedAt \in Time, Merged(b), NEW c \in Cert
    PROVE  /\ certs'[c] \in CertRow \cup {Nil}
           /\ certs[c] # Nil => certs'[c] # Nil /\ certs'[c].last >= certs[c].last
  <1>1. PICK row \in CertRow \cup {Nil} : row = certs[c]
    BY DEF RowsTypeOK
  <1>2. PICK t \in Time : t = b.collectedAt
    OBVIOUS
  <1>3. certs'[c] \in {row, UpsertCertificate(row, t)}
    BY <1>1, <1>2 DEF Merged
  <1>4. UpsertCertificate(row, t) \in CertRow /\ UpsertCertificate(row, t) # Nil
    BY CertificateRows
  <1>5. row # Nil => UpsertCertificate(row, t).last >= row.last /\ row.last >= row.last
    <2>1. row # Nil => row.last \in Time
      BY DEF CertRow
    <2>2. row # Nil => row.last >= row.last
      BY <2>1, InventoryAssumption DEF Time
    <2>3. ASSUME row # Nil PROVE UpsertCertificate(row, t).last >= row.last
      <3>1. Later(row.last, t) >= row.last
        BY <2>1, <2>3, Bounds
      <3>. QED
        BY <2>3, <3>1, CertificateRows
    <2>. QED
      BY <2>2, <2>3
  <1>. QED
    BY <1>1, <1>3, <1>4, <1>5

\* A commit leaves the rows that other transactions have copied as they were.
LEMMA CommitKeepsCalls ==
    ASSUME RowsTypeOK, CallsOK, NEW p \in Caller, Commit(p)
    PROVE  CallsOK'
  <1>1. PICK b \in Batches : /\ b.agent = call[p].agent /\ b.collectedAt \in Time
                             /\ DOMAIN call[p].newCerts = observedCertIDs(b) /\ Merged(b)
    BY CommitMerges
  <1>2. call' = [call EXCEPT ![p] = NoCall] /\ call[p].pc = "upsert"
    BY DEF Commit, Go
  <1>3. /\ call' \in [Caller -> CallRec] /\ call'[p] = NoCall
        /\ \A q \in Caller : q # p => call'[q] = call[q]
    BY <1>2, NoCallFacts DEF CallsOK
  <1>4. ASSUME NEW q \in Caller
        PROVE  (Settled(call[q]) /\ (call[q].pc = "upsert" => Written(call[q])))'
    <2>1. CASE q = p
      <3>1. Settled(call'[q]) /\ call'[q].pc # "upsert"
        BY <1>3, <2>1, NoCallFacts
      <3>2. Settled(call[q])'
        BY <3>1 DEF Settled
      <3>. QED
        BY <3>1, <3>2
    <2>2. CASE q # p
      <3>1. PICK y \in CallRec : y = call[q] /\ y = call'[q]
        BY <1>3, <2>2 DEF CallsOK
      <3>2. Settled(y) /\ (y.pc = "upsert" => Written(y)) /\ Apart(y, call[p])
        BY <3>1, <2>2 DEF CallsOK
      <3>3. Settled(call[q])'
        BY <3>1, <3>2 DEF Settled
      <3>4. ASSUME y.pc = "upsert"
            PROVE  Written(call[q])'
        <4>1. Written(y) /\ y.batch \in Batches /\ y.agent = y.batch.agent /\ y.agent # b.agent
          BY <1>1, <1>2, <3>2, <3>4 DEF Settled, Apart
        <4>2. ASSUME NEW c \in DOMAIN y.newCerts PROVE certs'[c] = certs[c]
          <5>1. c \notin observedCertIDs(b)
            BY <1>1, <3>2 DEF Apart
          <5>2. c \in Cert
            <6>1. y.newCerts \in Partial(Cert, CertRow)
              BY DEF CallRec
            <6>. QED
              BY <6>1, PartialFacts
          <5>. QED
            BY <1>1, <5>1, <5>2 DEF Merged
        <4>3. ASSUME NEW k \in DOMAIN y.newObs PROVE obs'[k] = obs[k]
          <5>1. PICK n \in 1 .. y.next - 1 : k = EntryKey(y.batch, n)
            BY <4>1 DEF Written, KeysUpTo
          <5>2. n \in 1 .. Len(y.batch.entries)
            BY <4>1, BatchFacts DEF Written
          <5>3. k \in Key /\ k[1] # b.agent
            BY <4>1, <5>1, <5>2, BatchFacts DEF EntryKey
          <5>4. k \notin KeysOf(b) /\ ~ Missing(b, k, obs[k])
            BY <5>3, KeysOfBatch DEF Missing
          <5>. QED
            BY <1>1, <5>3, <5>4 DEF Merged
        <4>. QED
          BY <3>1, <4>1, <4>2, <4>3 DEF Written
      <3>. QED
        BY <3>1, <3>3, <3>4
    <2>. QED
      BY <2>1, <2>2
  <1>5. ASSUME NEW q \in Caller, NEW r \in Caller, q # r
        PROVE  Apart(call[q], call[r])'
    <2>1. Apart(call'[q], call'[r])
      BY <1>3, <1>5, NoCallFacts DEF CallsOK
    <2>. QED
      BY <2>1 DEF Apart
  <1>. QED
    BY <1>3, <1>4, <1>5 DEF CallsOK

----------------------------------------------------------------------------
(* Certificate rows span their observations. *)

Spans(c) ==
    /\ (certs[c] = Nil) <=> (SeenBy(c) = {})
    /\ certs[c] # Nil =>
        /\ \A k \in SeenBy(c) : certs[c].first <= obs[k].first /\ obs[k].last <= certs[c].last
        /\ \E k \in SeenBy(c) : obs[k].first = certs[c].first
        /\ \E k \in SeenBy(c) : obs[k].last = certs[c].last

\* The two upserts of one report, and of another row that the certificate row spans.
LEMMA UpsertsSpan ==
    ASSUME NEW row \in CertRow, NEW o \in ObsRow, NEW t \in Time,
           row.first <= o.first, o.last <= row.last
    PROVE  /\ Earlier(row.first, t) <= o.first /\ o.last <= Later(row.last, t)
           /\ Earlier(row.first, t) <= Earlier(o.first, t) /\ Later(o.last, t) <= Later(row.last, t)
           /\ t < row.first => Earlier(o.first, t) = t /\ Earlier(row.first, t) = t
           /\ t > row.last => Later(o.last, t) = t /\ Later(row.last, t) = t
           /\ ~ (t < row.first) /\ o.first = row.first =>
                Earlier(o.first, t) = row.first /\ Earlier(row.first, t) = row.first
           /\ ~ (t > row.last) /\ o.last = row.last =>
                Later(o.last, t) = row.last /\ Later(row.last, t) = row.last
           /\ ~ (t < row.first) => Earlier(row.first, t) = row.first
           /\ ~ (t > row.last) => Later(row.last, t) = row.last
           /\ Earlier(row.first, t) <= t /\ t <= Later(row.last, t)
  <1>1. /\ row.first \in Time /\ row.last \in Time /\ o.first \in Time /\ o.last \in Time
    BY DEF CertRow, ObsRow
  <1>2. /\ row.first \in Nat /\ row.last \in Nat /\ o.first \in Nat /\ o.last \in Nat /\ t \in Nat
    BY <1>1, InventoryAssumption DEF Time
  <1>. QED
    BY <1>2 DEF Earlier, Later

LEMMA UnreportedSpans ==
    ASSUME RowsTypeOK, NEW b \in Batches, b.collectedAt \in Time, Merged(b),
           NEW c \in Cert, Spans(c), c \notin observedCertIDs(b)
    PROVE  Spans(c)'
  <1>1. certs'[c] = certs[c]
    BY DEF Merged
  <1>2. ASSUME NEW k \in Key, k[2] = c
        PROVE  /\ (obs'[k] = Nil) <=> (obs[k] = Nil)
               /\ obs[k] # Nil => obs'[k].first = obs[k].first /\ obs'[k].last = obs[k].last
    <2>1. k \notin KeysOf(b)
      BY <1>2, KeysOfBatch
    <2>. QED
      BY <2>1, MergedRow
  <1>3. SeenBy(c)' = SeenBy(c)
    BY <1>2 DEF SeenBy
  <1>4. \A k \in SeenBy(c) : obs'[k].first = obs[k].first /\ obs'[k].last = obs[k].last
    BY <1>2 DEF SeenBy
  <1>. QED
    BY <1>1, <1>3, <1>4 DEF Spans

LEMMA ReportedSpans ==
    ASSUME RowsTypeOK, NEW b \in Batches, b.collectedAt \in Time, Merged(b),
           NEW c \in Cert, Spans(c), c \in observedCertIDs(b)
    PROVE  Spans(c)'
  <1>1. PICK t \in Time : t = b.collectedAt
    OBVIOUS
  <1>2. certs'[c] = UpsertCertificate(certs[c], t)
    BY <1>1 DEF Merged
  <1>3. certs[c] \in CertRow \cup {Nil} /\ \A k \in Key : obs[k] \in ObsRow \cup {Nil}
    BY DEF RowsTypeOK
  <1>4. ASSUME NEW k \in Key, k[2] = c
        PROVE  /\ k \in KeysOf(b) => obs'[k] = UpsertObservation(obs[k], t)
               /\ k \notin KeysOf(b) => obs'[k] = obs[k]
    <2>1. ~ Missing(b, k, obs[k])
      BY <1>4 DEF Missing
    <2>. QED
      BY <1>1, <2>1 DEF Merged
  <1>5. PICK h \in Key : h[2] = c /\ h \in KeysOf(b)
    BY KeysOfBatch
  <1>6. certs'[c] # Nil /\ certs'[c] \in CertRow
    BY <1>2, <1>3, CertificateRows
  <1>7. h \in SeenBy(c)'
    BY <1>5, MergedRow DEF SeenBy
  <1>8. SeenBy(c)' = {k \in Key : k[2] = c /\ obs'[k] # Nil}
    BY DEF SeenBy
  <1>9. CASE certs[c] = Nil
    <2>1. \A k \in Key : k[2] = c => obs[k] = Nil
      BY <1>9 DEF Spans, SeenBy
    <2>2. certs'[c].first = t /\ certs'[c].last = t
      BY <1>2, <1>3, <1>9, CertificateRows
    <2>3. ASSUME NEW k \in SeenBy(c)' PROVE obs'[k].first = t /\ obs'[k].last = t
      <3>1. k \in KeysOf(b) /\ obs[k] = Nil /\ k \in Key /\ obs'[k] = UpsertObservation(obs[k], t)
        BY <1>4, <1>8, <2>1
      <3>2. obs[k] \in ObsRow \cup {Nil}
        BY <1>3, <3>1
      <3>3. UpsertObservation(obs[k], t).first = t /\ UpsertObservation(obs[k], t).last = t
        BY <3>1, <3>2, ObservationRows
      <3>. QED
        BY <3>1, <3>3
    <2>4. t <= t
      BY InventoryAssumption DEF Time
    <2>. QED
      BY <1>6, <1>7, <2>2, <2>3, <2>4 DEF Spans
  <1>10. CASE certs[c] # Nil
    <2>1. PICK row \in CertRow : row = certs[c]
      BY <1>3, <1>10
    <2>2. certs'[c].first = Earlier(row.first, t) /\ certs'[c].last = Later(row.last, t)
      BY <1>2, <1>10, <2>1, CertificateRows
    <2>3. ASSUME NEW k \in Key, k[2] = c, obs[k] # Nil
          PROVE  obs[k] \in ObsRow /\ row.first <= obs[k].first /\ obs[k].last <= row.last
      BY <1>3, <1>10, <2>1, <2>3 DEF Spans, SeenBy
    <2>4. ASSUME NEW k \in Key, k[2] = c, k \in KeysOf(b)
          PROVE  /\ obs[k] = Nil => obs'[k].first = t /\ obs'[k].last = t
                 /\ obs[k] # Nil => /\ obs'[k].first = Earlier(obs[k].first, t)
                                    /\ obs'[k].last = Later(obs[k].last, t)
      <3>1. obs[k] \in ObsRow \cup {Nil} /\ obs'[k] = UpsertObservation(obs[k], t)
        BY <1>3, <1>4, <2>4
      <3>2. CASE obs[k] = Nil
        <4>1. UpsertObservation(obs[k], t).first = t /\ UpsertObservation(obs[k], t).last = t
          BY <3>1, <3>2, ObservationRows
        <4>. QED
          BY <3>1, <3>2, <4>1
      <3>3. CASE obs[k] # Nil
        <4>1. /\ UpsertObservation(obs[k], t).first = Earlier(obs[k].first, t)
              /\ UpsertObservation(obs[k], t).last = Later(obs[k].last, t)
          BY <3>1, <3>3, ObservationRows
        <4>. QED
          BY <3>1, <3>3, <4>1
      <3>. QED
        BY <3>2, <3>3
    <2>5. PICK f \in Key, l \in Key : /\ f[2] = c /\ obs[f] # Nil /\ obs[f].first = row.first
                                      /\ l[2] = c /\ obs[l] # Nil /\ obs[l].last = row.last
      BY <1>10, <2>1 DEF Spans, SeenBy
    <2>6. f \in SeenBy(c)' /\ l \in SeenBy(c)'
      BY <1>8, <2>5, MergedRow
    <2>7. Earlier(row.first, t) <= t /\ t <= Later(row.last, t)
      BY <2>3, <2>5, UpsertsSpan
    <2>8. ASSUME NEW k \in SeenBy(c)'
          PROVE  Earlier(row.first, t) <= obs'[k].first /\ obs'[k].last <= Later(row.last, t)
      <3>1. k \in Key /\ k[2] = c /\ obs'[k] # Nil
        BY <1>8
      <3>2. CASE obs[k] = Nil
        BY <1>4, <2>4, <2>7, <3>1, <3>2
      <3>3. CASE obs[k] # Nil
        <4>1. /\ Earlier(row.first, t) <= obs[k].first /\ obs[k].last <= Later(row.last, t)
              /\ Earlier(row.first, t) <= Earlier(obs[k].first, t)
              /\ Later(obs[k].last, t) <= Later(row.last, t)
          BY <2>3, <3>1, <3>3, UpsertsSpan
        <4>. QED
          BY <1>4, <2>4, <3>1, <3>3, <4>1
      <3>. QED
        BY <3>2, <3>3
    <2>9. \E k \in SeenBy(c)' : obs'[k].first = Earlier(row.first, t)
      <3>1. CASE t < row.first
        <4>1. Earlier(row.first, t) = t
          BY <2>3, <2>5, <3>1, UpsertsSpan
        <4>2. obs[h] # Nil => Earlier(obs[h].first, t) = t
          BY <1>5, <2>3, <3>1, UpsertsSpan
        <4>. QED
          BY <1>5, <1>7, <2>4, <4>1, <4>2
      <3>2. CASE ~ (t < row.first)
        <4>1. Earlier(row.first, t) = row.first /\ Earlier(obs[f].first, t) = row.first
          BY <2>3, <2>5, <3>2, UpsertsSpan
        <4>. QED
          BY <1>4, <2>4, <2>5, <2>6, <4>1
      <3>. QED
        BY <3>1, <3>2
    <2>10. \E k \in SeenBy(c)' : obs'[k].last = Later(row.last, t)
      <3>1. CASE t > row.last
        <4>1. Later(row.last, t) = t
          BY <2>3, <2>5, <3>1, UpsertsSpan
        <4>2. obs[h] # Nil => Later(obs[h].last, t) = t
          BY <1>5, <2>3, <3>1, UpsertsSpan
        <4>. QED
          BY <1>5, <1>7, <2>4, <4>1, <4>2
      <3>2. CASE ~ (t > row.last)
        <4>1. Later(row.last, t) = row.last /\ Later(obs[l].last, t) = row.last
          BY <2>3, <2>5, <3>2, UpsertsSpan
        <4>. QED
          BY <1>4, <2>4, <2>5, <2>6, <4>1
      <3>. QED
        BY <3>1, <3>2
    <2>. QED
      BY <1>6, <1>7, <2>2, <2>8, <2>9, <2>10 DEF Spans
  <1>. QED
    BY <1>9, <1>10

LEMMA MergeKeepsSpans ==
    ASSUME RowsTypeOK, CertificateSpansObservations,
           NEW b \in Batches, b.collectedAt \in Time, Merged(b)
    PROVE  CertificateSpansObservations'
  <1>1. \A c \in Cert : Spans(c)
    BY DEF CertificateSpansObservations, Spans
  <1>2. \A c \in Cert : Spans(c)'
    BY <1>1, UnreportedSpans, ReportedSpans
  <1>. QED
    BY <1>2 DEF CertificateSpansObservations, Spans

----------------------------------------------------------------------------
(* Observation rows are explained by the log. *)

\* Row o is explained by the reports R and the misses M, collected at the times at.
Account(o, R, M, at) ==
    /\ (o = Nil) <=> (R = {})
    /\ o # Nil =>
        /\ \A i \in R : o.first <= at[i] /\ at[i] <= o.last
        /\ \E i \in R : at[i] = o.first
        /\ \E i \in R : at[i] = o.last
        /\ o.removed = Nil =>
            \A i \in M : at[i] >= o.last /\ (\E j \in R : j < i) => \E j \in R : j > i /\ at[j] = o.last
        /\ o.removed # Nil =>
            /\ o.removed >= o.last
            /\ \E i \in M : at[i] = o.removed /\ \A j \in R : j > i => at[j] < o.last

\* The log with n batches D is followed by one more, collected at time t.
Longer(D, n, at, at2, t) ==
    /\ D \in SUBSET Nat /\ n \in Nat /\ \A i \in D : i < n
    /\ at \in [D -> Nat] /\ at2 \in [D \cup {n} -> Nat]
    /\ \A i \in D : at2[i] = at[i]
    /\ at2[n] = t

LEMMA AccountUntouched ==
    ASSUME NEW D, NEW n, NEW at, NEW at2, NEW t \in Time, Longer(D, n, at, at2, t),
           NEW o \in ObsRow \cup {Nil}, NEW R \in SUBSET D, NEW M \in SUBSET D, Account(o, R, M, at)
    PROVE  Account(o, R, M, at2)
  <1>1. (\A i \in R : at2[i] = at[i]) /\ (\A i \in M : at2[i] = at[i])
    BY DEF Longer
  <1>. QED
    BY <1>1 DEF Account

LEMMA AccountMissed ==
    ASSUME NEW D, NEW n, NEW at, NEW at2, NEW t \in Time, Longer(D, n, at, at2, t),
           NEW o \in ObsRow, NEW R \in SUBSET D, NEW M \in SUBSET D, Account(o, R, M, at),
           o.last <= t, NEW u \in ObsRow, u.first = o.first, u.last = o.last, u.removed = t
    PROVE  Account(u, R, M \cup {n}, at2)
  <1>0. /\ o # Nil /\ u # Nil /\ u.removed # Nil /\ o.last \in Time /\ t \in Nat /\ o.last \in Nat
    BY NilAssumption, InventoryAssumption DEF ObsRow, Time
  <1>1. \A i \in R : at2[i] = at[i] /\ i < n /\ i \in Nat
    BY DEF Longer
  <1>2. \A j \in R : ~ (j > n)
    BY <1>1 DEF Longer
  <1>3. R # {} /\ u.removed >= u.last /\ at2[n] = u.removed
    BY <1>0 DEF Account, Longer
  <1>4. /\ \A i \in R : u.first <= at2[i] /\ at2[i] <= u.last
        /\ \E i \in R : at2[i] = u.first
        /\ \E i \in R : at2[i] = u.last
    BY <1>0, <1>1 DEF Account
  <1>. QED
    BY <1>0, <1>2, <1>3, <1>4 DEF Account

LEMMA AccountNotMissed ==
    ASSUME NEW D, NEW n, NEW at, NEW at2, NEW t \in Time, Longer(D, n, at, at2, t),
           NEW o \in ObsRow \cup {Nil}, NEW R \in SUBSET D, NEW M \in SUBSET D, Account(o, R, M, at),
           ~ (o # Nil /\ o.removed = Nil /\ o.last <= t)
    PROVE  Account(o, R, M \cup {n}, at2)
  <1>1. (\A i \in R : at2[i] = at[i]) /\ (\A i \in M : at2[i] = at[i])
    BY DEF Longer
  <1>2. CASE o = Nil
    BY <1>2 DEF Account
  <1>3. CASE o # Nil /\ o.removed = Nil
    <2>1. ~ (t >= o.last)
      BY <1>3, InventoryAssumption DEF ObsRow, Time
    <2>2. ~ (at2[n] >= o.last)
      BY <2>1 DEF Longer
    <2>3. \A i \in M \cup {n} : at2[i] >= o.last /\ (\E j \in R : j < i)
                                => \E j \in R : j > i /\ at2[j] = o.last
      BY <1>1, <1>3, <2>2 DEF Account
    <2>4. /\ R # {} /\ \A i \in R : o.first <= at2[i] /\ at2[i] <= o.last
          /\ \E i \in R : at2[i] = o.first
          /\ \E i \in R : at2[i] = o.last
      BY <1>1, <1>3 DEF Account
    <2>. QED
      BY <1>3, <2>3, <2>4 DEF Account
  <1>4. CASE o # Nil /\ o.removed # Nil
    BY <1>1, <1>4 DEF Account
  <1>. QED
    BY <1>2, <1>3, <1>4

LEMMA AccountReported ==
    ASSUME NEW D, NEW n, NEW at, NEW at2, NEW t \in Time, Longer(D, n, at, at2, t),
           NEW o \in ObsRow \cup {Nil}, NEW R \in SUBSET D, NEW M \in SUBSET D, Account(o, R, M, at),
           NEW u, u = UpsertObservation(o, t)
    PROVE  Account(u, R \cup {n}, M, at2)
  <1>1. /\ \A i \in R : at2[i] = at[i] /\ i < n /\ i \in Nat /\ at[i] \in Nat
        /\ \A i \in M : at2[i] = at[i] /\ i < n /\ i \in Nat
        /\ n \in Nat /\ at2[n] = t /\ t \in Nat
    BY InventoryAssumption DEF Longer, Time
  <1>2. u \in ObsRow /\ u # Nil
    BY ObservationRows
  <1>3. CASE o = Nil
    <2>1. R = {} /\ u.first = t /\ u.last = t /\ u.removed = Nil
      BY <1>3, ObservationRows DEF Account
    <2>2. \A i \in M : ~ (n < i)
      BY <1>1
    <2>3. t <= t
      BY <1>1
    <2>. QED
      BY <1>1, <1>2, <2>1, <2>2, <2>3 DEF Account
  <1>4. CASE o # Nil
    <2>1. o.first \in Nat /\ o.last \in Nat
      BY <1>4, InventoryAssumption DEF ObsRow, Time
    <2>2. u.first = Earlier(o.first, t) /\ u.last = Later(o.last, t)
      BY <1>4, ObservationRows
    <2>3. /\ \A i \in R : o.first <= at2[i] /\ at2[i] <= o.last /\ at2[i] \in Nat
          /\ \E i \in R : at2[i] = o.first
          /\ \E i \in R : at2[i] = o.last
      BY <1>1, <1>4 DEF Account
    <2>4. \A i \in R \cup {n} : u.first <= at2[i] /\ at2[i] <= u.last
      BY <1>1, <2>1, <2>2, <2>3 DEF Earlier, Later
    <2>5. (\E i \in R \cup {n} : at2[i] = u.first) /\ (\E i \in R \cup {n} : at2[i] = u.last)
      BY <1>1, <2>2, <2>3 DEF Earlier, Later
    <2>6. CASE t >= o.last
      <3>1. u.removed = Nil /\ u.last = t
        BY <1>1, <1>4, <2>1, <2>2, <2>6, ObservationRows DEF Later
      <3>2. \A i \in M : n > i /\ at2[n] = u.last
        BY <1>1, <3>1
      <3>. QED
        BY <1>2, <2>4, <2>5, <3>1, <3>2 DEF Account
    <2>7. CASE ~ (t >= o.last)
      <3>1. t < o.last
        BY <1>1, <2>1, <2>7
      <3>2. u.removed = o.removed /\ u.last = o.last
        BY <1>1, <1>4, <2>1, <2>2, <3>1, ObservationRows DEF Later
      <3>3. CASE o.removed = Nil
        <4>1. ASSUME NEW i \in M, at2[i] >= u.last, NEW j \in R \cup {n}, j < i
              PROVE  \E m \in R \cup {n} : m > i /\ at2[m] = u.last
          <5>1. j \in R
            BY <1>1, <4>1
          <5>2. \E m \in R : m > i /\ at[m] = o.last
            BY <1>1, <1>4, <3>2, <3>3, <4>1, <5>1 DEF Account
          <5>. QED
            BY <1>1, <3>2, <5>2
        <4>. QED
          BY <1>2, <2>4, <2>5, <3>2, <3>3, <4>1 DEF Account
      <3>4. CASE o.removed # Nil
        <4>1. o.removed >= o.last
          BY <1>4, <3>4 DEF Account
        <4>2. PICK i \in M : at[i] = o.removed /\ \A j \in R : j > i => at[j] < o.last
          BY <1>4, <3>4 DEF Account
        <4>3. at2[i] = u.removed /\ \A j \in R \cup {n} : j > i => at2[j] < u.last
          BY <1>1, <3>1, <3>2, <4>2
        <4>. QED
          BY <1>2, <2>4, <2>5, <3>2, <3>4, <4>1, <4>3 DEF Account
      <3>. QED
        BY <3>3, <3>4
    <2>. QED
      BY <2>6, <2>7
  <1>. QED
    BY <1>3, <1>4

Times == [i \in DOMAIN log |-> At(i)]

LEMMA ExplainedIsAccount ==
    ObservationsAreExplained <=> \A k \in Key : Account(obs[k], Reports(k), Misses(k), Times)
  <1>1. \A i \in DOMAIN log : Times[i] = At(i)
    BY DEF Times
  <1>2. ASSUME NEW k \in Key PROVE Reports(k) \subseteq DOMAIN log /\ Misses(k) \subseteq DOMAIN log
    BY DEF Reports, Misses
  <1>. QED
    BY <1>1, <1>2 DEF ObservationsAreExplained, Account

LEMMA ExplainedIsAccountNext ==
    ObservationsAreExplained' <=> \A k \in Key : Account(obs'[k], Reports(k)', Misses(k)', Times')
  <1>1. \A i \in DOMAIN log' : Times'[i] = At(i)'
    BY DEF Times
  <1>2. ASSUME NEW k \in Key PROVE Reports(k)' \subseteq DOMAIN log' /\ Misses(k)' \subseteq DOMAIN log'
    BY DEF Reports, Misses
  <1>3. \A i : At(i)' = log'[i].collectedAt
    BY DEF At
  <1>. QED
    BY <1>1, <1>2, <1>3 DEF ObservationsAreExplained, Account, At

\* The batch reports row k, or covers its store without its certificate.
LEMMA ReportedKeys ==
    ASSUME NEW b \in Batches, NEW k \in Key
    PROVE  k \in KeysOf(b) <=> /\ b.agent = k[1]
                               /\ \E n \in DOMAIN b.entries : /\ b.entries[n].cert = k[2]
                                                              /\ b.entries[n].store = k[3]
  <1>1. k = <<k[1], k[2], k[3]>>
    BY DEF Key
  <1>. QED
    BY <1>1, BatchFacts DEF KeysOf, KeysUpTo, EntryKey

LEMMA LogGrows ==
    ASSUME RowsTypeOK, NEW b \in Batches, b.collectedAt \in Time, log' = Append(log, b), NEW k \in Key
    PROVE  \E n : /\ Longer(DOMAIN log, n, Times, Times', b.collectedAt)
                  /\ Reports(k) \subseteq DOMAIN log /\ Misses(k) \subseteq DOMAIN log
                  /\ k \in KeysOf(b) => Reports(k)' = Reports(k) \cup {n}
                  /\ k \notin KeysOf(b) => Reports(k)' = Reports(k)
                  /\ k[1] = b.agent /\ k[3] \in ToSet(b.coverage) /\ k[2] \notin observedCertIDs(b)
                        => Misses(k)' = Misses(k) \cup {n}
                  /\ ~ (k[1] = b.agent /\ k[3] \in ToSet(b.coverage) /\ k[2] \notin observedCertIDs(b))
                        => Misses(k)' = Misses(k)
  <1>1. log \in Seq(Batches) /\ Len(log) \in Nat /\ DOMAIN log = 1 .. Len(log)
    BY LenProperties DEF RowsTypeOK
  <1>2. PICK n \in Nat : n = Len(log) + 1
    BY <1>1
  <1>3. /\ log' \in Seq(Batches) /\ Len(log') = n /\ log'[n] = b
        /\ \A i \in DOMAIN log : log'[i] = log[i]
    BY <1>1, <1>2, AppendProperties
  <1>4. DOMAIN log' = DOMAIN log \cup {n}
    <2>1. DOMAIN log' = 1 .. n
      BY <1>3, LenProperties
    <2>. QED
      BY <1>1, <1>2, <2>1
  <1>5. DOMAIN log \in SUBSET Nat /\ \A i \in DOMAIN log : i < n
    BY <1>1, <1>2
  <1>6. \A i \in DOMAIN log : At(i) \in Nat
    <2>1. \A i \in DOMAIN log : log[i] \in Batches
      BY <1>1, ElementOfSeq
    <2>. QED
      BY <2>1, BatchFacts DEF At
  <1>7. /\ Times \in [DOMAIN log -> Nat] /\ \A i \in DOMAIN log : Times[i] = At(i)
    BY <1>6 DEF Times
  <1>8. /\ Times' = [i \in DOMAIN log \cup {n} |-> log'[i].collectedAt]
    BY <1>4 DEF Times, At
  <1>9. /\ \A i \in DOMAIN log : Times'[i] = Times[i]
        /\ Times'[n] = b.collectedAt
    BY <1>3, <1>7, <1>8 DEF At
  <1>10. Times' \in [DOMAIN log \cup {n} -> Nat]
    <2>1. b.collectedAt \in Nat
      BY BatchFacts
    <2>2. \A i \in DOMAIN log \cup {n} : log'[i].collectedAt \in Nat
      BY <1>3, <1>6, <2>1 DEF At
    <2>. QED
      BY <1>8, <2>2
  <1>11. Longer(DOMAIN log, n, Times, Times', b.collectedAt)
    BY <1>5, <1>7, <1>9, <1>10 DEF Longer
  <1>12. Reports(k) \subseteq DOMAIN log /\ Misses(k) \subseteq DOMAIN log
    BY DEF Reports, Misses
  <1>13. Reports(k)' = Reports(k) \cup {i \in {n} : k \in KeysOf(b)}
    <2>1. Reports(k)' = {i \in DOMAIN log \cup {n} :
                            /\ log'[i].agent = k[1]
                            /\ \E m \in DOMAIN log'[i].entries : /\ log'[i].entries[m].cert = k[2]
                                                                 /\ log'[i].entries[m].store = k[3]}
      BY <1>4 DEF Reports
    <2>. QED
      BY <1>3, <2>1, ReportedKeys DEF Reports
  <1>14. Misses(k)' = Misses(k) \cup {i \in {n} : /\ k[1] = b.agent /\ k[3] \in ToSet(b.coverage)
                                                  /\ k[2] \notin observedCertIDs(b)}
    <2>1. Misses(k)' = {i \in DOMAIN log \cup {n} :
                            /\ log'[i].agent = k[1] /\ k[3] \in ToSet(log'[i].coverage)
                            /\ k[2] \notin observedCertIDs(log'[i])}
      BY <1>4 DEF Misses, ToSet, observedCertIDs
    <2>. QED
      BY <1>3, <2>1 DEF Misses
  <1>. QED
    BY <1>11, <1>12, <1>13, <1>14

LEMMA MergeKeepsExplained ==
    ASSUME RowsTypeOK, ObservationsAreExplained,
           NEW b \in Batches, b.collectedAt \in Time, Merged(b), log' = Append(log, b)
    PROVE  ObservationsAreExplained'
  <1>1. \A k \in Key : Account(obs[k], Reports(k), Misses(k), Times)
    BY ExplainedIsAccount
  <1>2. ASSUME NEW k \in Key
        PROVE  Account(obs'[k], Reports(k)', Misses(k)', Times')
    <2> DEFINE covered == k[1] = b.agent /\ k[3] \in ToSet(b.coverage) /\ k[2] \notin observedCertIDs(b)
    <2>1. PICK n : /\ Longer(DOMAIN log, n, Times, Times', b.collectedAt)
                   /\ Reports(k) \subseteq DOMAIN log /\ Misses(k) \subseteq DOMAIN log
                   /\ k \in KeysOf(b) => Reports(k)' = Reports(k) \cup {n}
                   /\ k \notin KeysOf(b) => Reports(k)' = Reports(k)
                   /\ covered => Misses(k)' = Misses(k) \cup {n}
                   /\ ~ covered => Misses(k)' = Misses(k)
      BY LogGrows
    <2>2. PICK t \in Time : t = b.collectedAt
      OBVIOUS
    <2>3. obs[k] \in ObsRow \cup {Nil}
      BY DEF RowsTypeOK
    <2>4. Account(obs[k], Reports(k), Misses(k), Times)
      BY <1>1
    <2>5. covered => k \notin KeysOf(b)
      BY KeysOfBatch
    <2>6. Missing(b, k, obs[k]) <=> /\ covered /\ obs[k] # Nil /\ obs[k].removed = Nil
                                    /\ obs[k].last <= t
      BY <2>2 DEF Missing
    <2> HIDE DEF covered
    <2>7. CASE k \in KeysOf(b)
      <3>1. obs'[k] = UpsertObservation(obs[k], t)
        BY <2>2, <2>7 DEF Merged
      <3>2. Reports(k)' = Reports(k) \cup {n} /\ Misses(k)' = Misses(k)
        BY <2>1, <2>5, <2>7
      <3>3. Account(obs'[k], Reports(k) \cup {n}, Misses(k), Times')
        BY <2>1, <2>2, <2>3, <2>4, <3>1, AccountReported
      <3>. QED
        BY <3>2, <3>3
    <2>8. CASE k \notin KeysOf(b) /\ Missing(b, k, obs[k])
      <3>1. /\ obs[k] \in ObsRow /\ obs'[k] \in ObsRow /\ obs[k].last <= t /\ obs'[k].first = obs[k].first
            /\ obs'[k].last = obs[k].last /\ obs'[k].removed = t
        BY <2>2, <2>3, <2>6, <2>8, MergedRow
      <3>2. Reports(k)' = Reports(k) /\ Misses(k)' = Misses(k) \cup {n}
        BY <2>1, <2>6, <2>8
      <3>3. Account(obs'[k], Reports(k), Misses(k) \cup {n}, Times')
        BY <2>1, <2>2, <2>4, <3>1, AccountMissed
      <3>. QED
        BY <3>2, <3>3
    <2>9. CASE k \notin KeysOf(b) /\ ~ Missing(b, k, obs[k]) /\ covered
      <3>1. obs'[k] = obs[k] /\ ~ (obs[k] # Nil /\ obs[k].removed = Nil /\ obs[k].last <= t)
        BY <2>6, <2>9, MergedRow
      <3>2. Reports(k)' = Reports(k) /\ Misses(k)' = Misses(k) \cup {n}
        BY <2>1, <2>9
      <3>3. Account(obs[k], Reports(k), Misses(k) \cup {n}, Times')
        BY <2>1, <2>2, <2>3, <2>4, <3>1, AccountNotMissed
      <3>. QED
        BY <3>1, <3>2, <3>3
    <2>10. CASE k \notin KeysOf(b) /\ ~ covered
      <3>1. obs'[k] = obs[k]
        BY <2>6, <2>10, MergedRow
      <3>2. Reports(k)' = Reports(k) /\ Misses(k)' = Misses(k)
        BY <2>1, <2>10
      <3>3. Account(obs[k], Reports(k), Misses(k), Times')
        BY <2>1, <2>2, <2>3, <2>4, AccountUntouched
      <3>. QED
        BY <3>1, <3>2, <3>3
    <2>. QED
      BY <2>7, <2>8, <2>9, <2>10
  <1>. QED
    BY <1>2, ExplainedIsAccountNext

----------------------------------------------------------------------------
(* The invariant of the tables. *)

LEMMA StandingTables ==
    ASSUME CoverageStands, CertificateSpansObservations, ObservationsAreExplained,
           UNCHANGED <<certs, obs, log>>
    PROVE  CoverageStands' /\ CertificateSpansObservations' /\ ObservationsAreExplained'
  <1>1. CertificateSpansObservations'
    BY DEF CertificateSpansObservations, SeenBy
  <1>2. ASSUME NEW k \in Key
        PROVE  Reports(k)' = Reports(k) /\ Misses(k)' = Misses(k) /\ Times' = Times
    BY DEF Reports, Misses, Times, At
  <1>3. \A k \in Key : Account(obs[k], Reports(k), Misses(k), Times)
    BY ExplainedIsAccount
  <1>4. \A k \in Key : Account(obs'[k], Reports(k)', Misses(k)', Times')
    BY <1>2, <1>3
  <1>5. CoverageStands'
    BY DEF CoverageStands, storesCovered
  <1>. QED
    BY <1>1, <1>4, <1>5, ExplainedIsAccountNext

LEMMA CommitKeepsInv ==
    ASSUME InventoryInv, NEW p \in Caller, Commit(p)
    PROVE  InventoryInv'
  <1>1. /\ RowsTypeOK /\ CallsOK /\ CoverageStands
        /\ CertificateSpansObservations /\ ObservationsAreExplained
    BY DEF InventoryInv
  <1>2. PICK b \in Batches : /\ b.collectedAt \in Time /\ Merged(b) /\ log' = Append(log, b)
                             /\ storesCovered(b)
    BY <1>1, CommitMerges
  <1>3. RowsTypeOK'
    <2>1. /\ DOMAIN certs' = Cert /\ certs' = [c \in DOMAIN certs' |-> certs'[c]]
          /\ DOMAIN obs' = Key /\ obs' = [k \in DOMAIN obs' |-> obs'[k]]
      BY <1>1 DEF Commit, RowsTypeOK, Overlay
    <2>2. certs' \in [Cert -> CertRow \cup {Nil}]
      BY <1>1, <1>2, <2>1, MergedCertificate
    <2>3. obs' \in [Key -> ObsRow \cup {Nil}]
      BY <1>1, <1>2, <2>1, MergedRow
    <2>4. log' \in Seq(Batches)
      BY <1>1, <1>2, AppendProperties DEF RowsTypeOK
    <2>5. UNCHANGED <<snapshots, audit, clock, submits, faults>>
      BY DEF Commit
    <2>. QED
      BY <1>1, <2>2, <2>3, <2>4, <2>5 DEF RowsTypeOK
  <1>4. CallsOK'
    BY <1>1, CommitKeepsCalls
  <1>5. CertificateSpansObservations' /\ ObservationsAreExplained'
    BY <1>1, <1>2, MergeKeepsSpans, MergeKeepsExplained
  <1>6. CoverageStands'
    <2>1. PICK n \in Nat : n = Len(log) /\ DOMAIN log = 1 .. n
      BY <1>1, LenProperties DEF RowsTypeOK
    <2>2. PICK m : /\ m = log' /\ DOMAIN m = 1 .. n + 1 /\ m[n + 1] = b
                   /\ \A i \in 1 .. n : m[i] = log[i]
      <3>1. PICK l \in Seq(Batches) : l = log /\ Len(l) = n
        BY <1>1, <2>1 DEF RowsTypeOK
      <3>2. PICK m \in Seq(Batches) : m = log' /\ m = Append(l, b)
        BY <1>2, <3>1, AppendProperties
      <3>3. Len(m) = n + 1 /\ m[n + 1] = b /\ \A i \in 1 .. n : m[i] = l[i]
        BY <3>1, <3>2, AppendProperties
      <3>4. DOMAIN m = 1 .. n + 1
        BY <3>2, <3>3, LenProperties
      <3>. QED
        BY <3>1, <3>2, <3>3, <3>4
    <2>3. \A i \in 1 .. n + 1 : i \in 1 .. n \/ i = n + 1
      BY <2>1
    <2>4. \A i \in DOMAIN m : storesCovered(m[i])
      BY <1>1, <1>2, <2>1, <2>2, <2>3 DEF CoverageStands
    <2>. QED
      BY <2>2, <2>4 DEF CoverageStands, storesCovered
  <1>. QED
    BY <1>3, <1>4, <1>5, <1>6 DEF InventoryInv

LEMMA InventoryInit_Inv ==
    ASSUME InventoryInit
    PROVE  InventoryInv
  <1>1. RowsTypeOK
    <2>1. certs \in [Cert -> CertRow \cup {Nil}] /\ obs \in [Key -> ObsRow \cup {Nil}]
      BY DEF InventoryInit
    <2>2. snapshots \in [Agent -> 1 .. MaxClock \cup {Nil}] /\ audit \in [reasons -> Nat]
      BY DEF InventoryInit
    <2>3. clock \in 1 .. MaxClock /\ submits \in 0 .. MaxSubmits /\ faults \in 0 .. MaxFaults
      BY InventoryAssumption DEF InventoryInit
    <2>4. log \in Seq(Batches)
      BY EmptySeq DEF InventoryInit
    <2>. QED
      BY <2>1, <2>2, <2>3, <2>4 DEF RowsTypeOK
  <1>2. CallsOK
    <2>1. /\ call \in [Caller -> CallRec] /\ \A p \in Caller : call[p] = NoCall
      BY NoCallFacts DEF InventoryInit
    <2>. QED
      BY <2>1, NoCallFacts DEF CallsOK
  <1>3. CertificateSpansObservations
    BY DEF CertificateSpansObservations, InventoryInit, SeenBy
  <1>4. ObservationsAreExplained
    <2>1. DOMAIN log = {}
      BY EmptyPartial DEF InventoryInit
    <2>2. \A k \in Key : Reports(k) = {} /\ obs[k] = Nil
      BY <2>1 DEF Reports, InventoryInit
    <2>. QED
      BY <2>2 DEF ObservationsAreExplained
  <1>5. CoverageStands
    BY EmptyPartial DEF InventoryInit, CoverageStands
  <1>. QED
    BY <1>1, <1>2, <1>3, <1>4, <1>5 DEF InventoryInv

LEMMA InventoryNext_Inv ==
    ASSUME InventoryInv, InventoryNext
    PROVE  InventoryInv'
  <1>0. /\ RowsTypeOK /\ CallsOK /\ CoverageStands
        /\ CertificateSpansObservations /\ ObservationsAreExplained
    BY DEF InventoryInv
  <1>1. ASSUME UNCHANGED <<certs, obs, log>>, RowsTypeOK', CallsOK'
        PROVE  InventoryInv'
    BY <1>0, <1>1, StandingTables DEF InventoryInv
  <1>2. CASE Tick
    <2>1. RowsTypeOK'
      BY <1>0, <1>2, InventoryAssumption DEF Tick, RowsTypeOK
    <2>2. CallsOK'
      BY <1>0, <1>2 DEF Tick, CallsOK, Settled, Written, Apart
    <2>. QED
      BY <1>1, <1>2, <2>1, <2>2 DEF Tick
  <1>3. ASSUME NEW p \in Caller, Submit(p) PROVE InventoryInv'
    <2>1. RowsTypeOK' /\ UNCHANGED <<certs, obs, log>>
      BY <1>0, <1>3 DEF Submit, RowsTypeOK
    <2>. QED
      BY <1>0, <1>1, <1>3, <2>1, SubmitKeepsCalls
  <1>4. ASSUME NEW p \in Caller, RecordRefusal(p) PROVE InventoryInv'
    <2>1. UNCHANGED <<certs, obs, snapshots, clock, submits, faults, log>> /\ Go(p, NoCall)
      BY <1>4 DEF RecordRefusal
    <2>2. audit' \in [reasons -> Nat]
      <3>1. call[p].reason \in reasons
        BY <1>0, <1>4 DEF RecordRefusal, CallsOK, Settled
      <3>. QED
        BY <1>0, <1>4, <3>1 DEF RecordRefusal, RowsTypeOK
    <2>3. RowsTypeOK'
      BY <1>0, <2>1, <2>2 DEF RowsTypeOK
    <2>. QED
      BY <1>0, <1>1, <1>4, <2>1, <2>3, CallEnds
  <1>5. ASSUME NEW p \in Caller, LockAgent(p) PROVE InventoryInv'
    <2>1. RowsTypeOK' /\ UNCHANGED <<certs, obs, log>>
      BY <1>0, <1>5 DEF LockAgent, RowsTypeOK
    <2>. QED
      BY <1>0, <1>1, <1>5, <2>1, LockAgentKeepsCalls
  <1>6. ASSUME NEW p \in Caller, UpsertEntry(p) PROVE InventoryInv'
    <2>1. RowsTypeOK' /\ UNCHANGED <<certs, obs, log>>
      BY <1>0, <1>6 DEF UpsertEntry, RowsTypeOK
    <2>. QED
      BY <1>0, <1>1, <1>6, <2>1, UpsertEntryKeepsCalls
  <1>7. ASSUME NEW p \in Caller, DeadlockDetected(p) PROVE InventoryInv'
    <2>1. RowsTypeOK' /\ UNCHANGED <<certs, obs, log>> /\ Go(p, NoCall)
      BY <1>0, <1>7 DEF DeadlockDetected, RowsTypeOK
    <2>. QED
      BY <1>0, <1>1, <1>7, <2>1, CallEnds
  <1>8. ASSUME NEW p \in Caller, UpsertSnapshot(p) PROVE InventoryInv'
    <2>1. UNCHANGED <<certs, obs, audit, clock, submits, faults, log>> /\ Go(p, NoCall)
      BY <1>8 DEF UpsertSnapshot
    <2>2. call[p].agent \in Agent /\ call[p].now \in 1 .. MaxClock
      BY <1>0, <1>8 DEF UpsertSnapshot, CallsOK, Settled
    <2>3. snapshots' \in [Agent -> 1 .. MaxClock \cup {Nil}]
      BY <1>0, <1>8, <2>2 DEF UpsertSnapshot, RowsTypeOK
    <2>4. RowsTypeOK'
      BY <1>0, <2>1, <2>3 DEF RowsTypeOK
    <2>. QED
      BY <1>0, <1>1, <1>8, <2>1, <2>4, CallEnds
  <1>9. ASSUME NEW p \in Caller, CallFails(p) PROVE InventoryInv'
    <2>1. RowsTypeOK' /\ UNCHANGED <<certs, obs, log>> /\ Go(p, NoCall)
      BY <1>0, <1>9, InventoryAssumption DEF CallFails, RowsTypeOK
    <2>. QED
      BY <1>0, <1>1, <1>9, <2>1, CallEnds
  <1>10. ASSUME NEW p \in Caller, NEW b \in Batches, AgentCertificatesIngest(p, b) PROVE InventoryInv'
    <2>1. RowsTypeOK' /\ UNCHANGED <<certs, obs, log>>
      BY <1>0, <1>10, InventoryAssumption DEF AgentCertificatesIngest, RowsTypeOK
    <2>. QED
      BY <1>0, <1>1, <1>10, <2>1, IngestKeepsCalls
  <1>11. ASSUME NEW p \in Caller, NEW a \in Agent, AgentInventorySubmit(p, a) PROVE InventoryInv'
    <2>1. RowsTypeOK' /\ UNCHANGED <<certs, obs, log>>
      BY <1>0, <1>11, InventoryAssumption DEF AgentInventorySubmit, RowsTypeOK
    <2>. QED
      BY <1>0, <1>1, <1>11, <2>1, SnapshotKeepsCalls
  <1>. QED
    BY <1>2, <1>3, <1>4, <1>5, <1>6, <1>7, <1>8, <1>9, <1>10, <1>11, CommitKeepsInv
    DEF InventoryNext, Step

LEMMA Next_InventoryInv ==
    ASSUME InventoryInv, [Next]_vars
    PROVE  InventoryInv'
  <1>1. CASE InventoryNext
    BY <1>1, InventoryNext_Inv
  <1>2. CASE UNCHANGED inventoryVars
    <2>1. UNCHANGED <<certs, obs, snapshots, audit, call, clock, submits, faults, log>>
      BY <1>2 DEF inventoryVars
    <2>2. RowsTypeOK' /\ CallsOK'
      BY <2>1 DEF InventoryInv, RowsTypeOK, CallsOK, Settled, Written, Apart
    <2>. QED
      BY <2>1, <2>2, StandingTables DEF InventoryInv
  <1>. QED
    BY <1>1, <1>2 DEF Next, vars, ReadPage, EndWalk, CertificatesList, AgentCertificatesList,
                      CertificateObservationsList, AgentInventoryList, Ask

LEMMA InventoryInvariant == Spec => []InventoryInv
  <1>1. Init => InventoryInv
    BY InventoryInit_Inv DEF Init
  <1>. QED
    BY <1>1, Next_InventoryInv, PTL DEF Spec

\* What the removal of a row follows from, in terms of the log.
LEMMA LogFacts ==
    ASSUME InventoryInv, NEW k \in Key
    PROVE  /\ Reports(k) \subseteq Covers(k) /\ Covers(k) \subseteq Nat
           /\ \A i \in Covers(k) : At(i) \in Nat
           /\ Misses(k) \subseteq Lacks(k)
           /\ StaysPut(k) => Lacks(k) \subseteq Misses(k)
  <1>1. log \in Seq(Batches) /\ DOMAIN log \subseteq Nat
    BY LenProperties DEF InventoryInv, RowsTypeOK
  <1>2. ASSUME NEW i \in DOMAIN log
        PROVE  /\ At(i) \in Nat /\ storesCovered(log[i])
               /\ \A n \in DOMAIN log[i].entries : log[i].entries[n].cert \in observedCertIDs(log[i])
    <2>1. log[i] \in Batches
      BY <1>1, ElementOfSeq
    <2>. QED
      BY <2>1, BatchFacts DEF At, InventoryInv, CoverageStands, observedCertIDs
  <1>3. ASSUME NEW i \in Reports(k) PROVE i \in Covers(k)
    <2>1. PICK n \in DOMAIN log[i].entries : log[i].entries[n].store = k[3]
      BY DEF Reports
    <2>2. i \in DOMAIN log /\ log[i].agent = k[1]
      BY DEF Reports
    <2>3. PICK j \in DOMAIN log[i].coverage : log[i].coverage[j] = k[3]
      BY <1>2, <2>1, <2>2 DEF storesCovered
    <2>. QED
      BY <2>2, <2>3 DEF Covers, ToSet
  <1>4. ASSUME NEW i \in Misses(k) PROVE i \in Lacks(k)
    <2>1. i \in Covers(k) /\ k[2] \notin observedCertIDs(log[i])
      BY DEF Misses, Covers
    <2>2. i \notin Reports(k)
      BY <1>2, <2>1 DEF Reports
    <2>. QED
      BY <2>1, <2>2 DEF Lacks
  <1>5. StaysPut(k) => Lacks(k) \subseteq Misses(k)
    BY DEF StaysPut, Lacks, Covers, Misses
  <1>6. Covers(k) \subseteq DOMAIN log
    BY DEF Covers
  <1>. QED
    BY <1>1, <1>2, <1>3, <1>4, <1>5, <1>6

\* What an agent said of a store is what is kept, for any batches in any order of arrival
\* (UpsertObservation, MarkMissingObservationsRemoved): no old batch takes back a report, and
\* of batches that come in order the last one decides, provided no certificate turns up in
\* another store of a batch instead.
THEOREM ObservationsFollowReportsHolds == FairSpec => []ObservationsFollowReports
  <1>1. InventoryInv => ObservationsFollowReports
    <2> SUFFICES ASSUME InventoryInv, NEW k \in Key
                 PROVE  /\ (obs[k] = Nil) <=> (Reports(k) = {})
                        /\ obs[k] # Nil =>
                            /\ \A i \in Reports(k) : obs[k].first <= At(i) /\ At(i) <= obs[k].last
                            /\ \E i \in Reports(k) : At(i) = obs[k].first
                            /\ \E i \in Reports(k) : At(i) = obs[k].last
                            /\ obs[k].removed # Nil =>
                                \E i \in Lacks(k) : /\ At(i) = obs[k].removed
                                                    /\ \A j \in Reports(k) : At(j) <= At(i)
                            /\ \A n \in Covers(k) :
                                (\A i \in Covers(k) : i <= n) /\ InOrder(k) /\ StaysPut(k)
                                    => (obs[k].removed = Nil <=> n \in Reports(k))
      BY DEF ObservationsFollowReports
    <2>1. /\ (obs[k] = Nil) <=> (Reports(k) = {})
          /\ obs[k] # Nil =>
              /\ \A i \in Reports(k) : obs[k].first <= At(i) /\ At(i) <= obs[k].last
              /\ \E i \in Reports(k) : At(i) = obs[k].first
              /\ \E i \in Reports(k) : At(i) = obs[k].last
      BY DEF InventoryInv, ObservationsAreExplained
    <2>2. PICK R, M, C : /\ R = Reports(k) /\ M = Misses(k) /\ C = Covers(k)
                         /\ R \subseteq C /\ C \subseteq Nat /\ M \subseteq C
                         /\ M \subseteq Lacks(k) /\ M \cap R = {}
                         /\ \A i \in C : At(i) \in Nat
      BY LogFacts DEF Lacks
    <2>3. ASSUME obs[k] # Nil PROVE obs[k].last \in Nat /\ obs[k].removed \in Nat \cup {Nil}
      BY <2>3, InventoryAssumption DEF InventoryInv, RowsTypeOK, ObsRow, Time
    <2>4. ASSUME obs[k] # Nil, obs[k].removed # Nil
          PROVE  \E i \in M : /\ At(i) = obs[k].removed /\ \A j \in R : At(j) <= At(i)
                              /\ \A j \in R : j > i => At(j) < obs[k].last
      <3>1. PICK i \in M : /\ At(i) = obs[k].removed /\ obs[k].removed >= obs[k].last
                           /\ \A j \in R : j > i => At(j) < obs[k].last
        BY <2>2, <2>4 DEF InventoryInv, ObservationsAreExplained
      <3>2. ASSUME NEW j \in R PROVE At(j) <= At(i)
        <4>1. At(j) <= obs[k].last /\ At(j) \in Nat /\ At(i) \in Nat /\ obs[k].last \in Nat
          BY <2>1, <2>2, <2>3, <2>4
        <4>. QED
          BY <3>1, <4>1
      <3>. QED
        BY <3>1, <3>2
    <2>5. ASSUME obs[k] # Nil, NEW n \in C, \A i \in C : i <= n, InOrder(k), StaysPut(k)
          PROVE  obs[k].removed = Nil <=> n \in R
      <3>1. PICK l \in R : At(l) = obs[k].last
        BY <2>1, <2>2, <2>5
      <3>2. n \in Nat /\ l \in Nat /\ l <= n /\ At(l) \in Nat /\ At(n) \in Nat
        BY <2>2, <2>5, <3>1
      <3>3. At(l) <= At(n)
        BY <2>2, <2>5, <3>1, <3>2 DEF InOrder
      <3>4. ASSUME n \in R, obs[k].removed # Nil PROVE FALSE
        <4>1. PICK i \in M : \A j \in R : j > i => At(j) < obs[k].last
          BY <2>4, <2>5, <3>4
        <4>2. i \in Nat /\ i <= n /\ i # n
          BY <2>2, <2>5, <3>4, <4>1
        <4>3. At(n) < At(l)
          BY <3>1, <3>2, <3>4, <4>1, <4>2
        <4>. QED
          BY <3>2, <3>3, <4>3
      <3>5. ASSUME n \notin R, obs[k].removed = Nil PROVE FALSE
        <4>1. n \in M
          BY <2>2, <2>5, <3>5, LogFacts DEF Lacks
        <4>2. l < n
          BY <3>1, <3>2, <3>5
        <4>3. At(n) >= obs[k].last
          BY <3>1, <3>2, <3>3
        <4>4. PICK j \in R : j > n
          BY <2>2, <2>5, <3>1, <3>5, <4>1, <4>2, <4>3 DEF InventoryInv, ObservationsAreExplained
        <4>. QED
          BY <2>2, <2>5, <3>2, <4>4
      <3>. QED
        BY <3>4, <3>5
    <2>6. obs[k] # Nil /\ obs[k].removed # Nil =>
              \E i \in Lacks(k) : At(i) = obs[k].removed /\ \A j \in Reports(k) : At(j) <= At(i)
      BY <2>2, <2>4
    <2>. QED
      BY <2>1, <2>2, <2>5, <2>6
  <1>. QED
    BY <1>1, InventoryInvariant, PTL DEF FairSpec

----------------------------------------------------------------------------
(* Private keys. *)

\* A call of a batch with key material that ends, ends with its audit row or by a failure.
LEMMA KeyMaterialStep ==
    ASSUME InventoryInv, InventoryNext, NEW p \in Caller,
           call[p] # call'[p], call'[p].pc = "idle", call[p].batch # Nil,
           containsPrivateKey(call[p].batch), validateRequestShape(call[p].batch),
           shapeOK(call[p].batch, clock)
    PROVE  /\ UNCHANGED <<certs, obs>>
           /\ faults' = faults => audit'["agent.certificate_batch_rejected"]
                                  = audit["agent.certificate_batch_rejected"] + 1
  <1>0. RowsTypeOK /\ CallsOK
    BY DEF InventoryInv
  <1>1. PICK y \in CallRec : y = call[p] /\ Settled(y)
    BY <1>0 DEF CallsOK
  <1>2. call \in [Caller -> CallRec]
    BY <1>0 DEF CallsOK
  <1>3. ASSUME NEW q \in Caller, NEW x, Go(q, x)
        PROVE  q = p /\ x.pc = "idle"
    BY <1>2, <1>3 DEF Go
  <1>4. ~ Tick
    BY DEF Tick
  <1>5. ASSUME NEW q \in Caller, NEW b \in Batches, AgentCertificatesIngest(q, b) PROVE FALSE
    <2>1. [NoCall EXCEPT !.pc = "check", !.batch = b, !.agent = b.agent].pc = "check"
      BY DEF NoCall
    <2>. QED
      BY <1>3, <1>5, <2>1 DEF AgentCertificatesIngest
  <1>6. ASSUME NEW q \in Caller, NEW a \in Agent, AgentInventorySubmit(q, a) PROVE FALSE
    <2>1. [NoCall EXCEPT !.pc = "snapshot", !.agent = a, !.now = clock].pc = "snapshot"
      BY DEF NoCall
    <2>. QED
      BY <1>3, <1>6, <2>1 DEF AgentInventorySubmit, SubmitSnapshot
  <1>7. ASSUME NEW q \in Caller, Submit(q) PROVE FALSE
    <2>1. q = p /\ y.pc = "check" /\ y.batch \in Batches /\ clock \in 1 .. MaxClock
      <3>1. q = p
        BY <1>3, <1>7 DEF Submit
      <3>. QED
        BY <1>0, <1>1, <1>7, <3>1 DEF Submit, Settled, RowsTypeOK
    <2>2. verdict(y.batch, clock) = "agent.certificate_batch_rejected"
      BY <1>1, <2>1, VerdictFacts
    <2>3. Go(p, [y EXCEPT !.pc = "audit", !.reason = verdict(y.batch, clock)])
      BY <1>1, <1>7, <2>1, <2>2 DEF Submit
    <2>4. [y EXCEPT !.pc = "audit", !.reason = verdict(y.batch, clock)].pc = "audit"
      BY DEF CallRec
    <2>. QED
      BY <1>3, <2>3, <2>4
  <1>8. ASSUME NEW q \in Caller, LockAgent(q) PROVE FALSE
    <2>1. PICK z \in CallRec : z = call[q]
      BY <1>2
    <2>2. [z EXCEPT !.pc = "upsert"].pc = "upsert"
      BY DEF CallRec
    <2>. QED
      BY <1>3, <1>8, <2>1, <2>2 DEF LockAgent
  <1>9. ASSUME NEW q \in Caller, q = p, y.pc = "upsert" PROVE FALSE
    BY <1>1, <1>9 DEF Settled
  <1>10. ASSUME NEW q \in Caller, UpsertEntry(q) \/ Commit(q) \/ DeadlockDetected(q) PROVE FALSE
    <2>1. call[q].pc = "upsert" /\ \E x : Go(q, x)
      BY <1>10 DEF UpsertEntry, Commit, DeadlockDetected, WaitsFor
    <2>. QED
      BY <1>1, <1>3, <1>9, <2>1
  <1>11. ASSUME NEW q \in Caller, UpsertSnapshot(q) PROVE FALSE
    <2>1. q = p
      BY <1>3, <1>11 DEF UpsertSnapshot
    <2>. QED
      BY <1>1, <1>11, <2>1 DEF UpsertSnapshot, Settled
  <1>12. ASSUME NEW q \in Caller, RecordRefusal(q)
         PROVE  /\ UNCHANGED <<certs, obs>>
                /\ audit'["agent.certificate_batch_rejected"]
                   = audit["agent.certificate_batch_rejected"] + 1
    <2>1. q = p
      BY <1>3, <1>12 DEF RecordRefusal
    <2>2. call[p].reason = "agent.certificate_batch_rejected"
      BY <1>1, <1>12, <2>1 DEF RecordRefusal, Settled
    <2>3. audit \in [reasons -> Nat] /\ "agent.certificate_batch_rejected" \in reasons
      BY <1>0 DEF RowsTypeOK, reasons
    <2>. QED
      BY <1>12, <2>1, <2>2, <2>3 DEF RecordRefusal
  <1>13. ASSUME NEW q \in Caller, CallFails(q)
         PROVE  UNCHANGED <<certs, obs>> /\ faults' # faults
    BY <1>0, <1>13 DEF CallFails, RowsTypeOK
  <1>. QED
    BY <1>4, <1>5, <1>6, <1>7, <1>8, <1>10, <1>11, <1>12, <1>13 DEF InventoryNext, Step

\* A batch with private key material that is complete enough to be looked at leaves an audit
\* row and no other, unless the call fails (Submit, recordBatchRejection).
THEOREM KeyMaterialIsAuditedHolds == FairSpec => KeyMaterialIsAudited
  <1>1. ASSUME InventoryInv, [Next]_vars
        PROVE  [\A p \in Caller :
                  /\ call[p] # call'[p] /\ call'[p].pc = "idle"
                  /\ call[p].batch # Nil /\ containsPrivateKey(call[p].batch)
                  /\ validateRequestShape(call[p].batch) /\ shapeOK(call[p].batch, clock)
                  => /\ UNCHANGED <<certs, obs>>
                     /\ faults' = faults => audit'["agent.certificate_batch_rejected"]
                           = audit["agent.certificate_batch_rejected"] + 1]_inventoryVars
    <2>1. InventoryNext \/ UNCHANGED inventoryVars
      BY <1>1 DEF Next, vars, ReadPage, EndWalk, CertificatesList, AgentCertificatesList,
                  CertificateObservationsList, AgentInventoryList, Ask
    <2>. QED
      BY <1>1, <2>1, KeyMaterialStep
  <1>. QED
    BY <1>1, InventoryInvariant, PTL DEF FairSpec, Spec, KeyMaterialIsAudited

----------------------------------------------------------------------------
(* The order of the listings, and the rows of a page. *)

LEMMA BeforeIsOrder ==
    ASSUME NEW r \in ListRow, NEW s \in ListRow, NEW t \in ListRow
    PROVE  /\ ~ Before(r, r)
           /\ Before(r, s) => ~ Before(s, r)
           /\ Before(r, s) /\ Before(s, t) => Before(r, t)
           /\ r = s \/ Before(r, s) \/ Before(s, r)
  <1>1. /\ r.at \in Nat /\ s.at \in Nat /\ t.at \in Nat
        /\ r.id \in Nat \X Nat /\ s.id \in Nat \X Nat /\ t.id \in Nat \X Nat
    BY InventoryAssumption DEF ListRow, Time
  <1>2. /\ r.id[1] \in Nat /\ s.id[1] \in Nat /\ t.id[1] \in Nat
        /\ r.id[2] \in Nat /\ s.id[2] \in Nat /\ t.id[2] \in Nat
    BY <1>1
  <1>3. r.at = s.at /\ r.id[1] = s.id[1] /\ r.id[2] = s.id[2] => r = s
    <2>1. r.id = <<r.id[1], r.id[2]>> /\ s.id = <<s.id[1], s.id[2]>>
      BY <1>1
    <2>2. r = [at |-> r.at, id |-> r.id] /\ s = [at |-> s.at, id |-> s.id]
      BY DEF ListRow
    <2>. QED
      BY <2>1, <2>2
  <1>4. /\ ~ Before(r, r)
        /\ Before(r, s) => ~ Before(s, r)
        /\ Before(r, s) /\ Before(s, t) => Before(r, t)
    BY <1>1, <1>2 DEF Before, IdBefore
  <1>5. r = s \/ Before(r, s) \/ Before(s, r)
    BY <1>1, <1>2, <1>3 DEF Before, IdBefore
  <1>. QED
    BY <1>4, <1>5

\* A finite set of rows has a first and a last one.
LEMMA FirstRow ==
    ASSUME NEW S \in SUBSET ListRow, IsFiniteSet(S), S # {}
    PROVE  \E r \in S : {s \in S : Before(s, r)} = {}
  <1> DEFINE Ahead(r) == {s \in S : Before(s, r)}
             counts == {Cardinality(Ahead(r)) : r \in S}
  <1>1. \A r \in S : IsFiniteSet(Ahead(r)) /\ Cardinality(Ahead(r)) \in Nat
    <2>1. \A r \in S : Ahead(r) \in SUBSET S
      OBVIOUS
    <2>. QED
      BY <2>1, FS_Subset, FS_CardinalityType
  <1>2. \E m \in counts : \A n \in counts : m <= n
    <2>1. counts \in SUBSET Nat /\ counts # {}
      BY <1>1
    <2>. QED
      BY <2>1, SmallestNat
  <1>3. PICK r \in S : \A s \in S : Cardinality(Ahead(r)) <= Cardinality(Ahead(s))
    BY <1>2
  <1>4. ASSUME NEW s \in S, Before(s, r)
        PROVE  FALSE
    <2>1. Ahead(s) \in SUBSET Ahead(r)
      BY <1>4, BeforeIsOrder
    <2>2. s \in Ahead(r) /\ s \notin Ahead(s)
      BY <1>4, BeforeIsOrder
    <2>3. Cardinality(Ahead(s)) <= Cardinality(Ahead(r)) /\ Cardinality(Ahead(r)) # Cardinality(Ahead(s))
      BY <1>1, <2>1, <2>2, FS_Subset
    <2>. QED
      BY <1>1, <1>3, <2>3
  <1>. QED
    BY <1>4

LEMMA LastRow ==
    ASSUME NEW S \in SUBSET ListRow, IsFiniteSet(S), S # {}
    PROVE  \E r \in S : \A s \in S : r = s \/ Before(s, r)
  <1> DEFINE Following(r) == {s \in S : Before(r, s)}
             counts == {Cardinality(Following(r)) : r \in S}
  <1>1. \A r \in S : IsFiniteSet(Following(r)) /\ Cardinality(Following(r)) \in Nat
    <2>1. \A r \in S : Following(r) \in SUBSET S
      OBVIOUS
    <2>. QED
      BY <2>1, FS_Subset, FS_CardinalityType
  <1>2. \E m \in counts : \A n \in counts : m <= n
    <2>1. counts \in SUBSET Nat /\ counts # {}
      BY <1>1
    <2>. QED
      BY <2>1, SmallestNat
  <1>3. PICK r \in S : \A s \in S : Cardinality(Following(r)) <= Cardinality(Following(s))
    BY <1>2
  <1>4. ASSUME NEW s \in S, Before(r, s)
        PROVE  FALSE
    <2>1. Following(s) \in SUBSET Following(r)
      BY <1>4, BeforeIsOrder
    <2>2. s \in Following(r) /\ s \notin Following(s)
      BY <1>4, BeforeIsOrder
    <2>3. Cardinality(Following(s)) <= Cardinality(Following(r)) /\ Cardinality(Following(r)) # Cardinality(Following(s))
      BY <1>1, <2>1, <2>2, FS_Subset
    <2>. QED
      BY <1>1, <1>3, <2>3
  <1>. QED
    BY <1>4, BeforeIsOrder

\* A page holds the first rows of the rest, all of them when they fit.
LEMMA PageFacts ==
    ASSUME NEW rest \in SUBSET ListRow, IsFiniteSet(rest)
    PROVE  /\ Page(rest) \in SUBSET rest /\ IsFiniteSet(Page(rest))
           /\ \A r \in Page(rest), s \in rest : Before(s, r) => s \in Page(rest)
           /\ Cardinality(rest) <= PageLimit => Page(rest) = rest
           /\ rest # {} => Page(rest) # {}
  <1> DEFINE Ahead(r) == {s \in rest : Before(s, r)}
  <1>0. PageLimit \in Nat /\ PageLimit > 0
    BY ListingAssumption
  <1>1. \A r \in rest : /\ Ahead(r) \in SUBSET rest /\ IsFiniteSet(Ahead(r))
                        /\ Cardinality(Ahead(r)) \in Nat /\ Cardinality(Ahead(r)) <= Cardinality(rest)
                        /\ Cardinality(Ahead(r)) # Cardinality(rest)
    <2>1. \A r \in rest : Ahead(r) \in SUBSET rest /\ r \notin Ahead(r)
      BY BeforeIsOrder
    <2>2. \A r \in rest : Ahead(r) # rest
      BY <2>1
    <2>. QED
      BY <2>1, <2>2, FS_Subset, FS_CardinalityType
  <1>2. Cardinality(rest) \in Nat
    BY FS_CardinalityType
  <1>3. Page(rest) = {r \in rest : Cardinality(Ahead(r)) < PageLimit}
    BY DEF Page
  <1>4. Page(rest) \in SUBSET rest /\ IsFiniteSet(Page(rest))
    BY <1>3, FS_Subset
  <1>5. ASSUME NEW r \in Page(rest), NEW s \in rest, Before(s, r)
        PROVE  s \in Page(rest)
    <2>1. Ahead(s) \in SUBSET Ahead(r)
      BY <1>4, <1>5, BeforeIsOrder
    <2>2. Cardinality(Ahead(s)) <= Cardinality(Ahead(r))
      BY <1>1, <1>4, <2>1, FS_Subset
    <2>. QED
      BY <1>0, <1>1, <1>3, <1>4, <2>2
  <1>6. ASSUME Cardinality(rest) <= PageLimit PROVE Page(rest) = rest
    <2>1. \A r \in rest : Cardinality(Ahead(r)) < PageLimit
      BY <1>0, <1>1, <1>2, <1>6
    <2>. QED
      BY <1>3, <2>1
  <1>7. ASSUME rest # {} PROVE Page(rest) # {}
    <2>1. PICK r \in rest : Ahead(r) = {}
      BY <1>7, FirstRow
    <2>2. Cardinality(Ahead(r)) = 0
      BY <2>1, FS_EmptySet
    <2>. QED
      BY <1>0, <1>3, <2>2
  <1>. QED
    BY <1>4, <1>5, <1>6, <1>7

\* The cursor of the next page is the last row of this one: all rows of the rest are on the
\* page or behind it.  There is none when the page is the rest.
LEMMA CursorFacts ==
    ASSUME NEW rest \in SUBSET ListRow, IsFiniteSet(rest), NEW next, next = NextCursor(rest, Page(rest))
    PROVE  /\ next = Nil => Page(rest) = rest
           /\ next # Nil => /\ next \in Page(rest)
                            /\ \A r \in Page(rest) : ~ Before(next, r)
                            /\ \A r \in rest : r \in Page(rest) \/ Before(next, r)
  <1>0. /\ Page(rest) \in SUBSET rest /\ IsFiniteSet(Page(rest))
        /\ \A r \in Page(rest), s \in rest : Before(s, r) => s \in Page(rest)
        /\ Cardinality(rest) <= PageLimit => Page(rest) = rest
        /\ rest # {} => Page(rest) # {}
    BY PageFacts
  <1>1. Nil \notin ListRow /\ PageLimit \in Nat
    BY ListingAssumption DEF ListRow
  <1>2. CASE Cardinality(rest) <= PageLimit
    BY <1>0, <1>2 DEF NextCursor
  <1>3. CASE ~ (Cardinality(rest) <= PageLimit)
    <2>1. rest # {}
      <3>1. rest = {} => Cardinality(rest) = 0
        BY FS_EmptySet
      <3>. QED
        BY <1>1, <1>3, <3>1
    <2>2. Page(rest) # {} /\ Page(rest) \in SUBSET ListRow
      BY <1>0, <2>1
    <2>3. \E r \in Page(rest) : \A s \in Page(rest) : r = s \/ Before(s, r)
      BY <1>0, <2>2, LastRow
    <2>4. next = CHOOSE r \in Page(rest) : \A s \in Page(rest) : r = s \/ Before(s, r)
      BY <1>3 DEF NextCursor
    <2>5. next \in Page(rest) /\ \A s \in Page(rest) : next = s \/ Before(s, next)
      BY <2>3, <2>4
    <2>6. next # Nil
      BY <1>1, <2>2, <2>5
    <2>7. \A r \in Page(rest) : ~ Before(next, r)
      BY <2>2, <2>5, BeforeIsOrder
    <2>8. ASSUME NEW r \in rest, r \notin Page(rest) PROVE Before(next, r)
      <3>1. next = r \/ Before(next, r) \/ Before(r, next)
        BY <2>2, <2>5, BeforeIsOrder
      <3>. QED
        BY <1>0, <2>5, <2>8, <3>1
    <2>. QED
      BY <2>5, <2>6, <2>7, <2>8
  <1>. QED
    BY <1>2, <1>3

----------------------------------------------------------------------------
(* The rows of a listing. *)

LEMMA ListFacts ==
    ASSUME NEW l \in Lists
    PROVE  /\ l.kind \in {"certificates", "agent_certificates", "observations", "summaries"}
           /\ l.kind = "observations" => l.of \in Cert
           /\ l.kind \in {"certificates", "agent_certificates"} => Rows(l) = ListCertificates(l)
           /\ l.kind = "observations" => Rows(l) = ListObservationsPage(l)
           /\ l.kind = "summaries" => Rows(l) = ListSummaries
  <1>1. \/ l \in [kind : {"certificates", "summaries"}, currentOnly : BOOLEAN, of : {Nil}]
        \/ l \in [kind : {"agent_certificates"}, currentOnly : BOOLEAN, of : Agent]
        \/ l \in [kind : {"observations"}, currentOnly : BOOLEAN, of : Cert]
    BY ListingAssumption
  <1>2. /\ l.kind \in {"certificates", "agent_certificates", "observations", "summaries"}
        /\ l.kind = "observations" => l.of \in Cert
    BY <1>1
  <1>3. /\ l.kind \in {"certificates", "agent_certificates"} => Rows(l) = ListCertificates(l)
        /\ l.kind = "observations" => Rows(l) = ListObservationsPage(l)
        /\ l.kind = "summaries" => Rows(l) = ListSummaries
    BY <1>2 DEF Rows
  <1>. QED
    BY <1>2, <1>3

LEMMA FiniteKeys == IsFiniteSet(Key)
  <1>1. IsFiniteSet(Agent) /\ IsFiniteSet(Cert) /\ IsFiniteSet(Store)
    BY InventoryAssumption
  <1>2. IsFiniteSet(Cert \X Store)
    BY <1>1, FS_Product
  <1>3. IsFiniteSet(Agent \X (Cert \X Store))
    BY <1>1, <1>2, FS_Product
  <1> DEFINE f == [x \in Agent \X (Cert \X Store) |-> <<x[1], x[2][1], x[2][2]>>]
  <1>4. f \in Surjection(Agent \X (Cert \X Store), Key)
    <2>1. f \in [Agent \X (Cert \X Store) -> Key]
      BY DEF Key
    <2>2. ASSUME NEW k \in Key PROVE \E x \in Agent \X (Cert \X Store) : f[x] = k
      <3>1. k[1] \in Agent /\ k[2] \in Cert /\ k[3] \in Store /\ k = <<k[1], k[2], k[3]>>
        BY DEF Key
      <3>2. <<k[1], <<k[2], k[3]>>>> \in Agent \X (Cert \X Store)
        BY <3>1
      <3>3. f[<<k[1], <<k[2], k[3]>>>>] = k
        BY <3>1, <3>2
      <3>. QED
        BY <3>2, <3>3
    <2>. QED
      BY <2>1, <2>2 DEF Surjection
  <1>. QED
    BY <1>3, <1>4, FS_Surjection

\* Every listing has finitely many rows, with a time and ids.
LEMMA RowsFacts ==
    ASSUME RowsTypeOK, NEW l \in Lists
    PROVE  Rows(l) \in SUBSET ListRow /\ IsFiniteSet(Rows(l))
  <1>1. CASE l.kind \in {"certificates", "agent_certificates"}
    <2> DEFINE S == {d \in Cert : certs[d] # Nil /\ (l.of # Nil \/ l.currentOnly => Observed(d, l))}
               f == [c \in S |-> Row(certs[c].last, <<c, 0>>)]
    <2>1. Rows(l) = {Row(certs[c].last, <<c, 0>>) : c \in S}
      BY <1>1, ListFacts DEF ListCertificates
    <2>2. \A c \in S : Row(certs[c].last, <<c, 0>>) \in ListRow
      <3>1. \A c \in S : certs[c].last \in Time /\ <<c, 0>> \in Nat \X Nat
        BY InventoryAssumption DEF RowsTypeOK, CertRow
      <3>. QED
        BY <3>1 DEF Row, ListRow
    <2>3. IsFiniteSet(S)
      BY InventoryAssumption, FS_Subset
    <2> HIDE DEF S
    <2>4. f \in Surjection(S, Rows(l))
      BY <2>1 DEF Surjection
    <2>. QED
      BY <2>1, <2>2, <2>3, <2>4, FS_Surjection
  <1>2. CASE l.kind = "observations"
    <2> DEFINE S == {j \in Key : j[2] = l.of /\ obs[j] # Nil /\ (l.currentOnly => obs[j].removed = Nil)}
               f == [k \in S |-> Row(obs[k].last, <<k[1], k[3]>>)]
    <2>1. Rows(l) = {Row(obs[k].last, <<k[1], k[3]>>) : k \in S}
      BY <1>2, ListFacts DEF ListObservationsPage
    <2>2. \A k \in S : Row(obs[k].last, <<k[1], k[3]>>) \in ListRow
      <3>1. \A k \in S : k[1] \in Nat /\ k[3] \in Nat
        BY InventoryAssumption DEF Key
      <3>2. \A k \in S : obs[k].last \in Time /\ <<k[1], k[3]>> \in Nat \X Nat
        BY <3>1 DEF RowsTypeOK, ObsRow
      <3>. QED
        BY <3>2 DEF Row, ListRow
    <2>3. IsFiniteSet(S)
      BY FiniteKeys, FS_Subset
    <2> HIDE DEF S
    <2>4. f \in Surjection(S, Rows(l))
      BY <2>1 DEF Surjection
    <2>. QED
      BY <2>1, <2>2, <2>3, <2>4, FS_Surjection
  <1>3. CASE l.kind = "summaries"
    <2> DEFINE S == {b \in Agent : snapshots[b] # Nil}
               f == [a \in S |-> Row(snapshots[a], <<a, 0>>)]
    <2>1. Rows(l) = {Row(snapshots[a], <<a, 0>>) : a \in S}
      BY <1>3, ListFacts DEF ListSummaries
    <2>2. \A a \in S : Row(snapshots[a], <<a, 0>>) \in ListRow
      <3>1. \A a \in S : snapshots[a] \in Time /\ <<a, 0>> \in Nat \X Nat
        BY InventoryAssumption DEF RowsTypeOK, Time
      <3>. QED
        BY <3>1 DEF Row, ListRow
    <2>3. IsFiniteSet(S)
      BY InventoryAssumption, FS_Subset
    <2> HIDE DEF S
    <2>4. f \in Surjection(S, Rows(l))
      BY <2>1 DEF Surjection
    <2>. QED
      BY <2>1, <2>2, <2>3, <2>4, FS_Surjection
  <1>. QED
    BY <1>1, <1>2, <1>3, ListFacts

LEMMA RowsBehind ==
    ASSUME NEW l \in Lists, l.kind # "summaries", NEW r \in Rows(l)
    PROVE  Listed(l, r.id) /\ r = Row(Behind(l, r.id).last, r.id)
  <1>1. CASE l.kind \in {"certificates", "agent_certificates"}
    <2>1. PICK c \in Cert : certs[c] # Nil /\ r = Row(certs[c].last, <<c, 0>>)
      BY <1>1, ListFacts DEF ListCertificates
    <2>2. r.id = <<c, 0>> /\ r.id[1] = c
      BY <2>1 DEF Row
    <2>3. Behind(l, r.id) = certs[c]
      BY <1>1, <2>2 DEF Behind
    <2>. QED
      BY <1>1, <2>1, <2>2, <2>3 DEF Listed
  <1>2. CASE l.kind = "observations"
    <2>1. PICK k \in Key : k[2] = l.of /\ obs[k] # Nil /\ r = Row(obs[k].last, <<k[1], k[3]>>)
      BY <1>2, ListFacts DEF ListObservationsPage
    <2>2. r.id = <<k[1], k[3]>> /\ r.id[1] = k[1] /\ r.id[2] = k[3]
      BY <2>1 DEF Row
    <2>3. k = <<r.id[1], l.of, r.id[2]>>
      BY <2>1, <2>2 DEF Key
    <2>4. Behind(l, r.id) = obs[k]
      BY <1>2, <2>3 DEF Behind
    <2>. QED
      BY <1>2, <2>1, <2>2, <2>3, <2>4 DEF Listed
  <1>. QED
    BY <1>1, <1>2, ListFacts

LEMMA BehindIsRow ==
    ASSUME RowsTypeOK, NEW l \in Lists, NEW id \in Nat \X Nat, Listed(l, id)
    PROVE  Row(Behind(l, id).last, id) \in ListRow
  <1>1. Behind(l, id).last \in Time
    BY DEF Listed, Behind, RowsTypeOK, CertRow, ObsRow
  <1>. QED
    BY <1>1 DEF Row, ListRow

----------------------------------------------------------------------------
(* Rows never go, and move only to the front. *)

LEMMA MergedLastGrows ==
    ASSUME RowsTypeOK, NEW b \in Batches, b.collectedAt \in Time, Merged(b), NEW k \in Key, obs[k] # Nil
    PROVE  obs'[k] # Nil /\ obs'[k].last >= obs[k].last
  <1>1. PICK row \in ObsRow : row = obs[k]
    BY DEF RowsTypeOK
  <1>2. row.last \in Time /\ row # Nil
    BY <1>1, NilAssumption DEF ObsRow
  <1>3. obs'[k] # Nil
    BY MergedRow
  <1>4. CASE k \in KeysOf(b)
    <2>1. obs'[k] = UpsertObservation(row, b.collectedAt)
      BY <1>1, <1>4 DEF Merged
    <2>2. UpsertObservation(row, b.collectedAt).last = Later(row.last, b.collectedAt)
      BY <1>1, <1>2, ObservationRows
    <2>3. Later(row.last, b.collectedAt) >= row.last
      BY <1>2, Bounds
    <2>. QED
      BY <1>1, <1>3, <2>1, <2>2, <2>3
  <1>5. CASE k \notin KeysOf(b)
    <2>1. obs'[k].last = row.last
      BY <1>1, <1>5, MergedRow
    <2>2. row.last >= row.last
      BY <1>2, InventoryAssumption DEF Time
    <2>. QED
      BY <1>1, <1>3, <2>1, <2>2
  <1>. QED
    BY <1>4, <1>5

LEMMA TablesGrow ==
    ASSUME InventoryInv, InventoryNext
    PROVE  /\ \A c \in Cert : certs[c] # Nil => certs'[c] # Nil /\ certs'[c].last >= certs[c].last
           /\ \A k \in Key : obs[k] # Nil => obs'[k] # Nil /\ obs'[k].last >= obs[k].last
  <1>0. RowsTypeOK /\ CallsOK
    BY DEF InventoryInv
  <1>1. CASE UNCHANGED <<certs, obs>>
    <2>1. \A c \in Cert : certs[c] # Nil => certs[c].last >= certs[c].last
      BY <1>0, InventoryAssumption DEF RowsTypeOK, CertRow, Time
    <2>2. \A k \in Key : obs[k] # Nil => obs[k].last >= obs[k].last
      BY <1>0, InventoryAssumption DEF RowsTypeOK, ObsRow, Time
    <2>. QED
      BY <1>1, <2>1, <2>2
  <1>2. ASSUME NEW p \in Caller, Commit(p)
        PROVE  /\ \A c \in Cert : certs[c] # Nil => certs'[c] # Nil /\ certs'[c].last >= certs[c].last
               /\ \A k \in Key : obs[k] # Nil => obs'[k] # Nil /\ obs'[k].last >= obs[k].last
    <2>1. PICK b \in Batches : b.collectedAt \in Time /\ Merged(b)
      BY <1>0, <1>2, CommitMerges
    <2>2. \A c \in Cert : certs[c] # Nil => certs'[c] # Nil /\ certs'[c].last >= certs[c].last
      BY <1>0, <2>1, MergedCertificate
    <2>3. \A k \in Key : obs[k] # Nil => obs'[k] # Nil /\ obs'[k].last >= obs[k].last
      BY <1>0, <2>1, MergedLastGrows
    <2>. QED
      BY <2>2, <2>3
  <1>3. UNCHANGED <<certs, obs>> \/ \E p \in Caller : Commit(p)
    BY DEF InventoryNext, Step, Tick, Submit, RecordRefusal, LockAgent, UpsertEntry,
           DeadlockDetected, UpsertSnapshot, CallFails, AgentCertificatesIngest, AgentInventorySubmit
  <1>. QED
    BY <1>1, <1>2, <1>3

LEMMA BehindGrows ==
    ASSUME InventoryInv, InventoryNext, NEW l \in Lists, NEW id \in Nat \X Nat, Listed(l, id)
    PROVE  Listed(l, id)' /\ Behind(l, id)'.last >= Behind(l, id).last
  <1>1. CASE l.kind = "observations"
    <2>1. PICK k \in Key : k = <<id[1], l.of, id[2]>> /\ obs[k] # Nil
      BY <1>1 DEF Listed, Behind
    <2>2. obs'[k] # Nil /\ obs'[k].last >= obs[k].last
      BY <2>1, TablesGrow
    <2>. QED
      BY <1>1, <2>1, <2>2 DEF Listed, Behind
  <1>2. CASE l.kind # "observations"
    <2>1. PICK c \in Cert : c = id[1] /\ certs[c] # Nil
      BY <1>2 DEF Listed, Behind
    <2>2. certs'[c] # Nil /\ certs'[c].last >= certs[c].last
      BY <2>1, TablesGrow
    <2>. QED
      BY <1>2, <2>1, <2>2 DEF Listed, Behind
  <1>. QED
    BY <1>1, <1>2

\* What was returned is still not behind the cursor after agents have reported.
LEMMA ReturnedStandStill ==
    ASSUME InventoryInv, InventoryInv', InventoryNext, NEW w \in WalkRec, w.list \in Lists, ReturnedStand(w)
    PROVE  ReturnedStand(w)'
  <1>1. ASSUME NEW id \in w.returned
        PROVE  Listed(w.list, id)' /\ ~ Before(w.cursor, Row(Behind(w.list, id)'.last, id))
    <2>1. PICK l \in Lists : l = w.list
      OBVIOUS
    <2>2. id \in Nat \X Nat /\ w.cursor \in ListRow /\ Listed(l, id)
      BY <2>1 DEF WalkRec, ReturnedStand
    <2>3. Listed(l, id)' /\ Behind(l, id)'.last >= Behind(l, id).last
      BY <2>2, BehindGrows
    <2>4. Row(Behind(l, id).last, id) \in ListRow
      BY <2>2, BehindIsRow DEF InventoryInv
    <2>5. Behind(l, id)'.last \in Time
      <3>1. RowsTypeOK'
        BY DEF InventoryInv
      <3>. QED
        BY <2>3, <3>1 DEF Listed, Behind, RowsTypeOK, CertRow, ObsRow
    <2>6. PICK m \in Time, n \in Time : m = Behind(l, id).last /\ n = Behind(l, id)'.last /\ n >= m
      BY <2>3, <2>4, <2>5 DEF Row, ListRow
    <2>7. ~ Before(w.cursor, Row(m, id))
      BY <2>1, <2>6 DEF ReturnedStand
    <2>8. Row(m, id).at = m /\ Row(m, id).id = id /\ Row(n, id).at = n /\ Row(n, id).id = id
      BY DEF Row
    <2>9. w.cursor.at \in Nat /\ m \in Nat /\ n \in Nat
      BY <2>2, InventoryAssumption DEF ListRow, Time
    <2>10. ~ Before(w.cursor, Row(n, id))
      BY <2>6, <2>7, <2>8, <2>9 DEF Before
    <2>. QED
      BY <2>1, <2>3, <2>6, <2>10
  <1>2. \A id \in w.returned : w.cursor # Nil
    BY DEF ReturnedStand
  <1>. QED
    BY <1>1, <1>2 DEF ReturnedStand, Before, Row

----------------------------------------------------------------------------
(* The invariant of the listings. *)

LEMMA NoWalkFacts ==
    /\ NoWalk \in WalkRec /\ NoWalk.pc = "idle" /\ NoWalk.returned = {} /\ NoWalk.repeats = 0
    /\ NoWalk.cursor = Nil
  BY DEF NoWalk, WalkRec

LEMMA StandingWalk ==
    ASSUME NEW w, WalkOK(w), UNCHANGED <<certs, obs>>, walk' = w
    PROVE  WalkInv'
  <1>1. ReturnedStand(w) => ReturnedStand(w)'
    BY DEF ReturnedStand, Listed, Behind
  <1>2. WalkOK(w)'
    BY <1>1 DEF WalkOK
  <1>. QED
    BY <1>2 DEF WalkInv, WalkOK, ReturnedStand, Listed, Behind

LEMMA AskKeepsWalk ==
    ASSUME RowsTypeOK, NEW l \in Lists, Ask(l)
    PROVE  WalkInv'
  <1>1. PICK S \in SUBSET ListRow : S = Rows(l)
    BY RowsFacts
  <1> DEFINE w == [NoWalk EXCEPT !.pc = "page", !.list = l, !.steady = S]
  <1>2. /\ w.pc = "page" /\ w.list = l /\ w.cursor = Nil /\ w.returned = {} /\ w.repeats = 0
    BY DEF NoWalk
  <1>3. w \in WalkRec
    BY NoWalkFacts DEF WalkRec
  <1>4. walk' = w /\ UNCHANGED <<certs, obs>>
    BY <1>1 DEF Ask, inventoryVars
  <1> HIDE DEF w
  <1>5. WalkOK(w)
    BY <1>2, <1>3 DEF WalkOK, ReturnedStand
  <1>. QED
    BY <1>4, <1>5, StandingWalk

LEMMA ReadPageKeepsWalk ==
    ASSUME RowsTypeOK, WalkInv, ReadPage
    PROVE  WalkInv'
  <1>1. PICK w \in WalkRec : w = walk /\ WalkOK(w) /\ w.pc = "page" /\ w.list \in Lists
    BY DEF WalkInv, WalkOK, ReadPage
  <1>2. PICK rows \in SUBSET ListRow : rows = Rows(w.list) /\ IsFiniteSet(rows)
    BY <1>1, RowsFacts
  <1>3. PICK rest \in SUBSET rows : rest = After(rows, w.cursor)
    BY DEF After
  <1>4. rest \in SUBSET ListRow /\ IsFiniteSet(rest)
    BY <1>2, FS_Subset
  <1>5. PICK page \in SUBSET rest : page = Page(rest) /\ IsFiniteSet(page)
    BY <1>4, PageFacts
  <1>6. PICK next : next = NextCursor(rest, page)
    OBVIOUS
  <1>7. /\ next = Nil => page = rest
        /\ next # Nil => /\ next \in page
                         /\ \A r \in page : ~ Before(next, r)
                         /\ \A r \in rest : r \in page \/ Before(next, r)
    BY <1>4, <1>5, <1>6, CursorFacts
  <1>8. PICK returned \in SUBSET (Nat \X Nat) : returned = w.returned \cup {r.id : r \in page}
    <2>1. \A r \in page : r.id \in Nat \X Nat
      BY <1>4 DEF ListRow
    <2>. QED
      BY <2>1 DEF WalkRec
  <1>9. PICK steady \in SUBSET ListRow : steady = w.steady \cap rows
    BY DEF WalkRec
  <1>10. \A r \in steady : r.id \in returned \/ r \in rest
    <2>1. \A r \in w.steady : r.id \in w.returned \/ w.cursor = Nil \/ Before(w.cursor, r)
      BY <1>1 DEF WalkOK
    <2>. QED
      BY <1>3, <1>8, <1>9, <2>1 DEF After
  <1>11. ASSUME w.list.kind # "summaries", NEW r \in page PROVE r.id \notin w.returned
    <2>1. PICK l \in Lists : l = w.list
      BY <1>1
    <2>2. r \in Rows(l) /\ (w.cursor = Nil \/ Before(w.cursor, r))
      BY <1>2, <1>3, <2>1 DEF After
    <2>3. r = Row(Behind(l, r.id).last, r.id)
      BY <1>11, <2>1, <2>2, RowsBehind
    <2>4. ReturnedStand(w)
      BY <1>1, <1>11 DEF WalkOK
    <2>5. r.id \in w.returned => w.cursor # Nil /\ ~ Before(w.cursor, Row(Behind(l, r.id).last, r.id))
      BY <2>1, <2>4 DEF ReturnedStand
    <2>. QED
      BY <2>2, <2>3, <2>5
  <1>12. PICK repeats \in Nat : /\ repeats = w.repeats + Cardinality({r \in page : r.id \in w.returned})
                                /\ w.list.kind # "summaries" => repeats = 0
    <2>1. PICK again \in SUBSET page : again = {r \in page : r.id \in w.returned}
      OBVIOUS
    <2>2. Cardinality(again) \in Nat
      BY <1>5, FS_Subset, FS_CardinalityType
    <2>3. w.repeats \in Nat /\ (w.list.kind # "summaries" => w.repeats = 0)
      BY <1>1 DEF WalkRec, WalkOK
    <2>4. w.list.kind # "summaries" => Cardinality(again) = 0
      <3>1. w.list.kind # "summaries" => again = {}
        BY <1>11, <2>1
      <3>. QED
        BY <3>1, FS_EmptySet
    <2>5. PICK m \in Nat, n \in Nat : m = w.repeats /\ n = Cardinality(again)
      BY <2>2, <2>3
    <2>6. m + n \in Nat /\ (w.list.kind # "summaries" => m + n = 0)
      BY <2>3, <2>4, <2>5
    <2>7. m + n = w.repeats + Cardinality({r \in page : r.id \in w.returned})
      BY <2>1, <2>5
    <2>. QED
      BY <2>6, <2>7
  <1>13. /\ UNCHANGED <<certs, obs>>
         /\ next # Nil => walk' = [w EXCEPT !.cursor = next, !.returned = returned, !.steady = steady,
                                            !.repeats = repeats]
         /\ next = Nil => walk' = [NoWalk EXCEPT !.pc = "done", !.list = w.list, !.repeats = repeats,
                                            !.steady = {r \in steady : r.id \notin returned}]
    BY <1>1, <1>2, <1>3, <1>5, <1>6, <1>8, <1>9, <1>12 DEF ReadPage, inventoryVars
  <1>14. CASE next # Nil
    <2> DEFINE x == [w EXCEPT !.cursor = next, !.returned = returned, !.steady = steady,
                              !.repeats = repeats]
    <2>1. next \in ListRow
      BY <1>4, <1>7, <1>14
    <2>2. /\ x \in WalkRec /\ x.pc = "page" /\ x.list = w.list /\ x.cursor = next
          /\ x.returned = returned /\ x.steady = steady /\ x.repeats = repeats
      BY <1>1, <2>1 DEF WalkRec
    <2> HIDE DEF x
    <2>3. \A r \in steady : r.id \in returned \/ Before(next, r)
      BY <1>7, <1>8, <1>10, <1>14
    <2>4. ASSUME w.list.kind # "summaries", NEW id \in returned
          PROVE  Listed(w.list, id) /\ ~ Before(next, Row(Behind(w.list, id).last, id))
      <3>1. PICK l \in Lists : l = w.list
        BY <1>1
      <3>2. CASE id \in w.returned
        <4>1. Listed(l, id) /\ w.cursor # Nil /\ ~ Before(w.cursor, Row(Behind(l, id).last, id))
          BY <1>1, <2>4, <3>1, <3>2 DEF WalkOK, ReturnedStand
        <4>2. w.cursor \in ListRow /\ Row(Behind(l, id).last, id) \in ListRow
          BY <4>1, BehindIsRow DEF WalkRec
        <4>3. Before(w.cursor, next)
          BY <1>3, <1>7, <1>14, <4>1 DEF After
        <4>. QED
          BY <2>1, <3>1, <4>1, <4>2, <4>3, BeforeIsOrder
      <3>3. CASE id \notin w.returned
        <4>1. PICK r \in page : id = r.id
          BY <1>8, <3>3
        <4>2. r \in Rows(l)
          BY <1>2, <3>1
        <4>3. Listed(l, id) /\ r = Row(Behind(l, id).last, id)
          BY <2>4, <3>1, <4>1, <4>2, RowsBehind
        <4>. QED
          BY <1>7, <1>14, <3>1, <4>3
      <3>. QED
        BY <3>2, <3>3
    <2>5. w.list.kind # "summaries" => ReturnedStand(x)
      BY <1>14, <2>2, <2>4 DEF ReturnedStand
    <2>6. WalkOK(x)
      BY <1>1, <1>12, <2>2, <2>3, <2>5 DEF WalkOK
    <2>7. walk' = x
      BY <1>13, <1>14 DEF x
    <2>. QED
      BY <1>13, <2>6, <2>7, StandingWalk
  <1>15. CASE next = Nil
    <2> DEFINE left == {r \in steady : r.id \notin returned}
               x == [NoWalk EXCEPT !.pc = "done", !.list = w.list, !.repeats = repeats, !.steady = left]
    <2>1. left = {}
      BY <1>7, <1>8, <1>10, <1>15
    <2> HIDE DEF left
    <2>2. /\ x.pc = "done" /\ x.list = w.list /\ x.steady = left /\ x.repeats = repeats
      BY DEF NoWalk
    <2>3. x \in WalkRec
      BY <1>1, <2>1, NoWalkFacts DEF WalkRec
    <2>4. walk' = x
      BY <1>13, <1>15 DEF left
    <2> HIDE DEF x
    <2>5. WalkOK(x)
      BY <1>1, <1>12, <2>1, <2>2, <2>3 DEF WalkOK
    <2>. QED
      BY <1>13, <2>4, <2>5, StandingWalk
  <1>. QED
    BY <1>14, <1>15

LEMMA Next_WalkInv ==
    ASSUME InventoryInv, InventoryInv', WalkInv, [Next]_vars
    PROVE  WalkInv'
  <1>0. RowsTypeOK
    BY DEF InventoryInv
  <1>1. CASE InventoryNext /\ UNCHANGED walk
    <2>1. PICK w \in WalkRec : w = walk /\ WalkOK(w)
      BY DEF WalkInv, WalkOK
    <2>2. w.pc = "page" /\ w.list.kind # "summaries" => ReturnedStand(w)'
      BY <1>1, <2>1, ReturnedStandStill DEF WalkOK
    <2>3. WalkOK(w)'
      BY <2>1, <2>2 DEF WalkOK
    <2>. QED
      BY <1>1, <2>1, <2>3 DEF WalkInv, WalkOK, ReturnedStand, Listed, Behind
  <1>2. CASE ReadPage
    BY <1>0, <1>2, ReadPageKeepsWalk
  <1>3. CASE EndWalk
    <2>1. WalkOK(NoWalk)
      BY NoWalkFacts DEF WalkOK
    <2>. QED
      BY <1>3, <2>1, StandingWalk DEF EndWalk, inventoryVars
  <1>4. ASSUME NEW l \in Lists, Ask(l) PROVE WalkInv'
    BY <1>0, <1>4, AskKeepsWalk
  <1>5. CASE UNCHANGED vars
    <2>1. PICK w : w = walk
      OBVIOUS
    <2>. QED
      BY <1>5, <2>1, StandingWalk DEF WalkInv, vars, inventoryVars
  <1>. QED
    BY <1>1, <1>2, <1>3, <1>4, <1>5 DEF Next, CertificatesList, AgentCertificatesList,
                                       CertificateObservationsList, AgentInventoryList

LEMMA WalkInvariant == Spec => [](InventoryInv /\ WalkInv)
  <1>1. Init => InventoryInv /\ WalkInv
    BY InventoryInit_Inv, NoWalkFacts DEF Init, WalkInv, WalkOK
  <1>2. InventoryInv /\ WalkInv /\ [Next]_vars => (InventoryInv /\ WalkInv)'
    BY Next_InventoryInv, Next_WalkInv
  <1>. QED
    BY <1>1, <1>2, PTL DEF Spec

\* Rows, calls and pages are what they should be, and each certificate row spans its
\* observations, whatever batches ran at the same time: no update of two agents that merge
\* into one row is lost (Submit).
THEOREM TablesAgreeHolds == FairSpec => []TablesAgree
  <1>1. InventoryInv => InventoryTypeOK
    <2> SUFFICES ASSUME InventoryInv PROVE InventoryTypeOK
      OBVIOUS
    <2>1. RowsTypeOK /\ CallsOK
      BY DEF InventoryInv
    <2>2. ASSUME NEW p \in Caller
          PROVE  /\ call[p].pc \in {"idle", "check", "audit", "lock", "upsert", "snapshot"}
                 /\ call[p].pc \in {"check", "audit", "lock", "upsert"} => call[p].batch \in Batches
                 /\ \A c \in DOMAIN call[p].newCerts : c \in Cert /\ call[p].newCerts[c] \in CertRow
                 /\ \A k \in DOMAIN call[p].newObs : k \in Key /\ call[p].newObs[k] \in ObsRow
      <3>1. PICK y \in CallRec : y = call[p] /\ Settled(y)
        BY <2>1 DEF CallsOK
      <3>2. /\ y.pc \in {"idle", "check", "audit", "lock", "upsert", "snapshot"}
            /\ y.newCerts \in Partial(Cert, CertRow) /\ y.newObs \in Partial(Key, ObsRow)
        BY DEF CallRec
      <3>3. \A c \in DOMAIN y.newCerts : c \in Cert /\ y.newCerts[c] \in CertRow
        BY <3>2, PartialFacts
      <3>4. \A k \in DOMAIN y.newObs : k \in Key /\ y.newObs[k] \in ObsRow
        BY <3>2, PartialFacts
      <3>5. y.pc \in {"check", "audit", "lock", "upsert"} => y.batch \in Batches
        BY <3>1 DEF Settled
      <3>. QED
        BY <3>1, <3>2, <3>3, <3>4, <3>5
    <2>. QED
      BY <2>1, <2>2 DEF InventoryTypeOK, RowsTypeOK
  <1>2. InventoryInv /\ WalkInv => TablesAgree
    <2> SUFFICES ASSUME InventoryInv, WalkInv PROVE TablesAgree
      OBVIOUS
    <2>1. /\ walk.pc \in {"idle", "page", "done"} /\ (walk.pc # "idle" => walk.list \in Lists)
          /\ (walk.cursor # Nil => walk.cursor.at \in Time) /\ walk.repeats \in Nat
      BY DEF WalkInv, WalkOK, WalkRec, ListRow
    <2>. QED
      BY <1>1, <2>1 DEF TablesAgree, TypeOK, InventoryInv
  <1>. QED
    BY <1>2, WalkInvariant, PTL DEF FairSpec

\* A walk through pages of any size returns every row that stood still while it read, and no
\* certificate or observation twice, however many batches are committed between its pages
\* (ListCertificates, ListObservationsPage, ListSummaries).
THEOREM WalkIsExactHolds == FairSpec => []WalkIsExact
  <1>1. WalkInv => WalkIsExact
    BY DEF WalkInv, WalkOK, WalkIsExact
  <1>. QED
    BY <1>1, WalkInvariant, PTL DEF FairSpec
=============================================================================
