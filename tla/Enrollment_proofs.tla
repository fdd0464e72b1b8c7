------------------------- MODULE Enrollment_proofs -------------------------
(***************************************************************************)
(* Seats match agents, audited reasons are true, the tables agree, and the *)
(* calls of Enrollment implement SeatQuota, for any number of packages,    *)
(* agents and callers, any clock and any number of requests and failures.  *)
(*                                                                         *)
(* None of this is inductive by itself: EnrollCommit keeps the count only  *)
(* because the package still has the seat that IncrementUses saw, and no   *)
(* other call can have taken it.  The invariant therefore says what a call *)
(* at each step still knows of the rows (CallOK), and that two open        *)
(* transactions hold different packages, agents and installation ids       *)
(* (Apart): the row lock and the unique index.                             *)
(***************************************************************************)
EXTENDS Enrollment, FiniteSetTheorems, TLAPS

PackagePcs == {"precheck", "increment", "classify", "create", "commit", "reject", "revoke", "revoking"}

\* The reason why is true of package p.
ReasonTrue(p, why) ==
    \/ packages[p].state = "deleted"
    \/ why = "package_revoked" /\ packages[p].revokedAt # Nil
    \/ why = "package_expired" /\ clock >= packages[p].expiresAt
    \/ why = "package_exhausted" /\ packages[p].uses = packages[p].maxUses
    \/ /\ why = "install_id_already_enrolled"
       /\ \E a \in Agents : agents[a].org = OrgOf[p] /\ agents[a].install # NoInstall

\* The part of RejectionsAreTrue about what is written.
AuditedReasonsTrue ==
    /\ \A a \in Agents : audit[<<"agent.authentication_failed", a>>] > 0 => agents[a].status = "disabled"
    /\ \A p \in Packages, why \in rejectionReasons :
           audit[<<"agent.enrollment_rejected", p, why>>] > 0 => ReasonTrue(p, why)

\* What was read of package p is older than what is there now.
CopyOf(r, p) ==
    \/ packages[p].state = "deleted"
    \/ /\ r.expiresAt = packages[p].expiresAt /\ r.maxUses = packages[p].maxUses
       /\ r.uses <= packages[p].uses
       /\ r.revokedAt # Nil => packages[p].revokedAt # Nil

\* Package p can still take the call x's agent.
HasSeat(x) == /\ packages[x.pkg].expiresAt > x.now
              /\ packages[x.pkg].uses < packages[x.pkg].maxUses

\* What the call x knows of the rows.
CallOK(x) ==
    /\ x.now <= clock
    /\ x.pc \in PackagePcs => x.pkg \in Packages /\ packages[x.pkg].state # "absent"
    /\ x.pc = "precheck" => CopyOf(x.copy, x.pkg)
    /\ x.pc = "reject" => x.reason \in rejectionReasons /\ ReasonTrue(x.pkg, x.reason)
    /\ x.pc = "reject" /\ x.reason = "install_id_already_enrolled" =>
          WithInstall(OrgOf[x.pkg], x.install) # {}
    /\ x.pc \in RowLockPcs => Exists(x.pkg) /\ packages[x.pkg].revokedAt = Nil
    /\ x.pc \in {"create", "commit"} => HasSeat(x)
    /\ x.pc = "commit" => /\ x.agent \in Agents /\ agents[x.agent].status = "absent"
                          /\ WithInstall(OrgOf[x.pkg], x.install) = {}
    /\ x.pc \in {"heartbeat", "beat"} => x.agent \in Agents /\ agents[x.agent].status # "absent"
    /\ x.pc = "beat" => agents[x.agent].enrolledAt <= x.now

\* The open transactions of the calls x and y hold different rows and keys.
Apart(x, y) ==
    /\ x.pc \in RowLockPcs /\ y.pc \in RowLockPcs => x.pkg # y.pkg
    /\ x.pc = "commit" /\ y.pc = "commit" =>
          /\ x.agent # y.agent
          /\ x.install # NoInstall => <<OrgOf[x.pkg], x.install>> # <<OrgOf[y.pkg], y.install>>

CallsOK == \A c \in Callers : CallOK(call[c])

CallsApart == \A c, d \in Callers : c # d => Apart(call[c], call[d])

\* Rows that are not there are empty, and packages that are there have seats.
RowsOK ==
    /\ \A p \in Packages :
        /\ packages[p].state = "absent" => packages[p] = NoPackage
        /\ packages[p].state = "deleted" => packages[p].maxUses = 0
        /\ Exists(p) => packages[p].maxUses > 0
    /\ \A a \in Agents : /\ agents[a].status = "absent" => agents[a] = NoAgent
                         /\ agents[a].pkg # Nil => Exists(agents[a].pkg)

\* Nothing is told of a package that was never there.
AbsentUntold ==
    \A p \in Packages : packages[p].state = "absent" =>
        /\ audit[<<"deployment_package.revoked", p>>] = 0
        /\ \A why \in rejectionReasons : audit[<<"agent.enrollment_rejected", p, why>>] = 0

\* The inductive invariant.
EnrollInv == /\ TypeOK /\ RowsOK /\ CallsOK /\ CallsApart
             /\ SeatsMatchAgents /\ AuditedReasonsTrue /\ AbsentUntold
             /\ AuditTellsLives /\ AgentTimesInOrder

----------------------------------------------------------------------------

LEMMA RowsAreRows ==
    /\ NoPackage \in Package /\ NoAgent \in Agent /\ NoCall \in Call
    /\ NoPackage.state = "absent" /\ NoPackage.uses = 0 /\ NoPackage.maxUses = 0
    /\ NoPackage.revokedAt = Nil /\ NoPackage.expiresAt = 0
    /\ NoAgent.status = "absent" /\ NoAgent.pkg = Nil
    /\ NoCall.pc = "idle" /\ NoCall.now = 0
BY EnrollmentAssumption DEF NoPackage, NoAgent, NoCall, Package, Agent, Call, Time

\* A call that is not under way knows nothing, and is apart from every other.
LEMMA NoCallOK ==
    ASSUME clock \in Time
    PROVE  CallOK(NoCall) /\ \A x : Apart(NoCall, x) /\ Apart(x, NoCall)
BY RowsAreRows, EnrollmentAssumption DEF CallOK, Apart, PackagePcs, RowLockPcs, Time

\* The other calls stay, and c's record is replaced.
LEMMA CallsFollow ==
    ASSUME call \in [Callers -> Call], CallsOK, CallsApart, NEW c \in Callers, NEW rec \in Call,
           Go(c, rec), CallOK(rec)',
           \A x \in Call : CallOK(x) /\ Apart(x, call[c]) => CallOK(x)',
           \A d \in Callers \ {c} : Apart(rec, call[d]) /\ Apart(call[d], rec)
    PROVE  call' \in [Callers -> Call] /\ CallsOK' /\ CallsApart'
<1>1. call' \in [Callers -> Call] /\ \A d \in Callers : call'[d] = IF d = c THEN rec ELSE call[d]
  BY DEF Go
<1>2. ASSUME NEW d \in Callers PROVE CallOK(call[d])'
  <2>1. CASE d = c
    <3>1. call'[d] = rec
      BY <1>1, <2>1
    <3> QED BY <3>1 DEF CallOK, CopyOf, ReasonTrue, HasSeat, WithInstall, Exists
  <2>2. CASE d # c
    <3>1. PICK x \in Call : x = call[d]
      OBVIOUS
    <3>2. CallOK(x)'
      BY <2>2, <3>1 DEF CallsOK, CallsApart
    <3>3. call'[d] = x
      BY <1>1, <2>2, <3>1
    <3> QED BY <3>2, <3>3 DEF CallOK, CopyOf, ReasonTrue, HasSeat, WithInstall, Exists
  <2> QED BY <2>1, <2>2
<1>3. CallsApart'
  BY <1>1 DEF CallsApart
<1> QED BY <1>1, <1>2, <1>3 DEF CallsOK

----------------------------------------------------------------------------
(* Steps that change a call and no row. *)

BoundsOK == requests \in 0 .. MaxRequests /\ faults \in 0 .. MaxFaults

LEMMA CallGoes ==
    ASSUME EnrollInv, NEW c \in Callers, NEW rec \in Call, Go(c, rec), BoundsOK',
           UNCHANGED <<packages, agents, audit, clock>>, CallOK(rec),
           \A d \in Callers \ {c} : Apart(rec, call[d]) /\ Apart(call[d], rec)
    PROVE  EnrollInv'
<1>1. \A x : CallOK(x) => CallOK(x)'
  BY DEF CallOK, CopyOf, ReasonTrue, HasSeat, WithInstall, Exists
<1>2. call' \in [Callers -> Call] /\ CallsOK' /\ CallsApart'
  BY <1>1, CallsFollow DEF EnrollInv, TypeOK
<1>3. TypeOK'
  BY <1>2 DEF EnrollInv, TypeOK, BoundsOK
<1>4. RowsOK' /\ AbsentUntold'
  BY DEF EnrollInv, RowsOK, AbsentUntold, Exists
<1>5. SeatsMatchAgents'
  BY DEF EnrollInv, SeatsMatchAgents, EnrolledThrough, InstallIdsAreUnique
<1>6. AuditedReasonsTrue' /\ AuditTellsLives' /\ AgentTimesInOrder'
  BY DEF EnrollInv, AuditedReasonsTrue, ReasonTrue, AuditTellsLives, AgentTimesInOrder, Exists
<1> QED BY <1>2, <1>3, <1>4, <1>5, <1>6 DEF EnrollInv

LEMMA CallReturns ==
    ASSUME EnrollInv, NEW c \in Callers, Return(c), BoundsOK',
           UNCHANGED <<packages, agents, audit, clock>>
    PROVE  EnrollInv'
BY CallGoes, RowsAreRows, NoCallOK DEF Return, EnrollInv, TypeOK

LEMMA CallUnchanged ==
    ASSUME EnrollInv, BoundsOK', UNCHANGED <<packages, agents, audit, clock, call>>
    PROVE  EnrollInv'
BY DEF EnrollInv, TypeOK, BoundsOK, RowsOK, AbsentUntold, SeatsMatchAgents, EnrolledThrough,
       InstallIdsAreUnique, AuditedReasonsTrue, AuditTellsLives, AgentTimesInOrder, Exists,
       CallsOK, CallsApart, CallOK, CopyOf, ReasonTrue, HasSeat, WithInstall

\* A call that holds no row is apart from the others.
LEMMA NoLockApart ==
    ASSUME NEW x, x.pc \notin RowLockPcs
    PROVE  \A y : Apart(x, y) /\ Apart(y, x)
BY DEF Apart, RowLockPcs

\* What activeAt says of a row.
LEMMA ActiveAtSays ==
    ASSUME NEW r \in Package, NEW now \in Time, NEW why, why = activeAt(r, now), why # Nil
    PROVE  /\ why \in rejectionReasons
           /\ why = "package_revoked" => r.revokedAt # Nil
           /\ why = "package_expired" => now >= r.expiresAt
           /\ why = "package_exhausted" => r.uses >= r.maxUses
           /\ why # "package_concurrently_deleted" /\ why # "install_id_already_enrolled"
BY DEF activeAt, rejectionReasons, Package, Time

LEMMA LookupStep ==
    ASSUME EnrollInv, NEW c \in Callers, NEW p \in Packages, NEW i \in InstallIds \cup {NoInstall},
           AgentsEnroll(c, p, i)
    PROVE  EnrollInv'
<1> DEFINE rec == [NoCall EXCEPT !.pc = "precheck", !.pkg = p, !.copy = packages[p], !.install = i]
<1>b. BoundsOK'
  BY EnrollmentAssumption DEF AgentsEnroll, Begin, EnrollInv, TypeOK, BoundsOK
<1>1. CASE ~ Exists(p)
  BY <1>1, <1>b, CallUnchanged DEF AgentsEnroll, EnrollLookup
<1>2. CASE Exists(p)
  <2>1. /\ rec \in Call /\ rec.pc = "precheck" /\ rec.pkg = p /\ rec.copy = packages[p]
        /\ rec.now = 0
    BY RowsAreRows DEF EnrollInv, TypeOK, Call
  <2>2. Go(c, rec)
    BY <1>2 DEF AgentsEnroll, EnrollLookup
  <2> HIDE DEF rec
  <2>3. CopyOf(rec.copy, rec.pkg)
    BY <2>1 DEF CopyOf, EnrollInv, TypeOK, Package
  <2>4. CallOK(rec)
    BY <2>1, <2>3, <1>2 DEF CallOK, EnrollInv, TypeOK, Time, RowLockPcs, Exists
  <2> QED BY <1>b, <2>1, <2>2, <2>4, NoLockApart, CallGoes DEF AgentsEnroll, RowLockPcs
<1> QED BY <1>1, <1>2

LEMMA PrecheckStep ==
    ASSUME EnrollInv, NEW c \in Callers, EnrollPrecheck(c)
    PROVE  EnrollInv'
<1> DEFINE x == call[c]
           why == activeAt(x.copy, clock)
           rec == [x EXCEPT !.pc = IF why = Nil THEN "increment" ELSE "reject",
                            !.reason = why, !.now = clock, !.copy = NoPackage]
<1>b. BoundsOK'
  BY DEF EnrollPrecheck, EnrollInv, TypeOK, BoundsOK
<1>1. /\ x \in Call /\ x.pc = "precheck" /\ CallOK(x) /\ x.copy \in Package /\ clock \in Time
      /\ packages \in [Packages -> Package]
  BY DEF EnrollPrecheck, At, EnrollInv, TypeOK, CallsOK, Call
<1>2. Go(c, rec)
  BY DEF EnrollPrecheck
<1>3. why # Nil => why \in rejectionReasons
  BY <1>1, ActiveAtSays
<1>4. x.pkg \in Packages /\ packages[x.pkg].state # "absent" /\ CopyOf(x.copy, x.pkg)
  BY <1>1 DEF CallOK, PackagePcs
<1>5. why # Nil => ReasonTrue(x.pkg, why)
  <2>1. /\ packages[x.pkg] \in Package /\ packages[x.pkg].uses <= packages[x.pkg].maxUses
    BY <1>1, <1>4 DEF EnrollInv, SeatsMatchAgents
  <2> QED BY <1>1, <1>3, <1>4, <2>1, ActiveAtSays DEF ReasonTrue, CopyOf, Package, rejectionReasons, Time
<1>i. why # Nil => why # "install_id_already_enrolled"
  BY DEF activeAt
<1> HIDE DEF why
<1>6. /\ rec \in Call /\ rec.pkg = x.pkg /\ rec.now = clock /\ rec.reason = why
      /\ rec.pc = IF why = Nil THEN "increment" ELSE "reject"
  BY <1>1, <1>3, RowsAreRows DEF Call
<1> HIDE DEF rec
<1>7. CallOK(rec)
  BY <1>1, <1>3, <1>4, <1>5, <1>6, <1>i DEF CallOK, PackagePcs, RowLockPcs, Time
<1> QED BY <1>b, <1>2, <1>6, <1>7, NoLockApart, CallGoes DEF EnrollPrecheck, RowLockPcs


\* The row lock keeps the package of a call apart from those of the others.
LEMMA LockedApart ==
    ASSUME NEW c \in Callers, NEW x, x.pc # "commit", Unlocked(x.pkg)
    PROVE  \A d \in Callers \ {c} : Apart(x, call[d]) /\ Apart(call[d], x)
BY DEF Apart, Unlocked

LEMMA IncrementStep ==
    ASSUME EnrollInv, NEW c \in Callers, IncrementUses(c)
    PROVE  EnrollInv'
<1> DEFINE x == call[c]
           step == IF CanIncrement(x.pkg, x.now) THEN "create" ELSE "classify"
           rec == [x EXCEPT !.pc = step]
<1>b. BoundsOK'
  BY DEF IncrementUses, EnrollInv, TypeOK, BoundsOK
<1>1. x \in Call /\ x.pc = "increment" /\ CallOK(x) /\ x.pkg \in Packages
  BY DEF IncrementUses, At, EnrollInv, TypeOK, CallsOK, CallOK, PackagePcs
<1>2. Go(c, rec)
  BY DEF IncrementUses
<1>3. rec \in Call /\ rec.pkg = x.pkg /\ rec.now = x.now /\ rec.pc = step
  BY <1>1 DEF Call
<1>4. CallOK(rec)
  BY <1>1, <1>3 DEF CallOK, PackagePcs, RowLockPcs, CanIncrement, HasSeat, Exists
<1>5. Unlocked(x.pkg)
  BY DEF IncrementUses
<1> HIDE DEF rec
<1>6. \A d \in Callers \ {c} : Apart(rec, call[d]) /\ Apart(call[d], rec)
  BY <1>3, <1>5, LockedApart
<1> QED BY <1>b, <1>2, <1>3, <1>4, <1>6, CallGoes DEF IncrementUses

LEMMA ClassifyStep ==
    ASSUME EnrollInv, NEW c \in Callers, classifyIncrementFailure(c)
    PROVE  EnrollInv'
<1> DEFINE x == call[c]
           why == IF Exists(x.pkg) THEN activeAt(packages[x.pkg], x.now)
                  ELSE "package_concurrently_deleted"
           rec == [x EXCEPT !.pc = "reject", !.reason = why]
<1>b. BoundsOK'
  BY DEF classifyIncrementFailure, EnrollInv, TypeOK, BoundsOK
<1>1. /\ x \in Call /\ x.pc = "classify" /\ CallOK(x) /\ x.pkg \in Packages /\ x.now \in Time
      /\ packages[x.pkg] \in Package /\ packages[x.pkg].state # "absent" /\ x.now <= clock
      /\ clock \in Time /\ packages[x.pkg].uses <= packages[x.pkg].maxUses
  BY DEF classifyIncrementFailure, At, EnrollInv, TypeOK, CallsOK, CallOK, PackagePcs, Call,
         SeatsMatchAgents
<1>2. CASE why = Nil
  BY <1>2, <1>b, CallReturns DEF classifyIncrementFailure
<1>3. CASE why # Nil
  <2>1. Go(c, rec)
    BY <1>3 DEF classifyIncrementFailure
  <2>2. why \in rejectionReasons /\ ReasonTrue(x.pkg, why)
    <3>1. CASE Exists(x.pkg)
      BY <3>1, <1>1, <1>3, ActiveAtSays DEF ReasonTrue, Package, rejectionReasons, Time
    <3>2. CASE ~ Exists(x.pkg)
      BY <3>2, <1>1 DEF ReasonTrue, Package, rejectionReasons, Exists
    <3> QED BY <3>1, <3>2
  <2>i. why # "install_id_already_enrolled"
    BY <1>3 DEF activeAt
  <2> HIDE DEF why
  <2>3. /\ rec \in Call /\ rec.pkg = x.pkg /\ rec.now = x.now /\ rec.reason = why
        /\ rec.pc = "reject"
    BY <1>1, <2>2 DEF Call
  <2> HIDE DEF rec
  <2>4. CallOK(rec)
    BY <1>1, <2>2, <2>3, <2>i DEF CallOK, PackagePcs, RowLockPcs
  <2> QED BY <1>b, <2>1, <2>3, <2>4, NoLockApart, CallGoes DEF classifyIncrementFailure, RowLockPcs
<1> QED BY <1>2, <1>3

LEMMA CreateAgentStep ==
    ASSUME EnrollInv, NEW c \in Callers, CreateAgent(c)
    PROVE  EnrollInv'
<1> DEFINE x == call[c]
           o == OrgOf[x.pkg]
           i == x.install
<1>b. BoundsOK'
  BY DEF CreateAgent, EnrollInv, TypeOK, BoundsOK
<1>1. /\ x \in Call /\ x.pc = "create" /\ CallOK(x) /\ x.pkg \in Packages /\ o \in Orgs
      /\ i \in InstallIds \cup {NoInstall}
      /\ \A d \in Callers \ {c} : Apart(x, call[d]) /\ Apart(call[d], x)
  BY EnrollmentAssumption
     DEF CreateAgent, At, EnrollInv, TypeOK, CallsOK, CallsApart, CallOK, PackagePcs, Call
<1>2. CASE WithInstall(o, i) # {}
  <2> DEFINE rec == [x EXCEPT !.pc = "reject", !.reason = "install_id_already_enrolled"]
  <2>1. Go(c, rec)
    BY <1>2 DEF CreateAgent
  <2>2. /\ rec \in Call /\ rec.pkg = x.pkg /\ rec.now = x.now /\ rec.pc = "reject"
        /\ rec.reason = "install_id_already_enrolled" /\ rec.install = x.install
    BY <1>1 DEF Call, rejectionReasons
  <2> HIDE DEF rec
  <2>3. ReasonTrue(rec.pkg, rec.reason)
    BY <1>2, <2>2 DEF ReasonTrue, WithInstall
  <2>4. CallOK(rec)
    BY <1>1, <1>2, <2>2, <2>3 DEF CallOK, PackagePcs, RowLockPcs, rejectionReasons
  <2> QED BY <1>b, <2>1, <2>2, <2>4, NoLockApart, CallGoes DEF CreateAgent, RowLockPcs
<1>3. CASE WithInstall(o, i) = {}
  <2>1. PICK a \in Agents : /\ agents[a].status = "absent"
                            /\ \A d \in Callers : call[d].agent # a
                            /\ Go(c, [x EXCEPT !.pc = "commit", !.agent = a])
    BY <1>3 DEF CreateAgent
  <2> DEFINE rec == [x EXCEPT !.pc = "commit", !.agent = a]
  <2>2. /\ rec \in Call /\ rec.pkg = x.pkg /\ rec.now = x.now /\ rec.pc = "commit"
        /\ rec.agent = a /\ rec.install = x.install
    BY <1>1 DEF Call
  <2>g. Go(c, rec)
    BY <2>1
  <2> HIDE DEF rec
  <2>3. CallOK(rec)
    BY <1>1, <1>3, <2>1, <2>2 DEF CallOK, PackagePcs, RowLockPcs, HasSeat
  <2>4. ASSUME NEW d \in Callers \ {c} PROVE Apart(rec, call[d]) /\ Apart(call[d], rec)
    <3>1. call[d].pc \in RowLockPcs => call[d].pkg # rec.pkg
      BY <1>1, <2>2 DEF Apart, RowLockPcs
    <3>2. ~ (call[d].pc = "commit" /\ i # NoInstall /\ call[d].install = i /\ OrgOf[call[d].pkg] = o)
      BY DEF CreateAgent, KeyInFlight
    <3> QED BY <2>1, <2>2, <3>1, <3>2 DEF Apart
  <2> QED BY <1>b, <2>g, <2>2, <2>3, <2>4, CallGoes DEF CreateAgent
<1> QED BY <1>2, <1>3


LEMMA BeginBounds ==
    ASSUME EnrollInv, NEW c \in Callers, Begin(c), UNCHANGED faults
    PROVE  BoundsOK'
BY EnrollmentAssumption DEF Begin, EnrollInv, TypeOK, BoundsOK

LEMMA RevokeReadStep ==
    ASSUME EnrollInv, NEW c \in Callers, NEW p \in Packages, NEW o \in Orgs,
           DeploymentPackagesRevoke(c, p, o)
    PROVE  EnrollInv'
<1> DEFINE rec == [NoCall EXCEPT !.pc = "revoke", !.pkg = p, !.now = clock]
<1>b. BoundsOK'
  BY BeginBounds DEF DeploymentPackagesRevoke
<1>1. CASE Exists(p) /\ OrgOf[p] = o /\ packages[p].revokedAt = Nil
  <2>1. Go(c, rec)
    BY <1>1 DEF DeploymentPackagesRevoke, RevokeRead
  <2>2. rec \in Call /\ rec.pc = "revoke" /\ rec.pkg = p /\ rec.now = clock
    BY RowsAreRows DEF EnrollInv, TypeOK, Call
  <2> HIDE DEF rec
  <2>3. CallOK(rec)
    BY <1>1, <2>2 DEF CallOK, EnrollInv, TypeOK, Time, RowLockPcs, Exists
  <2> QED BY <1>b, <2>1, <2>2, <2>3, NoLockApart, CallGoes DEF DeploymentPackagesRevoke, RowLockPcs
<1>2. CASE ~ (Exists(p) /\ OrgOf[p] = o /\ packages[p].revokedAt = Nil)
  BY <1>2, <1>b, CallUnchanged DEF DeploymentPackagesRevoke, RevokeRead
<1> QED BY <1>1, <1>2

LEMMA RevokeUpdateStep ==
    ASSUME EnrollInv, NEW c \in Callers, RevokeUpdate(c)
    PROVE  EnrollInv'
<1> DEFINE x == call[c]
           rec == [x EXCEPT !.pc = "revoking"]
<1>b. BoundsOK'
  BY DEF RevokeUpdate, EnrollInv, TypeOK, BoundsOK
<1>1. x \in Call /\ x.pc = "revoke" /\ CallOK(x) /\ x.pkg \in Packages
  BY DEF RevokeUpdate, At, EnrollInv, TypeOK, CallsOK, CallOK, PackagePcs
<1>2. CASE Exists(x.pkg) /\ packages[x.pkg].revokedAt = Nil
  <2>1. Go(c, rec) /\ Unlocked(x.pkg)
    BY <1>2 DEF RevokeUpdate
  <2>2. rec \in Call /\ rec.pkg = x.pkg /\ rec.now = x.now /\ rec.pc = "revoking"
    BY <1>1 DEF Call
  <2> HIDE DEF rec
  <2>3. CallOK(rec)
    BY <1>1, <1>2, <2>2 DEF CallOK, PackagePcs, RowLockPcs
  <2>4. \A d \in Callers \ {c} : Apart(rec, call[d]) /\ Apart(call[d], rec)
    BY <2>1, <2>2, LockedApart
  <2> QED BY <1>b, <2>1, <2>2, <2>3, <2>4, CallGoes DEF RevokeUpdate
<1>3. CASE ~ (Exists(x.pkg) /\ packages[x.pkg].revokedAt = Nil)
  BY <1>3, <1>b, CallReturns DEF RevokeUpdate
<1> QED BY <1>2, <1>3

LEMMA HeartbeatStep ==
    ASSUME EnrollInv, NEW c \in Callers, AgentHeartbeat(c)
    PROVE  EnrollInv'
<1> DEFINE x == call[c]
           rec == [x EXCEPT !.pc = "beat", !.now = clock]
<1>b. BoundsOK'
  BY DEF AgentHeartbeat, EnrollInv, TypeOK, BoundsOK
<1>1. /\ x \in Call /\ x.pc = "heartbeat" /\ CallOK(x) /\ x.agent \in Agents
      /\ agents[x.agent].status # "absent" /\ clock \in Time /\ agents[x.agent] \in Agent
  BY DEF AgentHeartbeat, At, EnrollInv, TypeOK, CallsOK, CallOK
<1>2. Go(c, rec)
  BY DEF AgentHeartbeat, RecordHeartbeat
<1>3. rec \in Call /\ rec.agent = x.agent /\ rec.now = clock /\ rec.pc = "beat"
  BY <1>1 DEF Call
<1> HIDE DEF rec
<1>4. agents[x.agent].enrolledAt <= clock
  BY <1>1 DEF EnrollInv, AgentTimesInOrder, Agent, Time
<1>5. CallOK(rec)
  BY <1>1, <1>3, <1>4 DEF CallOK, PackagePcs, RowLockPcs, Time
<1> QED BY <1>b, <1>2, <1>3, <1>5, NoLockApart, CallGoes DEF AgentHeartbeat, RowLockPcs

LEMMA CallFailsStep ==
    ASSUME EnrollInv, NEW c \in Callers, CallFails(c)
    PROVE  EnrollInv'
<1>1. BoundsOK'
  BY EnrollmentAssumption DEF CallFails, EnrollInv, TypeOK, BoundsOK
<1> QED BY <1>1, CallReturns DEF CallFails

----------------------------------------------------------------------------
(* Steps that write the audit table and no row. *)

LEMMA RecordAdds ==
    ASSUME audit \in [AuditRow -> Nat], NEW row \in AuditRow, Record(row)
    PROVE  /\ audit' \in [AuditRow -> Nat]
           /\ audit'[row] = audit[row] + 1
           /\ \A r \in AuditRow : r # row => audit'[r] = audit[r]
BY DEF Record

\* The audit rows that tell of packages and agents.
LEMMA RowsOfAudit ==
    /\ \A p \in Packages : /\ <<"deployment_package.created", p>> \in AuditRow
                           /\ <<"deployment_package.revoked", p>> \in AuditRow
                           /\ \A why \in rejectionReasons :
                                  <<"agent.enrollment_rejected", p, why>> \in AuditRow
    /\ \A a \in Agents : /\ <<"agent.enrolled", a>> \in AuditRow
                         /\ <<"agent.authentication_failed", a>> \in AuditRow
BY DEF AuditRow

\* What a step leaves alone when it tells of a rejection and changes no row.
LEMMA RowsUnchanged ==
    ASSUME EnrollInv, UNCHANGED <<packages, agents, clock>>
    PROVE  /\ RowsOK' /\ SeatsMatchAgents' /\ AgentTimesInOrder'
           /\ packages' \in [Packages -> Package] /\ agents' \in [Agents -> Agent] /\ clock' \in Time
           /\ \A x : CallOK(x) => CallOK(x)'
<1>1. \A x : CallOK(x) => CallOK(x)'
  BY DEF CallOK, CopyOf, ReasonTrue, HasSeat, WithInstall, Exists
<1>2. RowsOK' /\ AgentTimesInOrder'
  BY DEF EnrollInv, RowsOK, AgentTimesInOrder, Exists
<1>3. SeatsMatchAgents'
  BY DEF EnrollInv, SeatsMatchAgents, EnrolledThrough, InstallIdsAreUnique
<1> QED BY <1>1, <1>2, <1>3 DEF EnrollInv, TypeOK

LEMMA RejectStep ==
    ASSUME EnrollInv, NEW c \in Callers, recordRejection(c)
    PROVE  EnrollInv'
<1> DEFINE x == call[c]
           row == <<"agent.enrollment_rejected", x.pkg, x.reason>>
<1>1. /\ x \in Call /\ x.pkg \in Packages /\ packages[x.pkg].state # "absent"
      /\ x.reason \in rejectionReasons /\ ReasonTrue(x.pkg, x.reason)
  BY DEF recordRejection, At, EnrollInv, TypeOK, CallsOK, CallOK, PackagePcs
<1>2. /\ audit' \in [AuditRow -> Nat] /\ row \in AuditRow
      /\ \A r \in AuditRow : r # row => audit'[r] = audit[r]
  <2>1. row \in AuditRow /\ Record(row)
    BY <1>1, RowsOfAudit DEF recordRejection
  <2> HIDE DEF row
  <2> QED BY <2>1, RecordAdds DEF EnrollInv, TypeOK
<1>3. /\ RowsOK' /\ SeatsMatchAgents' /\ AgentTimesInOrder'
      /\ packages' \in [Packages -> Package] /\ agents' \in [Agents -> Agent] /\ clock' \in Time
      /\ \A y : CallOK(y) => CallOK(y)'
  BY RowsUnchanged DEF recordRejection
<1>4. call' \in [Callers -> Call] /\ CallsOK' /\ CallsApart'
  <2>1. CallOK(NoCall) /\ NoCall \in Call
    BY NoCallOK, RowsAreRows DEF EnrollInv, TypeOK
  <2> QED BY <1>3, <2>1, NoCallOK, CallsFollow DEF recordRejection, Return, EnrollInv, TypeOK
<1>5. TypeOK'
  BY <1>2, <1>3, <1>4 DEF TypeOK, EnrollInv, recordRejection
<1>6. AuditTellsLives'
  <2>1. /\ \A p \in Packages :
            /\ audit'[<<"deployment_package.created", p>>] = audit[<<"deployment_package.created", p>>]
            /\ audit'[<<"deployment_package.revoked", p>>] = audit[<<"deployment_package.revoked", p>>]
        /\ \A a \in Agents : audit'[<<"agent.enrolled", a>>] = audit[<<"agent.enrolled", a>>]
    BY <1>2, RowsOfAudit
  <2> QED BY <2>1 DEF recordRejection, EnrollInv, AuditTellsLives, Exists
<1>7. AbsentUntold'
  <2>1. ASSUME NEW p \in Packages, packages[p].state = "absent", NEW why \in rejectionReasons
        PROVE  /\ audit'[<<"deployment_package.revoked", p>>] = audit[<<"deployment_package.revoked", p>>]
               /\ audit'[<<"agent.enrollment_rejected", p, why>>] = audit[<<"agent.enrollment_rejected", p, why>>]
    BY <1>1, <1>2, <2>1, RowsOfAudit
  <2> QED BY <2>1 DEF recordRejection, EnrollInv, AbsentUntold, rejectionReasons
<1>8. AuditedReasonsTrue'
  <2>1. ASSUME NEW a \in Agents
        PROVE  audit'[<<"agent.authentication_failed", a>>] = audit[<<"agent.authentication_failed", a>>]
    BY <1>2, RowsOfAudit
  <2>2. ASSUME NEW p \in Packages, NEW why \in rejectionReasons,
               audit'[<<"agent.enrollment_rejected", p, why>>] > 0
        PROVE  ReasonTrue(p, why)
    <3>1. CASE p = x.pkg /\ why = x.reason
      BY <3>1, <1>1
    <3>2. CASE ~ (p = x.pkg /\ why = x.reason)
      <4>1. audit'[<<"agent.enrollment_rejected", p, why>>] = audit[<<"agent.enrollment_rejected", p, why>>]
        BY <3>2, <1>2, RowsOfAudit
      <4> QED BY <4>1, <2>2 DEF EnrollInv, AuditedReasonsTrue, ReasonTrue
    <3> QED BY <3>1, <3>2
  <2>3. \A p, why : ReasonTrue(p, why) => ReasonTrue(p, why)'
    BY DEF ReasonTrue, recordRejection
  <2> QED BY <2>1, <2>2, <2>3 DEF AuditedReasonsTrue, ReasonTrue, recordRejection, EnrollInv
<1> QED BY <1>3, <1>4, <1>5, <1>6, <1>7, <1>8 DEF EnrollInv


\* All calls stay as they are.
LEMMA CallsStay ==
    ASSUME EnrollInv, UNCHANGED call,
           \A x \in Call : CallOK(x) /\ (\E d \in Callers : x = call[d]) => CallOK(x)'
    PROVE  call' \in [Callers -> Call] /\ CallsOK' /\ CallsApart'
<1>1. call' \in [Callers -> Call]
  BY DEF EnrollInv, TypeOK
<1>2. ASSUME NEW d \in Callers PROVE CallOK(call[d])'
  <2>1. PICK x \in Call : x = call[d]
    BY DEF EnrollInv, TypeOK
  <2>2. CallOK(x)'
    BY <2>1 DEF EnrollInv, CallsOK
  <2>3. call'[d] = x
    BY <2>1
  <2> QED BY <2>2, <2>3 DEF CallOK, CopyOf, ReasonTrue, HasSeat, WithInstall, Exists
<1>3. CallsApart'
  BY DEF EnrollInv, CallsApart
<1> QED BY <1>1, <1>2, <1>3 DEF CallsOK

\* The call that ends its work leaves, and the others still know what they knew.
LEMMA CallsLeave ==
    ASSUME EnrollInv, NEW c \in Callers, Return(c), clock' \in Time,
           \A x \in Call : CallOK(x) /\ Apart(x, call[c]) => CallOK(x)'
    PROVE  call' \in [Callers -> Call] /\ CallsOK' /\ CallsApart'
<1>1. CallOK(NoCall)'
  BY RowsAreRows, EnrollmentAssumption DEF CallOK, PackagePcs, RowLockPcs, Time
<1> QED BY <1>1, RowsAreRows, NoCallOK, CallsFollow DEF Return, EnrollInv, TypeOK

LEMMA AuthStep ==
    ASSUME EnrollInv, NEW c \in Callers, NEW a \in Agents, RequireAuthenticatedAgent(c, a)
    PROVE  EnrollInv'
<1>b. BoundsOK'
  BY BeginBounds DEF RequireAuthenticatedAgent
<1>1. CASE agents[a].status = "active" /\ UNCHANGED audit /\ Go(c, [NoCall EXCEPT !.pc = "heartbeat", !.agent = a])
  <2> DEFINE rec == [NoCall EXCEPT !.pc = "heartbeat", !.agent = a]
  <2>1. Go(c, rec)
    BY <1>1
  <2>2. rec \in Call /\ rec.pc = "heartbeat" /\ rec.agent = a /\ rec.now = 0
    BY RowsAreRows DEF Call
  <2> HIDE DEF rec
  <2>3. CallOK(rec)
    BY <1>1, <2>2 DEF CallOK, EnrollInv, TypeOK, Time, RowLockPcs, PackagePcs
  <2> QED BY <1>1, <1>b, <2>1, <2>2, <2>3, NoLockApart, CallGoes DEF RequireAuthenticatedAgent, RowLockPcs
<1>2. CASE UNCHANGED <<audit, call>>
  BY <1>2, <1>b, CallUnchanged DEF RequireAuthenticatedAgent
<1>3. CASE /\ agents[a].status # "absent" /\ agents[a].status # "active" /\ UNCHANGED call
           /\ Record(<<"agent.authentication_failed", a>>)
  <2> DEFINE row == <<"agent.authentication_failed", a>>
  <2>1. /\ audit' \in [AuditRow -> Nat] /\ row \in AuditRow
        /\ \A r \in AuditRow : r # row => audit'[r] = audit[r]
    <3>1. row \in AuditRow /\ Record(row)
      BY <1>3, RowsOfAudit
    <3> HIDE DEF row
    <3> QED BY <3>1, RecordAdds DEF EnrollInv, TypeOK
  <2>2. /\ RowsOK' /\ SeatsMatchAgents' /\ AgentTimesInOrder'
        /\ packages' \in [Packages -> Package] /\ agents' \in [Agents -> Agent] /\ clock' \in Time
        /\ \A y : CallOK(y) => CallOK(y)'
    BY RowsUnchanged DEF RequireAuthenticatedAgent
  <2>3. call' \in [Callers -> Call] /\ CallsOK' /\ CallsApart'
    BY <1>3, <2>2, CallsStay
  <2>4. TypeOK'
    BY <1>b, <2>1, <2>2, <2>3 DEF TypeOK, BoundsOK
  <2>5. /\ \A p \in Packages :
            /\ audit'[<<"deployment_package.created", p>>] = audit[<<"deployment_package.created", p>>]
            /\ audit'[<<"deployment_package.revoked", p>>] = audit[<<"deployment_package.revoked", p>>]
            /\ \A why \in rejectionReasons : audit'[<<"agent.enrollment_rejected", p, why>>]
                                             = audit[<<"agent.enrollment_rejected", p, why>>]
        /\ \A b \in Agents : audit'[<<"agent.enrolled", b>>] = audit[<<"agent.enrolled", b>>]
    BY <2>1, RowsOfAudit
  <2>6. AuditTellsLives' /\ AbsentUntold'
    BY <2>5 DEF RequireAuthenticatedAgent, EnrollInv, AuditTellsLives, AbsentUntold, Exists
  <2>7. AuditedReasonsTrue'
    <3>1. ASSUME NEW b \in Agents, audit'[<<"agent.authentication_failed", b>>] > 0
          PROVE  agents[b].status = "disabled"
      <4>1. CASE b = a
        BY <4>1, <1>3 DEF EnrollInv, TypeOK, Agent
      <4>2. CASE b # a
        BY <4>2, <3>1, <2>1, RowsOfAudit DEF EnrollInv, AuditedReasonsTrue
      <4> QED BY <4>1, <4>2
    <3>2. ASSUME NEW p \in Packages, NEW why \in rejectionReasons,
                 audit'[<<"agent.enrollment_rejected", p, why>>] > 0
          PROVE  ReasonTrue(p, why)
      <4>1. audit[<<"agent.enrollment_rejected", p, why>>] > 0
        BY <3>2, <2>5
      <4> QED BY <4>1 DEF EnrollInv, AuditedReasonsTrue, ReasonTrue
    <3>3. \A p, why : ReasonTrue(p, why) => ReasonTrue(p, why)'
      BY DEF ReasonTrue, RequireAuthenticatedAgent
    <3> QED BY <3>1, <3>2, <3>3 DEF AuditedReasonsTrue, ReasonTrue, RequireAuthenticatedAgent
  <2> QED BY <2>2, <2>3, <2>4, <2>6, <2>7 DEF EnrollInv
<1> QED BY <1>1, <1>2, <1>3
        DEF RequireAuthenticatedAgent, AuthenticateAgent, recordAuthFailure, FindByCredentialHash

----------------------------------------------------------------------------
(* Steps that write rows. *)

\* Rejections stay true when no rejection is told and the reasons told before stay true.
LEMMA RejectionsFollow ==
    ASSUME EnrollInv,
           \A p \in Packages, why \in rejectionReasons :
               /\ audit'[<<"agent.enrollment_rejected", p, why>>] = audit[<<"agent.enrollment_rejected", p, why>>]
               /\ packages[p].state # "absent" /\ ReasonTrue(p, why) => ReasonTrue(p, why)',
           \A a \in Agents :
               /\ audit'[<<"agent.authentication_failed", a>>] = audit[<<"agent.authentication_failed", a>>]
               /\ agents[a].status = "disabled" => agents'[a].status = "disabled"
    PROVE  AuditedReasonsTrue'
<1>1. ASSUME NEW p \in Packages, NEW why \in rejectionReasons,
             audit'[<<"agent.enrollment_rejected", p, why>>] > 0
      PROVE  ReasonTrue(p, why)'
  <2>1. audit[<<"agent.enrollment_rejected", p, why>>] > 0
    BY <1>1
  <2>2. packages[p].state # "absent"
    <3>1. packages[p].state = "absent" => audit[<<"agent.enrollment_rejected", p, why>>] = 0
      BY DEF EnrollInv, AbsentUntold
    <3>2. ~ (0 > 0)
      OBVIOUS
    <3> QED BY <2>1, <3>1, <3>2
  <2>3. ReasonTrue(p, why)
    BY <2>1 DEF EnrollInv, AuditedReasonsTrue, ReasonTrue
  <2> QED BY <2>2, <2>3
<1>2. ASSUME NEW a \in Agents, audit'[<<"agent.authentication_failed", a>>] > 0
      PROVE  agents'[a].status = "disabled"
  BY <1>2 DEF EnrollInv, AuditedReasonsTrue
<1> QED BY <1>1, <1>2 DEF AuditedReasonsTrue, ReasonTrue

LEMMA CreateStep ==
    ASSUME EnrollInv, NEW c \in Callers, NEW p \in Packages, NEW ttl \in Lifetimes,
           NEW n \in 0 .. MaxUses, DeploymentPackagesCreate(c, p, ttl, n)
    PROVE  EnrollInv'
<1>b. BoundsOK'
  BY BeginBounds DEF DeploymentPackagesCreate
<1>1. CASE UNCHANGED <<packages, audit>>
  BY <1>1, <1>b, CallUnchanged DEF DeploymentPackagesCreate
<1>2. CASE validate(ttl, n) /\ insertPackage(p, ttl, n) /\ Record(<<"deployment_package.created", p>>)
  <2> DEFINE row == <<"deployment_package.created", p>>
             new == [state |-> "live", uses |-> 0, maxUses |-> n,
                     expiresAt |-> clock + ttl, revokedAt |-> Nil]
  <2>1. /\ audit' \in [AuditRow -> Nat] /\ row \in AuditRow /\ audit'[row] = audit[row] + 1
        /\ \A r \in AuditRow : r # row => audit'[r] = audit[r]
    <3>1. row \in AuditRow /\ Record(row)
      BY <1>2, RowsOfAudit
    <3> HIDE DEF row
    <3> QED BY <3>1, RecordAdds DEF EnrollInv, TypeOK
  <2>2. /\ packages[p] = NoPackage /\ UNCHANGED <<agents, call, clock>>
        /\ packages[p].uses = 0 /\ packages[p].state = "absent"
    BY <1>2, RowsAreRows DEF DeploymentPackagesCreate, insertPackage, EnrollInv, RowsOK
  <2>3. new \in Package /\ n > 0
    <3>1. clock + ttl \in Nat
      BY EnrollmentAssumption DEF EnrollInv, TypeOK, Time
    <3> QED BY <1>2, <3>1, EnrollmentAssumption DEF Package, validate
  <2>4. /\ packages' \in [Packages -> Package]
        /\ \A q \in Packages : q # p => packages'[q] = packages[q]
        /\ packages'[p].state = "live" /\ packages'[p].uses = 0 /\ packages'[p].maxUses = n
        /\ packages'[p].revokedAt = Nil
    <3>1. packages' = [packages EXCEPT ![p] = new]
      BY <1>2 DEF insertPackage
    <3>2. new.state = "live" /\ new.uses = 0 /\ new.maxUses = n /\ new.revokedAt = Nil
      OBVIOUS
    <3> HIDE DEF new
    <3> QED BY <2>3, <3>1, <3>2 DEF EnrollInv, TypeOK
  <2>5. \A a \in Agents : agents[a].pkg # p
    BY <2>2, EnrollmentAssumption DEF EnrollInv, RowsOK, Exists
  <2>6. ASSUME NEW x \in Call, CallOK(x) PROVE CallOK(x)'
    <3>1. CASE x.pc \notin PackagePcs
      BY <3>1, <2>6, <2>2 DEF CallOK, PackagePcs, RowLockPcs
    <3>2. CASE x.pc \in PackagePcs
      <4>1. x.pkg \in Packages /\ x.pkg # p
        BY <3>2, <2>6, <2>2 DEF CallOK
      <4>2. packages'[x.pkg] = packages[x.pkg]
        BY <4>1, <2>4
      <4> QED BY <4>1, <4>2, <2>2, <2>6, <3>2
              DEF CallOK, CopyOf, ReasonTrue, HasSeat, WithInstall, Exists, PackagePcs
    <3> QED BY <3>1, <3>2
  <2>7. call' \in [Callers -> Call] /\ CallsOK' /\ CallsApart'
    BY <2>2, <2>6, CallsStay
  <2>8. TypeOK'
    BY <1>b, <2>1, <2>2, <2>4, <2>7 DEF TypeOK, BoundsOK, EnrollInv
  <2>9. RowsOK'
    BY <2>2, <2>3, <2>4, <2>5, EnrollmentAssumption DEF EnrollInv, TypeOK, Agent, RowsOK, Exists
  <2>10. SeatsMatchAgents'
    <3>1. \A q : EnrolledThrough(q)' = EnrolledThrough(q)
      BY <2>2 DEF EnrolledThrough
    <3>2. InstallIdsAreUnique'
      BY <2>2 DEF EnrollInv, SeatsMatchAgents, InstallIdsAreUnique
    <3> QED BY <2>2, <2>3, <2>4, <3>1, <3>2 DEF EnrollInv, SeatsMatchAgents
  <2>11. \A q \in Packages :
            /\ q # p => audit'[<<"deployment_package.created", q>>] = audit[<<"deployment_package.created", q>>]
            /\ audit'[<<"deployment_package.revoked", q>>] = audit[<<"deployment_package.revoked", q>>]
            /\ \A why \in rejectionReasons : audit'[<<"agent.enrollment_rejected", q, why>>]
                                             = audit[<<"agent.enrollment_rejected", q, why>>]
    BY <2>1, RowsOfAudit
  <2>12. \A b \in Agents : /\ audit'[<<"agent.enrolled", b>>] = audit[<<"agent.enrolled", b>>]
                           /\ audit'[<<"agent.authentication_failed", b>>]
                              = audit[<<"agent.authentication_failed", b>>]
    BY <2>1, RowsOfAudit
  <2>13. AbsentUntold'
    BY <2>4, <2>11 DEF EnrollInv, AbsentUntold
  <2>14. AuditTellsLives'
    <3>1. ASSUME NEW q \in Packages
          PROVE  /\ audit'[<<"deployment_package.created", q>>] = IF packages'[q].state = "absent" THEN 0 ELSE 1
                 /\ Exists(q)' => audit'[<<"deployment_package.revoked", q>>]
                                   = IF packages'[q].revokedAt = Nil THEN 0 ELSE 1
      <4>1. CASE q = p
        <5>1. audit[<<"deployment_package.created", p>>] = 0 /\ audit[<<"deployment_package.revoked", p>>] = 0
          BY <2>2 DEF EnrollInv, AuditTellsLives, AbsentUntold
        <5> QED BY <4>1, <5>1, <2>1, <2>4, <2>11
      <4>2. CASE q # p
        BY <4>2, <2>4, <2>11 DEF EnrollInv, AuditTellsLives, Exists
      <4> QED BY <4>1, <4>2
    <3> QED BY <3>1, <2>2, <2>12 DEF EnrollInv, AuditTellsLives
  <2>15. AuditedReasonsTrue'
    <3>1. ASSUME NEW q \in Packages, NEW why \in rejectionReasons, packages[q].state # "absent",
                 ReasonTrue(q, why)
          PROVE  ReasonTrue(q, why)'
      BY <3>1, <2>2, <2>4 DEF ReasonTrue
    <3> QED BY <3>1, <2>2, <2>11, <2>12, RejectionsFollow
  <2>16. AgentTimesInOrder'
    BY <2>2, <2>4, <2>5 DEF EnrollInv, AgentTimesInOrder, TypeOK, Agent
  <2> QED BY <2>7, <2>8, <2>9, <2>10, <2>13, <2>14, <2>15, <2>16 DEF EnrollInv
<1> QED BY <1>1, <1>2 DEF DeploymentPackagesCreate, CreatePackage


\* The rows EnrollCommit finds and leaves.
LEMMA EnrollCommitRows ==
    ASSUME EnrollInv, NEW c \in Callers, EnrollCommit(c),
           NEW p \in Packages, NEW a \in Agents, NEW x \in Call,
           x = call[c], p = x.pkg, a = x.agent
    PROVE  /\ x.pc = "commit" /\ CallOK(x) /\ x.now \in Time /\ OrgOf[p] \in Orgs /\ p # Nil
           /\ agents[a].status = "absent" /\ WithInstall(OrgOf[p], x.install) = {} /\ Exists(p)
           /\ packages[p].uses < packages[p].maxUses /\ packages[p].expiresAt > x.now
           /\ packages[p].revokedAt = Nil /\ agents[a].pkg = Nil /\ agents[a].org = Nil
           /\ packages' \in [Packages -> Package] /\ agents' \in [Agents -> Agent]
           /\ \A q \in Packages : q # p => packages'[q] = packages[q]
           /\ packages'[p].uses = packages[p].uses + 1 /\ packages'[p].state = packages[p].state
           /\ packages'[p].maxUses = packages[p].maxUses
           /\ packages'[p].expiresAt = packages[p].expiresAt
           /\ packages'[p].revokedAt = packages[p].revokedAt
           /\ \A b \in Agents : b # a => agents'[b] = agents[b]
           /\ agents'[a].status = "active" /\ agents'[a].pkg = p /\ agents'[a].org = OrgOf[p]
           /\ agents'[a].install = x.install
           /\ agents'[a].enrolledAt = x.now /\ agents'[a].lastSeenAt = x.now
<1> DEFINE new == [status |-> "active", pkg |-> p, org |-> OrgOf[p], install |-> x.install,
                   enrolledAt |-> x.now, lastSeenAt |-> x.now]
<1>1. /\ x.pc = "commit" /\ CallOK(x)
      /\ x.now \in Time /\ x.install \in InstallIds \cup {NoInstall} /\ OrgOf[p] \in Orgs
      /\ p # Nil /\ packages \in [Packages -> Package] /\ agents \in [Agents -> Agent]
  BY EnrollmentAssumption DEF EnrollCommit, At, EnrollInv, TypeOK, CallsOK, Call
<1>2. /\ agents[a].status = "absent" /\ WithInstall(OrgOf[p], x.install) = {} /\ Exists(p)
      /\ packages[p].uses < packages[p].maxUses /\ packages[p].expiresAt > x.now
      /\ packages[p].revokedAt = Nil
  BY <1>1 DEF CallOK, RowLockPcs, HasSeat
<1>3. agents[a].pkg = Nil /\ agents[a].org = Nil
  BY <1>1, <1>2, RowsAreRows DEF EnrollInv, RowsOK, NoAgent
<1>4. /\ packages' \in [Packages -> Package]
      /\ \A q \in Packages : q # p => packages'[q] = packages[q]
      /\ packages'[p].uses = packages[p].uses + 1 /\ packages'[p].state = packages[p].state
      /\ packages'[p].maxUses = packages[p].maxUses /\ packages'[p].expiresAt = packages[p].expiresAt
      /\ packages'[p].revokedAt = packages[p].revokedAt
  <2> DEFINE r == [packages[p] EXCEPT !.uses = @ + 1]
  <2>1. packages' = [packages EXCEPT ![p] = r]
    BY DEF EnrollCommit
  <2>2. packages[p] \in Package
    BY <1>1
  <2>3. packages[p].uses + 1 \in 0 .. MaxUses
    BY <1>2, <2>2, EnrollmentAssumption DEF Package
  <2>4. /\ r \in Package /\ r.uses = packages[p].uses + 1 /\ r.state = packages[p].state
        /\ r.maxUses = packages[p].maxUses /\ r.expiresAt = packages[p].expiresAt
        /\ r.revokedAt = packages[p].revokedAt
    BY <2>2, <2>3 DEF Package
  <2> HIDE DEF r
  <2> QED BY <1>1, <2>1, <2>4
<1>5. /\ new \in Agent /\ new.status = "active" /\ new.pkg = p /\ new.org = OrgOf[p]
      /\ new.install = x.install /\ new.enrolledAt = x.now /\ new.lastSeenAt = x.now
  BY <1>1 DEF Agent
<1>6. /\ agents' \in [Agents -> Agent] /\ agents'[a] = new
      /\ \A b \in Agents : b # a => agents'[b] = agents[b]
  <2>1. agents' = [agents EXCEPT ![a] = new]
    BY DEF EnrollCommit
  <2> HIDE DEF new
  <2> QED BY <1>1, <1>5, <2>1
<1> HIDE DEF new
<1> QED BY <1>1, <1>2, <1>3, <1>4, <1>5, <1>6

LEMMA EnrollCommitStep ==
    ASSUME EnrollInv, NEW c \in Callers, EnrollCommit(c)
    PROVE  EnrollInv'
<1>0. PICK x \in Call, p \in Packages, a \in Agents : x = call[c] /\ p = x.pkg /\ a = x.agent
  BY DEF EnrollCommit, At, EnrollInv, TypeOK, CallsOK, CallOK, PackagePcs
<1> DEFINE row == <<"agent.enrolled", a>>
<1>1. /\ x.pc = "commit" /\ CallOK(x) /\ x.now \in Time /\ OrgOf[p] \in Orgs /\ p # Nil
      /\ packages \in [Packages -> Package] /\ agents \in [Agents -> Agent]
      /\ x.now <= clock /\ clock \in Time
  <2>1. /\ x.pc = "commit" /\ CallOK(x) /\ x.now \in Time /\ OrgOf[p] \in Orgs /\ p # Nil
    BY <1>0, EnrollCommitRows
  <2> QED BY <2>1 DEF EnrollInv, TypeOK, CallOK
<1>2. /\ agents[a].status = "absent" /\ WithInstall(OrgOf[p], x.install) = {} /\ Exists(p)
      /\ packages[p].uses < packages[p].maxUses /\ packages[p].expiresAt > x.now
      /\ packages[p].revokedAt = Nil
  BY <1>0, EnrollCommitRows
<1>3. agents[a].pkg = Nil /\ agents[a].org = Nil
  BY <1>0, EnrollCommitRows
<1>4. /\ packages' \in [Packages -> Package]
      /\ \A q \in Packages : q # p => packages'[q] = packages[q]
      /\ packages'[p].uses = packages[p].uses + 1 /\ packages'[p].state = packages[p].state
      /\ packages'[p].maxUses = packages[p].maxUses /\ packages'[p].expiresAt = packages[p].expiresAt
      /\ packages'[p].revokedAt = packages[p].revokedAt
  BY <1>0, EnrollCommitRows
<1>5. /\ agents'[a].status = "active" /\ agents'[a].pkg = p /\ agents'[a].org = OrgOf[p]
      /\ agents'[a].install = x.install /\ agents'[a].enrolledAt = x.now /\ agents'[a].lastSeenAt = x.now
  BY <1>0, EnrollCommitRows
<1>6. agents' \in [Agents -> Agent] /\ \A b \in Agents : b # a => agents'[b] = agents[b]
  BY <1>0, EnrollCommitRows
<1>7. /\ audit' \in [AuditRow -> Nat] /\ row \in AuditRow /\ audit'[row] = audit[row] + 1
      /\ \A r \in AuditRow : r # row => audit'[r] = audit[r]
  <2>1. row \in AuditRow /\ Record(row)
    BY <1>0, RowsOfAudit DEF EnrollCommit
  <2> HIDE DEF row
  <2> QED BY <2>1, RecordAdds DEF EnrollInv, TypeOK
<1>8. /\ \A q \in Packages :
          /\ audit'[<<"deployment_package.created", q>>] = audit[<<"deployment_package.created", q>>]
          /\ audit'[<<"deployment_package.revoked", q>>] = audit[<<"deployment_package.revoked", q>>]
          /\ \A why \in rejectionReasons : audit'[<<"agent.enrollment_rejected", q, why>>]
                                           = audit[<<"agent.enrollment_rejected", q, why>>]
      /\ \A b \in Agents : /\ b # a => audit'[<<"agent.enrolled", b>>] = audit[<<"agent.enrolled", b>>]
                           /\ audit'[<<"agent.authentication_failed", b>>]
                              = audit[<<"agent.authentication_failed", b>>]
  BY <1>7, RowsOfAudit
<1>c. clock' = clock /\ Return(c) /\ UNCHANGED <<requests, faults>>
  BY <1>0 DEF EnrollCommit
<1> HIDE DEF row
<1>9. ASSUME NEW q \in Packages, NEW why, ReasonTrue(q, why)
      PROVE  ReasonTrue(q, why)'
  <2>1. (\E b \in Agents : agents[b].org = OrgOf[q] /\ agents[b].install # NoInstall)
          => \E b \in Agents : agents'[b].org = OrgOf[q] /\ agents'[b].install # NoInstall
    <3>1. OrgOf[q] # Nil
      BY EnrollmentAssumption
    <3> QED BY <1>3, <1>6, <3>1
  <2> QED BY <1>c, <1>2, <1>4, <1>9, <2>1 DEF ReasonTrue, Package
<1>10. ASSUME NEW y \in Call, CallOK(y), Apart(y, x)
       PROVE  CallOK(y)'
  <2>1. y.pc \in PackagePcs => y.pkg \in Packages /\ packages'[y.pkg].state # "absent"
    BY <1>4, <1>10 DEF CallOK
  <2>2. y.pc = "precheck" => CopyOf(y.copy, y.pkg)'
    <3> SUFFICES ASSUME y.pc = "precheck" PROVE CopyOf(y.copy, y.pkg)'
      OBVIOUS
    <3>1. y.pkg \in Packages /\ CopyOf(y.copy, y.pkg) /\ y.copy \in Package
      BY <1>10 DEF CallOK, PackagePcs, Call
    <3>2. packages[y.pkg] \in Package
      BY <1>1, <3>1
    <3> QED BY <1>4, <3>1, <3>2 DEF CopyOf, Package
  <2>3. y.pc = "reject" => y.reason \in rejectionReasons /\ ReasonTrue(y.pkg, y.reason)'
    BY <1>9, <1>10 DEF CallOK, PackagePcs
  <2>4. y.pc \in RowLockPcs => y.pkg \in Packages /\ packages'[y.pkg] = packages[y.pkg]
    BY <1>0, <1>1, <1>4, <1>10 DEF CallOK, Apart, RowLockPcs, PackagePcs
  <2>5. y.pc = "commit" => /\ y.agent \in Agents /\ agents'[y.agent].status = "absent"
                           /\ WithInstall(OrgOf[y.pkg], y.install)' = {}
    <3> SUFFICES ASSUME y.pc = "commit"
                 PROVE  /\ y.agent \in Agents /\ agents'[y.agent].status = "absent"
                        /\ WithInstall(OrgOf[y.pkg], y.install)' = {}
      OBVIOUS
    <3>1. /\ y.agent \in Agents /\ agents[y.agent].status = "absent" /\ y.agent # a
          /\ WithInstall(OrgOf[y.pkg], y.install) = {}
          /\ y.install # NoInstall => ~ (OrgOf[y.pkg] = OrgOf[p] /\ y.install = x.install)
      BY <1>0, <1>1, <1>10 DEF CallOK, Apart
    <3> QED BY <1>5, <1>6, <3>1 DEF WithInstall
  <2>7. WithInstall(OrgOf[y.pkg], y.install) # {} => WithInstall(OrgOf[y.pkg], y.install)' # {}
    BY <1>2, <1>6 DEF WithInstall
  <2>6. y.pc \in {"heartbeat", "beat"} => y.agent \in Agents /\ agents'[y.agent] = agents[y.agent]
    BY <1>2, <1>6, <1>10 DEF CallOK
  <2> QED BY <1>c, <1>10, <2>1, <2>2, <2>3, <2>4, <2>5, <2>6, <2>7
          DEF CallOK, HasSeat, Exists, RowLockPcs
<1>11. call' \in [Callers -> Call] /\ CallsOK' /\ CallsApart'
  BY <1>0, <1>c, <1>1, <1>10, CallsLeave
<1>12. TypeOK'
  BY <1>c, <1>4, <1>6, <1>7, <1>11 DEF TypeOK, EnrollInv
<1>13. RowsOK'
  BY <1>2, <1>4, <1>5, <1>6 DEF RowsOK, EnrollInv, TypeOK, Agent, Exists
<1>14. SeatsMatchAgents'
  <2>1. EnrolledThrough(p)' = EnrolledThrough(p) \cup {a} /\ a \notin EnrolledThrough(p)
    BY <1>1, <1>3, <1>5, <1>6 DEF EnrolledThrough
  <2>2. IsFiniteSet(EnrolledThrough(p))
    BY EnrollmentAssumption, FS_Subset DEF EnrolledThrough
  <2>3. Cardinality(EnrolledThrough(p)') = Cardinality(EnrolledThrough(p)) + 1
    BY <2>1, <2>2, FS_AddElement
  <2>4. \A q \in Packages : q # p => EnrolledThrough(q)' = EnrolledThrough(q)
    BY <1>1, <1>3, <1>5, <1>6, EnrollmentAssumption DEF EnrolledThrough
  <2>5. packages[p] \in Package
    BY <1>1
  <2>6. ASSUME NEW q \in Packages
        PROVE  /\ packages'[q].uses = Cardinality(EnrolledThrough(q)')
               /\ packages'[q].uses <= packages'[q].maxUses
    <3>1. packages[q].uses = Cardinality(EnrolledThrough(q)) /\ packages[q].uses <= packages[q].maxUses
      BY DEF EnrollInv, SeatsMatchAgents
    <3>2. CASE q = p
      BY <3>1, <3>2, <1>2, <1>4, <2>3, <2>5 DEF Package
    <3>3. CASE q # p
      BY <3>1, <3>3, <1>4, <2>4
    <3> QED BY <3>2, <3>3
  <2>7. InstallIdsAreUnique'
    BY <1>2, <1>5, <1>6 DEF EnrollInv, SeatsMatchAgents, InstallIdsAreUnique, WithInstall
  <2> QED BY <2>6, <2>7 DEF SeatsMatchAgents
<1>15. AuditedReasonsTrue'
  BY <1>2, <1>6, <1>8, <1>9, RejectionsFollow
<1>16. AbsentUntold'
  <2>1. \A q \in Packages : packages'[q].state = packages[q].state
    BY <1>4
  <2> QED BY <1>8, <2>1 DEF EnrollInv, AbsentUntold
<1>17. AuditTellsLives'
  <2>1. audit'[<<"agent.enrolled", a>>] = 1
    BY <1>1, <1>2, <1>7 DEF EnrollInv, AuditTellsLives, row
  <2>2. \A b \in Agents : audit'[<<"agent.enrolled", b>>] = IF agents'[b].status = "absent" THEN 0 ELSE 1
    <3> SUFFICES ASSUME NEW b \in Agents
                 PROVE  audit'[<<"agent.enrolled", b>>] = IF agents'[b].status = "absent" THEN 0 ELSE 1
      OBVIOUS
    <3>1. CASE b = a
      BY <3>1, <1>5, <1>6, <2>1
    <3>2. CASE b # a
      BY <3>2, <1>6, <1>8 DEF EnrollInv, AuditTellsLives
    <3> QED BY <3>1, <3>2
  <2>3. \A q \in Packages : packages'[q].state = packages[q].state /\ packages'[q].revokedAt = packages[q].revokedAt
    BY <1>4
  <2> QED BY <1>8, <2>2, <2>3 DEF EnrollInv, AuditTellsLives, Exists
<1>18. AgentTimesInOrder'
  <2>1. \A q \in Packages : packages'[q].expiresAt = packages[q].expiresAt
    BY <1>4
  <2>2. ASSUME NEW b \in Agents, agents'[b].status # "absent"
        PROVE  /\ agents'[b].enrolledAt <= agents'[b].lastSeenAt /\ agents'[b].lastSeenAt <= clock
               /\ agents'[b].pkg # Nil => agents'[b].enrolledAt < packages'[agents'[b].pkg].expiresAt
    <3>1. CASE b = a
      <4>1. packages[p].expiresAt \in Nat
        BY <1>1 DEF Package
      <4> QED BY <3>1, <4>1, <1>1, <1>2, <1>5, <1>6, <2>1 DEF Time
    <3>2. CASE b # a
      BY <3>2, <2>2, <1>1, <1>6, <2>1 DEF EnrollInv, AgentTimesInOrder, Agent
    <3> QED BY <3>1, <3>2
  <2> QED BY <1>c, <2>2 DEF AgentTimesInOrder
<1> QED BY <1>11, <1>12, <1>13, <1>14, <1>15, <1>16, <1>17, <1>18 DEF EnrollInv


\* The package RevokeCommit finds and leaves.
LEMMA RevokeCommitRows ==
    ASSUME EnrollInv, NEW c \in Callers, RevokeCommit(c),
           NEW p \in Packages, NEW x \in Call, x = call[c], p = x.pkg
    PROVE  /\ x.pc = "revoking" /\ CallOK(x) /\ Exists(p) /\ packages[p].revokedAt = Nil
           /\ packages' \in [Packages -> Package]
           /\ \A q \in Packages : /\ q # p => packages'[q] = packages[q]
                                  /\ packages'[q].uses = packages[q].uses
                                  /\ packages'[q].state = packages[q].state
                                  /\ packages'[q].maxUses = packages[q].maxUses
                                  /\ packages'[q].expiresAt = packages[q].expiresAt
                                  /\ packages[q].revokedAt # Nil => packages'[q].revokedAt # Nil
           /\ packages'[p].revokedAt # Nil
<1> DEFINE r == [packages[p] EXCEPT !.revokedAt = x.now]
<1>1. /\ x.pc = "revoking" /\ CallOK(x) /\ x.now \in Time
      /\ packages \in [Packages -> Package] /\ Exists(p) /\ packages[p].revokedAt = Nil
  BY DEF RevokeCommit, At, EnrollInv, TypeOK, CallsOK, CallOK, Call, RowLockPcs
<1>2. packages' = [packages EXCEPT ![p] = r]
  BY DEF RevokeCommit
<1>3. packages[p] \in Package /\ x.now # Nil
  BY <1>1, EnrollmentAssumption DEF Time
<1>4. /\ r \in Package /\ r.uses = packages[p].uses /\ r.state = packages[p].state
      /\ r.maxUses = packages[p].maxUses /\ r.expiresAt = packages[p].expiresAt
      /\ r.revokedAt = x.now
  BY <1>1, <1>3 DEF Package
<1> HIDE DEF r
<1> QED BY <1>1, <1>2, <1>3, <1>4

LEMMA RevokeCommitStep ==
    ASSUME EnrollInv, NEW c \in Callers, RevokeCommit(c)
    PROVE  EnrollInv'
<1>0. PICK x \in Call, p \in Packages : x = call[c] /\ p = x.pkg
  BY DEF RevokeCommit, At, EnrollInv, TypeOK, CallsOK, CallOK, PackagePcs
<1> DEFINE row == <<"deployment_package.revoked", p>>
<1>1. /\ x.pc = "revoking" /\ CallOK(x) /\ clock \in Time
      /\ Exists(p) /\ packages[p].revokedAt = Nil
  <2>1. x.pc = "revoking" /\ CallOK(x) /\ Exists(p) /\ packages[p].revokedAt = Nil
    BY <1>0, RevokeCommitRows
  <2> QED BY <2>1 DEF EnrollInv, TypeOK
<1>2. Return(c) /\ UNCHANGED <<agents, clock, requests, faults>>
  BY DEF RevokeCommit
<1>3. /\ packages' \in [Packages -> Package]
      /\ \A q \in Packages : /\ q # p => packages'[q] = packages[q]
                             /\ packages'[q].uses = packages[q].uses
                             /\ packages'[q].state = packages[q].state
                             /\ packages'[q].maxUses = packages[q].maxUses
                             /\ packages'[q].expiresAt = packages[q].expiresAt
                             /\ packages[q].revokedAt # Nil => packages'[q].revokedAt # Nil
      /\ packages'[p].revokedAt # Nil
  BY <1>0, RevokeCommitRows
<1>4. /\ audit' \in [AuditRow -> Nat] /\ row \in AuditRow /\ audit'[row] = audit[row] + 1
      /\ \A r \in AuditRow : r # row => audit'[r] = audit[r]
  <2>1. row \in AuditRow /\ Record(row)
    BY <1>0, RowsOfAudit DEF RevokeCommit
  <2> HIDE DEF row
  <2> QED BY <2>1, RecordAdds DEF EnrollInv, TypeOK
<1>5. /\ \A q \in Packages :
          /\ audit'[<<"deployment_package.created", q>>] = audit[<<"deployment_package.created", q>>]
          /\ q # p => audit'[<<"deployment_package.revoked", q>>] = audit[<<"deployment_package.revoked", q>>]
          /\ \A why \in rejectionReasons : audit'[<<"agent.enrollment_rejected", q, why>>]
                                           = audit[<<"agent.enrollment_rejected", q, why>>]
      /\ \A b \in Agents : /\ audit'[<<"agent.enrolled", b>>] = audit[<<"agent.enrolled", b>>]
                           /\ audit'[<<"agent.authentication_failed", b>>]
                              = audit[<<"agent.authentication_failed", b>>]
  BY <1>4, RowsOfAudit
<1>6. ASSUME NEW q \in Packages, NEW why, ReasonTrue(q, why)
      PROVE  ReasonTrue(q, why)'
  BY <1>2, <1>3, <1>6 DEF ReasonTrue
<1>7. ASSUME NEW y \in Call, CallOK(y), Apart(y, x)
      PROVE  CallOK(y)'
  <2>1. y.pc \in PackagePcs => y.pkg \in Packages /\ packages'[y.pkg].state # "absent"
    BY <1>3, <1>7 DEF CallOK
  <2>2. y.pc = "precheck" => CopyOf(y.copy, y.pkg)'
    BY <1>3, <1>7 DEF CallOK, CopyOf, PackagePcs
  <2>3. y.pc = "reject" => y.reason \in rejectionReasons /\ ReasonTrue(y.pkg, y.reason)'
    BY <1>6, <1>7 DEF CallOK, PackagePcs
  <2>4. y.pc \in RowLockPcs => y.pkg \in Packages /\ packages'[y.pkg] = packages[y.pkg]
    BY <1>0, <1>1, <1>3, <1>7 DEF CallOK, Apart, RowLockPcs, PackagePcs
  <2>5. WithInstall(OrgOf[y.pkg], y.install)' = WithInstall(OrgOf[y.pkg], y.install)
    BY <1>2 DEF WithInstall
  <2> QED BY <1>2, <1>7, <2>1, <2>2, <2>3, <2>4, <2>5
          DEF CallOK, HasSeat, Exists, RowLockPcs
<1>8. call' \in [Callers -> Call] /\ CallsOK' /\ CallsApart'
  BY <1>0, <1>2, <1>1, <1>7, CallsLeave
<1>9. TypeOK'
  BY <1>2, <1>3, <1>4, <1>8 DEF TypeOK, EnrollInv
<1>10. RowsOK'
  <2>1. \A q \in Packages : packages'[q].state = "absent" => packages'[q] = packages[q]
    BY <1>1, <1>3 DEF Exists
  <2> QED BY <1>2, <1>3, <2>1, EnrollmentAssumption DEF RowsOK, EnrollInv, TypeOK, Agent, Exists
<1>11. SeatsMatchAgents'
  <2>1. \A q : EnrolledThrough(q)' = EnrolledThrough(q)
    BY <1>2 DEF EnrolledThrough
  <2>2. InstallIdsAreUnique'
    BY <1>2 DEF EnrollInv, SeatsMatchAgents, InstallIdsAreUnique
  <2> QED BY <1>3, <2>1, <2>2 DEF EnrollInv, SeatsMatchAgents
<1>12. AuditedReasonsTrue'
  BY <1>2, <1>5, <1>6, RejectionsFollow
<1>13. AbsentUntold'
  <2>1. ASSUME NEW q \in Packages, packages'[q].state = "absent"
        PROVE  packages[q].state = "absent" /\ q # p
    BY <1>1, <1>3, <2>1 DEF Exists
  <2> QED BY <1>5, <2>1 DEF EnrollInv, AbsentUntold
<1>14. AuditTellsLives'
  <2>1. audit'[<<"deployment_package.revoked", p>>] = 1
    <3>1. audit[<<"deployment_package.revoked", p>>] = 0
      BY <1>1 DEF EnrollInv, AuditTellsLives
    <3> QED BY <1>4, <3>1
  <2>2. ASSUME NEW q \in Packages
        PROVE  /\ audit'[<<"deployment_package.created", q>>] = IF packages'[q].state = "absent" THEN 0 ELSE 1
               /\ Exists(q)' => audit'[<<"deployment_package.revoked", q>>]
                                 = IF packages'[q].revokedAt = Nil THEN 0 ELSE 1
    <3>1. audit'[<<"deployment_package.created", q>>] = IF packages'[q].state = "absent" THEN 0 ELSE 1
      BY <1>3, <1>5 DEF EnrollInv, AuditTellsLives
    <3>2. CASE q = p
      BY <3>1, <3>2, <1>3, <2>1
    <3>3. CASE q # p
      BY <3>1, <3>3, <1>3, <1>5 DEF EnrollInv, AuditTellsLives, Exists
    <3> QED BY <3>2, <3>3
  <2> QED BY <2>2, <1>2, <1>5 DEF EnrollInv, AuditTellsLives
<1>15. AgentTimesInOrder'
  BY <1>2, <1>3 DEF EnrollInv, AgentTimesInOrder, TypeOK, Agent
<1> QED BY <1>8, <1>9, <1>10, <1>11, <1>12, <1>13, <1>14, <1>15 DEF EnrollInv

\* The agent rows are the same but for what seats, keys and times do not read.
LEMMA UpdateHeartbeatStep ==
    ASSUME EnrollInv, NEW c \in Callers, UpdateHeartbeat(c)
    PROVE  EnrollInv'
<1> DEFINE x == call[c]
<1>0. PICK a \in Agents : a = x.agent
  BY DEF UpdateHeartbeat, At, EnrollInv, TypeOK, CallsOK, CallOK
<1>1. /\ x \in Call /\ x.pc = "beat" /\ CallOK(x) /\ x.now \in Time /\ clock \in Time
      /\ x.now <= clock /\ agents[a].enrolledAt <= x.now /\ agents[a].status # "absent"
      /\ agents \in [Agents -> Agent]
  BY <1>0 DEF UpdateHeartbeat, At, EnrollInv, TypeOK, CallsOK, CallOK, Call
<1>2. Return(c) /\ UNCHANGED <<packages, audit, clock, requests, faults>>
  BY DEF UpdateHeartbeat
<1>3. /\ agents' \in [Agents -> Agent] /\ agents'[a].lastSeenAt = x.now
      /\ \A b \in Agents : /\ b # a => agents'[b] = agents[b]
                           /\ agents'[b].status = agents[b].status
                           /\ agents'[b].pkg = agents[b].pkg
                           /\ agents'[b].org = agents[b].org
                           /\ agents'[b].install = agents[b].install
                           /\ agents'[b].enrolledAt = agents[b].enrolledAt
  <2> DEFINE r == [agents[a] EXCEPT !.lastSeenAt = x.now]
  <2>1. agents' = [agents EXCEPT ![a] = r]
    BY <1>0 DEF UpdateHeartbeat
  <2>2. agents[a] \in Agent
    BY <1>1
  <2>3. /\ r \in Agent /\ r.status = agents[a].status /\ r.pkg = agents[a].pkg
        /\ r.org = agents[a].org /\ r.install = agents[a].install
        /\ r.enrolledAt = agents[a].enrolledAt /\ r.lastSeenAt = x.now
    BY <1>1, <2>2 DEF Agent
  <2> HIDE DEF r
  <2> QED BY <1>1, <2>1, <2>3
<1>4. \A q, why : ReasonTrue(q, why) => ReasonTrue(q, why)'
  BY <1>2, <1>3 DEF ReasonTrue
<1>5. ASSUME NEW y \in Call, CallOK(y)
      PROVE  CallOK(y)'
  <2>1. WithInstall(OrgOf[y.pkg], y.install)' = WithInstall(OrgOf[y.pkg], y.install)
    BY <1>3 DEF WithInstall
  <2>2. CopyOf(y.copy, y.pkg) => CopyOf(y.copy, y.pkg)'
    BY <1>2 DEF CopyOf
  <2> QED BY <1>2, <1>3, <1>4, <1>5, <2>1, <2>2 DEF CallOK, HasSeat, Exists
<1>6. call' \in [Callers -> Call] /\ CallsOK' /\ CallsApart'
  BY <1>2, <1>1, <1>5, CallsLeave
<1>7. TypeOK'
  BY <1>2, <1>3, <1>6 DEF TypeOK, EnrollInv
<1>8. RowsOK' /\ AbsentUntold'
  <2>1. \A b \in Agents : agents'[b].status = "absent" => agents'[b] = agents[b]
    BY <1>1, <1>3
  <2> QED BY <1>2, <1>3, <2>1 DEF RowsOK, AbsentUntold, EnrollInv, Exists
<1>9. SeatsMatchAgents'
  <2>1. \A q : EnrolledThrough(q)' = EnrolledThrough(q)
    BY <1>3 DEF EnrolledThrough
  <2>2. InstallIdsAreUnique'
    BY <1>3 DEF EnrollInv, SeatsMatchAgents, InstallIdsAreUnique
  <2> QED BY <1>2, <2>1, <2>2 DEF EnrollInv, SeatsMatchAgents
<1>10. AuditedReasonsTrue'
  BY <1>2, <1>3, <1>4, RejectionsFollow
<1>11. AuditTellsLives'
  BY <1>2, <1>3 DEF EnrollInv, AuditTellsLives, Exists
<1>12. AgentTimesInOrder'
  BY <1>1, <1>2, <1>3 DEF EnrollInv, AgentTimesInOrder
<1> QED BY <1>6, <1>7, <1>8, <1>9, <1>10, <1>11, <1>12 DEF EnrollInv

LEMMA DisableAgentStep ==
    ASSUME EnrollInv, NEW a \in Agents, DisableAgent(a)
    PROVE  EnrollInv'
<1>1. /\ UNCHANGED <<packages, audit, call, clock, requests>> /\ faults' \in 0 .. MaxFaults
      /\ agents \in [Agents -> Agent] /\ agents[a].status = "active"
  BY EnrollmentAssumption DEF DisableAgent, EnrollInv, TypeOK
<1>2. /\ agents' \in [Agents -> Agent] /\ agents'[a].status = "disabled"
      /\ \A b \in Agents : /\ b # a => agents'[b] = agents[b]
                           /\ agents'[b].lastSeenAt = agents[b].lastSeenAt
                           /\ agents'[b].pkg = agents[b].pkg
                           /\ agents'[b].org = agents[b].org
                           /\ agents'[b].install = agents[b].install
                           /\ agents'[b].enrolledAt = agents[b].enrolledAt
  <2> DEFINE r == [agents[a] EXCEPT !.status = "disabled"]
  <2>1. agents' = [agents EXCEPT ![a] = r]
    BY DEF DisableAgent
  <2>2. agents[a] \in Agent
    BY <1>1
  <2>3. /\ r \in Agent /\ r.status = "disabled" /\ r.pkg = agents[a].pkg
        /\ r.org = agents[a].org /\ r.install = agents[a].install
        /\ r.enrolledAt = agents[a].enrolledAt /\ r.lastSeenAt = agents[a].lastSeenAt
    BY <1>1, <2>2 DEF Agent
  <2> HIDE DEF r
  <2> QED BY <1>1, <2>1, <2>3
<1>3. \A b \in Agents : agents'[b].status = "absent" <=> agents[b].status = "absent"
  BY <1>1, <1>2
<1>4. \A q, why : ReasonTrue(q, why) => ReasonTrue(q, why)'
  BY <1>1, <1>2 DEF ReasonTrue
<1>5. ASSUME NEW y \in Call, CallOK(y)
      PROVE  CallOK(y)'
  <2>1. WithInstall(OrgOf[y.pkg], y.install)' = WithInstall(OrgOf[y.pkg], y.install)
    BY <1>2, <1>3 DEF WithInstall
  <2>2. CopyOf(y.copy, y.pkg) => CopyOf(y.copy, y.pkg)'
    BY <1>1 DEF CopyOf
  <2> QED BY <1>1, <1>2, <1>3, <1>4, <1>5, <2>1, <2>2 DEF CallOK, HasSeat, Exists
<1>6. call' \in [Callers -> Call] /\ CallsOK' /\ CallsApart'
  BY <1>1, <1>5, CallsStay
<1>7. TypeOK'
  BY <1>1, <1>2, <1>6 DEF TypeOK, EnrollInv
<1>8. RowsOK' /\ AbsentUntold'
  <2>1. \A b \in Agents : agents'[b].status = "absent" => agents'[b] = agents[b]
    BY <1>1, <1>2
  <2> QED BY <1>1, <1>2, <2>1 DEF RowsOK, AbsentUntold, EnrollInv, Exists
<1>9. SeatsMatchAgents'
  <2>1. \A q : EnrolledThrough(q)' = EnrolledThrough(q)
    BY <1>2 DEF EnrolledThrough
  <2>2. InstallIdsAreUnique'
    BY <1>2, <1>3 DEF EnrollInv, SeatsMatchAgents, InstallIdsAreUnique
  <2> QED BY <1>1, <2>1, <2>2 DEF EnrollInv, SeatsMatchAgents
<1>10. AuditedReasonsTrue'
  BY <1>1, <1>2, <1>4, RejectionsFollow
<1>11. AuditTellsLives'
  BY <1>1, <1>3 DEF EnrollInv, AuditTellsLives, Exists
<1>12. AgentTimesInOrder'
  BY <1>1, <1>2, <1>3 DEF EnrollInv, AgentTimesInOrder
<1> QED BY <1>6, <1>7, <1>8, <1>9, <1>10, <1>11, <1>12 DEF EnrollInv

LEMMA TickStep ==
    ASSUME EnrollInv, Tick
    PROVE  EnrollInv'
<1>1. /\ UNCHANGED <<packages, agents, audit, call, requests, faults>>
      /\ clock \in Nat /\ clock' = clock + 1 /\ clock' \in Time
  BY EnrollmentAssumption DEF Tick, EnrollInv, TypeOK, Time
<1>2. ASSUME NEW q \in Packages, NEW why, ReasonTrue(q, why) PROVE ReasonTrue(q, why)'
  BY <1>1, <1>2 DEF ReasonTrue, EnrollInv, TypeOK, Package
<1>3. ASSUME NEW y \in Call, CallOK(y) PROVE CallOK(y)'
  <2>1. y.now <= clock'
    BY <1>1, <1>3 DEF CallOK, Call, Time
  <2>2. CopyOf(y.copy, y.pkg) => CopyOf(y.copy, y.pkg)'
    BY <1>1 DEF CopyOf
  <2>3. WithInstall(OrgOf[y.pkg], y.install)' = WithInstall(OrgOf[y.pkg], y.install)
    BY <1>1 DEF WithInstall
  <2> QED BY <1>1, <1>2, <1>3, <2>1, <2>2, <2>3 DEF CallOK, HasSeat, Exists, PackagePcs
<1>4. call' \in [Callers -> Call] /\ CallsOK' /\ CallsApart'
  BY <1>1, <1>3, CallsStay
<1>5. TypeOK'
  BY <1>1, <1>4 DEF TypeOK, EnrollInv
<1>6. RowsOK' /\ AbsentUntold' /\ AuditTellsLives'
  BY <1>1 DEF RowsOK, AbsentUntold, AuditTellsLives, EnrollInv, Exists
<1>7. SeatsMatchAgents'
  BY <1>1 DEF EnrollInv, SeatsMatchAgents, EnrolledThrough, InstallIdsAreUnique
<1>8. AuditedReasonsTrue'
  BY <1>1, <1>2, RejectionsFollow
<1>9. AgentTimesInOrder'
  BY <1>1 DEF EnrollInv, AgentTimesInOrder, TypeOK, Agent, Time
<1> QED BY <1>4, <1>5, <1>6, <1>7, <1>8, <1>9 DEF EnrollInv


\* The rows DeletePackage leaves.
LEMMA DeletePackageRows ==
    ASSUME EnrollInv, NEW p \in Packages, DeletePackage(p)
    PROVE  /\ packages' \in [Packages -> Package] /\ agents' \in [Agents -> Agent]
           /\ \A q \in Packages : q # p => packages'[q] = packages[q]
           /\ packages'[p].state = "deleted" /\ packages'[p].uses = 0 /\ packages'[p].maxUses = 0
           /\ \A b \in Agents : /\ agents[b].pkg # p => agents'[b] = agents[b]
                                /\ agents'[b].pkg = IF agents[b].pkg = p THEN Nil ELSE agents[b].pkg
                                /\ agents'[b].status = agents[b].status
                                /\ agents'[b].org = agents[b].org
                                /\ agents'[b].install = agents[b].install
                                /\ agents'[b].enrolledAt = agents[b].enrolledAt
                                /\ agents'[b].lastSeenAt = agents[b].lastSeenAt
<1> DEFINE gone == [NoPackage EXCEPT !.state = "deleted"]
<1>1. packages \in [Packages -> Package] /\ agents \in [Agents -> Agent]
  BY DEF DeletePackage, EnrollInv, TypeOK
<1>2. /\ packages' \in [Packages -> Package]
      /\ \A q \in Packages : q # p => packages'[q] = packages[q]
      /\ packages'[p].state = "deleted" /\ packages'[p].uses = 0 /\ packages'[p].maxUses = 0
  <2>1. packages' = [packages EXCEPT ![p] = gone]
    BY DEF DeletePackage
  <2>2. gone \in Package /\ gone.state = "deleted" /\ gone.uses = 0 /\ gone.maxUses = 0
    BY RowsAreRows DEF Package
  <2> HIDE DEF gone
  <2> QED BY <1>1, <2>1, <2>2
<1>3. /\ agents' \in [Agents -> Agent]
      /\ \A b \in Agents : /\ agents[b].pkg # p => agents'[b] = agents[b]
                           /\ agents'[b].pkg = IF agents[b].pkg = p THEN Nil ELSE agents[b].pkg
                           /\ agents'[b].status = agents[b].status
                           /\ agents'[b].org = agents[b].org
                           /\ agents'[b].install = agents[b].install
                           /\ agents'[b].enrolledAt = agents[b].enrolledAt
                           /\ agents'[b].lastSeenAt = agents[b].lastSeenAt
  <2> DEFINE loose(b) == [agents[b] EXCEPT !.pkg = Nil]
  <2>1. agents' = [b \in Agents |-> IF agents[b].pkg = p THEN loose(b) ELSE agents[b]]
    BY DEF DeletePackage
  <2>2. ASSUME NEW b \in Agents
        PROVE  /\ loose(b) \in Agent /\ loose(b).pkg = Nil /\ loose(b).status = agents[b].status
               /\ loose(b).org = agents[b].org /\ loose(b).install = agents[b].install
               /\ loose(b).enrolledAt = agents[b].enrolledAt
               /\ loose(b).lastSeenAt = agents[b].lastSeenAt
    <3>1. agents[b] \in Agent
      BY <1>1
    <3> QED BY <3>1 DEF Agent
  <2> HIDE DEF loose
  <2> QED BY <1>1, <2>1, <2>2
<1> QED BY <1>2, <1>3

LEMMA DeletePackageStep ==
    ASSUME EnrollInv, NEW p \in Packages, DeletePackage(p)
    PROVE  EnrollInv'
<1>1. /\ UNCHANGED <<audit, call, clock, requests>> /\ faults' \in 0 .. MaxFaults
      /\ Exists(p) /\ Unlocked(p)
  BY EnrollmentAssumption DEF DeletePackage, EnrollInv, TypeOK
<1>2. /\ packages' \in [Packages -> Package]
      /\ \A q \in Packages : q # p => packages'[q] = packages[q]
      /\ packages'[p].state = "deleted" /\ packages'[p].uses = 0 /\ packages'[p].maxUses = 0
  BY DeletePackageRows
<1>3. /\ agents' \in [Agents -> Agent]
      /\ \A b \in Agents : /\ agents[b].pkg # p => agents'[b] = agents[b]
                           /\ agents'[b].pkg = IF agents[b].pkg = p THEN Nil ELSE agents[b].pkg
                           /\ agents'[b].status = agents[b].status
                           /\ agents'[b].org = agents[b].org
                           /\ agents'[b].install = agents[b].install
                           /\ agents'[b].enrolledAt = agents[b].enrolledAt
                           /\ agents'[b].lastSeenAt = agents[b].lastSeenAt
  BY DeletePackageRows
<1>4. ASSUME NEW q \in Packages, NEW why, ReasonTrue(q, why) PROVE ReasonTrue(q, why)'
  BY <1>1, <1>2, <1>3, <1>4 DEF ReasonTrue
<1>5. ASSUME NEW y \in Call, CallOK(y), NEW d \in Callers, y = call[d] PROVE CallOK(y)'
  <2>1. y.pc \in PackagePcs => y.pkg \in Packages /\ packages'[y.pkg].state # "absent"
    BY <1>2, <1>5 DEF CallOK
  <2>2. y.pc = "precheck" => CopyOf(y.copy, y.pkg)'
    BY <1>2, <1>5 DEF CallOK, CopyOf, PackagePcs
  <2>3. y.pc = "reject" => y.reason \in rejectionReasons /\ ReasonTrue(y.pkg, y.reason)'
    BY <1>4, <1>5 DEF CallOK, PackagePcs
  <2>4. y.pc \in RowLockPcs => y.pkg \in Packages /\ packages'[y.pkg] = packages[y.pkg]
    BY <1>1, <1>2, <1>5 DEF CallOK, Unlocked, RowLockPcs, PackagePcs
  <2>5. WithInstall(OrgOf[y.pkg], y.install)' = WithInstall(OrgOf[y.pkg], y.install)
    BY <1>3 DEF WithInstall
  <2> QED BY <1>1, <1>3, <1>5, <2>1, <2>2, <2>3, <2>4, <2>5 DEF CallOK, HasSeat, Exists, RowLockPcs
<1>6. call' \in [Callers -> Call] /\ CallsOK' /\ CallsApart'
  BY <1>1, <1>5, CallsStay
<1>7. TypeOK'
  BY <1>1, <1>2, <1>3, <1>6 DEF TypeOK, EnrollInv
<1>8. RowsOK'
  <2>1. \A b \in Agents : agents'[b].status = "absent" => agents'[b] = NoAgent
    BY <1>3, RowsAreRows, EnrollmentAssumption DEF EnrollInv, RowsOK
  <2>2. \A b \in Agents : agents'[b].pkg # Nil => Exists(agents[b].pkg) /\ agents'[b].pkg # p
                                                 /\ agents'[b].pkg = agents[b].pkg
    BY <1>3 DEF EnrollInv, RowsOK
  <2>3. \A b \in Agents : agents'[b].pkg # Nil => agents'[b].pkg \in Packages
    BY <1>3 DEF Agent
  <2>4. \A b \in Agents : agents'[b].pkg # Nil => packages'[agents'[b].pkg].state = "live"
    BY <1>2, <2>2, <2>3 DEF Exists
  <2>5. \A q \in Packages : /\ packages'[q].state = "absent" => packages'[q] = NoPackage
                            /\ packages'[q].state = "deleted" => packages'[q].maxUses = 0
                            /\ Exists(q)' => packages'[q].maxUses > 0
    BY <1>2 DEF EnrollInv, RowsOK, Exists
  <2> QED BY <2>1, <2>4, <2>5 DEF RowsOK, Exists
<1>9. SeatsMatchAgents'
  <2>1. EnrolledThrough(p)' = {}
    BY <1>3, EnrollmentAssumption DEF EnrolledThrough
  <2>2. \A q \in Packages : q # p => EnrolledThrough(q)' = EnrolledThrough(q)
    BY <1>3, EnrollmentAssumption DEF EnrolledThrough
  <2>3. Cardinality({}) = 0
    BY FS_EmptySet
  <2>4. InstallIdsAreUnique'
    BY <1>3 DEF EnrollInv, SeatsMatchAgents, InstallIdsAreUnique
  <2>5. ASSUME NEW q \in Packages
        PROVE  /\ packages'[q].uses = Cardinality(EnrolledThrough(q)')
               /\ packages'[q].uses <= packages'[q].maxUses
    <3>1. CASE q = p
      <4>1. 0 <= 0
        OBVIOUS
      <4> QED BY <1>2, <2>1, <2>3, <3>1, <4>1
    <3>2. CASE q # p
      BY <1>2, <2>2, <3>2 DEF EnrollInv, SeatsMatchAgents
    <3> QED BY <3>1, <3>2
  <2> QED BY <2>4, <2>5 DEF SeatsMatchAgents
<1>10. AuditedReasonsTrue'
  BY <1>1, <1>3, <1>4, RejectionsFollow
<1>11. AbsentUntold'
  BY <1>1, <1>2 DEF EnrollInv, AbsentUntold
<1>12. AuditTellsLives'
  <2>1. \A q \in Packages : /\ packages'[q].state = "absent" <=> packages[q].state = "absent"
                            /\ Exists(q)' => Exists(q) /\ packages'[q] = packages[q]
    BY <1>1, <1>2 DEF Exists
  <2> QED BY <1>1, <1>3, <2>1 DEF EnrollInv, AuditTellsLives
<1>13. AgentTimesInOrder'
  BY <1>1, <1>2, <1>3 DEF EnrollInv, AgentTimesInOrder, TypeOK, Agent
<1> QED BY <1>6, <1>7, <1>8, <1>9, <1>10, <1>11, <1>12, <1>13 DEF EnrollInv

----------------------------------------------------------------------------
(* The theorems. *)

LEMMA InitEstablishes == Init => EnrollInv
<1> SUFFICES ASSUME Init PROVE EnrollInv
  OBVIOUS
<1>1. /\ \A p \in Packages : packages[p] = NoPackage
      /\ \A a \in Agents : agents[a] = NoAgent
      /\ \A r \in AuditRow : audit[r] = 0
      /\ \A c \in Callers : call[c] = NoCall
  BY DEF Init
<1>2. clock \in Time /\ requests \in 0 .. MaxRequests /\ faults \in 0 .. MaxFaults
  BY EnrollmentAssumption DEF Init, Time
<1>3. TypeOK
  BY <1>2, RowsAreRows DEF Init, TypeOK
<1>4. RowsOK
  BY <1>1, RowsAreRows DEF RowsOK, Exists
<1>5. CallsOK /\ CallsApart
  BY <1>1, <1>2, NoCallOK DEF CallsOK, CallsApart
<1>6. SeatsMatchAgents
  <2>1. \A p \in Packages : EnrolledThrough(p) = {}
    BY <1>1, RowsAreRows, EnrollmentAssumption DEF EnrolledThrough
  <2> QED BY <1>1, <2>1, RowsAreRows, FS_EmptySet DEF SeatsMatchAgents, InstallIdsAreUnique
<1>7. AuditedReasonsTrue /\ AbsentUntold
  <2>1. /\ \A p \in Packages : audit[<<"deployment_package.revoked", p>>] = 0
        /\ \A p \in Packages, why \in rejectionReasons : audit[<<"agent.enrollment_rejected", p, why>>] = 0
        /\ \A a \in Agents : audit[<<"agent.authentication_failed", a>>] = 0
    BY <1>1, RowsOfAudit
  <2>2. ~ (0 > 0)
    OBVIOUS
  <2>3. AuditedReasonsTrue
    BY <2>1, <2>2, Zenon DEF AuditedReasonsTrue
  <2> QED BY <2>1, <2>3 DEF AbsentUntold
<1>8. AuditTellsLives
  BY <1>1, RowsAreRows, RowsOfAudit DEF AuditTellsLives, Exists
<1>9. AgentTimesInOrder
  BY <1>1, RowsAreRows DEF AgentTimesInOrder
<1> QED BY <1>3, <1>4, <1>5, <1>6, <1>7, <1>8, <1>9 DEF EnrollInv

LEMMA NextPreserves == EnrollInv /\ [Next]_vars => EnrollInv'
<1> SUFFICES ASSUME EnrollInv, [Next]_vars PROVE EnrollInv'
  OBVIOUS
<1>1. CASE UNCHANGED vars
  <2>1. BoundsOK'
    BY <1>1 DEF vars, EnrollInv, TypeOK, BoundsOK
  <2> QED BY <1>1, <2>1, CallUnchanged DEF vars
<1>2. ASSUME NEW c \in Callers, Step(c) PROVE EnrollInv'
  BY <1>2, PrecheckStep, IncrementStep, ClassifyStep, CreateAgentStep, EnrollCommitStep,
     RejectStep, RevokeUpdateStep, RevokeCommitStep, HeartbeatStep, UpdateHeartbeatStep DEF Step
<1> QED BY <1>1, <1>2, TickStep, DeletePackageStep, DisableAgentStep, CallFailsStep, CreateStep,
           LookupStep, RevokeReadStep, AuthStep DEF Next

LEMMA EnrollInvHolds == Spec => []EnrollInv
BY InitEstablishes, NextPreserves, PTL DEF Spec

\* For any number of packages, agents and callers, however their transactions interleave and
\* wherever they fail, uses_count is the number of agents enrolled through the package and at
\* most max_uses, and an installation id belongs to one agent of its organization.
THEOREM SeatsMatchAgentsHolds == Spec => []SeatsMatchAgents
<1>1. EnrollInv => SeatsMatchAgents
  BY DEF EnrollInv
<1> QED BY EnrollInvHolds, <1>1, PTL

\* The reason of every audited rejection is true of its package, for any number of callers
\* whose copies are out of date; an installation refused as enrolled already has an agent of its
\* organization with its id, and an agent refused by name is not active.
THEOREM RejectionsAreTrueHolds == Spec => []RejectionsAreTrue
<1>1. EnrollInv => RejectionsAreTrue
  <2> SUFFICES ASSUME EnrollInv PROVE RejectionsAreTrue
    OBVIOUS
  <2>1. ASSUME NEW c \in Callers, At(c, "reject"), call[c].reason = "install_id_already_enrolled"
        PROVE  WithInstall(OrgOf[call[c].pkg], call[c].install) # {}
    <3>1. CallOK(call[c])
      BY DEF EnrollInv, CallsOK
    <3> QED BY <2>1, <3>1 DEF CallOK, At
  <2>2. AuditedReasonsTrue
    BY DEF EnrollInv
  <2> QED BY <2>1, <2>2 DEF AuditedReasonsTrue, ReasonTrue, RejectionsAreTrue
<1> QED BY EnrollInvHolds, <1>1, PTL

\* Types, one audit event per life, and agents stamped within their package's lifetime.
THEOREM TablesAgreeHolds == Spec => []TablesAgree
<1>1. EnrollInv => TablesAgree
  BY DEF EnrollInv, TablesAgree
<1> QED BY EnrollInvHolds, <1>1, PTL


----------------------------------------------------------------------------
(* Enrollment implements SeatQuota. *)

\* What the mapping does not see is a stutter.
LEMMA QuotaStutters ==
    ASSUME \A q \in Packages : /\ packages'[q].maxUses = packages[q].maxUses
                               /\ packages'[q].state = packages[q].state
                               /\ packages'[q].revokedAt = Nil <=> packages[q].revokedAt = Nil,
           \A b \in Agents : agents'[b].pkg = agents[b].pkg
    PROVE  UNCHANGED Quota!vars
<1>1. \A q \in Packages : EnrolledThrough(q)' = EnrolledThrough(q)
  BY DEF EnrolledThrough
<1>2. [q \in Packages |-> packages[q].maxUses]' = [q \in Packages |-> packages[q].maxUses]
  OBVIOUS
<1>3. {q \in Packages : packages[q].state = "deleted" \/ packages[q].revokedAt # Nil}'
      = {q \in Packages : packages[q].state = "deleted" \/ packages[q].revokedAt # Nil}
  OBVIOUS
<1>4. [q \in Packages |-> EnrolledThrough(q)]' = [q \in Packages |-> EnrolledThrough(q)]
  BY <1>1
<1> QED BY <1>2, <1>3, <1>4 DEF Quota!vars

\* CreatePackage issues the package.
LEMMA CreateIssues ==
    ASSUME EnrollInv, EnrollInv', NEW c \in Callers, NEW p \in Packages, NEW ttl \in Lifetimes,
           NEW n \in 0 .. MaxUses, DeploymentPackagesCreate(c, p, ttl, n)
    PROVE  Quota!Issue(p) \/ UNCHANGED Quota!vars
<1>1. CASE UNCHANGED packages
  <2>1. UNCHANGED agents
    BY DEF DeploymentPackagesCreate
  <2> QED BY <1>1, <2>1, QuotaStutters
<1>2. CASE validate(ttl, n) /\ insertPackage(p, ttl, n)
  <2> DEFINE Cap == [q \in Packages |-> packages[q].maxUses]
             Closed == {q \in Packages : packages[q].state = "deleted" \/ packages[q].revokedAt # Nil}
             Seats == [q \in Packages |-> EnrolledThrough(q)]
  <2>1. packages[p] = NoPackage /\ UNCHANGED agents
    BY <1>2 DEF DeploymentPackagesCreate, insertPackage, EnrollInv, RowsOK
  <2>2. /\ packages[p].maxUses = 0 /\ packages[p].revokedAt = Nil /\ packages[p].state = "absent"
    BY <2>1, RowsAreRows
  <2>3. /\ \A q \in Packages : q # p => packages'[q] = packages[q]
        /\ packages'[p].state = "live" /\ packages'[p].maxUses = n /\ packages'[p].revokedAt = Nil
    BY <1>2 DEF insertPackage, EnrollInv, TypeOK
  <2>4. Cap[p] = 0 /\ p \notin Closed /\ UNCHANGED Closed
    BY <2>2, <2>3
  <2>5. Cap' = [Cap EXCEPT ![p] = n] /\ Cap'[p] = n
    BY <2>3
  <2>6. n \in Nat \ {0}
    BY <1>2, EnrollmentAssumption DEF validate
  <2>7. UNCHANGED Seats
    BY <2>1 DEF EnrolledThrough
  <2> QED BY <2>4, <2>5, <2>6, <2>7 DEF Quota!Issue
<1> QED BY <1>1, <1>2 DEF DeploymentPackagesCreate, CreatePackage

\* EnrollCommit takes a seat.
LEMMA CommitTakes ==
    ASSUME EnrollInv, NEW c \in Callers, EnrollCommit(c)
    PROVE  \E p \in Packages, a \in Agents : Quota!Take(p, a)
<1>0. PICK x \in Call, p \in Packages, a \in Agents : x = call[c] /\ p = x.pkg /\ a = x.agent
  BY DEF EnrollCommit, At, EnrollInv, TypeOK, CallsOK, CallOK, PackagePcs
<1> DEFINE Cap == [q \in Packages |-> packages[q].maxUses]
           Closed == {q \in Packages : packages[q].state = "deleted" \/ packages[q].revokedAt # Nil}
           Seats == [q \in Packages |-> EnrolledThrough(q)]
<1>1. /\ p # Nil /\ Exists(p) /\ packages[p].uses < packages[p].maxUses
      /\ packages[p].revokedAt = Nil /\ agents[a].pkg = Nil
      /\ \A q \in Packages : q # p => packages'[q] = packages[q]
      /\ packages'[p].maxUses = packages[p].maxUses /\ packages'[p].state = packages[p].state
      /\ packages'[p].revokedAt = packages[p].revokedAt
      /\ \A b \in Agents : b # a => agents'[b] = agents[b]
      /\ agents'[a].pkg = p
  BY <1>0, EnrollCommitRows
<1>2. Cardinality(Seats[p]) < Cap[p]
  BY <1>1 DEF EnrollInv, SeatsMatchAgents
<1>3. p \notin Closed
  BY <1>1 DEF Exists
<1>4. \A q \in Packages : a \notin Seats[q]
  BY <1>1, EnrollmentAssumption DEF EnrolledThrough
<1>5. Seats' = [Seats EXCEPT ![p] = @ \cup {a}]
  <2>1. EnrolledThrough(p)' = EnrolledThrough(p) \cup {a}
    BY <1>1 DEF EnrolledThrough
  <2>2. \A q \in Packages : q # p => EnrolledThrough(q)' = EnrolledThrough(q)
    BY <1>1, EnrollmentAssumption DEF EnrolledThrough
  <2> QED BY <2>1, <2>2
<1>6. UNCHANGED <<Cap, Closed>>
  <2>1. \A q \in Packages : /\ packages'[q].maxUses = packages[q].maxUses
                            /\ packages'[q].state = packages[q].state
                            /\ packages'[q].revokedAt = packages[q].revokedAt
    BY <1>1
  <2> QED BY <2>1
<1>7. Quota!Cardinality(Seats[p]) = Cardinality(Seats[p])
  BY Zenon DEF Quota!Cardinality, Cardinality
<1>8. Quota!Take(p, a)
  BY <1>7, <1>2, <1>3, <1>4, <1>5, <1>6 DEF Quota!Take
<1> QED BY <1>8

\* RevokeCommit closes the package.
LEMMA RevokeCloses ==
    ASSUME EnrollInv, NEW c \in Callers, RevokeCommit(c)
    PROVE  \E p \in Packages : Quota!Close(p)
<1>0. PICK x \in Call, p \in Packages : x = call[c] /\ p = x.pkg
  BY DEF RevokeCommit, At, EnrollInv, TypeOK, CallsOK, CallOK, PackagePcs
<1> DEFINE Cap == [q \in Packages |-> packages[q].maxUses]
           Closed == {q \in Packages : packages[q].state = "deleted" \/ packages[q].revokedAt # Nil}
           Seats == [q \in Packages |-> EnrolledThrough(q)]
<1>1. /\ Exists(p) /\ packages[p].revokedAt = Nil
      /\ \A q \in Packages : /\ q # p => packages'[q] = packages[q]
                             /\ packages'[q].state = packages[q].state
                             /\ packages'[q].maxUses = packages[q].maxUses
      /\ packages'[p].revokedAt # Nil
  BY <1>0, RevokeCommitRows
<1>2. Cap[p] > 0
  BY <1>1 DEF EnrollInv, RowsOK
<1>3. p \notin Closed
  BY <1>1 DEF Exists
<1>4. Closed' = Closed \cup {p}
  BY <1>1
<1>5. UNCHANGED Cap
  BY <1>1
<1>6. UNCHANGED Seats
  BY DEF RevokeCommit, EnrolledThrough
<1>7. Quota!Close(p)
  BY <1>2, <1>3, <1>4, <1>5, <1>6 DEF Quota!Close
<1> QED BY <1>7

\* Deleting the row withdraws the package.
LEMMA DeleteWithdraws ==
    ASSUME EnrollInv, NEW p \in Packages, DeletePackage(p)
    PROVE  Quota!Withdraw(p)
<1> DEFINE Cap == [q \in Packages |-> packages[q].maxUses]
           Closed == {q \in Packages : packages[q].state = "deleted" \/ packages[q].revokedAt # Nil}
           Seats == [q \in Packages |-> EnrolledThrough(q)]
<1>1. /\ \A q \in Packages : q # p => packages'[q] = packages[q]
      /\ packages'[p].state = "deleted" /\ packages'[p].maxUses = 0
      /\ \A b \in Agents : agents'[b].pkg = IF agents[b].pkg = p THEN Nil ELSE agents[b].pkg
  BY DeletePackageRows
<1>2. Cap[p] > 0
  BY DEF DeletePackage, EnrollInv, RowsOK
<1>3. Cap' = [Cap EXCEPT ![p] = 0]
  BY <1>1
<1>4. Closed' = Closed \cup {p}
  BY <1>1
<1>5. Seats' = [Seats EXCEPT ![p] = {}]
  <2>1. EnrolledThrough(p)' = {}
    BY <1>1, EnrollmentAssumption DEF EnrolledThrough
  <2>2. \A q \in Packages : q # p => EnrolledThrough(q)' = EnrolledThrough(q)
    BY <1>1, EnrollmentAssumption DEF EnrolledThrough
  <2> QED BY <2>1, <2>2
<1> QED BY <1>2, <1>3, <1>4, <1>5 DEF Quota!Withdraw

\* The calls of Enrollment implement SeatQuota: for any number of callers, a seat is taken only
\* of an open package with a seat left, by an agent that has none, and no closed package opens.
THEOREM EnrollmentImplementsSeatQuota == Spec => ImplementsSeatQuota
<1>1. Init => Quota!Init
  <2> SUFFICES ASSUME Init PROVE Quota!Init
    OBVIOUS
  <2>1. \A p \in Packages : packages[p] = NoPackage
    BY DEF Init
  <2>2. \A a \in Agents : agents[a].pkg = Nil
    BY RowsAreRows DEF Init
  <2>3. \A p \in Packages : packages[p].maxUses = 0 /\ packages[p].state = "absent" /\ packages[p].revokedAt = Nil
    BY <2>1, RowsAreRows
  <2>4. \A p \in Packages : EnrolledThrough(p) = {}
    BY <2>2, EnrollmentAssumption DEF EnrolledThrough
  <2> QED BY <2>3, <2>4 DEF Quota!Init
<1>2. EnrollInv /\ EnrollInv' /\ [Next]_vars => [Quota!Next]_Quota!vars
  <2> SUFFICES ASSUME EnrollInv, EnrollInv', [Next]_vars PROVE Quota!Next \/ UNCHANGED Quota!vars
    BY DEF Quota!Next
  <2>1. CASE UNCHANGED <<packages, agents>>
    BY <2>1, QuotaStutters
  <2>2. ASSUME NEW c \in Callers, Step(c) PROVE Quota!Next \/ UNCHANGED Quota!vars
    <3>1. CASE EnrollCommit(c)
      BY <3>1, CommitTakes DEF Quota!Next
    <3>2. CASE RevokeCommit(c)
      BY <3>2, RevokeCloses DEF Quota!Next
    <3>3. CASE UpdateHeartbeat(c)
      <4>1. UNCHANGED packages /\ \A b \in Agents : agents'[b].pkg = agents[b].pkg
        BY <3>3 DEF UpdateHeartbeat, EnrollInv, TypeOK, Agent
      <4> QED BY <4>1, QuotaStutters
    <3> QED BY <2>1, <2>2, <3>1, <3>2, <3>3
            DEF Step, EnrollPrecheck, IncrementUses, classifyIncrementFailure, CreateAgent,
                recordRejection, RevokeUpdate, AgentHeartbeat
  <2>3. ASSUME NEW p \in Packages, DeletePackage(p) PROVE Quota!Next \/ UNCHANGED Quota!vars
    BY <2>3, DeleteWithdraws DEF Quota!Next
  <2>4. ASSUME NEW a \in Agents, DisableAgent(a) PROVE Quota!Next \/ UNCHANGED Quota!vars
    <3>1. UNCHANGED packages /\ \A b \in Agents : agents'[b].pkg = agents[b].pkg
      BY <2>4 DEF DisableAgent, EnrollInv, TypeOK, Agent
    <3> QED BY <3>1, QuotaStutters
  <2>5. ASSUME NEW c \in Callers, NEW p \in Packages, NEW ttl \in Lifetimes, NEW n \in 0 .. MaxUses,
               DeploymentPackagesCreate(c, p, ttl, n)
        PROVE  Quota!Next \/ UNCHANGED Quota!vars
    BY <2>5, CreateIssues DEF Quota!Next
  <2>6. CASE \/ Tick \/ UNCHANGED vars
             \/ \E c \in Callers :
                   \/ CallFails(c)
                   \/ \E p \in Packages, i \in InstallIds \cup {NoInstall} : AgentsEnroll(c, p, i)
                   \/ \E p \in Packages, o \in Orgs : DeploymentPackagesRevoke(c, p, o)
                   \/ \E a \in Agents : RequireAuthenticatedAgent(c, a)
    BY <2>6, <2>1 DEF Tick, vars, CallFails, AgentsEnroll, DeploymentPackagesRevoke,
                      RequireAuthenticatedAgent
  <2> QED BY <2>2, <2>3, <2>4, <2>5, <2>6 DEF Next
<1> QED BY EnrollInvHolds, <1>1, <1>2, PTL DEF Spec, ImplementsSeatQuota, Quota!Spec
=============================================================================
