----------------------------- MODULE Enrollment -----------------------------
(***************************************************************************)
(* Deployment packages and the agents that enroll through them             *)
(* (backend/internal/enrollment and its repositories): creating and        *)
(* revoking a package, redeeming its bootstrap secret, and the heartbeats  *)
(* of an enrolled agent.                                                   *)
(*                                                                         *)
(* The rows in the variables are committed rows.  A transaction runs READ  *)
(* COMMITTED: between its conditional UPDATE and its commit the call holds *)
(* the lock of the package row, and what it wrote is in its call record    *)
(* only.  Each call may meet a database error anywhere.  Answers to the    *)
(* client are not state, so a commit whose acknowledgement is lost is a    *)
(* commit.                                                                 *)
(***************************************************************************)
EXTENDS Naturals, FiniteSets

CONSTANTS
    Packages, Agents, Callers, Orgs,
    InstallIds,    \* the installation ids agents send; NoInstall when they send none
    NoInstall,
    OrgOf,         \* the organization of each package
    MaxUses,       \* the largest max_uses an operator asks for
    Lifetimes,     \* the ttl values an operator asks for
    MaxClock,      \* bound of the model: the last clock value
    MaxRequests,   \* bound of the model: requests that are started
    MaxFaults,     \* bound of the model: errors and lost acknowledgements
    Nil

ASSUME EnrollmentAssumption ==
    /\ IsFiniteSet(Agents) /\ IsFiniteSet(Packages)
    /\ Cardinality(Agents) >= MaxUses * Cardinality(Packages)   \* ids never run out
    /\ OrgOf \in [Packages -> Orgs]
    /\ NoInstall \notin InstallIds
    /\ MaxUses \in Nat \ {0} /\ Lifetimes \subseteq Nat
    /\ MaxClock \in Nat /\ MaxRequests \in Nat /\ MaxFaults \in Nat
    /\ Nil \notin Nat \cup Packages \cup Agents \cup Orgs

VARIABLES packages, agents, audit, call, clock, requests, faults

vars == <<packages, agents, audit, call, clock, requests, faults>>

Time == 0 .. MaxClock

\* A package row.  state is "absent" before CreatePackage and "deleted" after a hard delete.
Package == [state : {"absent", "live", "deleted"}, uses : 0 .. MaxUses, maxUses : 0 .. MaxUses,
            expiresAt : Nat, revokedAt : Time \cup {Nil}]

NoPackage == [state |-> "absent", uses |-> 0, maxUses |-> 0, expiresAt |-> 0, revokedAt |-> Nil]

\* An agent row.  Nothing in the service leaves "active"; an administrator of the database may.
Agent == [status : {"absent", "active", "disabled"}, pkg : Packages \cup {Nil},
          org : Orgs \cup {Nil}, install : InstallIds \cup {NoInstall},
          enrolledAt : Time, lastSeenAt : Time]

NoAgent == [status |-> "absent", pkg |-> Nil, org |-> Nil, install |-> NoInstall,
            enrolledAt |-> 0, lastSeenAt |-> 0]

rejectionReasons == {"package_revoked", "package_expired", "package_exhausted",
                     "install_id_already_enrolled", "package_concurrently_deleted"}

\* What the audit table can tell: how often each of these rows was written.
AuditRow == ({"deployment_package.created", "deployment_package.revoked"} \X Packages)
            \cup ({"agent.enrolled", "agent.authentication_failed"} \X Agents)
            \cup ({"agent.enrollment_rejected"} \X Packages \X rejectionReasons)

\* A call in progress: where it is, and what it has read or written so far.
Call == [pc : {"idle", "precheck", "increment", "classify", "create", "commit", "reject",
               "revoke", "revoking", "heartbeat", "beat"},
         pkg : Packages \cup {Nil}, copy : Package, now : Time,
         install : InstallIds \cup {NoInstall}, agent : Agents \cup {Nil},
         reason : rejectionReasons \cup {Nil}]

NoCall == [pc |-> "idle", pkg |-> Nil, copy |-> NoPackage, now |-> 0,
           install |-> NoInstall, agent |-> Nil, reason |-> Nil]

Init ==
    /\ packages = [p \in Packages |-> NoPackage]
    /\ agents = [a \in Agents |-> NoAgent]
    /\ audit = [r \in AuditRow |-> 0]
    /\ call = [c \in Callers |-> NoCall]
    /\ clock = 0 /\ requests = 0 /\ faults = 0

----------------------------------------------------------------------------
(* Steps all calls share. *)

Begin(c) == call[c].pc = "idle" /\ requests < MaxRequests /\ requests' = requests + 1

At(c, pc) == call[c].pc = pc

Go(c, rec) == call' = [call EXCEPT ![c] = rec]

Return(c) == Go(c, NoCall)

Record(row) == audit' = [audit EXCEPT ![row] = @ + 1]

\* The pcs between a conditional UPDATE of the package row and the commit.
RowLockPcs == {"create", "commit", "revoking"}

\* The lock on package p's row is free.
Unlocked(p) == \A c \in Callers : call[c].pkg = p => call[c].pc \notin RowLockPcs

Exists(p) == packages[p].state = "live"

----------------------------------------------------------------------------
(* CreatePackage: the row and its audit event in one transaction. *)

insertPackage(p, ttl, n) ==
    /\ packages[p].state = "absent"
    /\ packages' = [packages EXCEPT ![p] = [state |-> "live", uses |-> 0, maxUses |-> n,
                                            expiresAt |-> clock + ttl, revokedAt |-> Nil]]

\* The lifetime and the number of seats have to be positive.
validate(ttl, n) == ttl > 0 /\ n > 0

CreatePackage(p, ttl, n) ==
    \/ /\ validate(ttl, n) /\ insertPackage(p, ttl, n)
       /\ Record(<<"deployment_package.created", p>>)
    \/ ~ validate(ttl, n) /\ UNCHANGED <<packages, audit>>

DeploymentPackagesCreate(c, p, ttl, n) ==
    /\ Begin(c) /\ CreatePackage(p, ttl, n)
    /\ UNCHANGED <<agents, call, clock, faults>>

----------------------------------------------------------------------------
(* EnrollAgent. *)

\* Mutant of activeAt: the last seat counts as taken.
activeAtOffByOne(r, now) ==
    CASE r.revokedAt # Nil -> "package_revoked"
      [] r.revokedAt = Nil /\ now >= r.expiresAt -> "package_expired"
      [] r.revokedAt = Nil /\ now < r.expiresAt /\ r.uses + 1 >= r.maxUses -> "package_exhausted"
      [] OTHER -> Nil

\* The first lifecycle bound that row r fails at time now, Nil when it is active.
activeAt(r, now) ==
    CASE r.revokedAt # Nil -> "package_revoked"
      [] r.revokedAt = Nil /\ now >= r.expiresAt -> "package_expired"
      [] r.revokedAt = Nil /\ now < r.expiresAt /\ r.uses >= r.maxUses -> "package_exhausted"
      [] OTHER -> Nil

\* The lookup by bootstrap secret, outside the transaction.  A secret of no package is
\* rejected at once: that audit row names no package and is best effort.
EnrollLookup(c, p, install) ==
    \/ /\ Exists(p)
       /\ Go(c, [NoCall EXCEPT !.pc = "precheck", !.pkg = p, !.copy = packages[p],
                               !.install = install])
    \/ ~ Exists(p) /\ UNCHANGED call

\* The one endpoint without a signed-in caller; every refusal gets the same answer.
AgentsEnroll(c, p, install) ==
    /\ Begin(c) /\ EnrollLookup(c, p, install)
    /\ UNCHANGED <<packages, agents, audit, clock, faults>>

\* now is read after the lookup and used to the end; the copy that was looked up is checked.
EnrollPrecheck(c) ==
    /\ At(c, "precheck")
    /\ LET why == activeAt(call[c].copy, clock)
       IN  Go(c, [call[c] EXCEPT !.pc = IF why = Nil THEN "increment" ELSE "reject",
                                 !.reason = why, !.now = clock, !.copy = NoPackage])
    /\ UNCHANGED <<packages, agents, audit, clock, requests, faults>>

\* Mutant of CanIncrement: the UPDATE trusts the check of the copy for the revocation.
CanIncrementTrustsCopy(p, now) ==
    /\ Exists(p)
    /\ packages[p].expiresAt > now
    /\ packages[p].uses < packages[p].maxUses

\* The conditional UPDATE finds a row to count on.
CanIncrement(p, now) ==
    /\ Exists(p)
    /\ packages[p].revokedAt = Nil
    /\ packages[p].expiresAt > now
    /\ packages[p].uses < packages[p].maxUses

\* It waits for the row lock; on no row, the reason is read by a statement of its own.
IncrementUses(c) ==
    /\ At(c, "increment")
    /\ Unlocked(call[c].pkg)
    /\ Go(c, [call[c] EXCEPT !.pc = IF CanIncrement(call[c].pkg, call[c].now)
                                    THEN "create" ELSE "classify"])
    /\ UNCHANGED <<packages, agents, audit, clock, requests, faults>>

\* No reason left is a rejection that is not audited.
classifyIncrementFailure(c) ==
    /\ At(c, "classify")
    /\ LET p   == call[c].pkg
           why == IF Exists(p) THEN activeAt(packages[p], call[c].now)
                  ELSE "package_concurrently_deleted"
       IN  IF why = Nil THEN Return(c)
           ELSE Go(c, [call[c] EXCEPT !.pc = "reject", !.reason = why])
    /\ UNCHANGED <<packages, agents, audit, clock, requests, faults>>

\* The agents of organization o that carry installation id i.
WithInstall(o, i) == {a \in Agents : i # NoInstall /\ agents[a].status # "absent"
                                     /\ agents[a].org = o /\ agents[a].install = i}

\* The insert of another open transaction holds the unique key of (org, install_id).
KeyInFlight(c, o, i) == \E d \in Callers \ {c} :
    call[d].pc = "commit" /\ i # NoInstall /\ call[d].install = i /\ OrgOf[call[d].pkg] = o

\* Mutant of CreateAgent: the row is written outside the transaction.
CreateAgentOutsideTx(c) ==
    /\ At(c, "create")
    /\ WithInstall(OrgOf[call[c].pkg], call[c].install) = {}
    /\ \E a \in Agents :
        /\ agents[a].status = "absent"
        /\ Go(c, [call[c] EXCEPT !.pc = "commit", !.agent = a])
        /\ agents' = [agents EXCEPT ![a] =
                         [status |-> "active", pkg |-> call[c].pkg, org |-> OrgOf[call[c].pkg],
                          install |-> call[c].install,
                          enrolledAt |-> call[c].now, lastSeenAt |-> call[c].now]]
    /\ UNCHANGED <<packages, audit, clock, requests, faults>>

\* The INSERT of the agent row; a duplicate rolls the increment back.
CreateAgent(c) ==
    /\ At(c, "create")
    /\ LET o == OrgOf[call[c].pkg]
           i == call[c].install
       IN  /\ ~ KeyInFlight(c, o, i)
           /\ \/ /\ WithInstall(o, i) # {}
                 /\ Go(c, [call[c] EXCEPT !.pc = "reject",
                                          !.reason = "install_id_already_enrolled"])
              \/ /\ WithInstall(o, i) = {}
                 /\ \E a \in Agents :
                        /\ agents[a].status = "absent"
                        /\ \A d \in Callers : call[d].agent # a
                        /\ Go(c, [call[c] EXCEPT !.pc = "commit", !.agent = a])
    /\ UNCHANGED <<packages, agents, audit, clock, requests, faults>>

\* The audit event and the commit: the use, the agent and the event appear together.
EnrollCommit(c) ==
    /\ At(c, "commit")
    /\ packages' = [packages EXCEPT ![call[c].pkg].uses = @ + 1]
    /\ agents' = [agents EXCEPT ![call[c].agent] =
                     [status |-> "active", pkg |-> call[c].pkg, org |-> OrgOf[call[c].pkg],
                      install |-> call[c].install,
                      enrolledAt |-> call[c].now, lastSeenAt |-> call[c].now]]
    /\ Record(<<"agent.enrolled", call[c].agent>>)
    /\ Return(c)
    /\ UNCHANGED <<clock, requests, faults>>

\* A rejection of a known package is audited by a write of its own.
recordRejection(c) ==
    /\ At(c, "reject")
    /\ Record(<<"agent.enrollment_rejected", call[c].pkg, call[c].reason>>)
    /\ Return(c)
    /\ UNCHANGED <<packages, agents, clock, requests, faults>>

----------------------------------------------------------------------------
(* RevokePackage, in one transaction. *)

\* Not found in the operator's organization, or revoked already: nothing is written.
RevokeRead(c, p, org) ==
    IF Exists(p) /\ OrgOf[p] = org /\ packages[p].revokedAt = Nil
    THEN Go(c, [NoCall EXCEPT !.pc = "revoke", !.pkg = p, !.now = clock])
    ELSE UNCHANGED call

\* org is the organization of the signed-in administrator.
DeploymentPackagesRevoke(c, p, org) ==
    /\ Begin(c) /\ RevokeRead(c, p, org)
    /\ UNCHANGED <<packages, agents, audit, clock, faults>>

\* Mutant of RevokeUpdate: without the condition revoked_at IS NULL.
RevokeUpdateAnyRow(c) ==
    /\ At(c, "revoke")
    /\ Unlocked(call[c].pkg)
    /\ IF Exists(call[c].pkg) THEN Go(c, [call[c] EXCEPT !.pc = "revoking"]) ELSE Return(c)
    /\ UNCHANGED <<packages, agents, audit, clock, requests, faults>>

\* The conditional UPDATE; on no row another operator was first, and the call is idempotent.
RevokeUpdate(c) ==
    /\ At(c, "revoke")
    /\ Unlocked(call[c].pkg)
    /\ IF Exists(call[c].pkg) /\ packages[call[c].pkg].revokedAt = Nil
       THEN Go(c, [call[c] EXCEPT !.pc = "revoking"])
       ELSE Return(c)
    /\ UNCHANGED <<packages, agents, audit, clock, requests, faults>>

RevokeCommit(c) ==
    /\ At(c, "revoking")
    /\ packages' = [packages EXCEPT ![call[c].pkg].revokedAt = call[c].now]
    /\ Record(<<"deployment_package.revoked", call[c].pkg>>)
    /\ Return(c)
    /\ UNCHANGED <<agents, clock, requests, faults>>

----------------------------------------------------------------------------
(* An enrolled agent's heartbeat. *)

\* The agent a credential belongs to has a row.
FindByCredentialHash(a) == agents[a].status # "absent"

\* The event of a refused agent is written if it can be: its error is dropped.  A credential
\* of nobody leaves an event that names no agent.
recordAuthFailure(a) ==
    \/ FindByCredentialHash(a) /\ Record(<<"agent.authentication_failed", a>>)
    \/ UNCHANGED audit

\* Only an active agent's credential passes.
AuthenticateAgent(c, a) ==
    \/ /\ FindByCredentialHash(a) /\ agents[a].status = "active"
       /\ Go(c, [NoCall EXCEPT !.pc = "heartbeat", !.agent = a])
       /\ UNCHANGED audit
    \/ /\ ~ (FindByCredentialHash(a) /\ agents[a].status = "active")
       /\ recordAuthFailure(a)
       /\ UNCHANGED call

\* The guard of the endpoints for agents; a header without a credential is refused alike.
RequireAuthenticatedAgent(c, a) ==
    /\ Begin(c) /\ AuthenticateAgent(c, a)
    /\ UNCHANGED <<packages, agents, clock, faults>>

RecordHeartbeat(c) == Go(c, [call[c] EXCEPT !.pc = "beat", !.now = clock])

\* The handler behind the guard: the agent is the authenticated one.
AgentHeartbeat(c) ==
    /\ At(c, "heartbeat") /\ RecordHeartbeat(c)
    /\ UNCHANGED <<packages, agents, audit, clock, requests, faults>>

UpdateHeartbeat(c) ==
    /\ At(c, "beat")
    /\ agents' = [agents EXCEPT ![call[c].agent].lastSeenAt = call[c].now]
    /\ Return(c)
    /\ UNCHANGED <<packages, audit, clock, requests, faults>>

----------------------------------------------------------------------------
(* What happens to a call and around it. *)

\* The call fails where it stands: its transaction, if it has one open, is rolled back.
CallFails(c) ==
    /\ ~ At(c, "idle") /\ faults < MaxFaults
    /\ faults' = faults + 1
    /\ Return(c)
    /\ UNCHANGED <<packages, agents, audit, clock, requests>>

\* The administrator of the database deletes a package row (its agents keep no package) or
\* disables an agent: no endpoint does either.
DeletePackage(p) ==
    /\ Exists(p) /\ Unlocked(p) /\ faults < MaxFaults
    /\ faults' = faults + 1
    /\ packages' = [packages EXCEPT ![p] = [NoPackage EXCEPT !.state = "deleted"]]
    /\ agents' = [a \in Agents |-> IF agents[a].pkg = p
                                   THEN [agents[a] EXCEPT !.pkg = Nil] ELSE agents[a]]
    /\ UNCHANGED <<audit, call, clock, requests>>

DisableAgent(a) ==
    /\ agents[a].status = "active" /\ faults < MaxFaults
    /\ faults' = faults + 1
    /\ agents' = [agents EXCEPT ![a].status = "disabled"]
    /\ UNCHANGED <<packages, audit, call, clock, requests>>

Tick == /\ clock < MaxClock
        /\ clock' = clock + 1
        /\ UNCHANGED <<packages, agents, audit, call, requests, faults>>

\* The step a call that has begun takes by itself.
Step(c) ==
    \/ EnrollPrecheck(c) \/ IncrementUses(c) \/ classifyIncrementFailure(c)
    \/ CreateAgent(c) \/ EnrollCommit(c) \/ recordRejection(c)
    \/ RevokeUpdate(c) \/ RevokeCommit(c)
    \/ AgentHeartbeat(c) \/ UpdateHeartbeat(c)

Next ==
    \/ Tick
    \/ \E p \in Packages : DeletePackage(p)
    \/ \E a \in Agents : DisableAgent(a)
    \/ \E c \in Callers :
        \/ Step(c)
        \/ CallFails(c)
        \/ \E p \in Packages, ttl \in Lifetimes, n \in 0 .. MaxUses :
              DeploymentPackagesCreate(c, p, ttl, n)
        \/ \E p \in Packages, i \in InstallIds \cup {NoInstall} : AgentsEnroll(c, p, i)
        \/ \E p \in Packages, o \in Orgs : DeploymentPackagesRevoke(c, p, o)
        \/ \E a \in Agents : RequireAuthenticatedAgent(c, a)

Spec == Init /\ [][Next]_vars

----------------------------------------------------------------------------
(* Properties. *)

TypeOK ==
    /\ packages \in [Packages -> Package]
    /\ agents \in [Agents -> Agent]
    /\ audit \in [AuditRow -> Nat]
    /\ call \in [Callers -> Call]
    /\ clock \in Time /\ requests \in 0 .. MaxRequests /\ faults \in 0 .. MaxFaults

\* The agents that enrolled through p.
EnrolledThrough(p) == {a \in Agents : agents[a].pkg = p}

\* Within an organization an installation id belongs to one agent at most, also when two
\* agents enroll through different packages at the same time (agents_org_install_uniq).
InstallIdsAreUnique ==
    \A a, b \in Agents :
        /\ a # b /\ agents[a].install # NoInstall
        /\ agents[a].status # "absent" /\ agents[b].status # "absent"
        => <<agents[a].org, agents[a].install>> # <<agents[b].org, agents[b].install>>

\* uses_count is the number of agents that enrolled through the package and never exceeds
\* max_uses, and no installation id is enrolled twice in an organization, whoever raced whom
\* and wherever a call failed: EnrollAgent's transaction keeps the count, the agents and the
\* unique key together.
SeatsMatchAgents ==
    /\ \A p \in Packages : /\ packages[p].uses = Cardinality(EnrolledThrough(p))
                           /\ packages[p].uses <= packages[p].maxUses
    /\ InstallIdsAreUnique

\* The reason an audited rejection gives is true of the package, although it was found on a
\* copy read earlier or by a second read after the UPDATE had failed; an installation is told
\* that it is enrolled already only if an agent of its organization has its very id.  A
\* refused authentication that names an agent names one that is not active.
RejectionsAreTrue ==
    /\ \A a \in Agents : audit[<<"agent.authentication_failed", a>>] > 0 => agents[a].status = "disabled"
    /\ \A p \in Packages, why \in rejectionReasons :
           audit[<<"agent.enrollment_rejected", p, why>>] > 0 =>
               \/ packages[p].state = "deleted"
               \/ why = "package_revoked" /\ packages[p].revokedAt # Nil
               \/ why = "package_expired" /\ clock >= packages[p].expiresAt
               \/ why = "package_exhausted" /\ packages[p].uses = packages[p].maxUses
               \/ /\ why = "install_id_already_enrolled"
                  /\ \E a \in Agents : agents[a].org = OrgOf[p] /\ agents[a].install # NoInstall
    /\ \A c \in Callers :
           At(c, "reject") /\ call[c].reason = "install_id_already_enrolled" =>
               WithInstall(OrgOf[call[c].pkg], call[c].install) # {}

\* The audit table tells each life once: one event per package created, one per package
\* revoked however many operators raced to revoke it, one per agent enrolled, and none for
\* what was rolled back.
AuditTellsLives ==
    /\ \A p \in Packages :
        /\ audit[<<"deployment_package.created", p>>] = IF packages[p].state = "absent" THEN 0 ELSE 1
        /\ Exists(p) => audit[<<"deployment_package.revoked", p>>]
                           = IF packages[p].revokedAt = Nil THEN 0 ELSE 1
    /\ \A a \in Agents : audit[<<"agent.enrolled", a>>] = IF agents[a].status = "absent" THEN 0 ELSE 1

\* An agent is stamped with a time of its package's lifetime, although the enrollment may
\* commit after the package expired, and it is never seen before it enrolled.
AgentTimesInOrder ==
    \A a \in Agents : agents[a].status # "absent" =>
        /\ agents[a].enrolledAt <= agents[a].lastSeenAt /\ agents[a].lastSeenAt <= clock
        /\ agents[a].pkg # Nil => agents[a].enrolledAt < packages[agents[a].pkg].expiresAt

\* Whatever the interleaving and the failures, the rows, the audit table and the times tell the
\* same story (CreatePackage, EnrollAgent, RevokePackage, RecordHeartbeat).
TablesAgree == TypeOK /\ AuditTellsLives /\ AgentTimesInOrder

\* Enrollment keeps the promise of SeatQuota: under this mapping a commit takes a seat of an
\* open package, a committed revocation closes it, and every other step is invisible.
Quota == INSTANCE SeatQuota WITH
    cap    <- [p \in Packages |-> packages[p].maxUses],
    closed <- {p \in Packages : packages[p].state = "deleted" \/ packages[p].revokedAt # Nil},
    seats  <- [p \in Packages |-> EnrolledThrough(p)]

ImplementsSeatQuota == Quota!Spec
=============================================================================
