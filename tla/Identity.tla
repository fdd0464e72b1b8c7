------------------------------ MODULE Identity ------------------------------
(***************************************************************************)
(* The identity vocabulary of one organization (backend/internal/identity  *)
(* and its repository): tags and what they are attached to, services,      *)
(* service groups and their hierarchy, agent groups and their members.     *)
(*                                                                         *)
(* Every mutation is a READ COMMITTED transaction without a lock: it reads *)
(* (each read a statement that sees what is committed by then), writes one *)
(* row with its audit event and commits.  From its write to its commit a   *)
(* transaction holds the row or the unique key and nobody sees what it     *)
(* wrote, so write and commit are one step here.  Rows are never deleted;  *)
(* a check that a row exists therefore cannot go stale and belongs to the  *)
(* step that writes, while a check that can go stale is a step before it.  *)
(* A row's name stands for its unique key: its slug, or a tag's key and    *)
(* value.                                                                  *)
(***************************************************************************)
EXTENDS Naturals, FiniteSets

CONSTANTS
    Tags, Services, Groups, AgentGroups,   \* the rows that may be created
    Agents, Certificates,                  \* the rows of other components, all there
    Tagged,        \* the things tag assignments are asked for
    Seeded,        \* the rows that exist from the start
    Owners,        \* the values an operator may give the columns of a service
    Callers,
    MaxDepth,      \* maxServiceGroupDepth
    MaxRequests,   \* bound of the model: requests that are started
    MaxFaults,     \* bound of the model: requests that fail under way
    Nil,
    Kept           \* a column that the request leaves out

ASSUME IdentityAssumption ==
    /\ Nil \notin Tags \cup Services \cup Groups \cup AgentGroups \cup Owners
    /\ Kept \notin Owners \cup {Nil}
    /\ Tagged \subseteq Agents \cup Certificates \cup Services \cup Groups \cup AgentGroups
    /\ MaxDepth \in Nat \ {0} /\ MaxRequests \in Nat /\ MaxFaults \in Nat

VARIABLES
    tags, services, groups, agentGroups,   \* the state of each row
    assignments,   \* tag_assignments: pairs of a tag and its target
    parentOf,      \* service_groups.parent_id, Nil for a root
    memberOf,      \* service_group_memberships: the direct group of a service
    profile,       \* services: the columns an operator may edit
    agentsIn,      \* agent_group_memberships: pairs of an agent and a group
    audit,         \* how often each event was written
    call,          \* the mutations under way
    update,        \* the edits of a service under way
    overtaken,     \* history: calls of which something they read has changed since
    raced,         \* history: groups whose parent was last written by an overtaken call
    wanted,        \* history: the value last asked for, for each column of a service
    blurred,       \* history: services written by an overtaken edit
    requests, faults

tagVars == <<tags, assignments>>
profileVars == <<profile, update, wanted, blurred>>
serviceVars == <<services, memberOf, profileVars>>
groupVars == <<groups, parentOf, raced>>
agentGroupVars == <<agentGroups, agentsIn>>
boundVars == <<requests, faults>>

identityVars == <<tagVars, serviceVars, groupVars, agentGroupVars, audit, call, overtaken, boundVars>>

RowState == {"absent", "active", "disabled"}

Event ==
    ({"tag.created", "tag.updated", "tag.disabled", "tag.enabled"} \X Tags)
    \cup ({"tag.assignment_created", "tag.assignment_deleted"} \X (Tags \X Tagged))
    \cup ({"service.created", "service.updated", "service.disabled", "service.enabled",
           "service_group.membership_set", "service_group.membership_deleted"} \X Services)
    \cup ({"service_group.created", "service_group.updated", "service_group.disabled"} \X Groups)
    \cup ({"agent_group.created", "agent_group.disabled"} \X AgentGroups)
    \cup ({"agent_group.membership_created", "agent_group.membership_deleted"}
             \X (Agents \X AgentGroups))

\* A mutation under way: the row it writes, and for a group the parent it is to get, the
\* ancestor the walk is at, the steps it took and the groups it has read.
Call == [pc : {"idle", "retire tag", "retire group", "walk to create", "walk to move", "create", "move"},
         row : Tags \cup Groups \cup {Nil}, parent : Groups \cup {Nil}, cur : Groups \cup {Nil},
         steps : 0 .. MaxDepth, read : SUBSET Groups]

\* The columns of a service that an operator may edit, Nil when empty; display name,
\* description and business unit behave as these two.
Profile == [ownerEmail : Owners \cup {Nil}, ownerTeam : Owners \cup {Nil}]

NoProfile == [ownerEmail |-> Nil, ownerTeam |-> Nil]

\* The body of an edit: a column left out is kept, an empty one is cleared.
Patch == [ownerEmail : Owners \cup {Nil, Kept}, ownerTeam : Owners \cup {Nil, Kept}]

\* An edit of a service under way.
Update == [row : Services \cup {Nil}, patch : Patch, merged : Profile]

NoUpdate == [row |-> Nil, patch |-> NoProfile, merged |-> NoProfile]

NoCall == [pc |-> "idle", row |-> Nil, parent |-> Nil, cur |-> Nil, steps |-> 0, read |-> {}]

SeededRows(rows) == [r \in rows |-> IF r \in Seeded THEN "active" ELSE "absent"]

Init ==
    /\ tags = SeededRows(Tags) /\ services = SeededRows(Services)
    /\ groups = SeededRows(Groups) /\ agentGroups = SeededRows(AgentGroups)
    /\ assignments = {} /\ agentsIn = {}
    /\ parentOf = [g \in Groups |-> Nil] /\ memberOf = [s \in Services |-> Nil]
    /\ audit = [e \in Event |-> IF e[1] \in {"tag.created", "service.created",
                                             "service_group.created", "agent_group.created"}
                                   /\ e[2] \in Seeded THEN 1 ELSE 0]
    /\ call = [c \in Callers |-> NoCall]
    /\ profile = [s \in Services |-> NoProfile] /\ wanted = profile /\ blurred = {}
    /\ update = [c \in Callers |-> NoUpdate]
    /\ overtaken = {} /\ raced = {} /\ requests = 0 /\ faults = 0

----------------------------------------------------------------------------
(* Steps the mutations share. *)

\* A request of an operator who is signed in, with a body that decodes; a handler answers any
\* other, and any the service refuses, without a change.
Request == requests < MaxRequests /\ requests' = requests + 1 /\ UNCHANGED faults

At(c, pc) == call[c].pc = pc

\* The caller has no request under way.
Free(c) == At(c, "idle") /\ update[c] = NoUpdate

Go(c, rec) == call' = [call EXCEPT ![c] = rec]

Return(c) == Go(c, NoCall)

\* recordAudit: an event that cannot be written rolls the mutation back, see CallFails.
recordAudit(action, row) == audit' = [audit EXCEPT ![<<action, row>>] = @ + 1]

Exists(table, r) == table[r] # "absent"

Set(table, r, state) == [table EXCEPT ![r] = state]

----------------------------------------------------------------------------
(* Tags and their assignments. *)

insertTag(t) == ~ Exists(tags, t) /\ tags' = Set(tags, t, "active")

CreateTag(t) ==
    /\ insertTag(t)
    /\ recordAudit("tag.created", t)
    /\ UNCHANGED <<assignments, serviceVars, groupVars, agentGroupVars>>

TagsCreate(t) == Request /\ CreateTag(t) /\ UNCHANGED call

setTagDescription(t) == Exists(tags, t) /\ UNCHANGED tags

UpdateTagDescription(t) ==
    /\ setTagDescription(t)
    /\ recordAudit("tag.updated", t)
    /\ UNCHANGED <<assignments, serviceVars, groupVars, agentGroupVars>>

\* A body with a key or a value is refused; one without a description changes nothing.
TagsUpdate(t, described) ==
    /\ Request /\ UNCHANGED call
    /\ \/ described /\ UpdateTagDescription(t)
       \/ /\ ~ described /\ Exists(tags, t)
          /\ UNCHANGED <<tagVars, serviceVars, groupVars, agentGroupVars, audit>>

ListTagAssignmentsForTag(t) == {a \in assignments : a[1] = t}

\* Mutant of DisableTag: without the preflight.
DisableTagAlways(c, t) ==
    /\ Go(c, [NoCall EXCEPT !.pc = "retire tag", !.row = t])
    /\ UNCHANGED <<tagVars, serviceVars, groupVars, agentGroupVars, audit>>

\* The preflight: a tag still attached to something is refused.
DisableTag(c, t) ==
    /\ ListTagAssignmentsForTag(t) = {}
    /\ Go(c, [NoCall EXCEPT !.pc = "retire tag", !.row = t])
    /\ UNCHANGED <<tagVars, serviceVars, groupVars, agentGroupVars, audit>>

TagsDisable(c, t) == Request /\ Free(c) /\ DisableTag(c, t)

\* The UPDATE and its event; a tag that does not exist is refused.
stampTagDisabled(c) ==
    /\ At(c, "retire tag") /\ Return(c)
    /\ IF Exists(tags, call[c].row)
       THEN /\ tags' = Set(tags, call[c].row, "disabled")
            /\ recordAudit("tag.disabled", call[c].row)
       ELSE UNCHANGED <<tags, audit>>
    /\ UNCHANGED <<assignments, serviceVars, groupVars, agentGroupVars, boundVars>>

clearTagDisabled(t) == Exists(tags, t) /\ tags' = Set(tags, t, "active")

EnableTag(t) ==
    /\ clearTagDisabled(t)
    /\ recordAudit("tag.enabled", t)
    /\ UNCHANGED <<assignments, serviceVars, groupVars, agentGroupVars>>

TagsEnable(t) == Request /\ EnableTag(t) /\ UNCHANGED call

\* The lookup of a polymorphic target; a disabled row counts.
targetExists(x) ==
    \/ x \in Certificates \cup Agents
    \/ x \in Services /\ Exists(services, x)
    \/ x \in Groups /\ Exists(groups, x)
    \/ x \in AgentGroups /\ Exists(agentGroups, x)

\* Mutant of insertAssignment: a duplicate is ignored, and its event still written.
insertAssignmentOnConflictDoNothing(t, x) == assignments' = assignments \cup {<<t, x>>}

insertAssignment(t, x) ==
    <<t, x>> \notin assignments /\ assignments' = assignments \cup {<<t, x>>}

\* A disabled tag can be assigned.
AssignTag(t, x) ==
    /\ Exists(tags, t) /\ targetExists(x) /\ insertAssignment(t, x)
    /\ recordAudit("tag.assignment_created", <<t, x>>)
    /\ UNCHANGED <<tags, serviceVars, groupVars, agentGroupVars>>

TagAssignmentsCreate(t, x) == Request /\ AssignTag(t, x) /\ UNCHANGED call

deleteAssignment(t, x) ==
    <<t, x>> \in assignments /\ assignments' = assignments \ {<<t, x>>}

UnassignTag(t, x) ==
    /\ deleteAssignment(t, x)
    /\ recordAudit("tag.assignment_deleted", <<t, x>>)
    /\ UNCHANGED <<tags, serviceVars, groupVars, agentGroupVars>>

TagAssignmentsDelete(t, x) == Request /\ UnassignTag(t, x) /\ UNCHANGED call

----------------------------------------------------------------------------
(* Services. *)

insertService(s) == ~ Exists(services, s) /\ services' = Set(services, s, "active")

CreateService(s) ==
    /\ insertService(s)
    /\ recordAudit("service.created", s)
    /\ UNCHANGED <<tagVars, memberOf, profileVars, groupVars, agentGroupVars>>

ServicesCreate(s) == Request /\ CreateService(s) /\ UNCHANGED call

\* A column the request leaves out is taken from the row that was read.
MergeProfile(patch, current) ==
    [ownerEmail |-> IF patch.ownerEmail = Kept THEN current.ownerEmail ELSE patch.ownerEmail,
     ownerTeam |-> IF patch.ownerTeam = Kept THEN current.ownerTeam ELSE patch.ownerTeam]

\* The handler reads the row and merges the request into it; a body with a slug is refused.
ServicesUpdate(c, s, patch) ==
    /\ Request /\ UNCHANGED call
    /\ Free(c) /\ Exists(services, s)
    /\ update' = [update EXCEPT ![c] = [row |-> s, patch |-> patch,
                                        merged |-> MergeProfile(patch, profile[s])]]
    /\ UNCHANGED <<services, memberOf, profile, wanted, blurred>>
    /\ UNCHANGED <<tagVars, groupVars, agentGroupVars, audit>>

\* The UPDATE writes every field.
UpdateServiceMetadata(s, merged) == profile' = [profile EXCEPT ![s] = merged]

\* The transaction the handler then calls.
UpdateService(c) ==
    /\ update[c] # NoUpdate
    /\ \E s \in {update[c].row} :
        /\ UpdateServiceMetadata(s, update[c].merged)
        /\ recordAudit("service.updated", s)
        /\ wanted' = [wanted EXCEPT ![s] = MergeProfile(update[c].patch, @)]
        /\ blurred' = IF c \in overtaken THEN blurred \cup {s} ELSE blurred
    /\ update' = [update EXCEPT ![c] = NoUpdate]
    /\ UNCHANGED <<services, memberOf, tagVars, groupVars, agentGroupVars, call, boundVars>>

UpdateFails(c) ==
    /\ update[c] # NoUpdate /\ faults < MaxFaults
    /\ faults' = faults + 1
    /\ update' = [update EXCEPT ![c] = NoUpdate]
    /\ UNCHANGED <<services, memberOf, profile, wanted, blurred, requests, call>>
    /\ UNCHANGED <<tagVars, groupVars, agentGroupVars, audit>>

\* The preflight's count of ownership rules: the probe is not wired.
governanceRulesForService(s) == 0

stampServiceDisabled(s) == Exists(services, s) /\ services' = Set(services, s, "disabled")

DisableService(s) ==
    /\ governanceRulesForService(s) = 0 /\ stampServiceDisabled(s)
    /\ recordAudit("service.disabled", s)
    /\ UNCHANGED <<tagVars, memberOf, profileVars, groupVars, agentGroupVars>>

ServicesDisable(s) == Request /\ DisableService(s) /\ UNCHANGED call

clearServiceDisabled(s) == Exists(services, s) /\ services' = Set(services, s, "active")

EnableService(s) ==
    /\ clearServiceDisabled(s)
    /\ recordAudit("service.enabled", s)
    /\ UNCHANGED <<tagVars, memberOf, profileVars, groupVars, agentGroupVars>>

ServicesEnable(s) == Request /\ EnableService(s) /\ UNCHANGED call

----------------------------------------------------------------------------
(* Service groups and their hierarchy. *)

\* The INSERT of a group under p; the slug is unique.
insertServiceGroup(g, p) ==
    /\ ~ Exists(groups, g)
    /\ groups' = Set(groups, g, "active")
    /\ parentOf' = [parentOf EXCEPT ![g] = p]
    /\ recordAudit("service_group.created", g)

setParent(g, p) ==
    /\ Exists(groups, g)
    /\ parentOf' = [parentOf EXCEPT ![g] = p]
    /\ recordAudit("service_group.updated", g)
    /\ UNCHANGED groups

\* The walk towards the root that decides whether g may be put under p.
StartWalk(c, pc, g, p) ==
    Go(c, [NoCall EXCEPT !.pc = pc, !.row = g, !.parent = p, !.cur = p])

CreateServiceGroup(c, g, p) ==
    /\ \/ p = Nil /\ insertServiceGroup(g, Nil) /\ raced' = raced \ {g} /\ UNCHANGED call
       \/ /\ p # Nil /\ Exists(groups, p) /\ ~ Exists(groups, g)
          /\ StartWalk(c, "walk to create", g, p)
          /\ UNCHANGED <<groupVars, audit>>
    /\ UNCHANGED <<tagVars, serviceVars, agentGroupVars>>

ServiceGroupsCreate(c, g, p) == Request /\ Free(c) /\ CreateServiceGroup(c, g, p)

\* Nil makes the group a root.
UpdateServiceGroupParent(c, g, p) ==
    /\ Exists(groups, g)
    /\ \/ p = Nil /\ setParent(g, Nil) /\ raced' = raced \ {g} /\ UNCHANGED call
       \/ /\ p \notin {g, Nil} /\ Exists(groups, p)
          /\ StartWalk(c, "walk to move", g, p)
          /\ UNCHANGED <<groupVars, audit>>
    /\ UNCHANGED <<tagVars, serviceVars, agentGroupVars>>

ServiceGroupsSetParent(c, g, p) == Request /\ Free(c) /\ UpdateServiceGroupParent(c, g, p)

\* Mutants of checkNoCycle: it looks at one ancestor only, and never gives up.
checkNoCycleParentOnly(c) ==
    /\ call[c].pc \in {"walk to create", "walk to move"}
    /\ \/ call[c].cur = call[c].row /\ Return(c)
       \/ /\ call[c].cur # call[c].row
          /\ Go(c, [call[c] EXCEPT !.pc = IF @ = "walk to create" THEN "create" ELSE "move",
                                   !.read = @ \cup {call[c].cur}])
    /\ UNCHANGED <<tagVars, serviceVars, groupVars, agentGroupVars, audit, boundVars>>

checkNoCycleUnbounded(c) ==
    /\ call[c].pc \in {"walk to create", "walk to move"}
    /\ \/ call[c].cur = call[c].row /\ Return(c)
       \/ /\ call[c].cur # call[c].row /\ parentOf[call[c].cur] = Nil
          /\ Go(c, [call[c] EXCEPT !.pc = IF @ = "walk to create" THEN "create" ELSE "move",
                                   !.read = @ \cup {call[c].cur}])
       \/ /\ call[c].cur # call[c].row /\ parentOf[call[c].cur] # Nil
          /\ Go(c, [call[c] EXCEPT !.cur = parentOf[call[c].cur], !.read = @ \cup {call[c].cur}])
    /\ UNCHANGED <<tagVars, serviceVars, groupVars, agentGroupVars, audit, boundVars>>

\* One round of the walk, a SELECT of its own: refused when it meets the group itself or
\* has run MaxDepth rounds, done when it reads a root.
checkNoCycle(c) ==
    /\ call[c].pc \in {"walk to create", "walk to move"}
    /\ \/ /\ call[c].steps = MaxDepth \/ call[c].cur = call[c].row
          /\ Return(c)
       \/ /\ call[c].steps < MaxDepth /\ call[c].cur # call[c].row
          /\ parentOf[call[c].cur] = Nil
          /\ Go(c, [call[c] EXCEPT !.pc = IF @ = "walk to create" THEN "create" ELSE "move",
                                   !.read = @ \cup {call[c].cur}])
       \/ /\ call[c].steps < MaxDepth /\ call[c].cur # call[c].row
          /\ parentOf[call[c].cur] # Nil
          /\ Go(c, [call[c] EXCEPT !.cur = parentOf[call[c].cur], !.steps = @ + 1,
                                   !.read = @ \cup {call[c].cur}])
    /\ UNCHANGED <<tagVars, serviceVars, groupVars, agentGroupVars, audit, boundVars>>

\* The write after the walk; a slug that was taken meanwhile is refused.
WriteParent(c) ==
    /\ Return(c)
    /\ \/ /\ \/ At(c, "create") /\ insertServiceGroup(call[c].row, call[c].parent)
             \/ At(c, "move") /\ setParent(call[c].row, call[c].parent)
          /\ raced' = IF c \in overtaken THEN raced \cup {call[c].row} ELSE raced \ {call[c].row}
       \/ At(c, "create") /\ Exists(groups, call[c].row) /\ UNCHANGED <<groupVars, audit>>
    /\ UNCHANGED <<tagVars, serviceVars, agentGroupVars, boundVars>>

ActiveChildren(g) == {h \in Groups : parentOf[h] = g /\ groups[h] = "active"}

\* The preflight: a group with enabled children is refused.
DisableServiceGroup(c, g) ==
    /\ ActiveChildren(g) = {}
    /\ Go(c, [NoCall EXCEPT !.pc = "retire group", !.row = g])
    /\ UNCHANGED <<tagVars, serviceVars, groupVars, agentGroupVars, audit>>

ServiceGroupsDisable(c, g) == Request /\ Free(c) /\ DisableServiceGroup(c, g)

stampServiceGroupDisabled(c) ==
    /\ At(c, "retire group") /\ Return(c)
    /\ IF Exists(groups, call[c].row)
       THEN /\ groups' = Set(groups, call[c].row, "disabled")
            /\ recordAudit("service_group.disabled", call[c].row)
       ELSE UNCHANGED <<groups, audit>>
    /\ UNCHANGED <<tagVars, serviceVars, parentOf, raced, agentGroupVars, boundVars>>

upsertMembership(s, g) == memberOf' = [memberOf EXCEPT ![s] = g]

SetServiceGroupMembership(s, g) ==
    /\ Exists(services, s) /\ Exists(groups, g) /\ upsertMembership(s, g)
    /\ recordAudit("service_group.membership_set", s)
    /\ UNCHANGED <<tagVars, services, profileVars, groupVars, agentGroupVars>>

ServicesSetGroup(s, g) == Request /\ SetServiceGroupMembership(s, g) /\ UNCHANGED call

deleteMembership(s) == memberOf[s] # Nil /\ memberOf' = [memberOf EXCEPT ![s] = Nil]

ClearServiceGroupMembership(s) ==
    /\ deleteMembership(s)
    /\ recordAudit("service_group.membership_deleted", s)
    /\ UNCHANGED <<tagVars, services, profileVars, groupVars, agentGroupVars>>

ServicesClearGroup(s) == Request /\ ClearServiceGroupMembership(s) /\ UNCHANGED call

----------------------------------------------------------------------------
(* Agent groups. *)

insertAgentGroup(g) == ~ Exists(agentGroups, g) /\ agentGroups' = Set(agentGroups, g, "active")

CreateAgentGroup(g) ==
    /\ insertAgentGroup(g)
    /\ recordAudit("agent_group.created", g)
    /\ UNCHANGED <<tagVars, serviceVars, groupVars, agentsIn>>

AgentGroupsCreate(g) == Request /\ CreateAgentGroup(g) /\ UNCHANGED call

stampAgentGroupDisabled(g) ==
    Exists(agentGroups, g) /\ agentGroups' = Set(agentGroups, g, "disabled")

DisableAgentGroup(g) ==
    /\ stampAgentGroupDisabled(g)
    /\ recordAudit("agent_group.disabled", g)
    /\ UNCHANGED <<tagVars, serviceVars, groupVars, agentsIn>>

AgentGroupsDisable(g) == Request /\ DisableAgentGroup(g) /\ UNCHANGED call

insertAgentMembership(a, g) == <<a, g>> \notin agentsIn /\ agentsIn' = agentsIn \cup {<<a, g>>}

AddAgentToGroup(a, g) ==
    /\ Exists(agentGroups, g) /\ insertAgentMembership(a, g)
    /\ recordAudit("agent_group.membership_created", <<a, g>>)
    /\ UNCHANGED <<tagVars, serviceVars, groupVars, agentGroups>>

AgentGroupsAddMember(a, g) == Request /\ AddAgentToGroup(a, g) /\ UNCHANGED call

deleteAgentMembership(a, g) == <<a, g>> \in agentsIn /\ agentsIn' = agentsIn \ {<<a, g>>}

RemoveAgentFromGroup(a, g) ==
    /\ deleteAgentMembership(a, g)
    /\ recordAudit("agent_group.membership_deleted", <<a, g>>)
    /\ UNCHANGED <<tagVars, serviceVars, groupVars, agentGroups>>

AgentGroupsRemoveMember(a, g) == Request /\ RemoveAgentFromGroup(a, g) /\ UNCHANGED call

----------------------------------------------------------------------------

\* An error of the database or of the audit write: the transaction is rolled back.
CallFails(c) ==
    /\ ~ At(c, "idle") /\ faults < MaxFaults
    /\ faults' = faults + 1
    /\ Return(c)
    /\ UNCHANGED <<tagVars, serviceVars, groupVars, agentGroupVars, audit, requests>>

\* What call c has read so far is changed by this step.
ReadChanges(c) ==
    \/ At(c, "retire tag") /\ \E t \in {call[c].row} :
          ListTagAssignmentsForTag(t)' # ListTagAssignmentsForTag(t)
    \/ At(c, "retire group") /\ \E g \in {call[c].row} : ActiveChildren(g)' # ActiveChildren(g)
    \/ \E g \in call[c].read : parentOf'[g] # parentOf[g]
    \/ update[c] # NoUpdate /\ \E s \in {update[c].row} : profile'[s] # profile[s]

RecordOvertaken ==
    overtaken' = {c \in Callers : /\ call'[c].pc # "idle" \/ update'[c] # NoUpdate
                                  /\ c \in overtaken \/ ReadChanges(c)}

\* The step a call that has begun takes by itself.
Step(c) ==
    \/ stampTagDisabled(c) \/ checkNoCycle(c) \/ WriteParent(c) \/ stampServiceGroupDisabled(c)
    \/ UpdateService(c)

TagStep ==
    \E t \in Tags :
        \/ TagsCreate(t) \/ TagsEnable(t)
        \/ \E described \in BOOLEAN : TagsUpdate(t, described)
        \/ \E c \in Callers : TagsDisable(c, t)
        \/ \E x \in Tagged : TagAssignmentsCreate(t, x) \/ TagAssignmentsDelete(t, x)

ServiceStep ==
    \E s \in Services :
        \/ ServicesCreate(s) \/ ServicesDisable(s) \/ ServicesEnable(s)
        \/ \E c \in Callers, patch \in Patch : ServicesUpdate(c, s, patch)
        \/ ServicesClearGroup(s)
        \/ \E g \in Groups : ServicesSetGroup(s, g)

GroupStep ==
    \E g \in Groups, c \in Callers :
        \/ ServiceGroupsDisable(c, g)
        \/ \E p \in Groups \cup {Nil} : ServiceGroupsCreate(c, g, p) \/ ServiceGroupsSetParent(c, g, p)

AgentGroupStep ==
    \E g \in AgentGroups :
        \/ AgentGroupsCreate(g) \/ AgentGroupsDisable(g)
        \/ \E a \in Agents : AgentGroupsAddMember(a, g) \/ AgentGroupsRemoveMember(a, g)

IdentityNext ==
    /\ \/ TagStep \/ ServiceStep \/ GroupStep \/ AgentGroupStep
       \/ \E c \in Callers : Step(c) \/ CallFails(c) \/ UpdateFails(c)
    /\ RecordOvertaken

Spec == Init /\ [][IdentityNext]_identityVars

----------------------------------------------------------------------------
(* Properties. *)

IdentityTypeOK ==
    /\ tags \in [Tags -> RowState] /\ services \in [Services -> RowState]
    /\ groups \in [Groups -> RowState] /\ agentGroups \in [AgentGroups -> RowState]
    /\ assignments \subseteq Tags \X Tagged /\ agentsIn \subseteq Agents \X AgentGroups
    /\ parentOf \in [Groups -> Groups \cup {Nil}] /\ memberOf \in [Services -> Groups \cup {Nil}]
    /\ audit \in [Event -> Nat]
    /\ call \in [Callers -> Call]
    /\ profile \in [Services -> Profile] /\ wanted \in [Services -> Profile] /\ blurred \subseteq Services
    /\ update \in [Callers -> Update]
    /\ overtaken \subseteq Callers /\ raced \subseteq Groups
    /\ requests \in 0 .. MaxRequests /\ faults \in 0 .. MaxFaults

\* Groups every one of which has its parent among them: there is such a set exactly when the
\* hierarchy has a cycle.
Closed(S) == S # {} /\ \A g \in S : parentOf[g] \in S

\* A cycle of service groups exists only through a race: one of its edges was written by a
\* call whose walk (checkNoCycle) read a parent that another mutation changed before the
\* write.  Mutations that do not overlap keep the hierarchy acyclic.
CyclesComeFromRaces == \A S \in SUBSET Groups : Closed(S) => S \cap raced # {}

\* A disabled tag is attached to something, a disabled group has an enabled child.
UsesRetiredTag(a) == a \in assignments /\ tags[a[1]] = "disabled"

UsesRetiredParent(h) ==
    parentOf[h] # Nil /\ groups[h] = "active" /\ groups[parentOf[h]] = "disabled"

\* What this step makes a use of a retired tag or group was made by a write that checks
\* nothing, since the row was retired before, or by a retirement that was overtaken.
RetiringIsChecked ==
    /\ \A a \in Tags \X Tagged : ~ UsesRetiredTag(a) /\ UsesRetiredTag(a)' =>
          \/ tags[a[1]] = "disabled"
          \/ \E c \in overtaken : At(c, "retire tag") /\ call[c].row = a[1]
    /\ \A h \in Groups : ~ UsesRetiredParent(h) /\ UsesRetiredParent(h)' =>
          \/ groups[parentOf'[h]] = "disabled"
          \/ \E c \in overtaken : At(c, "retire group") /\ call[c].row = parentOf'[h]

\* For the vocabulary: a row was created once, an attachment or membership is there exactly
\* when one more creation than deletion is recorded, and a retired row has an event that
\* retired it.
AuditAccountsForRows ==
    /\ \A t \in Tags : /\ audit[<<"tag.created", t>>] = (IF Exists(tags, t) THEN 1 ELSE 0)
                       /\ tags[t] = "disabled" => audit[<<"tag.disabled", t>>] > 0
                       /\ audit[<<"tag.disabled", t>>] > 0 /\ tags[t] = "active"
                            => audit[<<"tag.enabled", t>>] > 0
    /\ \A g \in Groups : /\ audit[<<"service_group.created", g>>] = (IF Exists(groups, g) THEN 1 ELSE 0)
                         /\ (groups[g] = "disabled") = (audit[<<"service_group.disabled", g>>] > 0)
    /\ \A p \in Tags \X Tagged :
          audit[<<"tag.assignment_created", p>>]
            = audit[<<"tag.assignment_deleted", p>>] + (IF p \in assignments THEN 1 ELSE 0)
    /\ \A p \in Agents \X AgentGroups :
          audit[<<"agent_group.membership_created", p>>]
            = audit[<<"agent_group.membership_deleted", p>>] + (IF p \in agentsIn THEN 1 ELSE 0)

\* No reference dangles: tag assignments, whose targets no foreign key protects, memberships
\* and parents name rows that exist.
ReferencesResolve ==
    /\ \A a \in assignments :
          /\ Exists(tags, a[1])
          /\ a[2] \in Certificates \cup Agents \cup {s \in Services : Exists(services, s)}
                     \cup {g \in Groups : Exists(groups, g)}
                     \cup {g \in AgentGroups : Exists(agentGroups, g)}
    /\ \A a \in agentsIn : Exists(agentGroups, a[2])
    /\ \A s \in Services : memberOf[s] # Nil => Exists(services, s) /\ Exists(groups, memberOf[s])
    /\ \A g \in Groups : parentOf[g] # Nil => Exists(groups, g) /\ Exists(groups, parentOf[g])
=============================================================================
