--------------------------- MODULE OwnershipRules ---------------------------
(***************************************************************************)
(* Editing ownership rules, and pinning a certificate to a service, while  *)
(* the identity vocabulary they refer to changes (governance/ownership:    *)
(* rule_mutations.go, rule_validation.go and the checks of                 *)
(* override_mutations.go).  The checks of a rule run outside the           *)
(* transaction that writes it, and UpdateRule merges its patch into a row  *)
(* it read before.  What a rule or an override does to the owners of       *)
(* certificates is in Ownership.                                           *)
(***************************************************************************)
EXTENDS Identity

CONSTANTS
    Rules, Overrides,   \* the rows that may be created
    Editors,            \* operators that edit rules
    Patterns,           \* match values of the kinds that are not agent_group
    Priorities

ASSUME RulesAssumption ==
    /\ Patterns \cap AgentGroups = {}
    /\ Nil \notin Patterns \cup Priorities /\ Nil \notin {"agent_group", "pattern"}

VARIABLES
    rules,       \* ownership_rules
    overrides,   \* the service each override pins, Nil before it is created
    ruleAudit,   \* how often each event about a rule was written
    edit,        \* the edits under way
    outdated,    \* history: edits of which a row they checked has changed since
    asked,       \* history: the value last asked for, for each field of a rule
    clobbered    \* history: rules written by an edit that was merged into other fields

ruleVars == <<rules, overrides, ruleAudit, edit, outdated, asked, clobbered>>

vars == <<identityVars, ruleVars>>

\* The fields of a rule an operator may change.  The description behaves as the priority does.
Fields == [priority : Priorities \cup {Nil}, matchValue : AgentGroups \cup Patterns \cup {Nil}]

NoFields == [priority |-> Nil, matchValue |-> Nil]

Rule == [state : RowState, service : Services \cup {Nil},
         kind : {"agent_group", "pattern", Nil}, fields : Fields]

RuleEvent == {"ownership.rule_created", "ownership.rule_updated", "ownership.rule_enabled",
              "ownership.rule_disabled"} \X Rules

NoRule == [state |-> "absent", service |-> Nil, kind |-> Nil, fields |-> NoFields]

\* An edit under way: the row it is to write, the row as it was read, and for an update the
\* fields of the request.
Edit == [pc : {"idle", "check group", "write rule", "write override"},
         row : Rules \cup Overrides \cup {Nil}, rule : Rule, stored : Rule, patch : Fields]

NoEdit == [pc |-> "idle", row |-> Nil, rule |-> NoRule, stored |-> NoRule, patch |-> NoFields]

RulesInit ==
    /\ Init
    /\ rules = [r \in Rules |-> NoRule] /\ overrides = [o \in Overrides |-> Nil]
    /\ ruleAudit = [x \in RuleEvent |-> 0]
    /\ edit = [e \in Editors |-> NoEdit] /\ outdated = {}
    /\ asked = [r \in Rules |-> NoFields] /\ clobbered = {}

----------------------------------------------------------------------------

EditAt(e, pc) == edit[e].pc = pc

EditGo(e, rec) == edit' = [edit EXCEPT ![e] = rec]

EditReturn(e) == EditGo(e, NoEdit)

ruleAuditEventNow(action, r) == ruleAudit' = [ruleAudit EXCEPT ![<<action, r>>] = @ + 1]

BeginEdit(e) ==
    /\ EditAt(e, "idle") /\ Request
    /\ UNCHANGED <<tagVars, serviceVars, groupVars, agentGroupVars, audit, call, overtaken>>

ActiveServiceExists(s) == services[s] = "active"

ActiveAgentGroupExists(g) == agentGroups[g] = "active"

\* The values a rule of kind k may have: a pattern that compiles, or the id of a group.
validateMatchValue(k) == IF k = "agent_group" THEN AgentGroups ELSE Patterns

\* Both checks of the references of a rule are reads of their own.
AfterServiceCheck(kind) == IF kind = "agent_group" THEN "check group" ELSE "write rule"

----------------------------------------------------------------------------

CreateRule(e, r, s, k, v, n) ==
    /\ rules[r].state = "absent" /\ v \in validateMatchValue(k)
    /\ ActiveServiceExists(s)
    /\ LET fields == [priority |-> n, matchValue |-> v]
       IN  EditGo(e, [pc |-> AfterServiceCheck(k), row |-> r, stored |-> NoRule, patch |-> fields,
                      rule |-> [state |-> "active", service |-> s, kind |-> k, fields |-> fields]])
    /\ UNCHANGED <<rules, overrides, ruleAudit, asked, clobbered>>

OwnershipRulesCreate(e, r, s, k, v, n) == BeginEdit(e) /\ CreateRule(e, r, s, k, v, n)

\* A field the request leaves out is taken from the stored row.
Merge(patch, fields) ==
    [priority |-> IF patch.priority = Nil THEN fields.priority ELSE patch.priority,
     matchValue |-> IF patch.matchValue = Nil THEN fields.matchValue ELSE patch.matchValue]

\* Mutant of UpdateRule: a field the request leaves out is blanked.
UpdateRuleReplaces(e, r, patch) ==
    /\ rules[r].state # "absent"
    /\ patch.matchValue \in validateMatchValue(rules[r].kind) \cup {Nil}
    /\ EditGo(e, [pc |-> AfterServiceCheck(rules[r].kind), row |-> r, stored |-> rules[r],
                  patch |-> patch, rule |-> [rules[r] EXCEPT !.fields = patch]])
    /\ UNCHANGED <<rules, overrides, ruleAudit, asked, clobbered>>

\* The stored row is read before the transaction and merged with the request.
UpdateRule(e, r, patch) ==
    /\ rules[r].state # "absent"
    /\ patch.matchValue \in validateMatchValue(rules[r].kind) \cup {Nil}
    /\ EditGo(e, [pc |-> AfterServiceCheck(rules[r].kind), row |-> r, stored |-> rules[r],
                  patch |-> patch,
                  rule |-> [rules[r] EXCEPT !.fields = Merge(patch, rules[r].fields)]])
    /\ UNCHANGED <<rules, overrides, ruleAudit, asked, clobbered>>

OwnershipRulesUpdate(e, r, patch) == BeginEdit(e) /\ UpdateRule(e, r, patch)

\* The check of an agent_group rule's value; a group that is not active is refused.
CheckAgentGroup(e) ==
    /\ EditAt(e, "check group")
    /\ IF ActiveAgentGroupExists(edit[e].rule.fields.matchValue)
       THEN EditGo(e, [edit[e] EXCEPT !.pc = "write rule"])
       ELSE EditReturn(e)
    /\ UNCHANGED <<identityVars, rules, overrides, ruleAudit, asked, clobbered>>

\* The INSERT; a name that was taken meanwhile is refused.
CreateOwnershipRule(e) ==
    /\ EditAt(e, "write rule") /\ edit[e].stored = NoRule
    /\ EditReturn(e)
    /\ IF rules[edit[e].row].state = "absent"
       THEN /\ rules' = [rules EXCEPT ![edit[e].row] = edit[e].rule]
            /\ asked' = [asked EXCEPT ![edit[e].row] = edit[e].patch]
            /\ ruleAuditEventNow("ownership.rule_created", edit[e].row)
       ELSE UNCHANGED <<rules, ruleAudit, asked>>
    /\ UNCHANGED <<identityVars, overrides, clobbered>>

\* The UPDATE writes every field that may change; enabling and disabling are left alone.
UpdateOwnershipRuleMutable(e) ==
    /\ EditAt(e, "write rule") /\ edit[e].stored # NoRule
    /\ EditReturn(e)
    /\ rules' = [rules EXCEPT ![edit[e].row].fields = edit[e].rule.fields]
    /\ asked' = [asked EXCEPT ![edit[e].row] = Merge(edit[e].patch, @)]
    /\ ruleAuditEventNow("ownership.rule_updated", edit[e].row)
    /\ clobbered' = IF rules[edit[e].row].fields = edit[e].stored.fields
                    THEN clobbered ELSE clobbered \cup {edit[e].row}
    /\ UNCHANGED <<identityVars, overrides>>

setRuleEnabled(e, r, on) ==
    /\ rules[r].state # "absent"
    /\ rules' = [rules EXCEPT ![r].state = IF on THEN "active" ELSE "disabled"]
    /\ ruleAuditEventNow(IF on THEN "ownership.rule_enabled" ELSE "ownership.rule_disabled", r)
    /\ UNCHANGED <<overrides, edit, asked, clobbered>>

ruleEnableDisable(e, r, on) == BeginEdit(e) /\ setRuleEnabled(e, r, on)

\* The service of an override is checked before its transaction is opened.
CreateOverride(e, o, s) ==
    /\ overrides[o] = Nil /\ ActiveServiceExists(s)
    /\ EditGo(e, [NoEdit EXCEPT !.pc = "write override", !.row = o,
                                !.rule = [NoRule EXCEPT !.service = s]])
    /\ UNCHANGED <<rules, overrides, ruleAudit, asked, clobbered>>

CertificateOwnershipOverrideCreate(e, o, s) == BeginEdit(e) /\ CreateOverride(e, o, s)

\* The INSERT; another active override of the certificate makes it a conflict.
CreateOwnershipOverride(e) ==
    /\ EditAt(e, "write override")
    /\ EditReturn(e)
    /\ IF overrides[edit[e].row] = Nil
       THEN overrides' = [overrides EXCEPT ![edit[e].row] = edit[e].rule.service]
       ELSE UNCHANGED overrides
    /\ UNCHANGED <<identityVars, rules, ruleAudit, asked, clobbered>>

EditFails(e) ==
    /\ ~ EditAt(e, "idle") /\ faults < MaxFaults
    /\ faults' = faults + 1
    /\ EditReturn(e)
    /\ UNCHANGED <<tagVars, serviceVars, groupVars, agentGroupVars, audit, call, requests, overtaken>>
    /\ UNCHANGED <<rules, overrides, ruleAudit, asked, clobbered>>

----------------------------------------------------------------------------

\* What edit e has checked so far is changed by this step: the service, which an update does
\* not look at, or the agent group.
EditReadChanges(e) ==
    \E x \in {edit[e]} :
        \/ x.stored = NoRule /\ x.rule.service # Nil
           /\ services'[x.rule.service] # services[x.rule.service]
        \/ x.pc = "write rule" /\ x.rule.kind = "agent_group"
           /\ agentGroups'[x.rule.fields.matchValue] # agentGroups[x.rule.fields.matchValue]

RecordOutdated ==
    outdated' = {e \in Editors : edit'[e].pc # "idle" /\ (e \in outdated \/ EditReadChanges(e))}

EditStep(e) ==
    \/ CheckAgentGroup(e) \/ CreateOwnershipRule(e) \/ UpdateOwnershipRuleMutable(e)
    \/ CreateOwnershipOverride(e)

RuleStep(e) ==
    \/ EditStep(e) \/ EditFails(e)
    \/ \E o \in Overrides, s \in Services : CertificateOwnershipOverrideCreate(e, o, s)
    \/ \E r \in Rules :
        \/ \E on \in BOOLEAN : ruleEnableDisable(e, r, on)
        \/ \E patch \in Fields : OwnershipRulesUpdate(e, r, patch)
        \/ \E s \in Services, k \in {"agent_group", "pattern"}, n \in Priorities,
              v \in AgentGroups \cup Patterns :
                OwnershipRulesCreate(e, r, s, k, v, n)

\* A step of the vocabulary leaves the rules alone.
RulesUnchanged == UNCHANGED <<rules, overrides, ruleAudit, edit, asked, clobbered>>

Next ==
    /\ \/ IdentityNext /\ RulesUnchanged
       \/ \E e \in Editors : RuleStep(e)
    /\ RecordOutdated

\* A request that has begun goes on: a lock it waits for is held by a transaction that writes
\* one row and waits for nobody.
Fairness ==
    /\ \A c \in Callers : WF_vars(Step(c) /\ RecordOvertaken /\ RulesUnchanged /\ RecordOutdated)
    /\ \A e \in Editors : WF_vars(EditStep(e) /\ RecordOutdated)

FairSpec == RulesInit /\ [][Next]_vars /\ Fairness

----------------------------------------------------------------------------
(* Properties. *)

TypeOK ==
    /\ IdentityTypeOK
    /\ rules \in [Rules -> Rule] /\ overrides \in [Overrides -> Services \cup {Nil}]
    /\ ruleAudit \in [RuleEvent -> Nat]
    /\ edit \in [Editors -> Edit]
    /\ outdated \subseteq Editors /\ clobbered \subseteq Rules
    /\ asked \in [Rules -> Fields]

\* Every field of a rule and every column of a service has the value last asked for it,
\* unless an update was merged into a row that another update changed before it was written
\* (UpdateRule, ServicesUpdate): edits that do not overlap lose nothing.
LostFieldsComeFromRaces ==
    /\ \A r \in Rules : r \notin clobbered => rules[r].fields = asked[r]
    /\ \A s \in Services : s \notin blurred => profile[s] = wanted[s]

\* A rule, or an override, refers to a service or an agent group that is not active.
RuleOfRetired(r) == rules[r].state # "absent" /\ services[rules[r].service] # "active"

RuleOfRetiredGroup(r) ==
    /\ rules[r].state # "absent" /\ rules[r].kind = "agent_group"
    /\ agentGroups[rules[r].fields.matchValue] # "active"

OverrideOfRetired(o) == overrides[o] # Nil /\ services[overrides[o]] # "active"

\* What this step makes a reference to a retired row was there before, in a row that is
\* retired now without a check, or is written by an edit whose check was overtaken.
ReferringIsChecked ==
    /\ \A r \in Rules :
        /\ ~ RuleOfRetired(r) /\ RuleOfRetired(r)' =>
              rules[r].state # "absent" \/ \E e \in outdated : edit[e].row = r
        /\ ~ RuleOfRetiredGroup(r) /\ RuleOfRetiredGroup(r)' =>
              \/ rules[r].state # "absent" /\ rules[r].fields.matchValue = rules'[r].fields.matchValue
              \/ \E e \in outdated : edit[e].row = r
    /\ \A o \in Overrides : ~ OverrideOfRetired(o) /\ OverrideOfRetired(o)' =>
          overrides[o] # Nil \/ \E e \in outdated : edit[e].row = o

\* Where something comes to refer to a retired row, and which check it takes a race to get
\* past.  No race is needed where the code checks nothing: a disabled tag is attached
\* (AssignTag), a child is put under a disabled group (CreateServiceGroup and
\* UpdateServiceGroupParent), and a service or an agent group that rules or overrides refer
\* to is retired (DisableService, whose count of rules is always zero, and
\* DisableAgentGroup).  Every other use of a retired row comes from a call that was overtaken
\* after its check: the retirement of a tag that is attached or of a group with children
\* (DisableTag, DisableServiceGroup), and the write of a rule or an override that names a
\* retired row (CreateRule, UpdateRule, CreateOverride).
ChecksFailOnlyByRace == [][RetiringIsChecked /\ ReferringIsChecked]_vars

\* The audit trail accounts for the tables whoever raced whom, the rules included: a rule is
\* created once and its state follows from the events that enabled and disabled it.
AuditAccounts ==
    /\ AuditAccountsForRows
    /\ \A r \in Rules :
        /\ ruleAudit[<<"ownership.rule_created", r>>] = (IF rules[r].state = "absent" THEN 0 ELSE 1)
        /\ rules[r].state = "disabled" => ruleAudit[<<"ownership.rule_disabled", r>>] > 0
        /\ ruleAudit[<<"ownership.rule_disabled", r>>] > 0 /\ rules[r].state = "active"
             => ruleAudit[<<"ownership.rule_enabled", r>>] > 0

\* No reference dangles: neither in the vocabulary, where the targets of tags have no foreign
\* key, nor from a rule or an override.
NoReferenceDangles ==
    /\ ReferencesResolve
    /\ \A r \in Rules : /\ rules[r].service # Nil => Exists(services, rules[r].service)
                        /\ rules[r].kind = "agent_group"
                             => Exists(agentGroups, rules[r].fields.matchValue)
    /\ \A o \in Overrides : overrides[o] # Nil => Exists(services, overrides[o])

\* The rows are well formed, references resolve and the audit trail accounts for every row,
\* whatever mutations overlapped or failed (identity.Service, RuleMutations).
TablesAgree == TypeOK /\ NoReferenceDangles /\ AuditAccounts

\* Every request ends, also a walk (checkNoCycle) that meets a cycle the moving group is not on.
RequestEnds ==
    /\ \A c \in Callers : /\ call[c].pc # "idle" ~> call[c].pc = "idle"
                          /\ update[c] # NoUpdate ~> update[c] = NoUpdate
    /\ \A e \in Editors : edit[e].pc # "idle" ~> edit[e].pc = "idle"
=============================================================================
