-------------------------- MODULE Identity_proofs --------------------------
(***************************************************************************)
(* What the races of the vocabulary and of the rules can do and what they  *)
(* cannot, for any number of rows, callers and editors and any bound of    *)
(* the walk: in the first part a cycle of service groups needs a race; in  *)
(* the second, from VocabularyInv on, the tables agree whatever races, and *)
(* a lost field or something retired while in use needs one.               *)
(*                                                                         *)
(* The argument of the first part is about what a walk has read.  Take the *)
(* groups a walk from p has read, and any set of groups that contains p    *)
(* and, with each group that was read, its parent: it contains the group   *)
(* the walk is at.  Once a root was read there is no such set.  Both facts *)
(* speak only of parents the walk has read and therefore last until one of *)
(* these is changed, which is when the call counts as overtaken.  A write  *)
(* that was not overtaken thus closes no cycle.                            *)
(***************************************************************************)
EXTENDS OwnershipRules, TLAPS

Walking == {"walk to create", "walk to move"}

Deciding == {"create", "move"}

HierarchyVars == <<parentOf, raced, call, overtaken>>

HierarchyTypeOK ==
    /\ parentOf \in [Groups -> Groups \cup {Nil}]
    /\ call \in [Callers -> Call]
    /\ \A c \in Callers : call[c].pc \in Walking \cup Deciding =>
          call[c].row \in Groups /\ call[c].parent \in Groups
    /\ \A c \in Callers : call[c].pc \in Walking => call[c].cur \in Groups

\* With p and the parents (in the function up) of the groups in R, the set S holds.
Contains(S, p, R, up) == p \in S /\ \A g \in S \cap R : up[g] \in S

\* What the walk of the call x knows of the parents up.
Knows(x, up) ==
    /\ x.pc \in Walking =>
          /\ x.row \notin x.read
          /\ \A S \in SUBSET Groups : Contains(S, x.parent, x.read, up) => x.cur \in S
    /\ x.pc \in Deciding =>
          /\ x.row \notin x.read
          /\ \A S \in SUBSET Groups : ~ Contains(S, x.parent, x.read, up)

WalksKnow == \A c \in Callers \ overtaken : Knows(call[c], parentOf)

\* The inductive invariant.
HierarchyInv == HierarchyTypeOK /\ WalksKnow /\ CyclesComeFromRaces

----------------------------------------------------------------------------

\* What a walk knows does not depend on parents it has not read.
LEMMA KnowsUnread ==
    ASSUME NEW x, NEW up, NEW new, Knows(x, up), \A g \in x.read : new[g] = up[g]
    PROVE  Knows(x, new)
<1>1. \A S \in SUBSET Groups : Contains(S, x.parent, x.read, new) => Contains(S, x.parent, x.read, up)
  BY DEF Contains
<1> QED BY <1>1 DEF Knows

\* A walk that begins knows that it is at the parent asked for.
LEMMA KnowsAtStart ==
    ASSUME NEW x, NEW up, x.pc \in Walking, x.read = {}, x.cur = x.parent
    PROVE  Knows(x, up)
BY DEF Knows, Contains, Walking, Deciding

\* Making a group a root closes no cycle.
LEMMA RootClosesNoCycle ==
    ASSUME HierarchyInv, NEW g \in Groups,
           parentOf' = [parentOf EXCEPT ![g] = Nil], raced' = raced \ {g}
    PROVE  CyclesComeFromRaces'
<1> SUFFICES ASSUME NEW S \in SUBSET Groups, Closed(S)'
             PROVE  S \cap raced' # {}
  BY DEF CyclesComeFromRaces
<1>1. g \notin S
  BY IdentityAssumption DEF Closed, HierarchyInv, HierarchyTypeOK
<1>2. Closed(S)
  BY <1>1 DEF Closed, HierarchyInv, HierarchyTypeOK
<1> QED BY <1>1, <1>2 DEF HierarchyInv, CyclesComeFromRaces

\* Neither does the write of a call that was not overtaken.
LEMMA WriteClosesNoCycle ==
    ASSUME HierarchyInv, NEW c \in Callers, call[c].pc \in Deciding,
           parentOf' = [parentOf EXCEPT ![call[c].row] = call[c].parent],
           raced' = IF c \in overtaken THEN raced \cup {call[c].row} ELSE raced \ {call[c].row}
    PROVE  CyclesComeFromRaces'
<1> DEFINE g == call[c].row
           p == call[c].parent
<1>t. g \in Groups /\ p \in Groups /\ parentOf \in [Groups -> Groups \cup {Nil}]
  BY DEF HierarchyInv, HierarchyTypeOK
<1> SUFFICES ASSUME NEW S \in SUBSET Groups, Closed(S)'
             PROVE  S \cap raced' # {}
  BY DEF CyclesComeFromRaces
<1>1. CASE g \notin S
  <2>1. Closed(S)
    BY <1>1, <1>t DEF Closed
  <2> QED BY <2>1, <1>1 DEF HierarchyInv, CyclesComeFromRaces
<1>2. CASE g \in S /\ c \in overtaken
  BY <1>2
<1>3. CASE g \in S /\ c \notin overtaken
  <2>1. Knows(call[c], parentOf)
    BY <1>3 DEF HierarchyInv, WalksKnow
  <2>2. g \notin call[c].read /\ ~ Contains(S, p, call[c].read, parentOf)
    BY <2>1 DEF Knows
  <2>3. p \in S
    BY <1>3, <1>t DEF Closed
  <2>4. \A h \in S \cap call[c].read : parentOf[h] \in S
    BY <2>2, <1>t DEF Closed
  <2> QED BY <2>2, <2>3, <2>4 DEF Contains
<1> QED BY <1>1, <1>2, <1>3

\* One round of the walk keeps what it knows.
LEMMA WalkStepKnows ==
    ASSUME NEW x, NEW y, NEW up, Knows(x, up), x.pc \in Walking, x.cur \in Groups, Nil \notin Groups,
           x.cur # x.row, y.row = x.row, y.parent = x.parent, y.read = x.read \cup {x.cur},
           \/ up[x.cur] = Nil /\ y.pc \in Deciding
           \/ up[x.cur] # Nil /\ y.pc \in Walking /\ y.cur = up[x.cur]
    PROVE  Knows(y, up)
<1>1. x.row \notin y.read
  BY DEF Knows
<1>2. \A S \in SUBSET Groups : Contains(S, y.parent, y.read, up) => up[x.cur] \in S
  <2> SUFFICES ASSUME NEW S \in SUBSET Groups, Contains(S, y.parent, y.read, up)
               PROVE  up[x.cur] \in S
    OBVIOUS
  <2>1. Contains(S, x.parent, x.read, up)
    BY DEF Contains
  <2>2. x.cur \in S
    BY <2>1 DEF Knows
  <2> QED BY <2>2 DEF Contains
<1>3. Walking \cap Deciding = {}
  BY DEF Walking, Deciding
<1> QED BY <1>1, <1>2, <1>3 DEF Knows

\* Calls that stay, or that are at none of the steps of a walk, need nothing more.
LEMMA IdleKnows ==
    ASSUME NEW x, NEW up, x.pc \notin Walking \cup Deciding
    PROVE  Knows(x, up)
BY DEF Knows

\* What the calls know carries over a step: for each call that has not been overtaken it is
\* enough to look at its own new record against the old parents.
LEMMA WalksKnowAfter ==
    ASSUME HierarchyInv, RecordOvertaken,
           \A c \in Callers \ overtaken : Knows(call'[c], parentOf),
           \A c \in Callers : call'[c].pc \in Walking \cup Deciding =>
               \A g \in call'[c].read : g \in call[c].read \/ parentOf'[g] = parentOf[g]
    PROVE  WalksKnow'
<1> SUFFICES ASSUME NEW c \in Callers, c \notin overtaken'
             PROVE  Knows(call'[c], parentOf')
  BY DEF WalksKnow
<1>1. CASE call'[c].pc \notin Walking \cup Deciding
  BY <1>1, IdleKnows
<1>2. CASE call'[c].pc \in Walking \cup Deciding
  <2>1. call'[c].pc # "idle"
    BY <1>2 DEF Walking, Deciding
  <2>2. c \notin overtaken /\ \A g \in call[c].read : parentOf'[g] = parentOf[g]
    BY <2>1 DEF RecordOvertaken, ReadChanges
  <2>3. Knows(call'[c], parentOf)
    BY <2>2
  <2>4. \A g \in call'[c].read : parentOf'[g] = parentOf[g]
    BY <1>2, <2>2
  <2> QED BY <2>3, <2>4, KnowsUnread
<1> QED BY <1>1, <1>2

----------------------------------------------------------------------------

\* A step that leaves parents and calls alone.
LEMMA NothingMoves ==
    ASSUME HierarchyInv, RecordOvertaken, UNCHANGED <<parentOf, raced, call>>
    PROVE  HierarchyInv'
<1>1. HierarchyTypeOK'
  BY DEF HierarchyInv, HierarchyTypeOK
<1>2. CyclesComeFromRaces'
  BY DEF HierarchyInv, CyclesComeFromRaces, Closed
<1>3. WalksKnow'
  BY WalksKnowAfter DEF HierarchyInv, WalksKnow
<1> QED BY <1>1, <1>2, <1>3 DEF HierarchyInv

\* A step that replaces the record of one call and leaves the parents alone.
LEMMA CallGoes ==
    ASSUME HierarchyInv, RecordOvertaken, NEW c \in Callers, NEW rec \in Call, Go(c, rec),
           UNCHANGED <<parentOf, raced>>,
           rec.pc \in Walking \cup Deciding => rec.row \in Groups /\ rec.parent \in Groups,
           rec.pc \in Walking => rec.cur \in Groups,
           c \notin overtaken => Knows(rec, parentOf)
    PROVE  HierarchyInv'
<1>1. call \in [Callers -> Call] /\ call' = [call EXCEPT ![c] = rec]
  BY DEF HierarchyInv, HierarchyTypeOK, Go
<1>2. HierarchyTypeOK'
  <2>1. call' \in [Callers -> Call]
    BY <1>1
  <2>2. \A d \in Callers : call'[d] = IF d = c THEN rec ELSE call[d]
    BY <1>1
  <2> QED BY <2>1, <2>2 DEF HierarchyInv, HierarchyTypeOK
<1>3. CyclesComeFromRaces'
  BY DEF HierarchyInv, CyclesComeFromRaces, Closed
<1>4. \A d \in Callers \ overtaken : Knows(call'[d], parentOf)
  BY <1>1 DEF HierarchyInv, WalksKnow
<1>5. WalksKnow'
  BY <1>4, WalksKnowAfter
<1> QED BY <1>2, <1>3, <1>5 DEF HierarchyInv

LEMMA NoCallIsACall == NoCall \in Call /\ NoCall.read = {} /\ NoCall.pc \notin Walking \cup Deciding
BY IdentityAssumption DEF NoCall, Call, Walking, Deciding

\* A step that ends a call and leaves the parents alone.
LEMMA CallReturns ==
    ASSUME HierarchyInv, RecordOvertaken, NEW c \in Callers, Return(c), UNCHANGED <<parentOf, raced>>
    PROVE  HierarchyInv'
BY NoCallIsACall, CallGoes, IdleKnows DEF Return

\* DisableTag and DisableServiceGroup: the call that begins walks nowhere.
LEMMA CallRetires ==
    ASSUME HierarchyInv, RecordOvertaken, NEW c \in Callers, NEW r \in Tags \cup Groups,
           NEW pc \in {"retire tag", "retire group"},
           Go(c, [NoCall EXCEPT !.pc = pc, !.row = r]), UNCHANGED <<parentOf, raced>>
    PROVE  HierarchyInv'
<1> DEFINE rec == [NoCall EXCEPT !.pc = pc, !.row = r]
<1>1. rec \in Call /\ rec.pc = pc
  BY NoCallIsACall DEF Call
<1>n. rec.pc \notin Walking \cup Deciding
  BY <1>1 DEF Walking, Deciding
<1>2. Knows(rec, parentOf)
  BY <1>n, IdleKnows
<1> HIDE DEF rec
<1>3. Go(c, rec)
  BY DEF rec
<1> QED BY <1>1, <1>n, <1>2, <1>3, CallGoes

\* CreateServiceGroup and UpdateServiceGroupParent with a parent: the walk begins.
LEMMA WalkStarts ==
    ASSUME HierarchyInv, RecordOvertaken, NEW c \in Callers, NEW g \in Groups, NEW p \in Groups,
           NEW pc \in Walking, StartWalk(c, pc, g, p), UNCHANGED <<parentOf, raced>>
    PROVE  HierarchyInv'
<1> DEFINE rec == [NoCall EXCEPT !.pc = pc, !.row = g, !.parent = p, !.cur = p]
<1>w. pc \in {"walk to create", "walk to move"}
  BY DEF Walking
<1>1. /\ rec \in Call /\ rec.pc = pc /\ rec.row = g /\ rec.parent = p
      /\ rec.cur = p /\ rec.read = {}
  BY NoCallIsACall, <1>w DEF Call
<1>2. Knows(rec, parentOf)
  BY <1>1, KnowsAtStart
<1>3. Go(c, rec)
  BY DEF StartWalk
<1> HIDE DEF rec
<1> QED BY <1>1, <1>2, <1>3, CallGoes

\* The parent of a group is made Nil at once.
LEMMA RootIsMade ==
    ASSUME HierarchyInv, RecordOvertaken, NEW g \in Groups,
           parentOf' = [parentOf EXCEPT ![g] = Nil], raced' = raced \ {g}, UNCHANGED call
    PROVE  HierarchyInv'
<1>1. HierarchyTypeOK'
  BY DEF HierarchyInv, HierarchyTypeOK
<1>2. CyclesComeFromRaces'
  BY RootClosesNoCycle
<1>3. WalksKnow'
  BY WalksKnowAfter DEF HierarchyInv, WalksKnow
<1> QED BY <1>1, <1>2, <1>3 DEF HierarchyInv

\* One round of checkNoCycle.
LEMMA WalkGoesOn ==
    ASSUME HierarchyInv, RecordOvertaken, NEW c \in Callers, checkNoCycle(c)
    PROVE  HierarchyInv'
<1> DEFINE x == call[c]
           done == [x EXCEPT !.pc = IF @ = "walk to create" THEN "create" ELSE "move",
                             !.read = @ \cup {x.cur}]
           up == [x EXCEPT !.cur = parentOf[x.cur], !.steps = @ + 1, !.read = @ \cup {x.cur}]
<1>0. /\ x \in Call /\ x.pc \in Walking /\ x.cur \in Groups /\ x.row \in Groups
      /\ x.parent \in Groups /\ parentOf[x.cur] \in Groups \cup {Nil}
  BY DEF HierarchyInv, HierarchyTypeOK, checkNoCycle, Walking
<1>u. UNCHANGED <<parentOf, raced>>
  BY DEF checkNoCycle, groupVars
<1>k. c \notin overtaken => Knows(x, parentOf)
  BY DEF HierarchyInv, WalksKnow
<1>n. Nil \notin Groups
  BY IdentityAssumption
<1>1. CASE Return(c)
  BY <1>1, <1>u, CallReturns
<1>2. CASE x.cur # x.row /\ parentOf[x.cur] = Nil /\ Go(c, done)
  <2>1. /\ done \in Call /\ done.pc \in Deciding /\ done.row = x.row
        /\ done.parent = x.parent /\ done.read = x.read \cup {x.cur}
    BY <1>0 DEF Call, Deciding
  <2>2. done.pc \notin Walking
    BY <2>1 DEF Walking, Deciding
  <2> HIDE DEF done
  <2>3. c \notin overtaken => Knows(done, parentOf)
    BY <1>0, <1>2, <1>k, <1>n, <2>1, WalkStepKnows
  <2> QED BY <1>0, <1>2, <1>u, <2>1, <2>2, <2>3, CallGoes
<1>3. CASE x.steps < MaxDepth /\ x.cur # x.row /\ parentOf[x.cur] # Nil /\ Go(c, up)
  <2>a. x.steps < MaxDepth
    BY <1>3
  <2>0. x.steps + 1 \in 0 .. MaxDepth
    <3>1. x.steps \in 0 .. MaxDepth
      BY <1>0 DEF Call
    <3>2. MaxDepth \in Nat
      BY IdentityAssumption
    <3> HIDE DEF x
    <3> QED BY <2>a, <3>1, <3>2
  <2>1. /\ up \in Call /\ up.pc = x.pc /\ up.row = x.row /\ up.cur = parentOf[x.cur]
        /\ up.parent = x.parent /\ up.read = x.read \cup {x.cur}
    BY <1>0, <1>3, <2>0 DEF Call
  <2> HIDE DEF up
  <2>2. c \notin overtaken => Knows(up, parentOf)
    BY <1>0, <1>3, <1>k, <1>n, <2>1, WalkStepKnows
  <2> QED BY <1>0, <1>3, <1>u, <2>1, <2>2, CallGoes
<1> QED BY <1>1, <1>2, <1>3 DEF checkNoCycle

\* The write after the walk.
LEMMA ParentIsWritten ==
    ASSUME HierarchyInv, RecordOvertaken, NEW c \in Callers, WriteParent(c)
    PROVE  HierarchyInv'
<1>1. CASE UNCHANGED groupVars
  BY <1>1, CallReturns DEF WriteParent, groupVars
<1>2. CASE /\ call[c].pc \in Deciding
           /\ parentOf' = [parentOf EXCEPT ![call[c].row] = call[c].parent]
           /\ raced' = IF c \in overtaken THEN raced \cup {call[c].row} ELSE raced \ {call[c].row}
  <2>1. CyclesComeFromRaces'
    BY <1>2, WriteClosesNoCycle
  <2>2. NoCall \in Call /\ NoCall.pc \notin Walking \cup Deciding
    BY NoCallIsACall
  <2>3. call \in [Callers -> Call] /\ call' = [call EXCEPT ![c] = NoCall]
    BY DEF HierarchyInv, HierarchyTypeOK, WriteParent, Return, Go
  <2>4. HierarchyTypeOK'
    <3>1. call' \in [Callers -> Call]
      BY <2>2, <2>3
    <3>2. \A d \in Callers : call'[d] = IF d = c THEN NoCall ELSE call[d]
      BY <2>3
    <3>3. parentOf' \in [Groups -> Groups \cup {Nil}]
      BY <1>2 DEF HierarchyInv, HierarchyTypeOK
    <3> QED BY <2>2, <3>1, <3>2, <3>3 DEF HierarchyInv, HierarchyTypeOK
  <2>5. \A d \in Callers \ overtaken : Knows(call'[d], parentOf)
    BY <2>2, <2>3, IdleKnows DEF HierarchyInv, WalksKnow
  <2>6. \A d \in Callers : call'[d].pc \in Walking \cup Deciding => call'[d].read = call[d].read
    BY <2>2, <2>3
  <2>7. WalksKnow'
    BY <2>5, <2>6, WalksKnowAfter
  <2> QED BY <2>1, <2>4, <2>7 DEF HierarchyInv
<1> QED BY <1>1, <1>2 DEF WriteParent, insertServiceGroup, setParent, At, Deciding

\* Every step of the vocabulary preserves the invariant.
LEMMA HierarchyStep ==
    ASSUME HierarchyInv, IdentityNext
    PROVE  HierarchyInv'
<1>0. RecordOvertaken
  BY DEF IdentityNext
<1>1. CASE TagStep
  <2>1. CASE UNCHANGED <<parentOf, raced, call>>
    BY <1>0, <2>1, NothingMoves
  <2>2. ASSUME NEW c \in Callers, NEW t \in Tags, TagsDisable(c, t)
        PROVE  HierarchyInv'
    BY <1>0, <2>2, CallRetires DEF TagsDisable, DisableTag, groupVars
  <2> QED BY <1>1, <2>1, <2>2
          DEF TagStep, TagsCreate, CreateTag, TagsUpdate, UpdateTagDescription, TagsEnable, EnableTag,
              TagAssignmentsCreate, AssignTag, TagAssignmentsDelete, UnassignTag, groupVars
<1>2. CASE ServiceStep \/ AgentGroupStep
  <2>1. UNCHANGED <<parentOf, raced, call>>
    BY <1>2
       DEF ServiceStep, ServicesCreate, CreateService, ServicesUpdate, ServicesDisable, DisableService,
           ServicesEnable, EnableService, ServicesSetGroup, SetServiceGroupMembership,
           ServicesClearGroup, ClearServiceGroupMembership, AgentGroupStep, AgentGroupsCreate,
           CreateAgentGroup, AgentGroupsDisable, DisableAgentGroup, AgentGroupsAddMember,
           AddAgentToGroup, AgentGroupsRemoveMember, RemoveAgentFromGroup, groupVars
  <2> QED BY <1>0, <2>1, NothingMoves
<1>3. CASE GroupStep
  <2> SUFFICES ASSUME NEW g \in Groups, NEW c \in Callers,
                      \/ DisableServiceGroup(c, g)
                      \/ \E p \in Groups \cup {Nil} : \/ CreateServiceGroup(c, g, p)
                                                    \/ UpdateServiceGroupParent(c, g, p)
               PROVE  HierarchyInv'
    BY <1>3 DEF GroupStep, ServiceGroupsDisable, ServiceGroupsCreate, ServiceGroupsSetParent
  <2>1. CASE DisableServiceGroup(c, g)
    BY <1>0, <2>1, CallRetires DEF DisableServiceGroup, groupVars
  <2>2. ASSUME NEW p \in Groups \cup {Nil},
               CreateServiceGroup(c, g, p) \/ UpdateServiceGroupParent(c, g, p)
        PROVE  HierarchyInv'
    <3>1. CASE parentOf' = [parentOf EXCEPT ![g] = Nil] /\ raced' = raced \ {g} /\ UNCHANGED call
      BY <1>0, <3>1, RootIsMade
    <3>2. CASE /\ p # Nil /\ UNCHANGED <<parentOf, raced>>
               /\ \E pc \in Walking : StartWalk(c, pc, g, p)
      BY <1>0, <2>2, <3>2, WalkStarts
    <3> QED BY <2>2, <3>1, <3>2
            DEF CreateServiceGroup, UpdateServiceGroupParent, insertServiceGroup, setParent,
                groupVars, Walking
  <2> QED BY <2>1, <2>2
<1>4. ASSUME NEW c \in Callers, Step(c) \/ CallFails(c) \/ UpdateFails(c)
      PROVE  HierarchyInv'
  <2>1. CASE stampTagDisabled(c) \/ stampServiceGroupDisabled(c) \/ CallFails(c)
    BY <1>0, <2>1, CallReturns
       DEF stampTagDisabled, stampServiceGroupDisabled, CallFails, groupVars
  <2>2. CASE checkNoCycle(c)
    BY <1>0, <2>2, WalkGoesOn
  <2>3. CASE WriteParent(c)
    BY <1>0, <2>3, ParentIsWritten
  <2>4. CASE UpdateService(c) \/ UpdateFails(c)
    BY <1>0, <2>4, NothingMoves DEF UpdateService, UpdateFails, groupVars
  <2> QED BY <1>4, <2>1, <2>2, <2>3, <2>4 DEF Step
<1> QED BY <1>1, <1>2, <1>3, <1>4 DEF IdentityNext

LEMMA HierarchyStutters ==
    ASSUME HierarchyInv, UNCHANGED HierarchyVars
    PROVE  HierarchyInv'
BY DEF HierarchyInv, HierarchyTypeOK, WalksKnow, Knows, Contains, CyclesComeFromRaces, Closed,
       HierarchyVars

LEMMA HierarchyStarts == Init => HierarchyInv
<1> SUFFICES ASSUME Init PROVE HierarchyInv
  OBVIOUS
<1>1. NoCall \in Call /\ NoCall.pc \notin Walking \cup Deciding
  BY NoCallIsACall
<1>2. HierarchyTypeOK
  BY <1>1 DEF Init, HierarchyTypeOK
<1>3. WalksKnow
  BY <1>1, IdleKnows DEF Init, WalksKnow
<1>4. CyclesComeFromRaces
  <2> SUFFICES ASSUME NEW S \in SUBSET Groups, Closed(S) PROVE FALSE
    BY DEF CyclesComeFromRaces
  <2>1. PICK g \in S : parentOf[g] \in S
    BY DEF Closed
  <2> QED BY <2>1, IdentityAssumption DEF Init
<1> QED BY <1>2, <1>3, <1>4 DEF HierarchyInv

\* The hierarchy of service groups (identity.Service) has a cycle only through a race,
\* whatever the number of groups and callers and the bound of checkNoCycle.
THEOREM CyclesNeedRaces == Spec => []CyclesComeFromRaces
<1>1. HierarchyInv /\ [IdentityNext]_identityVars => HierarchyInv'
  BY HierarchyStep, HierarchyStutters DEF identityVars, groupVars, HierarchyVars
<1>2. HierarchyInv => CyclesComeFromRaces
  BY DEF HierarchyInv
<1> QED BY <1>1, <1>2, HierarchyStarts, PTL DEF Spec

\* The same while rules and overrides are edited.
THEOREM CyclesNeedRacesWithRules == FairSpec => []CyclesComeFromRaces
<1>1. HierarchyInv /\ [Next]_vars => HierarchyInv'
  <2>1. ASSUME NEW e \in Editors, RuleStep(e)
        PROVE  UNCHANGED HierarchyVars
    BY <2>1 DEF RuleStep, EditStep, EditFails, CreateRule, UpdateRule, CheckAgentGroup, BeginEdit,
                CreateOwnershipRule, UpdateOwnershipRuleMutable, setRuleEnabled, CreateOverride,
                OwnershipRulesCreate, OwnershipRulesUpdate, ruleEnableDisable,
                CertificateOwnershipOverrideCreate,
                CreateOwnershipOverride, identityVars, groupVars, HierarchyVars
  <2>2. UNCHANGED vars => UNCHANGED HierarchyVars
    BY DEF vars, identityVars, groupVars, HierarchyVars
  <2> QED BY <2>1, <2>2, HierarchyStep, HierarchyStutters DEF Next
<1>2. HierarchyInv => CyclesComeFromRaces
  BY DEF HierarchyInv
<1>3. RulesInit => HierarchyInv
  BY HierarchyStarts DEF RulesInit
<1> QED BY <1>1, <1>2, <1>3, PTL DEF FairSpec

----------------------------------------------------------------------------
(***************************************************************************)
(* The tables agree, nothing is lost or retired in use but by a race.      *)
(*                                                                         *)
(* A mutation relies on what it read in an earlier statement.  CallOK,     *)
(* UpdateOK and EditOK say what of that cannot go stale, because rows are  *)
(* never deleted and a rule keeps its kind; Fresh and EditsFresh say what  *)
(* holds as long as nothing that was read has changed.                     *)
(***************************************************************************)

CallOK(x) ==
    /\ x.pc = "retire tag" => x.row \in Tags
    /\ x.pc = "retire group" => x.row \in Groups
    /\ x.pc \in Walking \cup Deciding =>
          x.row \in Groups /\ x.parent \in Groups /\ Exists(groups, x.parent)
    /\ x.pc \in Walking => x.cur \in Groups

UpdateOK(u) == u = NoUpdate \/ u.row \in Services

\* What the preflight of a call saw still holds.
PreflightHolds(x) ==
    /\ x.pc = "retire tag" => ListTagAssignmentsForTag(x.row) = {}
    /\ x.pc = "retire group" => ActiveChildren(x.row) = {}

\* The edit of a service was merged into what the row still is.
MergeHolds(u) == u # NoUpdate => u.merged = MergeProfile(u.patch, profile[u.row])

CallsOK == \A c \in Callers : CallOK(call[c]) /\ UpdateOK(update[c])

Fresh == \A c \in Callers \ overtaken : PreflightHolds(call[c]) /\ MergeHolds(update[c])

ColumnsKept == \A s \in Services : s \notin blurred => profile[s] = wanted[s]

\* The parts of AuditAccountsForRows; that a tag is not retired before it exists is added.
TagsAudited ==
    \A t \in Tags : /\ audit[<<"tag.created", t>>] = (IF Exists(tags, t) THEN 1 ELSE 0)
                    /\ tags[t] = "disabled" => audit[<<"tag.disabled", t>>] > 0
                    /\ audit[<<"tag.disabled", t>>] > 0 /\ tags[t] = "active"
                         => audit[<<"tag.enabled", t>>] > 0
                    /\ tags[t] = "absent" => audit[<<"tag.disabled", t>>] = 0

GroupsAudited ==
    \A g \in Groups : /\ audit[<<"service_group.created", g>>] = (IF Exists(groups, g) THEN 1 ELSE 0)
                      /\ (groups[g] = "disabled") = (audit[<<"service_group.disabled", g>>] > 0)

AssignmentsAudited ==
    \A p \in Tags \X Tagged :
        audit[<<"tag.assignment_created", p>>]
          = audit[<<"tag.assignment_deleted", p>>] + (IF p \in assignments THEN 1 ELSE 0)

MembersAudited ==
    \A p \in Agents \X AgentGroups :
        audit[<<"agent_group.membership_created", p>>]
          = audit[<<"agent_group.membership_deleted", p>>] + (IF p \in agentsIn THEN 1 ELSE 0)

RowsAudited == TagsAudited /\ GroupsAudited /\ AssignmentsAudited /\ MembersAudited

\* The inductive invariant of the vocabulary.
VocabularyInv ==
    /\ IdentityTypeOK /\ CallsOK /\ Fresh /\ ColumnsKept
    /\ ReferencesResolve /\ RowsAudited

\* A rule as the checks of rule_validation.go let it through.
Proper(rule) ==
    /\ rule.state # "absent" /\ rule.service \in Services /\ rule.kind \in {"agent_group", "pattern"}
    /\ rule.fields.matchValue \in validateMatchValue(rule.kind)

EditOK(x) ==
    /\ x.pc # "idle" => x.rule.service \in Services /\ Exists(services, x.rule.service)
    /\ x.pc \in {"check group", "write rule"} =>
          /\ x.row \in Rules /\ Proper(x.rule)
          /\ x.stored = NoRule => x.rule.fields = x.patch /\ x.rule.state = "active"
          /\ x.stored # NoRule => /\ x.rule.fields = Merge(x.patch, x.stored.fields)
                                 /\ rules[x.row].state # "absent" /\ rules[x.row].kind = x.rule.kind
    /\ x.pc = "write rule" /\ x.rule.kind = "agent_group" =>
          Exists(agentGroups, x.rule.fields.matchValue)
    /\ x.pc = "write override" => x.row \in Overrides /\ x.stored = NoRule

\* What the checks of an edit saw still holds.
EditHolds(x) ==
    /\ x.pc # "idle" /\ x.stored = NoRule => services[x.rule.service] = "active"
    /\ x.pc = "write rule" /\ x.rule.kind = "agent_group" =>
          agentGroups[x.rule.fields.matchValue] = "active"

RulesTypeOK ==
    /\ rules \in [Rules -> Rule] /\ overrides \in [Overrides -> Services \cup {Nil}]
    /\ ruleAudit \in [RuleEvent -> Nat] /\ edit \in [Editors -> Edit]
    /\ outdated \subseteq Editors /\ clobbered \subseteq Rules /\ asked \in [Rules -> Fields]

EditsOK == \A e \in Editors : EditOK(edit[e])

EditsFresh == \A e \in Editors \ outdated : EditHolds(edit[e])

RulesProper == \A r \in Rules : rules[r] = NoRule \/ Proper(rules[r])

FieldsKept == \A r \in Rules : r \notin clobbered => rules[r].fields = asked[r]

RulesRefer ==
    /\ \A r \in Rules : rules[r].state # "absent" =>
          /\ Exists(services, rules[r].service)
          /\ rules[r].kind = "agent_group" => Exists(agentGroups, rules[r].fields.matchValue)
    /\ \A o \in Overrides : overrides[o] # Nil => Exists(services, overrides[o])

RulesAudited ==
    \A r \in Rules :
        /\ ruleAudit[<<"ownership.rule_created", r>>] = (IF rules[r].state = "absent" THEN 0 ELSE 1)
        /\ rules[r].state = "disabled" => ruleAudit[<<"ownership.rule_disabled", r>>] > 0
        /\ ruleAudit[<<"ownership.rule_disabled", r>>] > 0 /\ rules[r].state = "active"
             => ruleAudit[<<"ownership.rule_enabled", r>>] > 0
        /\ rules[r].state = "absent" => ruleAudit[<<"ownership.rule_disabled", r>>] = 0

\* The inductive invariant of the rules.
RulesInv ==
    /\ RulesTypeOK /\ RulesProper /\ EditsOK /\ EditsFresh /\ FieldsKept /\ RulesRefer /\ RulesAudited

----------------------------------------------------------------------------
(* The tables and the audit trail. *)

tableVars == <<tags, services, groups, agentGroups, assignments, agentsIn, parentOf, memberOf>>

TablesTypeOK ==
    /\ tags \in [Tags -> RowState] /\ services \in [Services -> RowState]
    /\ groups \in [Groups -> RowState] /\ agentGroups \in [AgentGroups -> RowState]
    /\ assignments \subseteq Tags \X Tagged /\ agentsIn \subseteq Agents \X AgentGroups
    /\ parentOf \in [Groups -> Groups \cup {Nil}] /\ memberOf \in [Services -> Groups \cup {Nil}]
    /\ audit \in [Event -> Nat]

TablesInv == TablesTypeOK /\ ReferencesResolve /\ RowsAudited

LEMMA EventsAreEvents ==
    /\ \A t \in Tags : {<<"tag.created", t>>, <<"tag.updated", t>>, <<"tag.disabled", t>>,
                        <<"tag.enabled", t>>} \subseteq Event
    /\ \A p \in Tags \X Tagged : {<<"tag.assignment_created", p>>,
                                  <<"tag.assignment_deleted", p>>} \subseteq Event
    /\ \A s \in Services : {<<"service.created", s>>, <<"service.updated", s>>,
                            <<"service.disabled", s>>, <<"service.enabled", s>>,
                            <<"service_group.membership_set", s>>,
                            <<"service_group.membership_deleted", s>>} \subseteq Event
    /\ \A g \in Groups : {<<"service_group.created", g>>, <<"service_group.updated", g>>,
                          <<"service_group.disabled", g>>} \subseteq Event
    /\ \A g \in AgentGroups : {<<"agent_group.created", g>>, <<"agent_group.disabled", g>>} \subseteq Event
    /\ \A p \in Agents \X AgentGroups : {<<"agent_group.membership_created", p>>,
                                         <<"agent_group.membership_deleted", p>>} \subseteq Event
BY DEF Event

\* An event raises its own count and no other.
LEMMA AuditRises ==
    ASSUME TablesInv, NEW a, NEW x, <<a, x>> \in Event, recordAudit(a, x)
    PROVE  /\ audit' \in [Event -> Nat]
           /\ \A e \in Event : e # <<a, x>> => audit'[e] = audit[e]
           /\ audit'[<<a, x>>] = audit[<<a, x>>] + 1
           /\ \A e \in Event : audit[e] > 0 => audit'[e] > 0
BY DEF TablesInv, TablesTypeOK, recordAudit

LEMMA AuditParts == RowsAudited => AuditAccountsForRows
BY DEF RowsAudited, AuditAccountsForRows, TagsAudited, GroupsAudited, AssignmentsAudited, MembersAudited

\* The events each part counts.
TagEvents == {"tag.created", "tag.disabled", "tag.enabled"}
GroupEvents == {"service_group.created", "service_group.disabled"}
AssignmentEvents == {"tag.assignment_created", "tag.assignment_deleted"}
MemberEvents == {"agent_group.membership_created", "agent_group.membership_deleted"}

LEMMA TagsStayAudited ==
    ASSUME TablesInv, NEW a, NEW x, <<a, x>> \in Event, recordAudit(a, x), a \notin TagEvents,
           UNCHANGED tags
    PROVE  TagsAudited'
<1>1. \A e \in Event : e # <<a, x>> => audit'[e] = audit[e]
  BY AuditRises
<1>2. TagsAudited
  BY DEF TablesInv, RowsAudited
<1>3. \A t \in Tags : /\ audit'[<<"tag.created", t>>] = audit[<<"tag.created", t>>]
                      /\ audit'[<<"tag.disabled", t>>] = audit[<<"tag.disabled", t>>]
                      /\ audit'[<<"tag.enabled", t>>] = audit[<<"tag.enabled", t>>]
  BY <1>1, EventsAreEvents DEF TagEvents
<1> QED BY <1>2, <1>3 DEF TagsAudited, Exists

LEMMA GroupsStayAudited ==
    ASSUME TablesInv, NEW a, NEW x, <<a, x>> \in Event, recordAudit(a, x), a \notin GroupEvents,
           UNCHANGED groups
    PROVE  GroupsAudited'
<1>1. \A e \in Event : e # <<a, x>> => audit'[e] = audit[e]
  BY AuditRises
<1>2. GroupsAudited
  BY DEF TablesInv, RowsAudited
<1>3. \A g \in Groups : /\ audit'[<<"service_group.created", g>>] = audit[<<"service_group.created", g>>]
                        /\ audit'[<<"service_group.disabled", g>>] = audit[<<"service_group.disabled", g>>]
  BY <1>1, EventsAreEvents DEF GroupEvents
<1> QED BY <1>2, <1>3 DEF GroupsAudited, Exists

LEMMA AssignmentsStayAudited ==
    ASSUME TablesInv, NEW a, NEW x, <<a, x>> \in Event, recordAudit(a, x), a \notin AssignmentEvents,
           UNCHANGED assignments
    PROVE  AssignmentsAudited'
<1>1. \A e \in Event : e # <<a, x>> => audit'[e] = audit[e]
  BY AuditRises
<1>2. AssignmentsAudited
  BY DEF TablesInv, RowsAudited
<1>3. \A p \in Tags \X Tagged :
        /\ audit'[<<"tag.assignment_created", p>>] = audit[<<"tag.assignment_created", p>>]
        /\ audit'[<<"tag.assignment_deleted", p>>] = audit[<<"tag.assignment_deleted", p>>]
  BY <1>1, EventsAreEvents DEF AssignmentEvents
<1> QED BY <1>2, <1>3 DEF AssignmentsAudited

LEMMA MembersStayAudited ==
    ASSUME TablesInv, NEW a, NEW x, <<a, x>> \in Event, recordAudit(a, x), a \notin MemberEvents,
           UNCHANGED agentsIn
    PROVE  MembersAudited'
<1>1. \A e \in Event : e # <<a, x>> => audit'[e] = audit[e]
  BY AuditRises
<1>2. MembersAudited
  BY DEF TablesInv, RowsAudited
<1>3. \A p \in Agents \X AgentGroups :
        /\ audit'[<<"agent_group.membership_created", p>>] = audit[<<"agent_group.membership_created", p>>]
        /\ audit'[<<"agent_group.membership_deleted", p>>] = audit[<<"agent_group.membership_deleted", p>>]
  BY <1>1, EventsAreEvents DEF MemberEvents
<1> QED BY <1>2, <1>3 DEF MembersAudited

\* References still resolve when rows only come to exist and every reference was there before.
RowsRemain ==
    /\ \A t \in Tags : Exists(tags, t) => Exists(tags, t)'
    /\ \A s \in Services : Exists(services, s) => Exists(services, s)'
    /\ \A g \in Groups : Exists(groups, g) => Exists(groups, g)'
    /\ \A g \in AgentGroups : Exists(agentGroups, g) => Exists(agentGroups, g)'

LEMMA ReferencesRemain ==
    ASSUME TablesInv, RowsRemain, assignments' \subseteq assignments, agentsIn' \subseteq agentsIn,
           UNCHANGED <<memberOf, parentOf>>
    PROVE  ReferencesResolve'
<1>1. ReferencesResolve /\ TablesTypeOK
  BY DEF TablesInv
<1>2. \A a \in assignments' : a \in assignments /\ a[1] \in Tags
  BY <1>1 DEF TablesTypeOK
<1>3. \A a \in agentsIn' : a \in agentsIn /\ a[2] \in AgentGroups
  BY <1>1 DEF TablesTypeOK
<1> QED BY <1>1, <1>2, <1>3 DEF ReferencesResolve, RowsRemain, TablesTypeOK

LEMMA TablesStay ==
    ASSUME TablesInv, UNCHANGED <<tableVars, audit>>
    PROVE  TablesInv'
<1>1. RowsRemain
  BY DEF RowsRemain, Exists, tableVars
<1>2. ReferencesResolve'
  BY <1>1, ReferencesRemain DEF tableVars
<1>3. RowsAudited'
  BY DEF TablesInv, RowsAudited, TagsAudited, GroupsAudited, AssignmentsAudited, MembersAudited,
         Exists, tableVars
<1> QED BY <1>2, <1>3 DEF TablesInv, TablesTypeOK, tableVars

\* An event no part of the account counts: UpdateTagDescription and UpdateService.
LEMMA TablesOnlyAudited ==
    ASSUME TablesInv, NEW a \in {"tag.updated", "service.updated"}, NEW x, <<a, x>> \in Event,
           recordAudit(a, x), UNCHANGED tableVars
    PROVE  TablesInv'
<1>1. RowsRemain
  BY DEF RowsRemain, Exists, tableVars
<1>2. ReferencesResolve'
  BY <1>1, ReferencesRemain DEF tableVars
<1>3. TagsAudited' /\ GroupsAudited' /\ AssignmentsAudited' /\ MembersAudited'
  BY TagsStayAudited, GroupsStayAudited, AssignmentsStayAudited, MembersStayAudited
     DEF TagEvents, GroupEvents, AssignmentEvents, MemberEvents, tableVars
<1>4. RowsAudited'
  BY <1>3 DEF RowsAudited
<1>5. audit' \in [Event -> Nat]
  BY AuditRises
<1> QED BY <1>2, <1>4, <1>5 DEF TablesInv, TablesTypeOK, tableVars

\* insertTag, stampTagDisabled and clearTagDisabled with their events.
LEMMA TagWritten ==
    ASSUME TablesInv, NEW t \in Tags, NEW st, NEW a, tags' = Set(tags, t, st), recordAudit(a, t),
           \/ a = "tag.created" /\ st = "active" /\ ~ Exists(tags, t)
           \/ a = "tag.disabled" /\ st = "disabled" /\ Exists(tags, t)
           \/ a = "tag.enabled" /\ st = "active" /\ Exists(tags, t),
           UNCHANGED <<services, groups, agentGroups, assignments, agentsIn, parentOf, memberOf>>
    PROVE  TablesInv'
<1>e. <<a, t>> \in Event
  BY EventsAreEvents
<1>t. /\ tags \in [Tags -> RowState] /\ tags' \in [Tags -> RowState]
      /\ \A u \in Tags : tags'[u] = IF u = t THEN st ELSE tags[u]
  BY DEF TablesInv, TablesTypeOK, Set, RowState
<1>1. RowsRemain
  BY <1>t DEF RowsRemain, Exists
<1>2. ReferencesResolve'
  BY <1>1, ReferencesRemain
<1>3. GroupsAudited' /\ AssignmentsAudited' /\ MembersAudited'
  BY <1>e, GroupsStayAudited, AssignmentsStayAudited, MembersStayAudited
     DEF GroupEvents, AssignmentEvents, MemberEvents
<1>a. /\ \A e \in Event : e # <<a, t>> => audit'[e] = audit[e]
      /\ audit'[<<a, t>>] = audit[<<a, t>>] + 1 /\ audit' \in [Event -> Nat]
      /\ \A e \in Event : audit[e] > 0 => audit'[e] > 0
  BY <1>e, AuditRises
<1>b. audit \in [Event -> Nat] /\ TagsAudited
  BY DEF TablesInv, TablesTypeOK, RowsAudited
<1>4. TagsAudited'
  <2> SUFFICES ASSUME NEW u \in Tags
               PROVE  /\ audit'[<<"tag.created", u>>] = (IF Exists(tags, u)' THEN 1 ELSE 0)
                      /\ tags'[u] = "disabled" => audit'[<<"tag.disabled", u>>] > 0
                      /\ audit'[<<"tag.disabled", u>>] > 0 /\ tags'[u] = "active"
                           => audit'[<<"tag.enabled", u>>] > 0
                      /\ tags'[u] = "absent" => audit'[<<"tag.disabled", u>>] = 0
    BY DEF TagsAudited
  <2>0. /\ <<"tag.created", u>> \in Event /\ <<"tag.disabled", u>> \in Event
        /\ <<"tag.enabled", u>> \in Event
    BY EventsAreEvents
  <2>1. CASE u # t
    <3>1. /\ audit'[<<"tag.created", u>>] = audit[<<"tag.created", u>>]
          /\ audit'[<<"tag.disabled", u>>] = audit[<<"tag.disabled", u>>]
          /\ audit'[<<"tag.enabled", u>>] = audit[<<"tag.enabled", u>>]
      BY <1>a, <2>0, <2>1
    <3> QED BY <1>b, <1>t, <2>1, <3>1 DEF TagsAudited, Exists
  <2>2. CASE u = t
    <3>1. CASE a = "tag.created"
      <4>1. /\ audit'[<<"tag.created", u>>] = 1 /\ tags'[u] = "active"
            /\ audit'[<<"tag.disabled", u>>] = audit[<<"tag.disabled", u>>]
            /\ audit'[<<"tag.enabled", u>>] = audit[<<"tag.enabled", u>>]
        BY <1>a, <1>b, <1>t, <2>0, <2>2, <3>1 DEF TagsAudited
      <4>2. tags[u] = "absent"
        BY <2>2, <3>1 DEF Exists
      <4>3. audit[<<"tag.disabled", u>>] = 0
        BY <1>b, <4>2 DEF TagsAudited
      <4>4. ~ (0 > 0)
        OBVIOUS
      <4> QED BY <4>1, <4>3, <4>4 DEF Exists
    <3>2. CASE a = "tag.disabled"
      <4>1. /\ audit'[<<"tag.created", u>>] = 1 /\ tags'[u] = "disabled"
            /\ audit'[<<"tag.disabled", u>>] > 0
        BY <1>a, <1>b, <1>t, <2>0, <2>2, <3>2 DEF TagsAudited
      <4> QED BY <4>1 DEF Exists
    <3>3. CASE a = "tag.enabled"
      <4>1. /\ audit'[<<"tag.created", u>>] = 1 /\ tags'[u] = "active"
            /\ audit'[<<"tag.enabled", u>>] > 0
        BY <1>a, <1>b, <1>t, <2>0, <2>2, <3>3 DEF TagsAudited
      <4> QED BY <4>1 DEF Exists
    <3> QED BY <3>1, <3>2, <3>3
  <2> QED BY <2>1, <2>2
<1>5. RowsAudited'
  BY <1>3, <1>4 DEF RowsAudited
<1> QED BY <1>2, <1>5, <1>a, <1>t DEF TablesInv, TablesTypeOK

\* insertAssignment and deleteAssignment with their events.
LEMMA AssignmentWritten ==
    ASSUME TablesInv, NEW t \in Tags, NEW x \in Tagged, NEW a, recordAudit(a, <<t, x>>),
           \/ a = "tag.assignment_created" /\ Exists(tags, t) /\ targetExists(x) /\ insertAssignment(t, x)
           \/ a = "tag.assignment_deleted" /\ deleteAssignment(t, x),
           UNCHANGED <<tags, services, groups, agentGroups, agentsIn, parentOf, memberOf>>
    PROVE  TablesInv'
<1>e. <<a, <<t, x>>>> \in Event
  BY EventsAreEvents
<1>t. assignments \subseteq Tags \X Tagged /\ assignments' \subseteq Tags \X Tagged
  BY DEF TablesInv, TablesTypeOK, insertAssignment, deleteAssignment
<1>r. RowsRemain
  BY DEF RowsRemain, Exists
<1>2. ReferencesResolve'
  <2>1. CASE assignments' \subseteq assignments
    BY <1>r, <2>1, ReferencesRemain
  <2>2. CASE Exists(tags, t) /\ targetExists(x) /\ insertAssignment(t, x)
    <3>1. \A y \in assignments' : y \in assignments \/ y = <<t, x>>
      BY <2>2 DEF insertAssignment
    <3> QED BY <2>2, <3>1 DEF TablesInv, ReferencesResolve, targetExists, Exists
  <2> QED BY <2>1, <2>2 DEF deleteAssignment
<1>3. TagsAudited' /\ GroupsAudited' /\ MembersAudited'
  BY <1>e, TagsStayAudited, GroupsStayAudited, MembersStayAudited
     DEF TagEvents, GroupEvents, MemberEvents
<1>a. /\ \A e \in Event : e # <<a, <<t, x>>>> => audit'[e] = audit[e]
      /\ audit'[<<a, <<t, x>>>>] = audit[<<a, <<t, x>>>>] + 1 /\ audit' \in [Event -> Nat]
  BY <1>e, AuditRises
<1>b. audit \in [Event -> Nat] /\ AssignmentsAudited
  BY DEF TablesInv, TablesTypeOK, RowsAudited
<1>4. AssignmentsAudited'
  <2> SUFFICES ASSUME NEW p \in Tags \X Tagged
               PROVE  audit'[<<"tag.assignment_created", p>>]
                        = audit'[<<"tag.assignment_deleted", p>>] + (IF p \in assignments' THEN 1 ELSE 0)
    BY DEF AssignmentsAudited
  <2>0. /\ <<"tag.assignment_created", p>> \in Event /\ <<"tag.assignment_deleted", p>> \in Event
        /\ audit[<<"tag.assignment_created", p>>] \in Nat /\ audit[<<"tag.assignment_deleted", p>>] \in Nat
    BY <1>b, EventsAreEvents
  <2>b. audit[<<"tag.assignment_created", p>>]
          = audit[<<"tag.assignment_deleted", p>>] + (IF p \in assignments THEN 1 ELSE 0)
    BY <1>b DEF AssignmentsAudited
  <2>1. CASE p # <<t, x>>
    <3>1. /\ audit'[<<"tag.assignment_created", p>>] = audit[<<"tag.assignment_created", p>>]
          /\ audit'[<<"tag.assignment_deleted", p>>] = audit[<<"tag.assignment_deleted", p>>]
      BY <1>a, <2>0, <2>1
    <3>2. p \in assignments' <=> p \in assignments
      BY <2>1 DEF insertAssignment, deleteAssignment
    <3> QED BY <2>b, <3>1, <3>2
  <2>2. CASE p = <<t, x>> /\ a = "tag.assignment_created"
    <3>1. /\ audit'[<<"tag.assignment_created", p>>] = audit[<<"tag.assignment_created", p>>] + 1
          /\ audit'[<<"tag.assignment_deleted", p>>] = audit[<<"tag.assignment_deleted", p>>]
      BY <1>a, <2>0, <2>2
    <3>2. p \in assignments' /\ p \notin assignments
      BY <2>2 DEF insertAssignment
    <3> QED BY <2>0, <2>b, <3>1, <3>2
  <2>3. CASE p = <<t, x>> /\ a = "tag.assignment_deleted"
    <3>1. /\ audit'[<<"tag.assignment_created", p>>] = audit[<<"tag.assignment_created", p>>]
          /\ audit'[<<"tag.assignment_deleted", p>>] = audit[<<"tag.assignment_deleted", p>>] + 1
      BY <1>a, <2>0, <2>3
    <3>2. p \notin assignments' /\ p \in assignments
      BY <2>3 DEF deleteAssignment
    <3> QED BY <2>0, <2>b, <3>1, <3>2
  <2> QED BY <2>1, <2>2, <2>3
<1>5. RowsAudited'
  BY <1>3, <1>4 DEF RowsAudited
<1> QED BY <1>2, <1>5, <1>a, <1>t DEF TablesInv, TablesTypeOK

\* The same for insertAgentMembership and deleteAgentMembership.
LEMMA MembershipWritten ==
    ASSUME TablesInv, NEW t \in Agents, NEW x \in AgentGroups, NEW a, recordAudit(a, <<t, x>>),
           \/ a = "agent_group.membership_created" /\ Exists(agentGroups, x) /\ insertAgentMembership(t, x)
           \/ a = "agent_group.membership_deleted" /\ deleteAgentMembership(t, x),
           UNCHANGED <<tags, services, groups, agentGroups, assignments, parentOf, memberOf>>
    PROVE  TablesInv'
<1>e. <<a, <<t, x>>>> \in Event
  BY EventsAreEvents
<1>t. agentsIn \subseteq Agents \X AgentGroups /\ agentsIn' \subseteq Agents \X AgentGroups
  BY DEF TablesInv, TablesTypeOK, insertAgentMembership, deleteAgentMembership
<1>r. RowsRemain
  BY DEF RowsRemain, Exists
<1>2. ReferencesResolve'
  <2>1. CASE agentsIn' \subseteq agentsIn
    BY <1>r, <2>1, ReferencesRemain
  <2>2. CASE Exists(agentGroups, x) /\ insertAgentMembership(t, x)
    <3>1. \A y \in agentsIn' : y \in agentsIn \/ y = <<t, x>>
      BY <2>2 DEF insertAgentMembership
    <3> QED BY <2>2, <3>1 DEF TablesInv, ReferencesResolve, Exists
  <2> QED BY <2>1, <2>2 DEF deleteAgentMembership
<1>3. TagsAudited' /\ GroupsAudited' /\ AssignmentsAudited'
  BY <1>e, TagsStayAudited, GroupsStayAudited, AssignmentsStayAudited
     DEF TagEvents, GroupEvents, AssignmentEvents
<1>a. /\ \A e \in Event : e # <<a, <<t, x>>>> => audit'[e] = audit[e]
      /\ audit'[<<a, <<t, x>>>>] = audit[<<a, <<t, x>>>>] + 1 /\ audit' \in [Event -> Nat]
  BY <1>e, AuditRises
<1>b. audit \in [Event -> Nat] /\ MembersAudited
  BY DEF TablesInv, TablesTypeOK, RowsAudited
<1>4. MembersAudited'
  <2> SUFFICES ASSUME NEW p \in Agents \X AgentGroups
               PROVE  audit'[<<"agent_group.membership_created", p>>]
                        = audit'[<<"agent_group.membership_deleted", p>>]
                            + (IF p \in agentsIn' THEN 1 ELSE 0)
    BY DEF MembersAudited
  <2>0. /\ <<"agent_group.membership_created", p>> \in Event
        /\ <<"agent_group.membership_deleted", p>> \in Event
        /\ audit[<<"agent_group.membership_created", p>>] \in Nat
        /\ audit[<<"agent_group.membership_deleted", p>>] \in Nat
    BY <1>b, EventsAreEvents
  <2>b. audit[<<"agent_group.membership_created", p>>]
          = audit[<<"agent_group.membership_deleted", p>>] + (IF p \in agentsIn THEN 1 ELSE 0)
    BY <1>b DEF MembersAudited
  <2>1. CASE p # <<t, x>>
    <3>1. /\ audit'[<<"agent_group.membership_created", p>>] = audit[<<"agent_group.membership_created", p>>]
          /\ audit'[<<"agent_group.membership_deleted", p>>] = audit[<<"agent_group.membership_deleted", p>>]
      BY <1>a, <2>0, <2>1
    <3>2. p \in agentsIn' <=> p \in agentsIn
      BY <2>1 DEF insertAgentMembership, deleteAgentMembership
    <3> QED BY <2>b, <3>1, <3>2
  <2>2. CASE p = <<t, x>> /\ a = "agent_group.membership_created"
    <3>1. /\ audit'[<<"agent_group.membership_created", p>>]
               = audit[<<"agent_group.membership_created", p>>] + 1
          /\ audit'[<<"agent_group.membership_deleted", p>>] = audit[<<"agent_group.membership_deleted", p>>]
      BY <1>a, <2>0, <2>2
    <3>2. p \in agentsIn' /\ p \notin agentsIn
      BY <2>2 DEF insertAgentMembership
    <3> QED BY <2>0, <2>b, <3>1, <3>2
  <2>3. CASE p = <<t, x>> /\ a = "agent_group.membership_deleted"
    <3>1. /\ audit'[<<"agent_group.membership_created", p>>] = audit[<<"agent_group.membership_created", p>>]
          /\ audit'[<<"agent_group.membership_deleted", p>>]
               = audit[<<"agent_group.membership_deleted", p>>] + 1
      BY <1>a, <2>0, <2>3
    <3>2. p \notin agentsIn' /\ p \in agentsIn
      BY <2>3 DEF deleteAgentMembership
    <3> QED BY <2>0, <2>b, <3>1, <3>2
  <2> QED BY <2>1, <2>2, <2>3
<1>5. RowsAudited'
  BY <1>3, <1>4 DEF RowsAudited
<1> QED BY <1>2, <1>5, <1>a, <1>t DEF TablesInv, TablesTypeOK

\* Rows and memberships whose events the account does not count: services, agent groups and
\* the direct group of a service.
LEMMA UncountedWritten ==
    ASSUME TablesInv, NEW a, NEW x, <<a, x>> \in Event, recordAudit(a, x),
           a \notin TagEvents \cup GroupEvents \cup AssignmentEvents \cup MemberEvents,
           UNCHANGED <<tags, groups, assignments, agentsIn, parentOf>>,
           services' \in [Services -> RowState], agentGroups' \in [AgentGroups -> RowState],
           memberOf' \in [Services -> Groups \cup {Nil}],
           \A s \in Services : Exists(services, s) => Exists(services, s)',
           \A g \in AgentGroups : Exists(agentGroups, g) => Exists(agentGroups, g)',
           \A s \in Services : memberOf'[s] # Nil =>
               memberOf'[s] = memberOf[s] \/ (Exists(services, s) /\ Exists(groups, memberOf'[s]))
    PROVE  TablesInv'
<1>1. ReferencesResolve'
  <2>1. ReferencesResolve /\ TablesTypeOK
    BY DEF TablesInv
  <2>2. \A y \in agentsIn' : y \in agentsIn /\ y[2] \in AgentGroups
    BY <2>1 DEF TablesTypeOK
  <2>3. \A s \in Services : memberOf'[s] # Nil => Exists(services, s)' /\ Exists(groups, memberOf[s])'
    BY <2>1 DEF ReferencesResolve, Exists
  <2>4. \A g \in Groups : parentOf'[g] # Nil => Exists(groups, g)' /\ Exists(groups, parentOf[g])'
    BY <2>1 DEF ReferencesResolve, Exists
  <2>5. \A y \in agentsIn' : Exists(agentGroups, y[2])'
    BY <2>1, <2>2 DEF ReferencesResolve
  <2>6. \A y \in assignments' :
          /\ Exists(tags, y[1])'
          /\ y[2] \in Certificates \cup Agents \cup {s \in Services : Exists(services, s)'}
                     \cup {g \in Groups : Exists(groups, g)'}
                     \cup {g \in AgentGroups : Exists(agentGroups, g)'}
    BY <2>1 DEF ReferencesResolve, Exists
  <2> QED BY <2>3, <2>4, <2>5, <2>6 DEF ReferencesResolve
<1>2. RowsAudited'
  BY TagsStayAudited, GroupsStayAudited, AssignmentsStayAudited, MembersStayAudited DEF RowsAudited
<1>3. audit' \in [Event -> Nat]
  BY AuditRises
<1> QED BY <1>1, <1>2, <1>3 DEF TablesInv, TablesTypeOK

\* insertService, stampServiceDisabled and clearServiceDisabled.
LEMMA ServiceWritten ==
    ASSUME TablesInv, NEW s \in Services, NEW st \in {"active", "disabled"},
           NEW a \in {"service.created", "service.disabled", "service.enabled"},
           services' = Set(services, s, st), recordAudit(a, s),
           UNCHANGED <<tags, groups, agentGroups, assignments, agentsIn, parentOf, memberOf>>
    PROVE  TablesInv'
<1>1. <<a, s>> \in Event
  BY EventsAreEvents
<1>2. a \notin TagEvents \cup GroupEvents \cup AssignmentEvents \cup MemberEvents
  BY DEF TagEvents, GroupEvents, AssignmentEvents, MemberEvents
<1>3. TablesTypeOK
  BY DEF TablesInv
<1>4. /\ services' \in [Services -> RowState]
      /\ \A u \in Services : services'[u] = IF u = s THEN st ELSE services[u]
  BY <1>3 DEF TablesTypeOK, Set, RowState
<1>5. \A u \in Services : Exists(services, u) => Exists(services, u)'
  BY <1>4 DEF Exists
<1>6. agentGroups' \in [AgentGroups -> RowState] /\ memberOf' \in [Services -> Groups \cup {Nil}]
  BY <1>3 DEF TablesTypeOK
<1>7. \A g \in AgentGroups : Exists(agentGroups, g) => Exists(agentGroups, g)'
  BY DEF Exists
<1> QED BY <1>1, <1>2, <1>4, <1>5, <1>6, <1>7, UncountedWritten

\* insertAgentGroup and stampAgentGroupDisabled.
LEMMA AgentGroupWritten ==
    ASSUME TablesInv, NEW s \in AgentGroups, NEW st \in {"active", "disabled"},
           NEW a \in {"agent_group.created", "agent_group.disabled"},
           agentGroups' = Set(agentGroups, s, st), recordAudit(a, s),
           UNCHANGED <<tags, groups, services, assignments, agentsIn, parentOf, memberOf>>
    PROVE  TablesInv'
<1>1. <<a, s>> \in Event
  BY EventsAreEvents
<1>2. a \notin TagEvents \cup GroupEvents \cup AssignmentEvents \cup MemberEvents
  BY DEF TagEvents, GroupEvents, AssignmentEvents, MemberEvents
<1>3. TablesTypeOK
  BY DEF TablesInv
<1>4. /\ agentGroups' \in [AgentGroups -> RowState]
      /\ \A u \in AgentGroups : agentGroups'[u] = IF u = s THEN st ELSE agentGroups[u]
  BY <1>3 DEF TablesTypeOK, Set, RowState
<1>5. \A u \in AgentGroups : Exists(agentGroups, u) => Exists(agentGroups, u)'
  BY <1>4 DEF Exists
<1>6. services' \in [Services -> RowState] /\ memberOf' \in [Services -> Groups \cup {Nil}]
  BY <1>3 DEF TablesTypeOK
<1>7. \A g \in Services : Exists(services, g) => Exists(services, g)'
  BY DEF Exists
<1> QED BY <1>1, <1>2, <1>4, <1>5, <1>6, <1>7, UncountedWritten

\* upsertMembership and deleteMembership.
LEMMA DirectGroupWritten ==
    ASSUME TablesInv, NEW s \in Services, NEW g \in Groups \cup {Nil},
           g # Nil => Exists(services, s) /\ Exists(groups, g),
           NEW a \in {"service_group.membership_set", "service_group.membership_deleted"},
           memberOf' = [memberOf EXCEPT ![s] = g], recordAudit(a, s),
           UNCHANGED <<tags, groups, services, agentGroups, assignments, agentsIn, parentOf>>
    PROVE  TablesInv'
<1>1. <<a, s>> \in Event
  BY EventsAreEvents
<1>2. a \notin TagEvents \cup GroupEvents \cup AssignmentEvents \cup MemberEvents
  BY DEF TagEvents, GroupEvents, AssignmentEvents, MemberEvents
<1>3. TablesTypeOK
  BY DEF TablesInv
<1>4. /\ memberOf' \in [Services -> Groups \cup {Nil}]
      /\ \A u \in Services : memberOf'[u] = IF u = s THEN g ELSE memberOf[u]
  BY <1>3 DEF TablesTypeOK
<1>5. \A u \in Services : memberOf'[u] # Nil =>
          memberOf'[u] = memberOf[u] \/ (Exists(services, u) /\ Exists(groups, memberOf'[u]))
  BY <1>4
<1>6. services' \in [Services -> RowState] /\ agentGroups' \in [AgentGroups -> RowState]
  BY <1>3 DEF TablesTypeOK
<1>7. /\ \A u \in Services : Exists(services, u) => Exists(services, u)'
      /\ \A u \in AgentGroups : Exists(agentGroups, u) => Exists(agentGroups, u)'
  BY DEF Exists
<1> QED BY <1>1, <1>2, <1>4, <1>5, <1>6, <1>7, UncountedWritten

\* insertServiceGroup, setParent and stampServiceGroupDisabled.
LEMMA GroupWritten ==
    ASSUME TablesInv, NEW g \in Groups, NEW p \in Groups \cup {Nil}, p # Nil => Exists(groups, p),
           NEW a, NEW st, recordAudit(a, g), groups' = Set(groups, g, st),
           \/ /\ a = "service_group.created" /\ ~ Exists(groups, g) /\ st = "active"
              /\ parentOf' = [parentOf EXCEPT ![g] = p]
           \/ /\ a = "service_group.updated" /\ Exists(groups, g) /\ st = groups[g]
              /\ parentOf' = [parentOf EXCEPT ![g] = p]
           \/ /\ a = "service_group.disabled" /\ Exists(groups, g) /\ st = "disabled"
              /\ UNCHANGED parentOf,
           UNCHANGED <<tags, services, agentGroups, assignments, agentsIn, memberOf>>
    PROVE  TablesInv'
<1>e. <<a, g>> \in Event
  BY EventsAreEvents
<1>3. TablesTypeOK /\ ReferencesResolve
  BY DEF TablesInv
<1>t. /\ groups \in [Groups -> RowState] /\ st \in RowState \ {"absent"}
      /\ \A h \in Groups : groups'[h] = IF h = g THEN st ELSE groups[h]
      /\ groups' \in [Groups -> RowState]
  <2>1. groups \in [Groups -> RowState]
    BY <1>3 DEF TablesTypeOK
  <2>2. st \in RowState \ {"absent"}
    BY <2>1 DEF RowState, Exists
  <2> QED BY <2>1, <2>2 DEF Set
<1>p. /\ parentOf' \in [Groups -> Groups \cup {Nil}]
      /\ \A h \in Groups : parentOf'[h] = parentOf[h] \/ (h = g /\ parentOf'[h] = p)
  BY <1>3 DEF TablesTypeOK
<1>r. \A h \in Groups : Exists(groups, h) => Exists(groups, h)'
  BY <1>t DEF Exists
<1>g. Exists(groups, g)'
  BY <1>t DEF Exists
<1>1. ReferencesResolve'
  <2>1. \A h \in Groups : parentOf'[h] # Nil => Exists(groups, h)' /\ Exists(groups, parentOf[h])'
    <3> SUFFICES ASSUME NEW h \in Groups, parentOf'[h] # Nil
                 PROVE  Exists(groups, h)' /\ Exists(groups, parentOf[h])'
      OBVIOUS
    <3>1. CASE parentOf'[h] = parentOf[h]
      <4>1. parentOf[h] \in Groups /\ Exists(groups, h) /\ Exists(groups, parentOf[h])
        BY <1>3, <3>1 DEF ReferencesResolve, TablesTypeOK
      <4>2. Exists(groups, h)'
        BY <1>r, <4>1
      <4>3. groups'[parentOf[h]] # "absent"
        BY <1>t, <4>1 DEF Exists
      <4> QED BY <4>2, <4>3, <3>1 DEF Exists
    <3>2. CASE h = g /\ parentOf'[h] = p
      <4>1. groups'[p] # "absent"
        BY <1>t, <3>2 DEF Exists
      <4> QED BY <1>g, <3>2, <4>1 DEF Exists
    <3> QED BY <1>p, <3>1, <3>2
  <2>2. \A s \in Services : memberOf'[s] # Nil => Exists(services, s)' /\ Exists(groups, memberOf[s])'
    <3> SUFFICES ASSUME NEW s \in Services, memberOf'[s] # Nil
                 PROVE  Exists(services, s)' /\ Exists(groups, memberOf[s])'
      OBVIOUS
    <3>1. memberOf[s] \in Groups /\ Exists(services, s) /\ Exists(groups, memberOf[s])
      BY <1>3 DEF ReferencesResolve, TablesTypeOK
    <3> QED BY <3>1, <1>t DEF Exists
  <2>3. \A y \in agentsIn' : Exists(agentGroups, y[2])'
    BY <1>3 DEF ReferencesResolve, Exists
  <2>4. \A y \in assignments' :
          /\ Exists(tags, y[1])'
          /\ y[2] \in Certificates \cup Agents \cup {s \in Services : Exists(services, s)'}
                     \cup {h \in Groups : Exists(groups, h)'}
                     \cup {h \in AgentGroups : Exists(agentGroups, h)'}
    <3>1. \A h \in AgentGroups : Exists(agentGroups, h) => Exists(agentGroups, h)'
      BY DEF Exists
    <3>2. \A s \in Services : Exists(services, s) => Exists(services, s)'
      BY DEF Exists
    <3>3. \A y \in assignments' : Exists(tags, y[1])'
      BY <1>3 DEF ReferencesResolve, Exists
    <3> QED BY <1>3, <1>r, <3>1, <3>2, <3>3 DEF ReferencesResolve
  <2> QED BY <2>1, <2>2, <2>3, <2>4 DEF ReferencesResolve
<1>2. TagsAudited' /\ AssignmentsAudited' /\ MembersAudited'
  BY <1>e, TagsStayAudited, AssignmentsStayAudited, MembersStayAudited
     DEF TagEvents, AssignmentEvents, MemberEvents
<1>a. /\ \A e \in Event : e # <<a, g>> => audit'[e] = audit[e]
      /\ audit'[<<a, g>>] = audit[<<a, g>>] + 1 /\ audit' \in [Event -> Nat]
  BY <1>e, AuditRises
<1>b. audit \in [Event -> Nat] /\ GroupsAudited
  BY DEF TablesInv, TablesTypeOK, RowsAudited
<1>4. ASSUME NEW h \in Groups
      PROVE  /\ audit'[<<"service_group.created", h>>] = (IF Exists(groups, h)' THEN 1 ELSE 0)
             /\ (groups'[h] = "disabled") = (audit'[<<"service_group.disabled", h>>] > 0)
  <2>0. /\ <<"service_group.created", h>> \in Event /\ <<"service_group.disabled", h>> \in Event
        /\ audit[<<"service_group.disabled", h>>] \in Nat
    BY <1>b, EventsAreEvents
  <2>b. /\ audit[<<"service_group.created", h>>] = (IF Exists(groups, h) THEN 1 ELSE 0)
        /\ (groups[h] = "disabled") = (audit[<<"service_group.disabled", h>>] > 0)
    BY <1>b DEF GroupsAudited
  <2>1. CASE h # g \/ a = "service_group.updated"
    <3>1. /\ audit'[<<"service_group.created", h>>] = audit[<<"service_group.created", h>>]
          /\ audit'[<<"service_group.disabled", h>>] = audit[<<"service_group.disabled", h>>]
      BY <1>a, <2>0, <2>1
    <3>2. groups'[h] = groups[h]
      BY <1>t, <2>1
    <3> QED BY <2>b, <3>1, <3>2 DEF Exists
  <2>2. CASE h = g /\ a = "service_group.created"
    <3>1. /\ audit'[<<"service_group.created", h>>] = audit[<<"service_group.created", h>>] + 1
          /\ audit'[<<"service_group.disabled", h>>] = audit[<<"service_group.disabled", h>>]
      BY <1>a, <2>0, <2>2
    <3>2. groups'[h] = "active" /\ groups[h] = "absent"
      BY <1>t, <2>2 DEF Exists
    <3>3. ~ (audit[<<"service_group.disabled", h>>] > 0) /\ audit[<<"service_group.created", h>>] = 0
      BY <2>b, <3>2 DEF Exists
    <3>4. audit'[<<"service_group.created", h>>] = 1
      BY <3>1, <3>3
    <3>5. ~ (audit'[<<"service_group.disabled", h>>] > 0)
      BY <3>1, <3>3
    <3> QED BY <3>2, <3>4, <3>5 DEF Exists
  <2>3. CASE h = g /\ a = "service_group.disabled"
    <3>1. /\ audit'[<<"service_group.created", h>>] = audit[<<"service_group.created", h>>]
          /\ audit'[<<"service_group.disabled", h>>] = audit[<<"service_group.disabled", h>>] + 1
      BY <1>a, <2>0, <2>3
    <3>2. groups'[h] = "disabled" /\ groups[h] # "absent"
      BY <1>t, <2>3 DEF Exists
    <3>3. audit'[<<"service_group.disabled", h>>] > 0
      BY <3>1, <2>0
    <3>4. audit'[<<"service_group.created", h>>] = 1
      BY <2>b, <3>1, <3>2 DEF Exists
    <3> QED BY <3>2, <3>3, <3>4 DEF Exists
  <2> QED BY <2>1, <2>2, <2>3
<1>5. GroupsAudited'
  BY <1>4 DEF GroupsAudited
<1>6. RowsAudited'
  BY <1>2, <1>5 DEF RowsAudited
<1> QED BY <1>1, <1>3, <1>6, <1>a, <1>t, <1>p DEF TablesInv, TablesTypeOK

----------------------------------------------------------------------------
(* The calls under way. *)

FlowTypeOK == call \in [Callers -> Call] /\ update \in [Callers -> Update] /\ overtaken \subseteq Callers

FlowInv == FlowTypeOK /\ CallsOK /\ Fresh

ProfilesTypeOK == profile \in [Services -> Profile] /\ wanted \in [Services -> Profile] /\ blurred \subseteq Services

ProfilesInv == ProfilesTypeOK /\ ColumnsKept

BoundsOK == raced \subseteq Groups /\ requests \in 0 .. MaxRequests /\ faults \in 0 .. MaxFaults

LEMMA VocabularyParts == VocabularyInv <=> TablesInv /\ FlowInv /\ ProfilesInv /\ BoundsOK
BY DEF VocabularyInv, TablesInv, FlowInv, ProfilesInv, BoundsOK, IdentityTypeOK, TablesTypeOK, FlowTypeOK,
       ProfilesTypeOK

LEMMA VocabularyPartsNext == TablesInv' /\ FlowInv' /\ ProfilesInv' /\ BoundsOK' => VocabularyInv'
BY DEF VocabularyInv, TablesInv, FlowInv, ProfilesInv, BoundsOK, IdentityTypeOK, TablesTypeOK, FlowTypeOK,
       ProfilesTypeOK

LEMMA EmptyRecords ==
    /\ NoProfile \in Profile /\ NoUpdate \in Update /\ NoUpdate.row = Nil
    /\ NoCall \in Call /\ NoCall.pc = "idle"
BY IdentityAssumption DEF NoProfile, NoUpdate, NoCall, Profile, Patch, Update, Call

\* What a caller that was not overtaken relies on is what it was, unless this step is its own.
LEMMA FlowFollows ==
    ASSUME FlowInv, RecordOvertaken, \A g \in Groups : Exists(groups, g) => Exists(groups, g)',
           call' \in [Callers -> Call], update' \in [Callers -> Update],
           \A c \in Callers : call'[c] = call[c] \/ (CallOK(call'[c]) /\ PreflightHolds(call[c])'),
           \A c \in Callers : update'[c] = update[c] \/ (UpdateOK(update'[c]) /\ MergeHolds(update[c])')
    PROVE  FlowInv'
<1>1. CallsOK'
  <2> SUFFICES ASSUME NEW c \in Callers
               PROVE  CallOK(call[c])' /\ UpdateOK(update[c])'
    BY DEF CallsOK
  <2>1. CallOK(call'[c])
    BY DEF FlowInv, CallsOK
  <2>2. CallOK(call[c])'
    BY <2>1 DEF CallOK
  <2>3. UpdateOK(update'[c])
    BY DEF FlowInv, CallsOK
  <2> QED BY <2>2, <2>3 DEF UpdateOK
<1>2. Fresh'
  <2> SUFFICES ASSUME NEW c \in Callers, c \notin overtaken'
               PROVE  PreflightHolds(call[c])' /\ MergeHolds(update[c])'
    BY DEF Fresh
  <2>1. PreflightHolds(call[c])'
    <3>1. CASE call'[c] = call[c] /\ call[c].pc \in {"retire tag", "retire group"}
      <4>1. c \notin overtaken /\ ~ ReadChanges(c)
        BY <3>1 DEF RecordOvertaken
      <4>2. PreflightHolds(call[c])
        BY <4>1 DEF FlowInv, Fresh
      <4>3. /\ call[c].pc = "retire tag" =>
                 ListTagAssignmentsForTag(call[c].row)' = ListTagAssignmentsForTag(call[c].row)
            /\ call[c].pc = "retire group" => ActiveChildren(call[c].row)' = ActiveChildren(call[c].row)
        BY <3>1, <4>1 DEF ReadChanges, At, ListTagAssignmentsForTag, ActiveChildren
      <4> QED BY <3>1, <4>2, <4>3 DEF PreflightHolds, ListTagAssignmentsForTag, ActiveChildren
    <3>2. CASE call'[c].pc \notin {"retire tag", "retire group"}
      BY <3>2 DEF PreflightHolds
    <3> QED BY <3>1, <3>2
  <2>2. MergeHolds(update[c])'
    <3>1. CASE update'[c] = update[c] /\ update[c] # NoUpdate
      <4>1. c \notin overtaken /\ ~ ReadChanges(c)
        BY <3>1 DEF RecordOvertaken
      <4>2. MergeHolds(update[c])
        BY <4>1 DEF FlowInv, Fresh
      <4>3. profile'[update[c].row] = profile[update[c].row]
        BY <3>1, <4>1 DEF ReadChanges
      <4> QED BY <3>1, <4>2, <4>3 DEF MergeHolds
    <3>2. CASE update'[c] = NoUpdate
      BY <3>2 DEF MergeHolds
    <3> QED BY <3>1, <3>2
  <2> QED BY <2>1, <2>2
<1>3. overtaken' \subseteq Callers
  BY DEF RecordOvertaken
<1> QED BY <1>1, <1>2, <1>3 DEF FlowInv, FlowTypeOK

LEMMA FlowStays ==
    ASSUME FlowInv, RecordOvertaken, \A g \in Groups : Exists(groups, g) => Exists(groups, g)',
           UNCHANGED <<call, update>>
    PROVE  FlowInv'
<1>1. call' \in [Callers -> Call] /\ update' \in [Callers -> Update]
  BY DEF FlowInv, FlowTypeOK
<1> QED BY <1>1, FlowFollows

\* One call gets a new record; a preflight has just been made.
LEMMA CallMoves ==
    ASSUME FlowInv, RecordOvertaken, \A g \in Groups : Exists(groups, g) => Exists(groups, g)',
           NEW c \in Callers, NEW rec \in Call, Go(c, rec), CallOK(rec),
           \/ rec.pc \notin {"retire tag", "retire group"}
           \/ PreflightHolds(rec) /\ UNCHANGED <<assignments, parentOf, groups>>,
           UNCHANGED update
    PROVE  FlowInv'
<1>0. call \in [Callers -> Call] /\ update \in [Callers -> Update]
  BY DEF FlowInv, FlowTypeOK
<1>1. call' \in [Callers -> Call] /\ \A d \in Callers : call'[d] = IF d = c THEN rec ELSE call[d]
  BY <1>0 DEF Go
<1>2. call'[c] = rec
  BY <1>1
<1>3. PreflightHolds(call[c])'
  BY <1>2 DEF PreflightHolds, ListTagAssignmentsForTag, ActiveChildren
<1>4. \A d \in Callers : call'[d] = call[d] \/ (CallOK(call'[d]) /\ PreflightHolds(call[d])')
  BY <1>1, <1>2, <1>3
<1> QED BY <1>0, <1>1, <1>4, FlowFollows

LEMMA CallEnds ==
    ASSUME FlowInv, RecordOvertaken, \A g \in Groups : Exists(groups, g) => Exists(groups, g)',
           NEW c \in Callers, Return(c), UNCHANGED update
    PROVE  FlowInv'
<1>1. NoCall \in Call /\ NoCall.pc \notin {"retire tag", "retire group"} /\ CallOK(NoCall)
  BY EmptyRecords DEF CallOK, Walking, Deciding
<1> QED BY <1>1, CallMoves DEF Return

LEMMA UpdateMoves ==
    ASSUME FlowInv, RecordOvertaken, \A g \in Groups : Exists(groups, g) => Exists(groups, g)',
           NEW c \in Callers, NEW u \in Update, update' = [update EXCEPT ![c] = u],
           u = NoUpdate \/ (u.row \in Services /\ MergeHolds(u) /\ UNCHANGED profile),
           UNCHANGED call
    PROVE  FlowInv'
<1>0. call \in [Callers -> Call] /\ update \in [Callers -> Update]
  BY DEF FlowInv, FlowTypeOK
<1>1. update' \in [Callers -> Update] /\ \A d \in Callers : update'[d] = IF d = c THEN u ELSE update[d]
  BY <1>0
<1>2. update'[c] = u
  BY <1>1
<1>3. MergeHolds(update[c])'
  BY <1>2 DEF MergeHolds
<1>4. \A d \in Callers : update'[d] = update[d] \/ (UpdateOK(update'[d]) /\ MergeHolds(update[d])')
  BY <1>1, <1>2, <1>3 DEF UpdateOK
<1> QED BY <1>0, <1>1, <1>4, FlowFollows

\* A table is left alone, or one of its rows gets a state.
Writes(table, new) == new = table \/ \E r \in DOMAIN table, st \in {"active", "disabled"} : new = Set(table, r, st)

LEMMA WritesRemain ==
    ASSUME TablesInv, Writes(tags, tags'), Writes(services, services'), Writes(groups, groups'),
           Writes(agentGroups, agentGroups')
    PROVE  RowsRemain
<1>1. TablesTypeOK
  BY DEF TablesInv
<1>2. \A t \in Tags : Exists(tags, t) => Exists(tags, t)'
  BY <1>1 DEF TablesTypeOK, Writes, Set, Exists
<1>3. \A t \in Services : Exists(services, t) => Exists(services, t)'
  BY <1>1 DEF TablesTypeOK, Writes, Set, Exists
<1>4. \A t \in Groups : Exists(groups, t) => Exists(groups, t)'
  BY <1>1 DEF TablesTypeOK, Writes, Set, Exists
<1>5. \A t \in AgentGroups : Exists(agentGroups, t) => Exists(agentGroups, t)'
  BY <1>1 DEF TablesTypeOK, Writes, Set, Exists
<1> QED BY <1>2, <1>3, <1>4, <1>5 DEF RowsRemain

LEMMA RequestBounds ==
    ASSUME BoundsOK, Request, UNCHANGED raced
    PROVE  BoundsOK'
BY IdentityAssumption DEF BoundsOK, Request

\* Handlers that write in one step.
LEMMA OneStep ==
    ASSUME VocabularyInv, RecordOvertaken, TablesInv', RowsRemain, Request,
           UNCHANGED <<call, profileVars, raced>>
    PROVE  VocabularyInv'
<1>1. FlowInv /\ ProfilesInv /\ BoundsOK
  BY VocabularyParts
<1>2. BoundsOK'
  BY <1>1, RequestBounds
<1>3. FlowInv'
  BY <1>1, FlowStays DEF RowsRemain, profileVars
<1>4. ProfilesInv'
  BY <1>1 DEF ProfilesInv, ProfilesTypeOK, ColumnsKept, profileVars
<1> QED BY <1>2, <1>3, <1>4, VocabularyPartsNext

LEMMA TagHandlers ==
    ASSUME VocabularyInv, RecordOvertaken, NEW t \in Tags,
           \/ TagsCreate(t) \/ TagsEnable(t) \/ \E described \in BOOLEAN : TagsUpdate(t, described)
           \/ \E x \in Tagged : TagAssignmentsCreate(t, x) \/ TagAssignmentsDelete(t, x)
    PROVE  VocabularyInv' /\ RowsRemain
<1>0. TablesInv /\ DOMAIN tags = Tags
  BY VocabularyParts DEF TablesInv, TablesTypeOK
<1>1. CASE TagsCreate(t) \/ TagsEnable(t)
  <2>1. TablesInv'
    BY <1>0, <1>1, TagWritten
       DEF TagsCreate, CreateTag, insertTag, TagsEnable, EnableTag, clearTagDisabled,
           serviceVars, groupVars, agentGroupVars
  <2>2. RowsRemain
    BY <1>0, <1>1, WritesRemain
       DEF TagsCreate, CreateTag, insertTag, TagsEnable, EnableTag, clearTagDisabled,
           serviceVars, groupVars, agentGroupVars, Writes
  <2>3. Request /\ UNCHANGED <<call, profileVars, raced>>
    BY <1>1 DEF TagsCreate, CreateTag, TagsEnable, EnableTag, serviceVars, groupVars
  <2> QED BY <2>1, <2>2, <2>3, OneStep
<1>2. ASSUME NEW described \in BOOLEAN, TagsUpdate(t, described)
      PROVE  VocabularyInv' /\ RowsRemain
  <2>0. UNCHANGED tableVars
    BY <1>2 DEF TagsUpdate, UpdateTagDescription, setTagDescription, tagVars, serviceVars, groupVars,
                agentGroupVars, tableVars
  <2>1. TablesInv'
    <3>1. CASE UNCHANGED audit
      BY <1>0, <2>0, <3>1, TablesStay
    <3>2. CASE recordAudit("tag.updated", t)
      BY <1>0, <2>0, <3>2, TablesOnlyAudited, EventsAreEvents
    <3> QED BY <1>2, <3>1, <3>2 DEF TagsUpdate, UpdateTagDescription
  <2>2. RowsRemain
    BY <2>0 DEF tableVars, RowsRemain, Exists
  <2>3. Request /\ UNCHANGED <<call, profileVars, raced>>
    BY <1>2 DEF TagsUpdate, UpdateTagDescription, serviceVars, groupVars
  <2> QED BY <2>1, <2>2, <2>3, OneStep
<1>3. ASSUME NEW x \in Tagged, TagAssignmentsCreate(t, x) \/ TagAssignmentsDelete(t, x)
      PROVE  VocabularyInv' /\ RowsRemain
  <2>1. TablesInv'
    BY <1>0, <1>3, AssignmentWritten
       DEF TagAssignmentsCreate, AssignTag, TagAssignmentsDelete, UnassignTag,
           serviceVars, groupVars, agentGroupVars
  <2>2. RowsRemain
    BY <1>3 DEF TagAssignmentsCreate, AssignTag, TagAssignmentsDelete, UnassignTag,
                serviceVars, groupVars, agentGroupVars, RowsRemain, Exists
  <2>3. Request /\ UNCHANGED <<call, profileVars, raced>>
    BY <1>3 DEF TagAssignmentsCreate, AssignTag, TagAssignmentsDelete, UnassignTag, serviceVars, groupVars
  <2> QED BY <2>1, <2>2, <2>3, OneStep
<1> QED BY <1>1, <1>2, <1>3

LEMMA ServiceHandlers ==
    ASSUME VocabularyInv, RecordOvertaken, NEW s \in Services,
           \/ ServicesCreate(s) \/ ServicesDisable(s) \/ ServicesEnable(s)
           \/ ServicesClearGroup(s) \/ \E g \in Groups : ServicesSetGroup(s, g)
    PROVE  VocabularyInv' /\ RowsRemain
<1>0. TablesInv /\ DOMAIN services = Services
  BY VocabularyParts DEF TablesInv, TablesTypeOK
<1>1. CASE ServicesCreate(s) \/ ServicesDisable(s) \/ ServicesEnable(s)
  <2>1. TablesInv'
    BY <1>0, <1>1, ServiceWritten
       DEF ServicesCreate, CreateService, insertService, ServicesDisable, DisableService,
           stampServiceDisabled, ServicesEnable, EnableService, clearServiceDisabled,
           tagVars, groupVars, agentGroupVars
  <2>2. RowsRemain
    BY <1>0, <1>1, WritesRemain
       DEF ServicesCreate, CreateService, insertService, ServicesDisable, DisableService,
           stampServiceDisabled, ServicesEnable, EnableService, clearServiceDisabled,
           tagVars, groupVars, agentGroupVars, Writes
  <2>3. Request /\ UNCHANGED <<call, profileVars, raced>>
    BY <1>1 DEF ServicesCreate, CreateService, ServicesDisable, DisableService, ServicesEnable,
                EnableService, groupVars
  <2> QED BY <2>1, <2>2, <2>3, OneStep
<1>2. ASSUME ServicesClearGroup(s) \/ \E g \in Groups : ServicesSetGroup(s, g)
      PROVE  VocabularyInv' /\ RowsRemain
  <2>1. TablesInv'
    <3>1. CASE ServicesClearGroup(s)
      BY <1>0, <3>1, DirectGroupWritten
         DEF ServicesClearGroup, ClearServiceGroupMembership, deleteMembership,
             tagVars, groupVars, agentGroupVars
    <3>2. ASSUME NEW g \in Groups, ServicesSetGroup(s, g)
          PROVE  TablesInv'
      BY <1>0, <3>2, DirectGroupWritten
         DEF ServicesSetGroup, SetServiceGroupMembership, upsertMembership,
             tagVars, groupVars, agentGroupVars
    <3> QED BY <1>2, <3>1, <3>2
  <2>2. RowsRemain
    BY <1>2 DEF ServicesClearGroup, ClearServiceGroupMembership, ServicesSetGroup,
                SetServiceGroupMembership, tagVars, groupVars, agentGroupVars, RowsRemain, Exists
  <2>3. Request /\ UNCHANGED <<call, profileVars, raced>>
    BY <1>2 DEF ServicesClearGroup, ClearServiceGroupMembership, ServicesSetGroup,
                SetServiceGroupMembership, groupVars
  <2> QED BY <2>1, <2>2, <2>3, OneStep
<1> QED BY <1>1, <1>2

LEMMA AgentGroupHandlers ==
    ASSUME VocabularyInv, RecordOvertaken, AgentGroupStep
    PROVE  VocabularyInv' /\ RowsRemain
<1>0. TablesInv /\ DOMAIN agentGroups = AgentGroups
  BY VocabularyParts DEF TablesInv, TablesTypeOK
<1>g. PICK g \in AgentGroups :
        \/ AgentGroupsCreate(g) \/ AgentGroupsDisable(g)
        \/ \E a \in Agents : AgentGroupsAddMember(a, g) \/ AgentGroupsRemoveMember(a, g)
  BY DEF AgentGroupStep
<1>1. CASE AgentGroupsCreate(g) \/ AgentGroupsDisable(g)
  <2>1. TablesInv'
    BY <1>0, <1>1, AgentGroupWritten
       DEF AgentGroupsCreate, CreateAgentGroup, insertAgentGroup, AgentGroupsDisable, DisableAgentGroup,
           stampAgentGroupDisabled, tagVars, serviceVars, groupVars
  <2>2. RowsRemain
    BY <1>0, <1>1, WritesRemain
       DEF AgentGroupsCreate, CreateAgentGroup, insertAgentGroup, AgentGroupsDisable, DisableAgentGroup,
           stampAgentGroupDisabled, tagVars, serviceVars, groupVars, Writes
  <2>3. Request /\ UNCHANGED <<call, profileVars, raced>>
    BY <1>1 DEF AgentGroupsCreate, CreateAgentGroup, AgentGroupsDisable, DisableAgentGroup,
                serviceVars, groupVars
  <2> QED BY <2>1, <2>2, <2>3, OneStep
<1>2. ASSUME NEW a \in Agents, AgentGroupsAddMember(a, g) \/ AgentGroupsRemoveMember(a, g)
      PROVE  VocabularyInv' /\ RowsRemain
  <2>1. TablesInv'
    BY <1>0, <1>2, MembershipWritten
       DEF AgentGroupsAddMember, AddAgentToGroup, AgentGroupsRemoveMember, RemoveAgentFromGroup,
           tagVars, serviceVars, groupVars
  <2>2. RowsRemain
    BY <1>2 DEF AgentGroupsAddMember, AddAgentToGroup, AgentGroupsRemoveMember, RemoveAgentFromGroup,
                tagVars, serviceVars, groupVars, RowsRemain, Exists
  <2>3. Request /\ UNCHANGED <<call, profileVars, raced>>
    BY <1>2 DEF AgentGroupsAddMember, AddAgentToGroup, AgentGroupsRemoveMember, RemoveAgentFromGroup,
                serviceVars, groupVars
  <2> QED BY <2>1, <2>2, <2>3, OneStep
<1> QED BY <1>g, <1>1, <1>2

\* Steps of a call that write nothing.
LEMMA CallOnly ==
    ASSUME VocabularyInv, RecordOvertaken, UNCHANGED <<tableVars, audit, profileVars>>, BoundsOK',
           NEW c \in Callers, NEW rec \in Call, Go(c, rec), CallOK(rec),
           rec.pc \in {"retire tag", "retire group"} => PreflightHolds(rec)
    PROVE  VocabularyInv' /\ RowsRemain
<1>1. TablesInv /\ FlowInv /\ ProfilesInv
  BY VocabularyParts
<1>2. TablesInv'
  BY <1>1, TablesStay
<1>3. RowsRemain
  BY DEF RowsRemain, Exists, tableVars
<1>4. FlowInv'
  BY <1>1, <1>3, CallMoves DEF RowsRemain, profileVars, tableVars
<1>5. ProfilesInv'
  BY <1>1 DEF ProfilesInv, ProfilesTypeOK, ColumnsKept, profileVars
<1> QED BY <1>2, <1>3, <1>4, <1>5, VocabularyPartsNext

\* The preflights of DisableTag and DisableServiceGroup.
LEMMA PreflightHandlers ==
    ASSUME VocabularyInv, RecordOvertaken, NEW c \in Callers,
           \/ \E t \in Tags : TagsDisable(c, t)
           \/ \E g \in Groups : ServiceGroupsDisable(c, g)
    PROVE  VocabularyInv' /\ RowsRemain
<1>0. BoundsOK
  BY VocabularyParts
<1>1. ASSUME NEW t \in Tags, TagsDisable(c, t)
      PROVE  VocabularyInv' /\ RowsRemain
  <2> DEFINE rec == [NoCall EXCEPT !.pc = "retire tag", !.row = t]
  <2>1. rec \in Call /\ rec.pc = "retire tag" /\ rec.row = t
    BY EmptyRecords DEF Call
  <2>2. Go(c, rec) /\ ListTagAssignmentsForTag(t) = {}
    BY <1>1 DEF TagsDisable, DisableTag
  <2> HIDE DEF rec
  <2>3. CallOK(rec) /\ PreflightHolds(rec)
    BY <2>1, <2>2 DEF CallOK, PreflightHolds, Walking, Deciding
  <2>4. UNCHANGED <<tableVars, audit, profileVars>> /\ BoundsOK'
    <3>1. UNCHANGED <<tableVars, audit, profileVars, raced>>
      BY <1>1 DEF TagsDisable, DisableTag, tagVars, serviceVars, groupVars, agentGroupVars, tableVars
    <3>2. BoundsOK'
      BY <1>0, <1>1, <3>1, RequestBounds DEF TagsDisable
    <3> QED BY <3>1, <3>2
  <2> QED BY <2>1, <2>2, <2>3, <2>4, CallOnly
<1>2. ASSUME NEW g \in Groups, ServiceGroupsDisable(c, g)
      PROVE  VocabularyInv' /\ RowsRemain
  <2> DEFINE rec == [NoCall EXCEPT !.pc = "retire group", !.row = g]
  <2>1. rec \in Call /\ rec.pc = "retire group" /\ rec.row = g
    BY EmptyRecords DEF Call
  <2>2. Go(c, rec) /\ ActiveChildren(g) = {}
    BY <1>2 DEF ServiceGroupsDisable, DisableServiceGroup
  <2> HIDE DEF rec
  <2>3. CallOK(rec) /\ PreflightHolds(rec)
    BY <2>1, <2>2 DEF CallOK, PreflightHolds, Walking, Deciding
  <2>4. UNCHANGED <<tableVars, audit, profileVars>> /\ BoundsOK'
    <3>1. UNCHANGED <<tableVars, audit, profileVars, raced>>
      BY <1>2 DEF ServiceGroupsDisable, DisableServiceGroup, tagVars, serviceVars, groupVars,
                  agentGroupVars, tableVars
    <3>2. BoundsOK'
      BY <1>0, <1>2, <3>1, RequestBounds DEF ServiceGroupsDisable
    <3> QED BY <3>1, <3>2
  <2> QED BY <2>1, <2>2, <2>3, <2>4, CallOnly
<1> QED BY <1>1, <1>2

\* CreateServiceGroup and UpdateServiceGroupParent.
LEMMA GroupHandlers ==
    ASSUME VocabularyInv, RecordOvertaken, NEW c \in Callers, NEW g \in Groups,
           NEW p \in Groups \cup {Nil},
           ServiceGroupsCreate(c, g, p) \/ ServiceGroupsSetParent(c, g, p)
    PROVE  VocabularyInv' /\ RowsRemain
<1>0. TablesInv /\ FlowInv /\ ProfilesInv /\ BoundsOK
  BY VocabularyParts
<1>t. groups \in [Groups -> RowState]
  BY <1>0 DEF TablesInv, TablesTypeOK
<1>u. Request /\ UNCHANGED <<tags, services, agentGroups, assignments, agentsIn, memberOf, profileVars>>
  BY DEF ServiceGroupsCreate, CreateServiceGroup, ServiceGroupsSetParent, UpdateServiceGroupParent,
         tagVars, serviceVars, agentGroupVars
<1>1. CASE insertServiceGroup(g, Nil) /\ raced' = raced \ {g} /\ UNCHANGED call
  <2>1. TablesInv'
    BY <1>0, <1>1, <1>u, GroupWritten DEF insertServiceGroup
  <2>2. RowsRemain
    BY <1>0, <1>1, <1>t, <1>u, WritesRemain DEF insertServiceGroup, Writes
  <2>3. FlowInv'
    BY <1>0, <1>1, <1>u, <2>2, FlowStays DEF RowsRemain, profileVars
  <2>4. BoundsOK'
    BY <1>0, <1>1, <1>u, IdentityAssumption DEF BoundsOK, Request
  <2>5. ProfilesInv'
    BY <1>0, <1>u DEF ProfilesInv, ProfilesTypeOK, ColumnsKept, profileVars
  <2> QED BY <2>1, <2>2, <2>3, <2>4, <2>5, VocabularyPartsNext
<1>2. CASE setParent(g, Nil) /\ raced' = raced \ {g} /\ UNCHANGED call
  <2>0. groups' = Set(groups, g, groups[g])
    BY <1>2, <1>t DEF setParent, Set
  <2>1. TablesInv'
    BY <1>0, <1>2, <1>u, <2>0, GroupWritten DEF setParent
  <2>2. RowsRemain
    BY <1>2, <1>u DEF RowsRemain, Exists, setParent
  <2>3. FlowInv'
    BY <1>0, <1>2, <1>u, <2>2, FlowStays DEF RowsRemain, profileVars
  <2>4. BoundsOK'
    BY <1>0, <1>2, <1>u, IdentityAssumption DEF BoundsOK, Request
  <2>5. ProfilesInv'
    BY <1>0, <1>u DEF ProfilesInv, ProfilesTypeOK, ColumnsKept, profileVars
  <2> QED BY <2>1, <2>2, <2>3, <2>4, <2>5, VocabularyPartsNext
<1>3. ASSUME NEW pc \in Walking, p # Nil, Exists(groups, p), StartWalk(c, pc, g, p),
             UNCHANGED <<groupVars, audit>>
      PROVE  VocabularyInv' /\ RowsRemain
  <2> DEFINE rec == [NoCall EXCEPT !.pc = pc, !.row = g, !.parent = p, !.cur = p]
  <2>w. pc \in {"walk to create", "walk to move"} /\ p \in Groups
    BY <1>3 DEF Walking
  <2>1. rec \in Call /\ rec.pc = pc /\ rec.row = g /\ rec.parent = p /\ rec.cur = p
    BY <2>w, EmptyRecords DEF Call
  <2>2. Go(c, rec)
    BY <1>3 DEF StartWalk
  <2> HIDE DEF rec
  <2>3. CallOK(rec) /\ rec.pc \notin {"retire tag", "retire group"}
    BY <1>3, <2>w, <2>1 DEF CallOK
  <2>4. UNCHANGED <<tableVars, audit, profileVars>> /\ BoundsOK'
    <3>1. UNCHANGED <<tableVars, audit, profileVars, raced>>
      BY <1>3, <1>u DEF groupVars, tableVars
    <3>2. BoundsOK'
      BY <1>0, <1>u, <3>1, RequestBounds
    <3> QED BY <3>1, <3>2
  <2> QED BY <2>1, <2>2, <2>3, <2>4, CallOnly
<1> QED BY <1>1, <1>2, <1>3
        DEF ServiceGroupsCreate, CreateServiceGroup, ServiceGroupsSetParent, UpdateServiceGroupParent,
            Walking

\* The handler of an update reads and merges.
LEMMA UpdateHandler ==
    ASSUME VocabularyInv, RecordOvertaken, NEW c \in Callers, NEW s \in Services, NEW patch \in Patch,
           ServicesUpdate(c, s, patch)
    PROVE  VocabularyInv' /\ RowsRemain
<1>0. TablesInv /\ FlowInv /\ ProfilesInv /\ BoundsOK
  BY VocabularyParts
<1>u. UNCHANGED <<tableVars, audit, profile, wanted, blurred, raced, call>> /\ Request
  BY DEF ServicesUpdate, tagVars, groupVars, agentGroupVars, tableVars
<1>1. TablesInv'
  BY <1>0, <1>u, TablesStay
<1>2. RowsRemain
  BY <1>u DEF RowsRemain, Exists, tableVars
<1> DEFINE u == [row |-> s, patch |-> patch, merged |-> MergeProfile(patch, profile[s])]
<1>3. profile[s] \in Profile
  BY <1>0 DEF ProfilesInv, ProfilesTypeOK
<1>4. MergeProfile(patch, profile[s]) \in Profile
  BY <1>3 DEF MergeProfile, Profile, Patch
<1>5. u \in Update /\ u.row = s /\ MergeHolds(u)
  BY <1>4 DEF Update, MergeHolds
<1>6. update' = [update EXCEPT ![c] = u]
  BY DEF ServicesUpdate
<1> HIDE DEF u
<1>7. FlowInv'
  BY <1>0, <1>u, <1>2, <1>5, <1>6, UpdateMoves DEF RowsRemain
<1>8. ProfilesInv'
  BY <1>0, <1>u DEF ProfilesInv, ProfilesTypeOK, ColumnsKept
<1>9. BoundsOK'
  BY <1>0, <1>u, RequestBounds
<1> QED BY <1>1, <1>2, <1>7, <1>8, <1>9, VocabularyPartsNext

\* A call fails: its transaction is rolled back.
LEMMA FailureSteps ==
    ASSUME VocabularyInv, RecordOvertaken, NEW c \in Callers, CallFails(c) \/ UpdateFails(c)
    PROVE  VocabularyInv' /\ RowsRemain
<1>0. TablesInv /\ FlowInv /\ ProfilesInv /\ BoundsOK
  BY VocabularyParts
<1>u. UNCHANGED <<tableVars, audit, profile, wanted, blurred, raced, requests>>
  BY DEF CallFails, UpdateFails, tagVars, serviceVars, groupVars, agentGroupVars, tableVars, profileVars
<1>1. TablesInv'
  BY <1>0, <1>u, TablesStay
<1>2. RowsRemain
  BY <1>u DEF RowsRemain, Exists, tableVars
<1>3. BoundsOK'
  BY <1>0, <1>u, IdentityAssumption DEF BoundsOK, CallFails, UpdateFails
<1>4. ProfilesInv'
  BY <1>0, <1>u DEF ProfilesInv, ProfilesTypeOK, ColumnsKept
<1>5. CASE CallFails(c)
  <2>1. FlowInv'
    BY <1>0, <1>2, <1>5, CallEnds DEF RowsRemain, CallFails, serviceVars, profileVars
  <2> QED BY <1>1, <1>2, <1>3, <1>4, <2>1, VocabularyPartsNext
<1>6. CASE UpdateFails(c)
  <2>1. FlowInv'
    BY <1>0, <1>2, <1>6, UpdateMoves, EmptyRecords DEF RowsRemain, UpdateFails
  <2> QED BY <1>1, <1>2, <1>3, <1>4, <2>1, VocabularyPartsNext
<1> QED BY <1>5, <1>6

\* stampTagDisabled and stampServiceGroupDisabled.
LEMMA StampSteps ==
    ASSUME VocabularyInv, RecordOvertaken, NEW c \in Callers,
           stampTagDisabled(c) \/ stampServiceGroupDisabled(c)
    PROVE  VocabularyInv' /\ RowsRemain
<1>0. TablesInv /\ FlowInv /\ ProfilesInv /\ BoundsOK
  BY VocabularyParts
<1>t. groups \in [Groups -> RowState] /\ tags \in [Tags -> RowState]
  BY <1>0 DEF TablesInv, TablesTypeOK
<1>c. CallOK(call[c])
  BY <1>0 DEF FlowInv, CallsOK
<1>u. UNCHANGED <<profileVars, raced, requests, faults>> /\ Return(c)
  BY DEF stampTagDisabled, stampServiceGroupDisabled, serviceVars, groupVars, boundVars
<1>1. TablesInv' /\ RowsRemain
  <2>1. CASE UNCHANGED <<tableVars, audit>>
    BY <1>0, <2>1, TablesStay DEF RowsRemain, Exists, tableVars
  <2>2. CASE stampTagDisabled(c) /\ Exists(tags, call[c].row)
    <3>1. call[c].row \in Tags
      BY <1>c, <2>2 DEF CallOK, stampTagDisabled, At
    <3>2. PICK t \in Tags : t = call[c].row
      BY <3>1
    <3>3. /\ tags' = Set(tags, t, "disabled") /\ recordAudit("tag.disabled", t) /\ Exists(tags, t)
          /\ UNCHANGED <<services, groups, agentGroups, assignments, agentsIn, parentOf, memberOf>>
      BY <2>2, <3>2 DEF stampTagDisabled, serviceVars, groupVars, agentGroupVars
    <3>4. TablesInv'
      BY <1>0, <3>3, TagWritten
    <3>5. RowsRemain
      BY <1>0, <1>t, <3>3, WritesRemain DEF Writes
    <3> QED BY <3>4, <3>5
  <2>3. CASE stampServiceGroupDisabled(c) /\ Exists(groups, call[c].row)
    <3>1. call[c].row \in Groups
      BY <1>c, <2>3 DEF CallOK, stampServiceGroupDisabled, At
    <3>2. PICK g \in Groups : g = call[c].row
      BY <3>1
    <3>3. /\ groups' = Set(groups, g, "disabled") /\ recordAudit("service_group.disabled", g)
          /\ Exists(groups, g)
          /\ UNCHANGED <<tags, services, agentGroups, assignments, agentsIn, parentOf, memberOf>>
      BY <2>3, <3>2 DEF stampServiceGroupDisabled, tagVars, serviceVars, agentGroupVars
    <3>4. TablesInv'
      BY <1>0, <3>3, GroupWritten
    <3>5. RowsRemain
      BY <1>0, <1>t, <3>3, WritesRemain DEF Writes
    <3> QED BY <3>4, <3>5
  <2> QED BY <2>1, <2>2, <2>3
          DEF stampTagDisabled, stampServiceGroupDisabled, tagVars, serviceVars, groupVars,
              agentGroupVars, tableVars
<1>2. FlowInv'
  BY <1>0, <1>1, <1>u, CallEnds DEF RowsRemain, profileVars
<1>3. ProfilesInv' /\ BoundsOK'
  BY <1>0, <1>u DEF ProfilesInv, ProfilesTypeOK, ColumnsKept, BoundsOK, profileVars
<1> QED BY <1>1, <1>2, <1>3, VocabularyPartsNext

\* One round of the walk reads and writes nothing.
LEMMA WalkStep ==
    ASSUME VocabularyInv, RecordOvertaken, NEW c \in Callers, checkNoCycle(c)
    PROVE  VocabularyInv' /\ RowsRemain
<1>0. TablesInv /\ FlowInv /\ ProfilesInv /\ BoundsOK
  BY VocabularyParts
<1>u. UNCHANGED <<tableVars, audit, profileVars>> /\ BoundsOK'
  <2>1. UNCHANGED <<tableVars, audit, profileVars, raced, requests, faults>>
    BY DEF checkNoCycle, tagVars, serviceVars, groupVars, agentGroupVars, boundVars, tableVars
  <2> QED BY <1>0, <2>1 DEF BoundsOK
<1>p. PICK x \in Call : x = call[c]
  BY <1>0 DEF FlowInv, FlowTypeOK
<1>c. x.pc \in Walking /\ x.row \in Groups /\ x.parent \in Groups /\ x.cur \in Groups
      /\ Exists(groups, x.parent)
  BY <1>0, <1>p DEF FlowInv, CallsOK, CallOK, checkNoCycle, Walking
<1>g. parentOf[x.cur] \in Groups \cup {Nil}
  BY <1>0, <1>c DEF TablesInv, TablesTypeOK
<1> DEFINE done == [x EXCEPT !.pc = IF @ = "walk to create" THEN "create" ELSE "move",
                             !.read = @ \cup {x.cur}]
           up == [x EXCEPT !.cur = parentOf[x.cur], !.steps = @ + 1, !.read = @ \cup {x.cur}]
<1>1. CASE Return(c)
  <2>1. NoCall \in Call /\ NoCall.pc \notin {"retire tag", "retire group"} /\ CallOK(NoCall)
    BY EmptyRecords DEF CallOK, Walking, Deciding
  <2>2. Go(c, NoCall)
    BY <1>1 DEF Return
  <2> QED BY <1>u, <2>1, <2>2, CallOnly
<1>2. CASE Go(c, done)
  <2>1. done \in Call /\ done.pc \in Deciding /\ done.row = x.row /\ done.parent = x.parent
    BY <1>c DEF Call, Deciding
  <2> HIDE DEF done
  <2>2. CallOK(done) /\ done.pc \notin {"retire tag", "retire group"}
    BY <1>c, <2>1 DEF CallOK, Walking, Deciding
  <2> QED BY <1>2, <1>u, <2>1, <2>2, CallOnly
<1>3. CASE x.steps < MaxDepth /\ parentOf[x.cur] # Nil /\ Go(c, up)
  <2>0. x.steps + 1 \in 0 .. MaxDepth
    <3>1. x.steps \in 0 .. MaxDepth /\ x.steps < MaxDepth
      BY <1>3 DEF Call
    <3>2. MaxDepth \in Nat
      BY IdentityAssumption
    <3> QED BY <3>1, <3>2
  <2>1. /\ up \in Call /\ up.pc = x.pc /\ up.row = x.row /\ up.parent = x.parent
        /\ up.cur \in Groups
    BY <1>c, <1>g, <1>3, <2>0 DEF Call
  <2> HIDE DEF up
  <2>2. CallOK(up) /\ up.pc \notin {"retire tag", "retire group"}
    BY <1>c, <2>1 DEF CallOK, Walking, Deciding
  <2> QED BY <1>3, <1>u, <2>1, <2>2, CallOnly
<1> QED BY <1>p, <1>1, <1>2, <1>3 DEF checkNoCycle

\* The write after the walk.
LEMMA ParentStep ==
    ASSUME VocabularyInv, RecordOvertaken, NEW c \in Callers, WriteParent(c)
    PROVE  VocabularyInv' /\ RowsRemain
<1>0. TablesInv /\ FlowInv /\ ProfilesInv /\ BoundsOK
  BY VocabularyParts
<1>t. groups \in [Groups -> RowState]
  BY <1>0 DEF TablesInv, TablesTypeOK
<1>c. call[c].row \in Groups /\ call[c].parent \in Groups /\ Exists(groups, call[c].parent)
  BY <1>0 DEF FlowInv, CallsOK, CallOK, WriteParent, At, Deciding
<1>p. PICK g \in Groups, p \in Groups : g = call[c].row /\ p = call[c].parent
  BY <1>c
<1>u. /\ Return(c)
      /\ UNCHANGED <<tags, services, agentGroups, assignments, agentsIn, memberOf, profileVars,
                     requests, faults>>
  BY DEF WriteParent, tagVars, serviceVars, agentGroupVars, boundVars
<1>1. TablesInv' /\ RowsRemain /\ BoundsOK'
  <2>1. CASE UNCHANGED <<groupVars, audit>>
    <3>1. UNCHANGED <<tableVars, audit, raced>>
      BY <1>u, <2>1 DEF groupVars, tableVars
    <3>2. TablesInv'
      BY <1>0, <3>1, TablesStay
    <3> QED BY <1>0, <1>u, <3>1, <3>2 DEF RowsRemain, Exists, tableVars, BoundsOK
  <2>2. CASE insertServiceGroup(g, p) /\ raced' \subseteq raced \cup {g}
    <3>1. TablesInv'
      BY <1>0, <1>c, <1>p, <1>u, <2>2, GroupWritten DEF insertServiceGroup
    <3>2. RowsRemain
      BY <1>0, <1>t, <1>u, <2>2, WritesRemain DEF insertServiceGroup, Writes
    <3> QED BY <1>0, <1>u, <2>2, <3>1, <3>2 DEF BoundsOK
  <2>3. CASE setParent(g, p) /\ raced' \subseteq raced \cup {g}
    <3>0. groups' = Set(groups, g, groups[g])
      BY <2>3, <1>t DEF setParent, Set
    <3>1. TablesInv'
      BY <1>0, <1>c, <1>p, <1>u, <2>3, <3>0, GroupWritten DEF setParent
    <3>2. RowsRemain
      BY <1>u, <2>3 DEF RowsRemain, Exists, setParent
    <3> QED BY <1>0, <1>u, <2>3, <3>1, <3>2 DEF BoundsOK
  <2> QED BY <1>p, <2>1, <2>2, <2>3 DEF WriteParent
<1>2. FlowInv'
  BY <1>0, <1>1, <1>u, CallEnds DEF RowsRemain, profileVars
<1>3. ProfilesInv'
  BY <1>0, <1>u DEF ProfilesInv, ProfilesTypeOK, ColumnsKept, profileVars
<1> QED BY <1>1, <1>2, <1>3, VocabularyPartsNext

\* UpdateService: an edit that was not overtaken writes what is wanted.
LEMMA UpdateStep ==
    ASSUME VocabularyInv, RecordOvertaken, NEW c \in Callers, UpdateService(c)
    PROVE  VocabularyInv' /\ RowsRemain
<1>0. TablesInv /\ FlowInv /\ ProfilesInv /\ BoundsOK
  BY VocabularyParts
<1>p. PICK u \in Update : u = update[c]
  BY <1>0 DEF FlowInv, FlowTypeOK
<1>c. u # NoUpdate /\ u.row \in Services
  BY <1>0, <1>p DEF FlowInv, CallsOK, UpdateOK, UpdateService
<1>s. PICK s \in Services : s = u.row
  BY <1>c
<1>w. /\ profile' = [profile EXCEPT ![s] = u.merged]
      /\ wanted' = [wanted EXCEPT ![s] = MergeProfile(u.patch, wanted[s])]
      /\ blurred' = IF c \in overtaken THEN blurred \cup {s} ELSE blurred
      /\ recordAudit("service.updated", s)
      /\ update' = [update EXCEPT ![c] = NoUpdate]
      /\ UNCHANGED <<tableVars, call, raced, requests, faults>>
  BY <1>p, <1>s DEF UpdateService, UpdateServiceMetadata, tagVars, groupVars, agentGroupVars, boundVars,
                    tableVars
<1>1. TablesInv'
  BY <1>0, <1>w, TablesOnlyAudited, EventsAreEvents
<1>2. RowsRemain
  BY <1>w DEF RowsRemain, Exists, tableVars
<1>3. FlowInv'
  BY <1>0, <1>w, <1>2, UpdateMoves, EmptyRecords DEF RowsRemain
<1>4. ProfilesTypeOK'
  <2>1. profile \in [Services -> Profile] /\ wanted \in [Services -> Profile] /\ blurred \subseteq Services
    BY <1>0 DEF ProfilesInv, ProfilesTypeOK
  <2>2. u.merged \in Profile /\ u.patch \in Patch
    BY DEF Update
  <2>3. MergeProfile(u.patch, wanted[s]) \in Profile
    <3>1. wanted[s] \in Profile
      BY <2>1
    <3> QED BY <2>2, <3>1 DEF MergeProfile, Profile, Patch
  <2> QED BY <1>w, <2>1, <2>2, <2>3 DEF ProfilesTypeOK
<1>5. ColumnsKept'
  <2> SUFFICES ASSUME NEW r \in Services, r \notin blurred'
               PROVE  profile'[r] = wanted'[r]
    BY DEF ColumnsKept
  <2>1. r \notin blurred /\ profile[r] = wanted[r]
    BY <1>0, <1>w DEF ProfilesInv, ColumnsKept
  <2>2. profile \in [Services -> Profile] /\ wanted \in [Services -> Profile]
    BY <1>0 DEF ProfilesInv, ProfilesTypeOK
  <2>3. CASE r # s
    BY <1>w, <2>1, <2>2, <2>3
  <2>4. CASE r = s
    <3>1. c \notin overtaken
      BY <1>w, <2>4
    <3>2. u.merged = MergeProfile(u.patch, profile[s])
      BY <1>0, <1>c, <1>p, <1>s, <3>1 DEF FlowInv, Fresh, MergeHolds
    <3>3. profile'[r] = u.merged /\ wanted'[r] = MergeProfile(u.patch, wanted[s])
      BY <1>w, <2>2, <2>4
    <3> QED BY <2>1, <2>4, <3>2, <3>3
  <2> QED BY <2>3, <2>4
<1>6. BoundsOK'
  BY <1>0, <1>w DEF BoundsOK
<1> QED BY <1>1, <1>2, <1>3, <1>4, <1>5, <1>6, VocabularyPartsNext DEF ProfilesInv

\* Every step of the vocabulary keeps the invariant and every row.
LEMMA VocabularyStep ==
    ASSUME VocabularyInv, IdentityNext
    PROVE  VocabularyInv' /\ RowsRemain
<1>0. RecordOvertaken
  BY DEF IdentityNext
<1>1. CASE TagStep
  BY <1>0, <1>1, TagHandlers, PreflightHandlers DEF TagStep
<1>2. CASE ServiceStep
  BY <1>0, <1>2, ServiceHandlers, UpdateHandler DEF ServiceStep
<1>3. CASE GroupStep
  BY <1>0, <1>3, PreflightHandlers, GroupHandlers DEF GroupStep
<1>4. CASE AgentGroupStep
  BY <1>0, <1>4, AgentGroupHandlers
<1>5. ASSUME NEW c \in Callers, Step(c) \/ CallFails(c) \/ UpdateFails(c)
      PROVE  VocabularyInv' /\ RowsRemain
  BY <1>0, <1>5, FailureSteps, StampSteps, WalkStep, ParentStep, UpdateStep DEF Step
<1> QED BY <1>1, <1>2, <1>3, <1>4, <1>5 DEF IdentityNext

LEMMA VocabularyStarts == Init => VocabularyInv
<1> SUFFICES ASSUME Init PROVE VocabularyInv
  OBVIOUS
<1>1. TablesTypeOK
  <2>1. \A e \in Event : audit[e] \in Nat
    BY DEF Init
  <2> QED BY <2>1 DEF Init, TablesTypeOK, SeededRows, RowState
<1>2. ReferencesResolve
  BY DEF Init, ReferencesResolve
<1>3. RowsAudited
  <2>1. \A t \in Tags : audit[<<"tag.created", t>>] = IF t \in Seeded THEN 1 ELSE 0
    BY EventsAreEvents DEF Init
  <2>2. \A t \in Tags : audit[<<"tag.disabled", t>>] = 0
    BY EventsAreEvents DEF Init
  <2>3. \A g \in Groups : audit[<<"service_group.created", g>>] = IF g \in Seeded THEN 1 ELSE 0
    BY EventsAreEvents DEF Init
  <2>4. \A g \in Groups : audit[<<"service_group.disabled", g>>] = 0
    BY EventsAreEvents DEF Init
  <2>5. \A p \in Tags \X Tagged : /\ audit[<<"tag.assignment_created", p>>] = 0
                                  /\ audit[<<"tag.assignment_deleted", p>>] = 0
    BY EventsAreEvents DEF Init
  <2>6. \A p \in Agents \X AgentGroups : /\ audit[<<"agent_group.membership_created", p>>] = 0
                                         /\ audit[<<"agent_group.membership_deleted", p>>] = 0
    BY EventsAreEvents DEF Init
  <2>7. ~ (0 > 0) /\ 0 = 0 + 0
    OBVIOUS
  <2>8. TagsAudited
    BY <2>1, <2>2, <2>7 DEF TagsAudited, Init, SeededRows, Exists
  <2>9. GroupsAudited
    <3>1. \A g \in Groups : groups[g] # "disabled" /\ ~ (audit[<<"service_group.disabled", g>>] > 0)
      BY <2>4, <2>7 DEF Init, SeededRows
    <3>2. \A g \in Groups : audit[<<"service_group.created", g>>] = (IF Exists(groups, g) THEN 1 ELSE 0)
      BY <2>3 DEF Init, SeededRows, Exists
    <3>3. ASSUME NEW g \in Groups
          PROVE  (groups[g] = "disabled") = (audit[<<"service_group.disabled", g>>] > 0)
      BY <3>1
    <3> QED BY <3>2, <3>3 DEF GroupsAudited
  <2>10. AssignmentsAudited /\ MembersAudited
    BY <2>5, <2>6, <2>7 DEF Init, AssignmentsAudited, MembersAudited
  <2> QED BY <2>8, <2>9, <2>10 DEF RowsAudited
<1>4. FlowInv
  <2>1. CallOK(NoCall) /\ UpdateOK(NoUpdate) /\ PreflightHolds(NoCall) /\ MergeHolds(NoUpdate)
    BY EmptyRecords DEF CallOK, UpdateOK, PreflightHolds, MergeHolds, Walking, Deciding
  <2> QED BY <2>1, EmptyRecords DEF Init, FlowInv, FlowTypeOK, CallsOK, Fresh
<1>5. ProfilesInv
  BY EmptyRecords DEF Init, ProfilesInv, ProfilesTypeOK, ColumnsKept
<1>6. BoundsOK
  BY IdentityAssumption DEF Init, BoundsOK
<1> QED BY <1>1, <1>2, <1>3, <1>4, <1>5, <1>6, VocabularyParts DEF TablesInv

LEMMA VocabularyStutters ==
    ASSUME VocabularyInv, UNCHANGED <<tableVars, audit, profileVars, call, overtaken>>, BoundsOK'
    PROVE  VocabularyInv' /\ RowsRemain
<1>0. TablesInv /\ FlowInv /\ ProfilesInv /\ BoundsOK
  BY VocabularyParts
<1>1. TablesInv'
  BY <1>0, TablesStay
<1>2. RowsRemain
  BY DEF RowsRemain, Exists, tableVars
<1>3. FlowTypeOK' /\ CallsOK'
  BY <1>0 DEF FlowInv, FlowTypeOK, CallsOK, CallOK, UpdateOK, tableVars, profileVars, Exists
<1>4. Fresh'
  BY <1>0 DEF FlowInv, Fresh, PreflightHolds, MergeHolds, ListTagAssignmentsForTag, ActiveChildren,
              tableVars, profileVars
<1>5. ProfilesInv'
  BY <1>0 DEF ProfilesInv, ProfilesTypeOK, ColumnsKept, profileVars
<1> QED BY <1>1, <1>2, <1>3, <1>4, <1>5, VocabularyPartsNext DEF FlowInv

\* An edit of a rule or an override leaves the vocabulary alone.
LEMMA RuleStepsKeepVocabulary ==
    ASSUME VocabularyInv, NEW e \in Editors, RuleStep(e)
    PROVE  /\ VocabularyInv' /\ RowsRemain
           /\ UNCHANGED <<tableVars, audit, profileVars, call, overtaken>>
<1>0. BoundsOK
  BY VocabularyParts
<1>1. UNCHANGED <<tableVars, audit, profileVars, call, overtaken, raced>>
  BY DEF RuleStep, EditStep, EditFails, CreateRule, UpdateRule, CheckAgentGroup, BeginEdit,
         CreateOwnershipRule, UpdateOwnershipRuleMutable, setRuleEnabled, CreateOverride,
         OwnershipRulesCreate, OwnershipRulesUpdate, ruleEnableDisable,
         CertificateOwnershipOverrideCreate, CreateOwnershipOverride,
         identityVars, tagVars, serviceVars, groupVars, agentGroupVars, tableVars
<1>2. Request \/ (UNCHANGED requests /\ faults < MaxFaults /\ faults' = faults + 1) \/ UNCHANGED boundVars
  BY DEF RuleStep, EditStep, EditFails, CheckAgentGroup, BeginEdit,
         CreateOwnershipRule, UpdateOwnershipRuleMutable,
         OwnershipRulesCreate, OwnershipRulesUpdate, ruleEnableDisable,
         CertificateOwnershipOverrideCreate, CreateOwnershipOverride, identityVars
<1>3. BoundsOK'
  <2>1. CASE Request
    BY <1>0, <1>1, <2>1, RequestBounds
  <2>2. CASE UNCHANGED requests /\ faults < MaxFaults /\ faults' = faults + 1
    BY <1>0, <1>1, <2>2, IdentityAssumption DEF BoundsOK
  <2>3. CASE UNCHANGED boundVars
    BY <1>0, <1>1, <2>3 DEF BoundsOK, boundVars
  <2> QED BY <1>2, <2>1, <2>2, <2>3
<1> QED BY <1>1, <1>3, VocabularyStutters

----------------------------------------------------------------------------
(* The edits of rules and overrides under way. *)

EditsInv == edit \in [Editors -> Edit] /\ outdated \subseteq Editors /\ EditsOK /\ EditsFresh

RuleRowsInv ==
    /\ rules \in [Rules -> Rule] /\ overrides \in [Overrides -> Services \cup {Nil}]
    /\ ruleAudit \in [RuleEvent -> Nat] /\ clobbered \subseteq Rules /\ asked \in [Rules -> Fields]
    /\ RulesProper /\ FieldsKept /\ RulesRefer /\ RulesAudited

LEMMA RulesParts == RulesInv <=> EditsInv /\ RuleRowsInv
BY DEF RulesInv, EditsInv, RuleRowsInv, RulesTypeOK

LEMMA RulesPartsNext == EditsInv' /\ RuleRowsInv' => RulesInv'
BY DEF RulesInv, EditsInv, RuleRowsInv, RulesTypeOK

LEMMA EmptyRule ==
    /\ NoFields \in Fields /\ NoRule \in Rule /\ NoEdit \in Edit
    /\ NoRule.state = "absent" /\ NoRule.service = Nil /\ NoRule.kind = Nil /\ NoRule.fields = NoFields
    /\ NoEdit.pc = "idle" /\ NoEdit.row = Nil /\ NoEdit.stored = NoRule /\ NoEdit.rule = NoRule
    /\ NoEdit.patch = NoFields
BY DEF NoFields, NoRule, NoEdit, Fields, Rule, Edit, RowState

\* A rule that exists stays, of the same kind.
RulesRemain ==
    \A r \in Rules : rules[r].state # "absent" => rules'[r].state # "absent" /\ rules'[r].kind = rules[r].kind

\* What an edit that is not outdated relies on is what it was, unless this step is its own.
LEMMA EditsFollow ==
    ASSUME RulesInv, RecordOutdated, RowsRemain, RulesRemain, edit' \in [Editors -> Edit],
           \A e \in Editors : \/ edit'[e] = edit[e]
                              \/ EditOK(edit'[e]) /\ (e \notin outdated => EditHolds(edit[e])')
    PROVE  EditsInv'
<1>1. ASSUME NEW e \in Editors PROVE EditOK(edit[e])'
  <2>1. PICK x \in Edit : x = edit'[e]
    OBVIOUS
  <2>2. EditOK(x)
    BY <2>1 DEF RulesInv, EditsOK
  <2>3. EditOK(x)'
    <3>1. x.pc # "idle" => x.rule.service \in Services /\ Exists(services, x.rule.service)'
      BY <2>2 DEF EditOK, RowsRemain
    <3>2. x.pc \in {"check group", "write rule"} =>
            /\ x.row \in Rules /\ Proper(x.rule)
            /\ x.stored = NoRule => x.rule.fields = x.patch /\ x.rule.state = "active"
            /\ x.stored # NoRule => /\ x.rule.fields = Merge(x.patch, x.stored.fields)
                                   /\ rules'[x.row].state # "absent" /\ rules'[x.row].kind = x.rule.kind
      BY <2>2 DEF EditOK, RulesRemain
    <3>3. x.pc = "write rule" /\ x.rule.kind = "agent_group" =>
            Exists(agentGroups, x.rule.fields.matchValue)'
      <4> SUFFICES ASSUME x.pc = "write rule", x.rule.kind = "agent_group"
                   PROVE  Exists(agentGroups, x.rule.fields.matchValue)'
        OBVIOUS
      <4>1. x.rule.fields.matchValue \in AgentGroups /\ Exists(agentGroups, x.rule.fields.matchValue)
        BY <2>2 DEF EditOK, Proper, validateMatchValue
      <4> QED BY <4>1 DEF RowsRemain
    <3>4. x.pc = "write override" => x.row \in Overrides /\ x.stored = NoRule
      BY <2>2 DEF EditOK
    <3> QED BY <3>1, <3>2, <3>3, <3>4 DEF EditOK
  <2> QED BY <2>1, <2>3 DEF EditOK, Exists
<1>2. ASSUME NEW e \in Editors, e \notin outdated' PROVE EditHolds(edit[e])'
  <2>1. CASE edit'[e].pc = "idle"
    BY <2>1 DEF EditHolds
  <2>2. CASE edit'[e].pc # "idle" /\ edit'[e] = edit[e]
    <3>0. PICK x \in Edit : x = edit[e]
      BY DEF RulesInv, RulesTypeOK
    <3>1. e \notin outdated /\ ~ EditReadChanges(e)
      BY <1>2, <2>2 DEF RecordOutdated
    <3>2. EditHolds(x) /\ EditOK(x)
      BY <3>0, <3>1 DEF RulesInv, EditsFresh, EditsOK
    <3>3. x.pc # "idle" /\ x.rule.service # Nil
      BY <2>2, <3>0, <3>2, IdentityAssumption DEF EditOK
    <3>4. /\ x.stored = NoRule => services'[x.rule.service] = services[x.rule.service]
          /\ x.pc = "write rule" /\ x.rule.kind = "agent_group" =>
               agentGroups'[x.rule.fields.matchValue] = agentGroups[x.rule.fields.matchValue]
      BY <3>0, <3>1, <3>3 DEF EditReadChanges
    <3>5. edit'[e] = x
      BY <2>2, <3>0
    <3> QED BY <3>2, <3>4, <3>5 DEF EditHolds
  <2>3. CASE edit'[e].pc # "idle" /\ edit'[e] # edit[e]
    <3>1. e \notin outdated
      BY <1>2, <2>3 DEF RecordOutdated
    <3> QED BY <2>3, <3>1
  <2> QED BY <2>1, <2>2, <2>3
<1>3. outdated' \subseteq Editors
  BY DEF RecordOutdated
<1> QED BY <1>1, <1>2, <1>3 DEF EditsInv, EditsOK, EditsFresh

\* One edit gets a new record.
LEMMA EditMoves ==
    ASSUME RulesInv, RecordOutdated, RowsRemain, RulesRemain, NEW e \in Editors, NEW rec \in Edit,
           EditGo(e, rec), EditOK(rec),
           \/ rec.pc = "idle"
           \/ (e \notin outdated => EditHolds(rec)) /\ UNCHANGED <<services, agentGroups, rules>>
    PROVE  EditsInv'
<1>1. /\ edit' \in [Editors -> Edit]
      /\ \A d \in Editors : edit'[d] = IF d = e THEN rec ELSE edit[d]
  BY DEF RulesInv, RulesTypeOK, EditGo
<1>2. edit'[e] = rec
  BY <1>1
<1>3. e \notin outdated => EditHolds(edit[e])'
  <2>1. CASE rec.pc = "idle"
    BY <1>2, <2>1 DEF EditHolds
  <2>2. CASE (e \notin outdated => EditHolds(rec)) /\ UNCHANGED <<services, agentGroups, rules>>
    BY <1>2, <2>2 DEF EditHolds
  <2> QED BY <2>1, <2>2
<1>4. \A d \in Editors : \/ edit'[d] = edit[d]
                         \/ EditOK(edit'[d]) /\ (d \notin outdated => EditHolds(edit[d])')
  BY <1>1, <1>2, <1>3
<1> QED BY <1>1, <1>4, EditsFollow

LEMMA EditEnds ==
    ASSUME RulesInv, RecordOutdated, RowsRemain, RulesRemain, NEW e \in Editors, EditReturn(e)
    PROVE  EditsInv'
<1>1. NoEdit \in Edit /\ NoEdit.pc = "idle" /\ EditOK(NoEdit)
  BY EmptyRule DEF EditOK
<1> QED BY <1>1, EditMoves DEF EditReturn

\* The rules and overrides stay, and the rows they refer to.
LEMMA RuleRowsStay ==
    ASSUME RuleRowsInv, RowsRemain, UNCHANGED <<rules, overrides, ruleAudit, asked, clobbered>>
    PROVE  RuleRowsInv' /\ RulesRemain
<1>1. RulesProper' /\ FieldsKept' /\ RulesAudited' /\ RulesRemain
  BY DEF RuleRowsInv, RulesProper, FieldsKept, RulesAudited, RulesRemain
<1>2. RulesRefer'
  <2>1. \A r \in Rules : rules[r].state # "absent" =>
          /\ rules[r].service \in Services
          /\ rules[r].kind = "agent_group" => rules[r].fields.matchValue \in AgentGroups
    BY EmptyRule DEF RuleRowsInv, RulesProper, Proper, validateMatchValue
  <2>2. \A r \in Rules : rules[r].state # "absent" =>
          /\ Exists(services, rules[r].service)'
          /\ rules[r].kind = "agent_group" => Exists(agentGroups, rules[r].fields.matchValue)'
    BY <2>1 DEF RuleRowsInv, RulesRefer, RowsRemain, Exists
  <2>3. \A o \in Overrides : overrides[o] # Nil => Exists(services, overrides[o])'
    BY DEF RuleRowsInv, RulesRefer, RowsRemain, Exists
  <2> QED BY <2>2, <2>3 DEF RulesRefer
<1> QED BY <1>1, <1>2 DEF RuleRowsInv

\* The steps of an edit that write no rule and no override.
LEMMA EditOnly ==
    ASSUME RulesInv, RecordOutdated, NEW e \in Editors, NEW rec \in Edit, EditGo(e, rec), EditOK(rec),
           rec.pc = "idle" \/ (e \notin outdated => EditHolds(rec)),
           UNCHANGED <<tableVars, rules, overrides, ruleAudit, asked, clobbered>>
    PROVE  RulesInv'
<1>1. RowsRemain
  BY DEF RowsRemain, Exists, tableVars
<1>2. RuleRowsInv' /\ RulesRemain
  BY <1>1, RulesParts, RuleRowsStay
<1>3. EditsInv'
  BY <1>1, <1>2, EditMoves DEF tableVars
<1> QED BY <1>2, <1>3, RulesPartsNext

LEMMA MergeIsFields ==
    ASSUME NEW patch \in Fields, NEW fields \in Fields
    PROVE  /\ Merge(patch, fields) \in Fields
           /\ Merge(patch, fields).matchValue = IF patch.matchValue = Nil THEN fields.matchValue
                                                                           ELSE patch.matchValue
BY DEF Merge, Fields

LEMMA CreateRuleStep ==
    ASSUME RulesInv, RecordOutdated, UNCHANGED tableVars, NEW e \in Editors, NEW r \in Rules,
           NEW s \in Services, NEW k \in {"agent_group", "pattern"}, NEW v \in AgentGroups \cup Patterns,
           NEW n \in Priorities, CreateRule(e, r, s, k, v, n)
    PROVE  RulesInv'
<1> DEFINE fields == [priority |-> n, matchValue |-> v]
           rule == [state |-> "active", service |-> s, kind |-> k, fields |-> fields]
           rec == [pc |-> AfterServiceCheck(k), row |-> r, stored |-> NoRule, patch |-> fields, rule |-> rule]
<1>1. fields \in Fields /\ fields.matchValue = v
  BY DEF Fields
<1>2. rule \in Rule /\ rule.state = "active" /\ rule.service = s /\ rule.kind = k /\ rule.fields = fields
  BY <1>1 DEF Rule, RowState
<1>3. AfterServiceCheck(k) \in {"check group", "write rule"} /\ (k = "agent_group" => AfterServiceCheck(k) # "write rule")
  BY DEF AfterServiceCheck
<1>4. /\ rec \in Edit /\ rec.pc = AfterServiceCheck(k) /\ rec.row = r /\ rec.stored = NoRule
      /\ rec.patch = fields /\ rec.rule = rule
  BY <1>1, <1>2, <1>3, EmptyRule DEF Edit
<1>5. /\ EditGo(e, rec) /\ v \in validateMatchValue(k) /\ services[s] = "active"
      /\ UNCHANGED <<rules, overrides, ruleAudit, asked, clobbered>>
  BY DEF CreateRule, ActiveServiceExists
<1> HIDE DEF fields, rule, rec
<1>6. Proper(rule)
  BY <1>1, <1>2, <1>5 DEF Proper
<1>7. EditOK(rec)
  BY <1>2, <1>3, <1>4, <1>5, <1>6 DEF EditOK, Exists
<1>8. EditHolds(rec)
  BY <1>2, <1>3, <1>4, <1>5 DEF EditHolds
<1> QED BY <1>4, <1>5, <1>7, <1>8, EditOnly

LEMMA UpdateRuleStep ==
    ASSUME RulesInv, RecordOutdated, UNCHANGED tableVars, NEW e \in Editors, NEW r \in Rules,
           NEW patch \in Fields, UpdateRule(e, r, patch)
    PROVE  RulesInv'
<1>0. PICK old \in Rule : old = rules[r]
  BY DEF RulesInv, RulesTypeOK
<1> DEFINE rule == [old EXCEPT !.fields = Merge(patch, old.fields)]
           rec == [pc |-> AfterServiceCheck(old.kind), row |-> r, stored |-> old, patch |-> patch, rule |-> rule]
<1>1. /\ old.state # "absent" /\ patch.matchValue \in validateMatchValue(old.kind) \cup {Nil}
      /\ EditGo(e, rec) /\ UNCHANGED <<rules, overrides, ruleAudit, asked, clobbered>>
  BY <1>0 DEF UpdateRule
<1>2. Proper(old) /\ old # NoRule /\ Exists(services, old.service)
  BY <1>0, <1>1, EmptyRule DEF RulesInv, RulesProper, RulesRefer
<1>3. old.fields \in Fields
  BY DEF Rule
<1>4. /\ Merge(patch, old.fields) \in Fields
      /\ Merge(patch, old.fields).matchValue \in validateMatchValue(old.kind)
  BY <1>1, <1>2, <1>3, MergeIsFields DEF Proper
<1>5. /\ rule \in Rule /\ rule.state = old.state /\ rule.service = old.service /\ rule.kind = old.kind
      /\ rule.fields = Merge(patch, old.fields)
  BY <1>4 DEF Rule
<1>6. old.kind \in {"agent_group", "pattern"}
  BY <1>2 DEF Proper
<1>7. /\ AfterServiceCheck(old.kind) \in {"check group", "write rule"}
      /\ old.kind = "agent_group" => AfterServiceCheck(old.kind) # "write rule"
  BY <1>6 DEF AfterServiceCheck
<1>8. /\ rec \in Edit /\ rec.pc = AfterServiceCheck(old.kind) /\ rec.row = r /\ rec.stored = old
      /\ rec.patch = patch /\ rec.rule = rule
  BY <1>5, <1>7 DEF Edit
<1> HIDE DEF rule, rec
<1>9. Proper(rule)
  BY <1>2, <1>4, <1>5 DEF Proper
<1>10. EditOK(rec)
  BY <1>0, <1>1, <1>2, <1>5, <1>7, <1>8, <1>9 DEF EditOK, Proper
<1>11. EditHolds(rec)
  BY <1>0, <1>2, <1>5, <1>7, <1>8 DEF EditHolds
<1> QED BY <1>1, <1>8, <1>10, <1>11, EditOnly

LEMMA CheckGroupStep ==
    ASSUME RulesInv, RecordOutdated, UNCHANGED tableVars, NEW e \in Editors, CheckAgentGroup(e)
    PROVE  RulesInv'
<1>0. PICK x \in Edit : x = edit[e]
  BY DEF RulesInv, RulesTypeOK
<1>u. UNCHANGED <<rules, overrides, ruleAudit, asked, clobbered>> /\ x.pc = "check group"
  BY <1>0 DEF CheckAgentGroup, EditAt
<1> DEFINE rec == [x EXCEPT !.pc = "write rule"]
<1>1. /\ rec \in Edit /\ rec.pc = "write rule" /\ rec.row = x.row /\ rec.stored = x.stored
      /\ rec.patch = x.patch /\ rec.rule = x.rule
  BY DEF Edit
<1>2. CASE EditReturn(e)
  <2>1. NoEdit \in Edit /\ NoEdit.pc = "idle" /\ EditOK(NoEdit)
    BY EmptyRule DEF EditOK
  <2> QED BY <1>u, <1>2, <2>1, EditOnly DEF EditReturn
<1>3. CASE agentGroups[x.rule.fields.matchValue] = "active" /\ EditGo(e, rec)
  <2> HIDE DEF rec
  <2>1. EditOK(x)
    BY <1>0 DEF RulesInv, EditsOK
  <2>2. e \notin outdated => EditHolds(x)
    BY <1>0 DEF RulesInv, EditsFresh
  <2>3. EditOK(rec)
    BY <1>u, <1>1, <1>3, <2>1 DEF EditOK, Exists
  <2>4. e \notin outdated => EditHolds(rec)
    BY <1>u, <1>1, <1>3, <2>2 DEF EditHolds
  <2> QED BY <1>u, <1>1, <1>3, <2>3, <2>4, EditOnly
<1> QED BY <1>0, <1>2, <1>3 DEF CheckAgentGroup, ActiveAgentGroupExists

LEMMA CreateOverrideStep ==
    ASSUME RulesInv, RecordOutdated, UNCHANGED tableVars, NEW e \in Editors, NEW o \in Overrides,
           NEW s \in Services, CreateOverride(e, o, s)
    PROVE  RulesInv'
<1> DEFINE rule == [NoRule EXCEPT !.service = s]
<1>1. rule \in Rule /\ rule.service = s
  BY EmptyRule DEF Rule
<1> HIDE DEF rule
<1> DEFINE rec == [NoEdit EXCEPT !.pc = "write override", !.row = o, !.rule = rule]
<1>2. rec \in Edit /\ rec.pc = "write override" /\ rec.row = o /\ rec.stored = NoRule /\ rec.rule = rule
  BY <1>1, EmptyRule DEF Edit
<1>3. /\ EditGo(e, rec) /\ services[s] = "active"
      /\ UNCHANGED <<rules, overrides, ruleAudit, asked, clobbered>>
  BY DEF CreateOverride, ActiveServiceExists, rule
<1> HIDE DEF rec
<1>4. EditOK(rec) /\ EditHolds(rec)
  BY <1>1, <1>2, <1>3 DEF EditOK, EditHolds, Exists
<1> QED BY <1>2, <1>3, <1>4, EditOnly

LEMMA EditFailsStep ==
    ASSUME RulesInv, RecordOutdated, UNCHANGED tableVars, NEW e \in Editors, EditFails(e)
    PROVE  RulesInv'
<1>1. NoEdit \in Edit /\ NoEdit.pc = "idle" /\ EditOK(NoEdit)
  BY EmptyRule DEF EditOK
<1> QED BY <1>1, EditOnly DEF EditFails, EditReturn

LEMMA OverrideWritten ==
    ASSUME RulesInv, RecordOutdated, UNCHANGED tableVars, NEW e \in Editors, CreateOwnershipOverride(e)
    PROVE  RulesInv'
<1>r. RowsRemain
  BY DEF RowsRemain, Exists, tableVars
<1>0. PICK x \in Edit : x = edit[e]
  BY DEF RulesInv, RulesTypeOK
<1>1. /\ x.pc = "write override" /\ EditReturn(e)
      /\ UNCHANGED <<rules, ruleAudit, asked, clobbered>>
      /\ UNCHANGED overrides \/ overrides' = [overrides EXCEPT ![x.row] = x.rule.service]
  BY <1>0 DEF CreateOwnershipOverride, EditAt
<1>2. EditOK(x)
  BY <1>0 DEF RulesInv, EditsOK
<1>3. x.row \in Overrides /\ x.rule.service \in Services /\ Exists(services, x.rule.service)
  BY <1>1, <1>2 DEF EditOK
<1>i. RuleRowsInv
  BY RulesParts
<1>4. CASE UNCHANGED overrides
  <2>1. RuleRowsInv' /\ RulesRemain
    BY <1>i, <1>r, <1>1, <1>4, RuleRowsStay
  <2> QED BY <1>r, <1>1, <2>1, EditEnds, RulesPartsNext
<1>5. CASE overrides' = [overrides EXCEPT ![x.row] = x.rule.service]
  <2>1. /\ overrides' \in [Overrides -> Services \cup {Nil}]
        /\ \A o \in Overrides : overrides'[o] = IF o = x.row THEN x.rule.service ELSE overrides[o]
    BY <1>i, <1>3, <1>5 DEF RuleRowsInv
  <2>2. RulesProper' /\ FieldsKept' /\ RulesAudited' /\ RulesRemain
    BY <1>i, <1>1 DEF RuleRowsInv, RulesProper, FieldsKept, RulesAudited, RulesRemain
  <2>3. RulesRefer'
    BY <1>i, <1>1, <1>3, <2>1 DEF RuleRowsInv, RulesRefer, Exists, tableVars
  <2>4. RuleRowsInv'
    BY <1>i, <1>1, <2>1, <2>2, <2>3 DEF RuleRowsInv
  <2> QED BY <1>r, <1>1, <2>2, <2>4, EditEnds, RulesPartsNext
<1> QED BY <1>1, <1>4, <1>5

LEMMA RuleEventsAreEvents ==
    \A r \in Rules : {<<"ownership.rule_created", r>>, <<"ownership.rule_updated", r>>,
                      <<"ownership.rule_enabled", r>>, <<"ownership.rule_disabled", r>>} \subseteq RuleEvent
BY DEF RuleEvent

\* A rule is written with its event.
LEMMA RuleWritten ==
    ASSUME RuleRowsInv, UNCHANGED <<tableVars, overrides>>, NEW r \in Rules, NEW new \in Rule,
           rules' = [rules EXCEPT ![r] = new], Proper(new), Exists(services, new.service),
           new.kind = "agent_group" => Exists(agentGroups, new.fields.matchValue),
           NEW a, ruleAuditEventNow(a, r),
           \/ a = "ownership.rule_created" /\ rules[r].state = "absent" /\ new.state = "active"
           \/ a = "ownership.rule_updated" /\ rules[r].state # "absent" /\ new.state = rules[r].state
           \/ a = "ownership.rule_enabled" /\ rules[r].state # "absent" /\ new.state = "active"
           \/ a = "ownership.rule_disabled" /\ rules[r].state # "absent" /\ new.state = "disabled",
           rules[r].state # "absent" => new.kind = rules[r].kind,
           asked' \in [Rules -> Fields], clobbered' \subseteq Rules, FieldsKept'
    PROVE  RuleRowsInv' /\ RulesRemain
<1>1. /\ rules' \in [Rules -> Rule] /\ \A q \in Rules : rules'[q] = IF q = r THEN new ELSE rules[q]
      /\ rules'[r] = new /\ new.state # "absent"
  BY DEF RuleRowsInv, Proper
<1>2. RulesProper'
  <2> SUFFICES ASSUME NEW q \in Rules PROVE rules'[q] = NoRule \/ Proper(rules'[q])
    BY DEF RulesProper, Proper
  <2> QED BY <1>1 DEF RuleRowsInv, RulesProper
<1>3. RulesRemain
  BY <1>1 DEF RulesRemain
<1>4. RulesRefer'
  <2>1. \A q \in Rules : rules'[q].state # "absent" =>
          /\ Exists(services, rules'[q].service)
          /\ rules'[q].kind = "agent_group" => Exists(agentGroups, rules'[q].fields.matchValue)
    BY <1>1 DEF RuleRowsInv, RulesRefer
  <2>2. \A o \in Overrides : overrides[o] # Nil => Exists(services, overrides[o])
    BY DEF RuleRowsInv, RulesRefer
  <2> QED BY <2>1, <2>2 DEF RulesRefer, Exists, tableVars
<1>e. <<a, r>> \in RuleEvent
  BY RuleEventsAreEvents
<1>a. /\ ruleAudit \in [RuleEvent -> Nat] /\ ruleAudit' \in [RuleEvent -> Nat]
      /\ \A y \in RuleEvent : y # <<a, r>> => ruleAudit'[y] = ruleAudit[y]
      /\ ruleAudit'[<<a, r>>] = ruleAudit[<<a, r>>] + 1
  BY <1>e DEF RuleRowsInv, ruleAuditEventNow
<1>b. RulesAudited
  BY DEF RuleRowsInv
<1>5. ASSUME NEW q \in Rules
      PROVE  /\ ruleAudit'[<<"ownership.rule_created", q>>] = (IF rules'[q].state = "absent" THEN 0 ELSE 1)
             /\ rules'[q].state = "disabled" => ruleAudit'[<<"ownership.rule_disabled", q>>] > 0
             /\ ruleAudit'[<<"ownership.rule_disabled", q>>] > 0 /\ rules'[q].state = "active"
                  => ruleAudit'[<<"ownership.rule_enabled", q>>] > 0
             /\ rules'[q].state = "absent" => ruleAudit'[<<"ownership.rule_disabled", q>>] = 0
  <2>0. /\ <<"ownership.rule_created", q>> \in RuleEvent /\ <<"ownership.rule_disabled", q>> \in RuleEvent
        /\ <<"ownership.rule_enabled", q>> \in RuleEvent
        /\ ruleAudit[<<"ownership.rule_disabled", q>>] \in Nat
        /\ ruleAudit[<<"ownership.rule_enabled", q>>] \in Nat
    BY <1>a, RuleEventsAreEvents
  <2>b. /\ ruleAudit[<<"ownership.rule_created", q>>] = (IF rules[q].state = "absent" THEN 0 ELSE 1)
        /\ rules[q].state = "disabled" => ruleAudit[<<"ownership.rule_disabled", q>>] > 0
        /\ ruleAudit[<<"ownership.rule_disabled", q>>] > 0 /\ rules[q].state = "active"
             => ruleAudit[<<"ownership.rule_enabled", q>>] > 0
        /\ rules[q].state = "absent" => ruleAudit[<<"ownership.rule_disabled", q>>] = 0
    BY <1>b DEF RulesAudited
  <2>1. CASE q # r \/ a = "ownership.rule_updated"
    <3>1. /\ ruleAudit'[<<"ownership.rule_created", q>>] = ruleAudit[<<"ownership.rule_created", q>>]
          /\ ruleAudit'[<<"ownership.rule_disabled", q>>] = ruleAudit[<<"ownership.rule_disabled", q>>]
          /\ ruleAudit'[<<"ownership.rule_enabled", q>>] = ruleAudit[<<"ownership.rule_enabled", q>>]
      BY <1>a, <2>0, <2>1
    <3>2. rules'[q].state = rules[q].state
      BY <1>1, <2>1
    <3> QED BY <2>b, <3>1, <3>2
  <2>2. CASE q = r /\ a = "ownership.rule_created"
    <3>1. /\ ruleAudit'[<<"ownership.rule_created", q>>] = ruleAudit[<<"ownership.rule_created", q>>] + 1
          /\ ruleAudit'[<<"ownership.rule_disabled", q>>] = ruleAudit[<<"ownership.rule_disabled", q>>]
      BY <1>a, <2>0, <2>2
    <3>2. rules[q].state = "absent" /\ rules'[q].state = "active"
      BY <1>1, <2>2
    <3>3. ruleAudit'[<<"ownership.rule_created", q>>] = 1 /\ ruleAudit'[<<"ownership.rule_disabled", q>>] = 0
      BY <2>b, <3>1, <3>2
    <3>4. ~ (0 > 0)
      OBVIOUS
    <3> QED BY <3>2, <3>3, <3>4
  <2>3. CASE q = r /\ a = "ownership.rule_enabled"
    <3>1. /\ ruleAudit'[<<"ownership.rule_created", q>>] = ruleAudit[<<"ownership.rule_created", q>>]
          /\ ruleAudit'[<<"ownership.rule_enabled", q>>] = ruleAudit[<<"ownership.rule_enabled", q>>] + 1
      BY <1>a, <2>0, <2>3
    <3>2. rules[q].state # "absent" /\ rules'[q].state = "active"
      BY <1>1, <2>3
    <3>3. ruleAudit'[<<"ownership.rule_created", q>>] = 1
      BY <2>b, <3>1, <3>2
    <3>4. ruleAudit'[<<"ownership.rule_enabled", q>>] > 0
      BY <2>0, <3>1
    <3> QED BY <3>2, <3>3, <3>4
  <2>4. CASE q = r /\ a = "ownership.rule_disabled"
    <3>1. /\ ruleAudit'[<<"ownership.rule_created", q>>] = ruleAudit[<<"ownership.rule_created", q>>]
          /\ ruleAudit'[<<"ownership.rule_disabled", q>>] = ruleAudit[<<"ownership.rule_disabled", q>>] + 1
      BY <1>a, <2>0, <2>4
    <3>2. rules[q].state # "absent" /\ rules'[q].state = "disabled"
      BY <1>1, <2>4
    <3>3. ruleAudit'[<<"ownership.rule_created", q>>] = 1
      BY <2>b, <3>1, <3>2
    <3>4. ruleAudit'[<<"ownership.rule_disabled", q>>] > 0
      BY <2>0, <3>1
    <3> QED BY <3>2, <3>3, <3>4
  <2> QED BY <2>1, <2>2, <2>3, <2>4
<1>6. RulesAudited'
  BY <1>5 DEF RulesAudited
<1> QED BY <1>1, <1>2, <1>3, <1>4, <1>6, <1>a DEF RuleRowsInv

LEMMA RuleInserted ==
    ASSUME RulesInv, RecordOutdated, UNCHANGED tableVars, NEW e \in Editors, CreateOwnershipRule(e)
    PROVE  RulesInv'
<1>r. RowsRemain
  BY DEF RowsRemain, Exists, tableVars
<1>i. RuleRowsInv
  BY RulesParts
<1>0. PICK x \in Edit : x = edit[e]
  BY DEF RulesInv, RulesTypeOK
<1>1. x.pc = "write rule" /\ x.stored = NoRule /\ EditReturn(e) /\ UNCHANGED <<overrides, clobbered>>
  BY <1>0 DEF CreateOwnershipRule, EditAt
<1>2. EditOK(x)
  BY <1>0 DEF RulesInv, EditsOK
<1>3. CASE UNCHANGED <<rules, ruleAudit, asked>>
  <2>1. RuleRowsInv' /\ RulesRemain
    BY <1>i, <1>r, <1>1, <1>3, RuleRowsStay
  <2> QED BY <1>r, <1>1, <2>1, EditEnds, RulesPartsNext
<1>4. CASE /\ rules[x.row].state = "absent" /\ rules' = [rules EXCEPT ![x.row] = x.rule]
           /\ asked' = [asked EXCEPT ![x.row] = x.patch]
           /\ ruleAuditEventNow("ownership.rule_created", x.row)
  <2>1. /\ x.row \in Rules /\ Proper(x.rule) /\ Exists(services, x.rule.service)
        /\ x.rule.kind = "agent_group" => Exists(agentGroups, x.rule.fields.matchValue)
        /\ x.rule.fields = x.patch /\ x.rule.state = "active"
    BY <1>1, <1>2 DEF EditOK
  <2>2. x.rule \in Rule /\ x.patch \in Fields
    BY DEF Edit
  <2>3. asked' \in [Rules -> Fields]
    BY <1>i, <1>4, <2>1, <2>2 DEF RuleRowsInv
  <2>4. FieldsKept' /\ clobbered' \subseteq Rules
    BY <1>i, <1>1, <1>4, <2>1, <2>2 DEF RuleRowsInv, FieldsKept
  <2>5. RuleRowsInv' /\ RulesRemain
    BY <1>i, <1>1, <1>4, <2>1, <2>2, <2>3, <2>4, RuleWritten
  <2> QED BY <1>r, <1>1, <2>5, EditEnds, RulesPartsNext
<1> QED BY <1>0, <1>3, <1>4 DEF CreateOwnershipRule

LEMMA RuleUpdated ==
    ASSUME RulesInv, RecordOutdated, UNCHANGED tableVars, NEW e \in Editors, UpdateOwnershipRuleMutable(e)
    PROVE  RulesInv'
<1>r. RowsRemain
  BY DEF RowsRemain, Exists, tableVars
<1>i. RuleRowsInv
  BY RulesParts
<1>0. PICK x \in Edit : x = edit[e]
  BY DEF RulesInv, RulesTypeOK
<1>2. EditOK(x)
  BY <1>0 DEF RulesInv, EditsOK
<1>p. x.pc = "write rule" /\ x.stored # NoRule
  BY <1>0 DEF UpdateOwnershipRuleMutable, EditAt
<1>3. /\ x.row \in Rules /\ Proper(x.rule) /\ x.rule \in Rule /\ x.patch \in Fields
      /\ x.rule.kind = "agent_group" => Exists(agentGroups, x.rule.fields.matchValue)
      /\ rules[x.row].state # "absent" /\ rules[x.row].kind = x.rule.kind
  BY <1>2, <1>p DEF EditOK, Edit
<1>4. PICK r \in Rules, old \in Rule : r = x.row /\ old = rules[r]
  BY <1>3, <1>i DEF RuleRowsInv
<1> DEFINE new == [old EXCEPT !.fields = x.rule.fields]
<1>5. /\ rules' = [rules EXCEPT ![r] = new]
      /\ asked' = [asked EXCEPT ![r] = Merge(x.patch, asked[r])]
      /\ ruleAuditEventNow("ownership.rule_updated", r) /\ UNCHANGED overrides /\ EditReturn(e)
      /\ clobbered' = IF old.fields = x.stored.fields THEN clobbered ELSE clobbered \cup {r}
  BY <1>0, <1>4 DEF UpdateOwnershipRuleMutable
<1>6. x.rule.fields \in Fields
  BY <1>3 DEF Rule
<1>7. /\ new \in Rule /\ new.state = old.state /\ new.service = old.service /\ new.kind = old.kind
      /\ new.fields = x.rule.fields
  BY <1>6 DEF Rule
<1> HIDE DEF new
<1>8. Proper(old) /\ Exists(services, old.service) /\ old.state # "absent" /\ old.kind = x.rule.kind
  BY <1>i, <1>3, <1>4, EmptyRule DEF RuleRowsInv, RulesProper, RulesRefer
<1>9. Proper(new)
  BY <1>3, <1>7, <1>8 DEF Proper
<1>t. /\ asked \in [Rules -> Fields] /\ rules \in [Rules -> Rule] /\ clobbered \subseteq Rules
      /\ FieldsKept
  BY <1>i DEF RuleRowsInv
<1>10. asked' \in [Rules -> Fields] /\ clobbered' \subseteq Rules
  <2>1. Merge(x.patch, asked[r]) \in Fields
    BY <1>3, <1>t, MergeIsFields
  <2> QED BY <1>5, <1>t, <2>1
<1>11. FieldsKept'
  <2> SUFFICES ASSUME NEW q \in Rules, q \notin clobbered'
               PROVE  rules'[q].fields = asked'[q]
    BY DEF FieldsKept
  <2>1. q \notin clobbered /\ rules[q].fields = asked[q]
    BY <1>5, <1>t DEF FieldsKept
  <2>2. CASE q # r
    BY <1>5, <1>t, <2>1, <2>2
  <2>3. CASE q = r
    <3>1. old.fields = x.stored.fields
      BY <1>5, <2>3
    <3>2. x.rule.fields = Merge(x.patch, x.stored.fields)
      BY <1>2, <1>p DEF EditOK
    <3>3. x.rule.fields = Merge(x.patch, rules[x.row].fields)
      BY <1>4, <3>1, <3>2
    <3>4. rules'[q] = new /\ asked'[q] = Merge(x.patch, asked[r])
      BY <1>5, <1>t, <2>3
    <3> QED BY <1>4, <1>7, <2>1, <2>3, <3>3, <3>4
  <2> QED BY <2>2, <2>3
<1>12. RuleRowsInv' /\ RulesRemain
  BY <1>i, <1>3, <1>4, <1>5, <1>7, <1>8, <1>9, <1>10, <1>11, RuleWritten
<1> QED BY <1>r, <1>5, <1>12, EditEnds, RulesPartsNext

LEMMA RuleSwitched ==
    ASSUME RulesInv, RecordOutdated, UNCHANGED tableVars, NEW e \in Editors, NEW r \in Rules,
           NEW on \in BOOLEAN, setRuleEnabled(e, r, on)
    PROVE  RulesInv'
<1>r. RowsRemain
  BY DEF RowsRemain, Exists, tableVars
<1>i. RuleRowsInv
  BY RulesParts
<1>4. PICK old \in Rule : old = rules[r]
  BY <1>i DEF RuleRowsInv
<1>s. PICK st : st = IF on THEN "active" ELSE "disabled"
  OBVIOUS
<1>a. PICK a : a = IF on THEN "ownership.rule_enabled" ELSE "ownership.rule_disabled"
  OBVIOUS
<1> DEFINE new == [old EXCEPT !.state = st]
<1>5. /\ rules' = [rules EXCEPT ![r] = new] /\ old.state # "absent"
      /\ ruleAuditEventNow(a, r) /\ UNCHANGED <<overrides, edit, asked, clobbered>>
  BY <1>4, <1>s, <1>a DEF setRuleEnabled
<1>6. \/ a = "ownership.rule_enabled" /\ st = "active"
      \/ a = "ownership.rule_disabled" /\ st = "disabled"
  BY <1>s, <1>a
<1>7. /\ new \in Rule /\ new.state = st /\ new.service = old.service /\ new.kind = old.kind
      /\ new.fields = old.fields
  BY <1>6 DEF Rule, RowState
<1> HIDE DEF new
<1>8. /\ Proper(old) /\ Exists(services, old.service)
      /\ old.kind = "agent_group" => Exists(agentGroups, old.fields.matchValue)
  BY <1>i, <1>4, <1>5, EmptyRule DEF RuleRowsInv, RulesProper, RulesRefer
<1>9. Proper(new)
  BY <1>6, <1>7, <1>8 DEF Proper
<1>10. asked' \in [Rules -> Fields] /\ clobbered' \subseteq Rules
  BY <1>i, <1>5 DEF RuleRowsInv
<1>11. FieldsKept'
  BY <1>i, <1>4, <1>5, <1>7 DEF RuleRowsInv, FieldsKept
<1>12. RuleRowsInv' /\ RulesRemain
  BY <1>i, <1>4, <1>5, <1>6, <1>7, <1>8, <1>9, <1>10, <1>11, RuleWritten
<1>13. EditsInv'
  <2>1. edit' \in [Editors -> Edit]
    BY <1>5 DEF RulesInv, RulesTypeOK
  <2> QED BY <1>r, <1>5, <1>12, <2>1, EditsFollow
<1> QED BY <1>12, <1>13, RulesPartsNext

\* Every edit keeps the invariant of the rules.
LEMMA RulesStep ==
    ASSUME VocabularyInv, RulesInv, NEW e \in Editors, RuleStep(e), RecordOutdated
    PROVE  RulesInv'
<1>1. UNCHANGED tableVars
  BY RuleStepsKeepVocabulary
<1> QED BY <1>1, CheckGroupStep, RuleInserted, RuleUpdated, OverrideWritten, EditFailsStep, CreateOverrideStep,
          RuleSwitched, UpdateRuleStep, CreateRuleStep
       DEF RuleStep, EditStep, CertificateOwnershipOverrideCreate, ruleEnableDisable,
           OwnershipRulesUpdate, OwnershipRulesCreate

----------------------------------------------------------------------------

LEMMA RulesStart == RulesInit => RulesInv
<1> SUFFICES ASSUME RulesInit PROVE RulesInv
  OBVIOUS
<1>1. EditsInv
  <2>1. EditOK(NoEdit) /\ EditHolds(NoEdit)
    BY EmptyRule DEF EditOK, EditHolds
  <2> QED BY <2>1, EmptyRule DEF RulesInit, EditsInv, EditsOK, EditsFresh
<1>2. RulesProper /\ FieldsKept /\ RulesRefer
  BY EmptyRule DEF RulesInit, RulesProper, FieldsKept, RulesRefer
<1>3. RulesAudited
  <2>1. \A r \in Rules : /\ ruleAudit[<<"ownership.rule_created", r>>] = 0
                         /\ ruleAudit[<<"ownership.rule_disabled", r>>] = 0
    BY RuleEventsAreEvents DEF RulesInit
  <2>2. ~ (0 > 0)
    OBVIOUS
  <2> QED BY <2>1, <2>2, EmptyRule DEF RulesInit, RulesAudited
<1>4. RuleRowsInv
  BY <1>2, <1>3, EmptyRule DEF RulesInit, RuleRowsInv
<1> QED BY <1>1, <1>4, RulesParts

\* Both invariants are kept by every step.
LEMMA BothInvariantsStep ==
    ASSUME VocabularyInv, RulesInv, [Next]_vars
    PROVE  VocabularyInv' /\ RulesInv'
<1>1. CASE IdentityNext /\ RulesUnchanged /\ RecordOutdated
  <2>1. VocabularyInv' /\ RowsRemain
    BY <1>1, VocabularyStep
  <2>2. RuleRowsInv' /\ RulesRemain
    BY <1>1, <2>1, RulesParts, RuleRowsStay DEF RulesUnchanged
  <2>3. edit' \in [Editors -> Edit] /\ edit' = edit
    BY <1>1 DEF RulesUnchanged, RulesInv, RulesTypeOK
  <2>4. EditsInv'
    BY <1>1, <2>1, <2>2, <2>3, EditsFollow
  <2> QED BY <2>1, <2>2, <2>4, RulesPartsNext
<1>2. ASSUME NEW e \in Editors, RuleStep(e), RecordOutdated
      PROVE  VocabularyInv' /\ RulesInv'
  BY <1>2, RuleStepsKeepVocabulary, RulesStep
<1>3. CASE UNCHANGED vars
  <2>1. /\ UNCHANGED <<tableVars, audit, profileVars, call, overtaken, raced, requests, faults>>
        /\ UNCHANGED <<rules, overrides, ruleAudit, asked, clobbered, edit, outdated>>
    BY <1>3 DEF vars, ruleVars, identityVars, tagVars, serviceVars, groupVars, agentGroupVars, boundVars,
                tableVars
  <2>2. BoundsOK'
    BY <2>1, VocabularyParts DEF BoundsOK
  <2>3. VocabularyInv' /\ RowsRemain
    BY <2>1, <2>2, VocabularyStutters
  <2>4. RuleRowsInv'
    BY <2>1, <2>3, RulesParts, RuleRowsStay
  <2>5. EditsInv'
    BY <2>1, RulesParts DEF EditsInv, EditsOK, EditsFresh, EditOK, EditHolds, Exists, tableVars
  <2> QED BY <2>3, <2>4, <2>5, RulesPartsNext
<1> QED BY <1>1, <1>2, <1>3 DEF Next

LEMMA TypesFollow == VocabularyInv /\ RulesInv => TypeOK
BY DEF VocabularyInv, RulesInv, RulesTypeOK, TypeOK

LEMMA ReferencesFollow ==
    ASSUME VocabularyInv, RulesInv
    PROVE  NoReferenceDangles
<1>1. \A r \in Rules : /\ rules[r].service # Nil => Exists(services, rules[r].service)
                       /\ rules[r].kind = "agent_group" => Exists(agentGroups, rules[r].fields.matchValue)
  <2> SUFFICES ASSUME NEW r \in Rules
               PROVE  /\ rules[r].service # Nil => Exists(services, rules[r].service)
                      /\ rules[r].kind = "agent_group" => Exists(agentGroups, rules[r].fields.matchValue)
    OBVIOUS
  <2>1. CASE rules[r] = NoRule
    BY <2>1, EmptyRule, RulesAssumption
  <2>2. CASE Proper(rules[r])
    BY <2>2 DEF RulesInv, RulesRefer, Proper
  <2> QED BY <2>1, <2>2 DEF RulesInv, RulesProper
<1>2. \A o \in Overrides : overrides[o] # Nil => Exists(services, overrides[o])
  BY DEF RulesInv, RulesRefer
<1>3. ReferencesResolve
  BY DEF VocabularyInv
<1> QED BY <1>1, <1>2, <1>3 DEF NoReferenceDangles

LEMMA AccountsFollow ==
    ASSUME VocabularyInv, RulesInv
    PROVE  AuditAccounts
<1>1. AuditAccountsForRows
  BY AuditParts DEF VocabularyInv
<1>2. RulesAudited
  BY DEF RulesInv
<1> QED BY <1>1, <1>2 DEF AuditAccounts, RulesAudited

\* Rows are well formed, no reference dangles and the audit trail accounts for every row,
\* whatever mutations of the vocabulary and of the rules overlap or fail (identity.Service,
\* RuleMutations), for any number of rows, operators and requests.
THEOREM TablesAgreeHolds == FairSpec => []TablesAgree
<1>1. RulesInit => VocabularyInv /\ RulesInv
  BY VocabularyStarts, RulesStart DEF RulesInit
<1>2. VocabularyInv /\ RulesInv /\ [Next]_vars => (VocabularyInv /\ RulesInv)'
  BY BothInvariantsStep
<1>3. VocabularyInv /\ RulesInv => TablesAgree
  BY TypesFollow, ReferencesFollow, AccountsFollow DEF TablesAgree
<1> QED BY <1>1, <1>2, <1>3, PTL DEF FairSpec

\* A field of a rule or a column of a service differs from what was last asked for it only if
\* an update was merged into a row that changed before it was written (UpdateRule,
\* ServicesUpdate).
THEOREM LostFieldsNeedRaces == FairSpec => []LostFieldsComeFromRaces
<1>1. RulesInit => VocabularyInv /\ RulesInv
  BY VocabularyStarts, RulesStart DEF RulesInit
<1>2. VocabularyInv /\ RulesInv /\ [Next]_vars => (VocabularyInv /\ RulesInv)'
  BY BothInvariantsStep
<1>3. VocabularyInv /\ RulesInv => LostFieldsComeFromRaces
  BY DEF VocabularyInv, ColumnsKept, RulesInv, FieldsKept, LostFieldsComeFromRaces
<1> QED BY <1>1, <1>2, <1>3, PTL DEF FairSpec

\* Only stampTagDisabled retires a tag, and only stampServiceGroupDisabled a group.
LEMMA WhoRetires ==
    ASSUME VocabularyInv, IdentityNext
    PROVE  /\ \A t \in Tags : tags[t] # "disabled" /\ tags'[t] = "disabled" =>
                /\ UNCHANGED assignments
                /\ \E c \in Callers : At(c, "retire tag") /\ call[c].row = t
           /\ \A g \in Groups : groups[g] # "disabled" /\ groups'[g] = "disabled" =>
                /\ UNCHANGED parentOf
                /\ \A h \in Groups : groups'[h] = "active" => groups[h] = "active"
                /\ \E c \in Callers : At(c, "retire group") /\ call[c].row = g
<1>t. tags \in [Tags -> RowState] /\ groups \in [Groups -> RowState]
  BY VocabularyParts DEF TablesInv, TablesTypeOK
<1>1. CASE TagStep
  <2>1. UNCHANGED groups
    BY <1>1 DEF TagStep, TagsCreate, CreateTag, TagsEnable, EnableTag, TagsUpdate, UpdateTagDescription,
                TagsDisable, DisableTag, TagAssignmentsCreate, AssignTag, TagAssignmentsDelete,
                UnassignTag, groupVars
  <2>2. UNCHANGED tags \/ \E t \in Tags : tags' = Set(tags, t, "active")
    BY <1>1 DEF TagStep, TagsCreate, CreateTag, insertTag, TagsEnable, EnableTag, clearTagDisabled,
                TagsUpdate, UpdateTagDescription, setTagDescription, TagsDisable, DisableTag,
                TagAssignmentsCreate, AssignTag, TagAssignmentsDelete, UnassignTag, tagVars
  <2> QED BY <1>t, <2>1, <2>2 DEF Set
<1>2. CASE ServiceStep \/ AgentGroupStep
  <2>1. UNCHANGED <<tags, groups>>
    BY <1>2 DEF ServiceStep, ServicesCreate, CreateService, ServicesUpdate, ServicesDisable, DisableService,
                ServicesEnable, EnableService, ServicesSetGroup, SetServiceGroupMembership,
                ServicesClearGroup, ClearServiceGroupMembership, AgentGroupStep, AgentGroupsCreate,
                CreateAgentGroup, AgentGroupsDisable, DisableAgentGroup, AgentGroupsAddMember,
                AddAgentToGroup, AgentGroupsRemoveMember, RemoveAgentFromGroup, tagVars, groupVars
  <2> QED BY <2>1
<1>3. CASE GroupStep
  <2>1. UNCHANGED tags /\ (UNCHANGED groups \/ \E g \in Groups : groups' = Set(groups, g, "active"))
    BY <1>3 DEF GroupStep, ServiceGroupsDisable, DisableServiceGroup, ServiceGroupsCreate,
                CreateServiceGroup, ServiceGroupsSetParent, UpdateServiceGroupParent,
                insertServiceGroup, setParent, tagVars, groupVars
  <2> QED BY <1>t, <2>1 DEF Set
<1>4. ASSUME NEW c \in Callers, Step(c) \/ CallFails(c) \/ UpdateFails(c)
      PROVE  /\ \A t \in Tags : tags[t] # "disabled" /\ tags'[t] = "disabled" =>
                  UNCHANGED assignments /\ At(c, "retire tag") /\ call[c].row = t
             /\ \A g \in Groups : groups[g] # "disabled" /\ groups'[g] = "disabled" =>
                  /\ UNCHANGED parentOf
                  /\ \A h \in Groups : groups'[h] = "active" => groups[h] = "active"
                  /\ At(c, "retire group") /\ call[c].row = g
  <2>1. CASE stampTagDisabled(c)
    BY <1>t, <2>1 DEF stampTagDisabled, Set, groupVars
  <2>2. CASE stampServiceGroupDisabled(c)
    BY <1>t, <2>2 DEF stampServiceGroupDisabled, Set, tagVars
  <2>3. CASE WriteParent(c)
    <3>1. UNCHANGED tags /\ (UNCHANGED groups \/ groups' = Set(groups, call[c].row, "active"))
      BY <2>3 DEF WriteParent, insertServiceGroup, setParent, tagVars, groupVars
    <3> QED BY <1>t, <3>1 DEF Set
  <2>4. CASE checkNoCycle(c) \/ UpdateService(c) \/ CallFails(c) \/ UpdateFails(c)
    BY <2>4 DEF checkNoCycle, UpdateService, CallFails, UpdateFails, tagVars, groupVars
  <2> QED BY <1>4, <2>1, <2>2, <2>3, <2>4 DEF Step
<1> QED BY <1>1, <1>2, <1>3, <1>4 DEF IdentityNext

\* A use of a tag or group that this step retires is there because of a call that was
\* overtaken after its preflight.
LEMMA RetiringNeedsARace ==
    ASSUME VocabularyInv, VocabularyInv', UNCHANGED <<tags, groups>> \/ IdentityNext
    PROVE  RetiringIsChecked
<1>f. FlowInv
  BY VocabularyParts
<1>1. ASSUME NEW a \in Tags \X Tagged, UsesRetiredTag(a)', tags[a[1]] # "disabled"
      PROVE  \E c \in overtaken : At(c, "retire tag") /\ call[c].row = a[1]
  <2>0. PICK t \in Tags : t = a[1]
    OBVIOUS
  <2>1. tags'[t] = "disabled" /\ tags[t] # "disabled" /\ a \in assignments'
    BY <1>1, <2>0 DEF UsesRetiredTag
  <2>2. UNCHANGED assignments /\ \E c \in Callers : At(c, "retire tag") /\ call[c].row = t
    BY <2>1, WhoRetires
  <2>3. PICK c \in Callers : At(c, "retire tag") /\ call[c].row = t
    BY <2>2
  <2>4. a \in ListTagAssignmentsForTag(t)
    BY <2>0, <2>1, <2>2 DEF ListTagAssignmentsForTag
  <2>5. c \in overtaken
    BY <1>f, <2>3, <2>4 DEF FlowInv, Fresh, PreflightHolds, At
  <2> QED BY <2>0, <2>3, <2>5
<1>2. ASSUME NEW h \in Groups, UsesRetiredParent(h)', groups[parentOf'[h]] # "disabled"
      PROVE  \E c \in overtaken : At(c, "retire group") /\ call[c].row = parentOf'[h]
  <2>0. PICK g : g = parentOf'[h]
    OBVIOUS
  <2>1. groups'[g] = "disabled" /\ groups[g] # "disabled" /\ groups'[h] = "active" /\ g # Nil
    BY <1>2, <2>0 DEF UsesRetiredParent
  <2>g. g \in Groups
    BY <2>0, <2>1 DEF VocabularyInv, IdentityTypeOK
  <2>2. /\ UNCHANGED parentOf /\ groups[h] = "active"
        /\ \E c \in Callers : At(c, "retire group") /\ call[c].row = g
    BY <2>1, <2>g, WhoRetires
  <2>3. PICK c \in Callers : At(c, "retire group") /\ call[c].row = g
    BY <2>2
  <2>4. h \in ActiveChildren(g)
    BY <2>0, <2>2 DEF ActiveChildren
  <2>5. c \in overtaken
    BY <1>f, <2>3, <2>4 DEF FlowInv, Fresh, PreflightHolds, At
  <2> QED BY <2>0, <2>3, <2>5
<1> QED BY <1>1, <1>2 DEF RetiringIsChecked

\* Whoever creates a rule of something retired is outdated.
LEMMA RuleOfRetiredIsARace ==
    ASSUME RulesInv, NEW e \in Editors, RuleStep(e), NEW r \in Rules,
           rules[r].state = "absent", rules'[r].state # "absent",
           \/ services[rules'[r].service] # "active"
           \/ rules'[r].kind = "agent_group" /\ agentGroups[rules'[r].fields.matchValue] # "active"
    PROVE  \E d \in outdated : edit[d].row = r
<1>t. rules \in [Rules -> Rule] /\ edit \in [Editors -> Edit] /\ outdated \subseteq Editors
  BY DEF RulesInv, RulesTypeOK
<1>1. CASE UNCHANGED rules
  BY <1>1
<1>2. ASSUME NEW q, NEW new, rules[q].state # "absent", rules' = [rules EXCEPT ![q] = new]
      PROVE  FALSE
  BY <1>t, <1>2
<1>3. CASE UpdateOwnershipRuleMutable(e)
  <2>0. PICK x \in Edit : x = edit[e]
    BY <1>t
  <2>1. EditOK(x) /\ x.pc = "write rule" /\ x.stored # NoRule
    BY <1>3, <2>0 DEF RulesInv, EditsOK, UpdateOwnershipRuleMutable, EditAt
  <2>2. rules[x.row].state # "absent"
    BY <2>1 DEF EditOK
  <2>3. rules' = [rules EXCEPT ![x.row] = [rules[x.row] EXCEPT !.fields = x.rule.fields]]
    BY <1>3, <2>0 DEF UpdateOwnershipRuleMutable
  <2> QED BY <1>2, <2>2, <2>3
<1>4. ASSUME NEW q \in Rules, NEW on \in BOOLEAN, setRuleEnabled(e, q, on)
      PROVE  FALSE
  <2>1. rules' = [rules EXCEPT ![q] = [rules[q] EXCEPT !.state = IF on THEN "active" ELSE "disabled"]]
    BY <1>4 DEF setRuleEnabled
  <2>2. rules[q].state # "absent"
    BY <1>4 DEF setRuleEnabled
  <2> QED BY <1>2, <2>1, <2>2
<1>5. CASE CreateOwnershipRule(e)
  <2>0. PICK x \in Edit : x = edit[e]
    BY <1>t
  <2>1. EditOK(x) /\ x.pc = "write rule" /\ x.stored = NoRule
    BY <1>5, <2>0 DEF RulesInv, EditsOK, CreateOwnershipRule, EditAt
  <2>2. rules' = [rules EXCEPT ![x.row] = x.rule]
    BY <1>1, <1>5, <2>0 DEF CreateOwnershipRule
  <2>3. x.row = r /\ rules'[r] = x.rule
    BY <1>t, <2>2
  <2>4. ~ EditHolds(x)
    BY <2>1, <2>3 DEF EditHolds
  <2>5. e \in outdated
    BY <2>0, <2>4 DEF RulesInv, EditsFresh
  <2> QED BY <2>0, <2>3, <2>5
<1> QED BY <1>1, <1>3, <1>4, <1>5
        DEF RuleStep, EditStep, EditFails, CreateRule, UpdateRule, CheckAgentGroup, CreateOverride,
            OwnershipRulesCreate, OwnershipRulesUpdate, ruleEnableDisable,
            CertificateOwnershipOverrideCreate, CreateOwnershipOverride

\* Whoever gives a rule another group, one that is retired, is outdated.
LEMMA UpdateToRetiredIsARace ==
    ASSUME RulesInv, NEW e \in Editors, RuleStep(e), NEW r \in Rules,
           rules[r].state # "absent", rules'[r].kind = "agent_group",
           agentGroups[rules'[r].fields.matchValue] # "active",
           rules'[r].fields.matchValue # rules[r].fields.matchValue
    PROVE  \E d \in outdated : edit[d].row = r
<1>t. rules \in [Rules -> Rule] /\ edit \in [Editors -> Edit] /\ outdated \subseteq Editors
  BY DEF RulesInv, RulesTypeOK
<1>1. CASE UNCHANGED rules
  BY <1>1
<1>2. CASE CreateOwnershipRule(e)
  <2>1. rules[edit[e].row].state = "absent" /\ rules' = [rules EXCEPT ![edit[e].row] = edit[e].rule]
    BY <1>1, <1>2 DEF CreateOwnershipRule
  <2>2. rules'[r] = rules[r]
    BY <1>t, <2>1
  <2> QED BY <2>2
<1>3. ASSUME NEW q \in Rules, NEW on \in BOOLEAN, setRuleEnabled(e, q, on)
      PROVE  FALSE
  <2>0. PICK old \in Rule : old = rules[q]
    BY <1>t
  <2> DEFINE new == [old EXCEPT !.state = IF on THEN "active" ELSE "disabled"]
  <2>1. rules' = [rules EXCEPT ![q] = new]
    BY <1>3, <2>0 DEF setRuleEnabled
  <2>2. new.fields = old.fields
    BY DEF Rule
  <2> HIDE DEF new
  <2>3. rules'[r].fields = rules[r].fields
    BY <1>t, <2>0, <2>1, <2>2
  <2> QED BY <2>3
<1>4. CASE UpdateOwnershipRuleMutable(e)
  <2>0. PICK x \in Edit : x = edit[e]
    BY <1>t
  <2>1. EditOK(x) /\ x.pc = "write rule" /\ x.stored # NoRule
    BY <1>4, <2>0 DEF RulesInv, EditsOK, UpdateOwnershipRuleMutable, EditAt
  <2>2. x.row \in Rules /\ rules[x.row].kind = x.rule.kind
    BY <2>1 DEF EditOK
  <2>3. PICK q \in Rules, old \in Rule : q = x.row /\ old = rules[q]
    BY <1>t, <2>2
  <2> DEFINE new == [old EXCEPT !.fields = x.rule.fields]
  <2>4. rules' = [rules EXCEPT ![q] = new]
    BY <1>4, <2>0, <2>3 DEF UpdateOwnershipRuleMutable
  <2>5. new.fields = x.rule.fields /\ new.kind = old.kind
    BY DEF Rule
  <2> HIDE DEF new
  <2>6. q = r
    BY <1>t, <2>4
  <2>7. rules'[r] = new
    BY <1>t, <2>4, <2>6
  <2>8. x.rule.kind = "agent_group" /\ agentGroups[x.rule.fields.matchValue] # "active"
    BY <2>2, <2>3, <2>5, <2>7
  <2>9. e \in outdated
    BY <2>0, <2>1, <2>8 DEF RulesInv, EditsFresh, EditHolds
  <2> QED BY <2>0, <2>3, <2>6, <2>9
<1> QED BY <1>1, <1>2, <1>3, <1>4
        DEF RuleStep, EditStep, EditFails, CreateRule, UpdateRule, CheckAgentGroup, CreateOverride,
            OwnershipRulesCreate, OwnershipRulesUpdate, ruleEnableDisable,
            CertificateOwnershipOverrideCreate, CreateOwnershipOverride

\* The same for an override.
LEMMA OverrideOfRetiredIsARace ==
    ASSUME RulesInv, NEW e \in Editors, RuleStep(e), NEW o \in Overrides,
           overrides[o] = Nil, overrides'[o] # Nil, services[overrides'[o]] # "active"
    PROVE  \E d \in outdated : edit[d].row = o
<1>t. overrides \in [Overrides -> Services \cup {Nil}] /\ edit \in [Editors -> Edit] /\ outdated \subseteq Editors
  BY DEF RulesInv, RulesTypeOK
<1>1. CASE UNCHANGED overrides
  BY <1>1
<1>2. CASE CreateOwnershipOverride(e)
  <2>0. PICK x \in Edit : x = edit[e]
    BY <1>t
  <2>1. EditOK(x) /\ x.pc = "write override"
    BY <1>2, <2>0 DEF RulesInv, EditsOK, CreateOwnershipOverride, EditAt
  <2>2. overrides' = [overrides EXCEPT ![x.row] = x.rule.service]
    BY <1>1, <1>2, <2>0 DEF CreateOwnershipOverride
  <2>3. x.row = o /\ overrides'[o] = x.rule.service
    BY <1>t, <2>2
  <2>s. x.stored = NoRule
    BY <2>1 DEF EditOK
  <2>4. ~ EditHolds(x)
    BY <2>1, <2>s, <2>3 DEF EditHolds
  <2>5. e \in outdated
    BY <2>0, <2>4 DEF RulesInv, EditsFresh
  <2> QED BY <2>0, <2>3, <2>5
<1> QED BY <1>1, <1>2
        DEF RuleStep, EditStep, EditFails, CreateRule, UpdateRule, CheckAgentGroup, CreateOverride,
            OwnershipRulesCreate, OwnershipRulesUpdate, ruleEnableDisable, setRuleEnabled,
            CertificateOwnershipOverrideCreate, CreateOwnershipRule, UpdateOwnershipRuleMutable

\* A step of an edit makes a reference to a retired row only if it was overtaken.
LEMMA ReferringNeedsARace ==
    ASSUME VocabularyInv, RulesInv, NEW e \in Editors, RuleStep(e)
    PROVE  ReferringIsChecked
<1>u. UNCHANGED <<services, agentGroups>>
  BY RuleStepsKeepVocabulary DEF tableVars
<1>1. ASSUME NEW r \in Rules, RuleOfRetired(r)', rules[r].state = "absent"
      PROVE  \E d \in outdated : edit[d].row = r
  <2>1. rules'[r].state # "absent" /\ services[rules'[r].service] # "active"
    BY <1>u, <1>1 DEF RuleOfRetired
  <2> QED BY <1>1, <2>1, RuleOfRetiredIsARace
<1>2. ASSUME NEW r \in Rules, RuleOfRetiredGroup(r)',
             ~ (rules[r].state # "absent" /\ rules[r].fields.matchValue = rules'[r].fields.matchValue)
      PROVE  \E d \in outdated : edit[d].row = r
  <2>1. /\ rules'[r].state # "absent" /\ rules'[r].kind = "agent_group"
        /\ agentGroups[rules'[r].fields.matchValue] # "active"
    BY <1>u, <1>2 DEF RuleOfRetiredGroup
  <2>2. CASE rules[r].state = "absent"
    BY <2>1, <2>2, RuleOfRetiredIsARace
  <2>3. CASE rules[r].state # "absent" /\ rules'[r].fields.matchValue # rules[r].fields.matchValue
    BY <2>1, <2>3, UpdateToRetiredIsARace
  <2> QED BY <1>2, <2>2, <2>3
<1>3. ASSUME NEW o \in Overrides, OverrideOfRetired(o)', overrides[o] = Nil
      PROVE  \E d \in outdated : edit[d].row = o
  <2>1. overrides'[o] # Nil /\ services[overrides'[o]] # "active"
    BY <1>u, <1>3 DEF OverrideOfRetired
  <2> QED BY <1>3, <2>1, OverrideOfRetiredIsARace
<1> QED BY <1>1, <1>2, <1>3 DEF ReferringIsChecked

\* A step of the vocabulary writes no rule and no override.
LEMMA VocabularyRefersToNothing ==
    ASSUME RulesUnchanged
    PROVE  ReferringIsChecked
BY DEF RulesUnchanged, ReferringIsChecked, RuleOfRetired, RuleOfRetiredGroup, OverrideOfRetired

\* Something comes to refer to a retired row either where the code checks nothing (a disabled
\* tag is attached, a child is put under a disabled group, a service or an agent group with
\* rules or overrides is retired) or by a call that was overtaken after its check (DisableTag,
\* DisableServiceGroup, CreateRule, UpdateRule, CreateOverride).
THEOREM ChecksFailOnlyByRaceHolds == FairSpec => ChecksFailOnlyByRace
<1>1. RulesInit => VocabularyInv /\ RulesInv
  BY VocabularyStarts, RulesStart DEF RulesInit
<1>2. VocabularyInv /\ RulesInv /\ [Next]_vars => (VocabularyInv /\ RulesInv)'
  BY BothInvariantsStep
<1>3. VocabularyInv /\ RulesInv /\ [Next]_vars => [RetiringIsChecked /\ ReferringIsChecked]_vars
  <2> SUFFICES ASSUME VocabularyInv, RulesInv, Next
               PROVE  RetiringIsChecked /\ ReferringIsChecked
    OBVIOUS
  <2>0. VocabularyInv'
    BY BothInvariantsStep
  <2>1. CASE IdentityNext /\ RulesUnchanged
    BY <2>0, <2>1, RetiringNeedsARace, VocabularyRefersToNothing
  <2>2. ASSUME NEW e \in Editors, RuleStep(e)
        PROVE  RetiringIsChecked /\ ReferringIsChecked
    <3>1. UNCHANGED <<tags, groups>>
      BY <2>2, RuleStepsKeepVocabulary DEF tableVars
    <3> QED BY <2>0, <2>2, <3>1, RetiringNeedsARace, ReferringNeedsARace
  <2> QED BY <2>1, <2>2 DEF Next
<1> QED BY <1>1, <1>2, <1>3, PTL DEF FairSpec, ChecksFailOnlyByRace
=============================================================================
