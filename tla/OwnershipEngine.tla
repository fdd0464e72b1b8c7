-------------------------- MODULE OwnershipEngine --------------------------
(***************************************************************************)
(* The pure part of the ownership engine: the rule walk order and the      *)
(* decision for one certificate, the diff of a decision against the stored *)
(* row, and the transition that is audited.                                *)
(*                                                                         *)
(*   backend/internal/governance/ownership/{engine,decision,precedence}.go *)
(*   backend/internal/governance/ownership/{recompute,rederive}.go         *)
(*                                                                         *)
(* A rule carries the set of certificates whose signals satisfy its        *)
(* predicate (globs, regexes, tags and agent groups are abstracted to that *)
(* set; a rule whose regex does not compile has the empty set).  Of the    *)
(* stored row the timestamps are left out; losing rules and the signals an *)
(* explanation records are left out with them.                             *)
(***************************************************************************)
EXTENDS Integers

CONSTANTS
    Cert,       \* certificates of the organization, as numbers in cursor order
    Service,
    OverrideId,
    ExpId,      \* explanation ids, as numbers in id order
    Nil         \* NULL

Tier == {"explicit", "service_member", "agent_group", "san_pattern",
         "subject_pattern", "tag", "issuer_store", "fallback"}

tierOrdinal ==
    [t \in Tier |-> CASE t = "explicit"        -> 1
                      [] t = "service_member"  -> 2
                      [] t = "agent_group"     -> 3
                      [] t = "san_pattern"     -> 4
                      [] t = "subject_pattern" -> 5
                      [] t = "tag"             -> 6
                      [] t = "issuer_store"    -> 7
                      [] t = "fallback"        -> 8]

Rule == [id : Nat, tier : Tier, priority : Nat, created : Nat,
         service : Service, certs : SUBSET Cert]

Decision == {"matched", "ambiguous", "overridden", "unowned"}
Confidence == {"high", "medium", "low"}

\* What decideOwnership returns.
OwnershipDecision == [decision : Decision, service : Service \cup {Nil},
                      rule : Nat \cup {Nil}, override : OverrideId \cup {Nil},
                      confidence : Confidence]

\* An override as the engine sees it: Nil as id when the certificate has none.
Pin == [id : OverrideId \cup {Nil}, service : Service \cup {Nil}, expires : Nat]
NoPin == [id |-> Nil, service |-> Nil, expires |-> 0]

confidenceForTier(t) ==
    CASE t \in {"explicit", "service_member"} -> "high"
      [] t \in {"agent_group", "san_pattern", "subject_pattern", "tag"} -> "medium"
      [] OTHER -> "low"

\* compileRules: service_member is reserved and inert.
compileRules(rules) == {r \in rules : r.tier # "service_member"}

\* The sort key of compileRules: (tier ordinal, priority, created_at, id).
TiedWith(r, s) ==
    /\ r.tier = s.tier
    /\ r.priority = s.priority
    /\ r.created = s.created

WalksBefore(r, s) ==
    \/ tierOrdinal[r.tier] < tierOrdinal[s.tier]
    \/ /\ r.tier = s.tier
       /\ \/ r.priority < s.priority
          \/ /\ r.priority = s.priority
             /\ \/ r.created < s.created
                \/ r.created = s.created /\ r.id < s.id

matched(rules, c) == {r \in compileRules(rules) : c \in r.certs}

Winner(M) == CHOOSE r \in M : \A s \in M : s # r => ~ WalksBefore(s, r)

overrideActive(pin, now) == pin.id # Nil /\ pin.expires > now

Unowned == [decision |-> "unowned", service |-> Nil, rule |-> Nil,
            override |-> Nil, confidence |-> "low"]

Overridden(pin) == [decision |-> "overridden", service |-> pin.service, rule |-> Nil,
                    override |-> pin.id, confidence |-> "high"]

MatchedBy(w, M) ==
    [decision   |-> IF \E m \in M : m # w /\ TiedWith(m, w) THEN "ambiguous" ELSE "matched",
     service    |-> w.service,
     rule       |-> w.id,
     override   |-> Nil,
     confidence |-> confidenceForTier(w.tier)]

decideOwnership(c, pin, rules, now) ==
    LET M == matched(rules, c)
    IN  IF overrideActive(pin, now) THEN Overridden(pin)
        ELSE IF M = {} THEN Unowned
        ELSE MatchedBy(Winner(M), M)

-----------------------------------------------------------------------------
(* The stored row of a certificate, and its diff against a decision. *)

CertificateOwnership ==
    [exists : BOOLEAN, decision : Decision, service : Service \cup {Nil},
     rule : Nat \cup {Nil}, override : OverrideId \cup {Nil},
     confidence : Confidence, explanation : ExpId \cup {Nil}]

NoRow == [exists |-> FALSE, decision |-> "unowned", service |-> Nil, rule |-> Nil,
          override |-> Nil, confidence |-> "low", explanation |-> Nil]

ownerChanged(prior, d) ==
    prior.decision # d.decision \/ prior.service # d.service

basisChanged(prior, d) ==
    \/ prior.rule # d.rule
    \/ prior.override # d.override
    \/ prior.confidence # d.confidence

\* rederiveCertificate and processCert write a fresh explanation unless nothing moved.
WritesExplanation(prior, d) ==
    ~ prior.exists \/ ownerChanged(prior, d) \/ basisChanged(prior, d)

buildOwnership(d, e) ==
    [exists |-> TRUE, decision |-> d.decision, service |-> d.service, rule |-> d.rule,
     override |-> d.override, confidence |-> d.confidence, explanation |-> e]

\* The row after the decision; e is the id of the fresh explanation.
Upserted(prior, d, e) ==
    IF WritesExplanation(prior, d) THEN buildOwnership(d, e) ELSE prior

\* accumAudit: the audit action of a recompute transition, Nil for none.
accumAudit(prior, d) ==
    LET fromOwned  == prior.decision # "unowned"
        nowOwned   == d.service # Nil
        svcChanged == prior.service # Nil /\ nowOwned /\ prior.service # d.service
    IN  CASE ~ fromOwned /\ nowOwned ->
                IF d.decision = "ambiguous" THEN "ambiguous_match" ELSE "assigned"
          [] fromOwned /\ ~ nowOwned -> "cleared"
          [] fromOwned /\ nowOwned /\ svcChanged ->
                IF d.decision = "ambiguous" THEN "ambiguous_match" ELSE "flipped"
          [] fromOwned /\ nowOwned /\ ~ svcChanged ->
                IF d.decision = "ambiguous" /\ prior.decision # "ambiguous"
                THEN "ambiguous_match" ELSE Nil
          [] OTHER -> Nil
=============================================================================
