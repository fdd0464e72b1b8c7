--------------------------- MODULE FindingsEngine ---------------------------
(***************************************************************************)
(* The pure part of the findings engine: the six certificate rules, the    *)
(* lifecycle of a finding row, and the two diffs of a recompute, the paged *)
(* one that production runs and the load-all one it replaced.              *)
(*                                                                         *)
(*   backend/internal/findings/{rules_certificate,service_diff,service}.go *)
(*   backend/internal/storage/postgres/findings_repository.go              *)
(*                                                                         *)
(* A finding is identified by its key, a (certificate, rule) pair.  Times  *)
(* are positive; 0 is NULL.  Evidence, severity, title and rule version    *)
(* are left out: they are rewritten exactly when last_seen_at is.  Reason  *)
(* and actor of an override are left out: they are set and cleared with    *)
(* status_changed_at.                                                      *)
(***************************************************************************)
EXTENDS Integers, FiniteSets

CONSTANTS
    Cert,                \* certificates, as numbers in id order
    Certificate,         \* the parsed attributes of each certificate
    Rules,               \* the rules the service is built with
    IdOf,                \* the random id a key's finding gets, as a number in id order
    PageSize,            \* recomputeStreamingPageSize
    expiringSoonWindow,
    longLivedThreshold

DefaultRules == {"certificate_expired", "certificate_expiring_soon",
                 "weak_signature_algorithm", "weak_rsa_key",
                 "self_signed_leaf", "long_lived_certificate"}

weakRSAThresholdBits == 2048

CertificateSummary ==
    [notBefore : Int, notAfter : Int, hash : {"MD5", "SHA1", "SHA256"},
     alg : {"RSA", "ECDSA"}, bits : Nat, isSelfSigned : BOOLEAN, isCA : BOOLEAN]

Key == Cert \X Rules

ASSUME EngineAssumption ==
    /\ Cert \subseteq Nat \ {0} /\ IsFiniteSet(Cert)
    /\ Certificate \in [Cert -> CertificateSummary]
    /\ Rules \subseteq DefaultRules
    /\ IdOf \in [Key -> Nat \ {0}]
    /\ \A k, l \in Key : IdOf[k] = IdOf[l] => k = l
    /\ PageSize \in Nat \ {0}
    /\ expiringSoonWindow \in Nat /\ longLivedThreshold \in Nat

-----------------------------------------------------------------------------
(* The rules *)

Evaluate(rule, c, now) ==
    LET cert == Certificate[c]
    IN  CASE rule = "certificate_expired"       -> now > cert.notAfter
          [] rule = "certificate_expiring_soon" ->
                cert.notAfter > now /\ cert.notAfter - now <= expiringSoonWindow
          [] rule = "weak_signature_algorithm"  -> cert.hash \in {"MD5", "SHA1"}
          [] rule = "weak_rsa_key"              ->
                cert.alg = "RSA" /\ cert.bits < weakRSAThresholdBits
          [] rule = "self_signed_leaf"          -> cert.isSelfSigned /\ ~ cert.isCA
          [] rule = "long_lived_certificate"    ->
                ~ cert.isCA /\ cert.notAfter - cert.notBefore > longLivedThreshold

-----------------------------------------------------------------------------
(* The lifecycle of one finding *)

Status == {"open", "resolved", "acknowledged", "suppressed"}

Finding == [status : Status \cup {"none"}, firstSeenAt : Nat, lastSeenAt : Nat,
            resolvedAt : Nat, updatedAt : Nat, statusChangedAt : Nat,
            suppressExpiresAt : Nat]

\* There is no row.
NoFinding == [status |-> "none", firstSeenAt |-> 0, lastSeenAt |-> 0, resolvedAt |-> 0,
              updatedAt |-> 0, statusChangedAt |-> 0, suppressExpiresAt |-> 0]

Exists(f) == f.status # "none"

\* A row of an automatic transition to open or resolved: no override is in force.
Automatic(status, first, last, resolved, now) ==
    [status |-> status, firstSeenAt |-> first, lastSeenAt |-> last, resolvedAt |-> resolved,
     updatedAt |-> now, statusChangedAt |-> 0, suppressExpiresAt |-> 0]

suppressionExpired(f, now) ==
    f.status = "suppressed" /\ f.suppressExpiresAt # 0 /\ now >= f.suppressExpiresAt

\* The rule still matches: status and override are kept.
Confirmed(f, now) ==
    [status |-> f.status, firstSeenAt |-> f.firstSeenAt, lastSeenAt |-> now,
     resolvedAt |-> f.resolvedAt, updatedAt |-> now,
     statusChangedAt |-> f.statusChangedAt, suppressExpiresAt |-> f.suppressExpiresAt]

\* Mutant of decideMatchTransition: an expired suppression stays in force.
MatchIgnoresExpiry(f, now) ==
    CASE f.status = "none"     -> Automatic("open", now, now, 0, now)
      [] f.status = "resolved" -> Automatic("open", f.firstSeenAt, now, 0, now)
      [] OTHER                 -> Confirmed(f, now)

decideMatchTransition(f, now) ==
    CASE f.status = "none" -> Automatic("open", now, now, 0, now)
      [] f.status = "resolved" \/ suppressionExpired(f, now) ->
            Automatic("open", f.firstSeenAt, now, 0, now)
      [] OTHER -> Confirmed(f, now)

decideNoMatchTransition(f, now) ==
    IF f.status \in {"none", "resolved"} THEN f
    ELSE Automatic("resolved", f.firstSeenAt, f.lastSeenAt, now, now)

\* The counter that a transition of a row f increments.
MatchBucket(f, now) ==
    IF f.status \in {"none", "resolved"} \/ suppressionExpired(f, now)
    THEN "opened" ELSE "updated"

NoMatchBucket(f) == IF f.status = "resolved" THEN "unchanged" ELSE "resolved"

-----------------------------------------------------------------------------
(* The diffs of a recompute over the certificates C and the rows F *)

Buckets == {"opened", "updated", "resolved", "unchanged"}

existing(F) == {k \in Key : Exists(F[k])}

matchesOf(C, now) == {k \in C \X Rules : Evaluate(k[2], k[1], now)}

\* runDiffLoadAll
runDiffLoadAll(C, F, now) ==
    LET matches == matchesOf(C, now)
    IN  [findings |-> [k \in Key |-> IF k \in matches THEN decideMatchTransition(F[k], now)
                                     ELSE decideNoMatchTransition(F[k], now)],
         counters |-> [b \in Buckets |->
            Cardinality({k \in matches : MatchBucket(F[k], now) = b})
            + Cardinality({k \in existing(F) \ matches : NoMatchBucket(F[k]) = b})]]

\* WHERE id > after ORDER BY id LIMIT PageSize, over the ids in I.
Page(I, after) ==
    {i \in I : i > after /\ Cardinality({j \in I : after < j /\ j < i}) < PageSize}

\* Mutant of Walk: a full page is taken for the last one.
WalkOnePage(I) == Page(I, 0)

\* The ids that paging through I visits: a short page is the last one.
Walk(I) ==
    LET visited[after \in {0} \cup I] ==
            LET page == Page(I, after)
            IN  IF Cardinality(page) < PageSize THEN page
                ELSE page \cup visited[CHOOSE i \in page : \A j \in page : j <= i]
    IN  visited[0]

\* Phase 1 pages through the certificates.
pagedMatches(C, now) == matchesOf(Walk(C), now)

\* Phase 2 pages through the rows.
pagedFindings(F) == {k \in existing(F) : IdOf[k] \in Walk({IdOf[l] : l \in existing(F)})}

\* The rows after phases 2 and 3: visited rows are diffed, the matches left are inserted.
streamedRow(matches, visited, F, k, now) ==
    CASE k \in visited /\ k \in matches     -> decideMatchTransition(F[k], now)
      [] k \in visited /\ k \notin matches  -> decideNoMatchTransition(F[k], now)
      [] k \notin visited /\ k \in matches  -> decideMatchTransition(NoFinding, now)
      [] k \notin visited /\ k \notin matches -> F[k]

\* Phase 3 would insert a key that has a row: the UNIQUE constraint fails.
insertConflicts(C, F, now) ==
    (pagedMatches(C, now) \ pagedFindings(F)) \cap existing(F) # {}

runDiffStreaming(C, F, now) ==
    LET matches == pagedMatches(C, now)
        visited == pagedFindings(F)
    IN  [findings |-> [k \in Key |-> streamedRow(matches, visited, F, k, now)],
         counters |-> [b \in Buckets |->
            Cardinality({k \in matches \cap visited : MatchBucket(F[k], now) = b})
            + Cardinality({k \in visited \ matches : NoMatchBucket(F[k]) = b})
            + (IF b = "opened" THEN Cardinality(matches \ visited) ELSE 0)]]
=============================================================================
