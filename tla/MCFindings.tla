----------------------------- MODULE MCFindings -----------------------------
(***************************************************************************)
(* Instances of Findings for TLC.                                          *)
(***************************************************************************)
EXTENDS Findings

CONSTANTS s1, p1, p2

\* A certificate with no flaw but the time it expires at.
Sound(notAfter) == [notBefore |-> 0, notAfter |-> notAfter, hash |-> "SHA256", alg |-> "ECDSA",
                    bits |-> 256, isSelfSigned |-> FALSE, isCA |-> FALSE]

OneCert == <<Sound(1)>>

\* Three certificates at the boundaries of the rules: a 2047-bit leaf that lived too
\* long, a 2048-bit self-signed one with an old hash and a root with both.
Flawed == <<[Sound(2) EXCEPT !.alg = "RSA", !.bits = 2047, !.notBefore = -1],
            [Sound(3) EXCEPT !.alg = "RSA", !.bits = 2048, !.hash = "SHA1",
                             !.isSelfSigned = TRUE, !.notBefore = 1],
            [Sound(4) EXCEPT !.hash = "MD5", !.isSelfSigned = TRUE, !.isCA = TRUE]>>

ExpiryRules == {"certificate_expired", "certificate_expiring_soon"}

RuleRank(r) ==
    LET order == <<"weak_rsa_key", "certificate_expired", "long_lived_certificate",
                   "certificate_expiring_soon", "self_signed_leaf", "weak_signature_algorithm">>
    IN  CHOOSE i \in 1 .. 6 : order[i] = r

\* Ids of findings that follow neither the order of the certificates nor of the rules.
MixedIds == [k \in Key |-> 4 * RuleRank(k[2]) - k[1]]

OneOrg == [c \in Cert |-> 1]
LastOrg == [c \in Cert |-> 2]
=============================================================================
