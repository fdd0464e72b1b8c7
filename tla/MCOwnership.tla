---------------------------- MODULE MCOwnership ----------------------------
(* Rule sets for the instances of Ownership that TLC checks. *)
EXTENDS Ownership, TLC

CONSTANTS s1, s2

Fallback == [id |-> 1, tier |-> "fallback", priority |-> 0, created |-> 1,
             service |-> s1, certs |-> Cert]
Pattern  == [id |-> 2, tier |-> "san_pattern", priority |-> 0, created |-> 1,
             service |-> s2, certs |-> Cert]
Tied     == [Pattern EXCEPT !.id = 3, !.service = s1]
Reserved == [Pattern EXCEPT !.id = 4, !.tier = "service_member"]

NoRules == {{}}
OneRule == {{}, {Fallback}}
ManyRules == {{}, {Fallback}, {Fallback, Pattern}, {Pattern, Tied, Reserved}}

\* Callers and override ids are interchangeable.
Symmetry == Permutations(Caller) \cup Permutations(OverrideId)
=============================================================================
