----------------------------- MODULE SeatQuota -----------------------------
(***************************************************************************)
(* What a deployment package promises, without calls, transactions or      *)
(* clocks: a package is issued with a number of seats, an agent takes one  *)
(* seat of one package and keeps it, a closed package gives out no seat    *)
(* and never opens again, and a withdrawn package takes its seats' labels  *)
(* with it.  Enrollment is shown to implement it.                          *)
(***************************************************************************)
EXTENDS Naturals, FiniteSets

CONSTANTS Packages, Agents

VARIABLES
    cap,      \* the seats each package was issued with, 0 before and after its life
    closed,   \* the packages that give out no more seats
    seats     \* the agents in each package's seats

vars == <<cap, closed, seats>>

Init == /\ cap = [p \in Packages |-> 0]
        /\ closed = {}
        /\ seats = [p \in Packages |-> {}]

Issue(p) ==
    /\ cap[p] = 0 /\ p \notin closed
    /\ cap'[p] \in Nat \ {0} /\ cap' = [cap EXCEPT ![p] = cap'[p]]
    /\ UNCHANGED <<closed, seats>>

Take(p, a) ==
    /\ Cardinality(seats[p]) < cap[p]
    /\ p \notin closed
    /\ \A q \in Packages : a \notin seats[q]
    /\ seats' = [seats EXCEPT ![p] = @ \cup {a}]
    /\ UNCHANGED <<cap, closed>>

Close(p) ==
    /\ cap[p] > 0 /\ p \notin closed
    /\ closed' = closed \cup {p}
    /\ UNCHANGED <<cap, seats>>

Withdraw(p) ==
    /\ cap[p] > 0
    /\ cap' = [cap EXCEPT ![p] = 0]
    /\ closed' = closed \cup {p}
    /\ seats' = [seats EXCEPT ![p] = {}]

Next == \E p \in Packages : \/ Issue(p) \/ Close(p) \/ Withdraw(p)
                            \/ \E a \in Agents : Take(p, a)

Spec == Init /\ [][Next]_vars
=============================================================================
