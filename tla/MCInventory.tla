---------------------------- MODULE MCInventory ----------------------------
(* Batches and listings for the instances of InventoryListing that TLC checks. *)
EXTENDS InventoryListing, TLC

Good(c, s) == [cert |-> c, store |-> s, pem |-> "certificate"]
Bad(c, s, pem) == [cert |-> c, store |-> s, pem |-> pem]

Sent(a, t, coverage, entries) ==
    [agent |-> a, collectedAt |-> t, coverage |-> coverage, entries |-> entries]

\* Agent 1 sees both certificates in store 1, later the second one only, now in store 2, and
\* in between the first one only; agent 2 takes the rows in the opposite order.
Both     == Sent(1, 1, <<1>>, <<Good(1, 1), Good(2, 1)>>)
Moved    == Sent(1, 3, <<1, 2>>, <<Good(2, 2)>>)
First    == Sent(1, 2, <<1, 2>>, <<Good(1, 1)>>)
Opposite == Sent(2, 2, <<1>>, <<Good(2, 1), Good(1, 1)>>)

\* Batches that are refused, each by another check.
Refused == {Sent(2, 0, <<1>>, <<Good(1, 1)>>),
            Sent(2, 2, <<1>>, <<Good(1, 1), Good(1, 1), Bad(2, 1, "unparseable")>>),
            Sent(2, 2, <<1>>, <<Good(1, 1), Bad(2, 1, "unparseable")>>),
            Sent(2, 2, <<1>>, <<Good(1, 2), Bad(2, 1, "private_key")>>)}

AllBatches == {Both, Moved, First, Opposite} \cup Refused

\* The batches of agent 1 alone.
OneAgentBatches == {Both, Moved, First}

AllLists == {[kind |-> "certificates", currentOnly |-> TRUE, of |-> Nil],
             [kind |-> "agent_certificates", currentOnly |-> FALSE, of |-> 1],
             [kind |-> "observations", currentOnly |-> FALSE, of |-> 1],
             [kind |-> "summaries", currentOnly |-> FALSE, of |-> Nil]}
=============================================================================
