-------------------------- MODULE InventoryListing --------------------------
(***************************************************************************)
(* Operators page through the inventory while agents change it: the four   *)
(* listings (certificates, one agent's certificates, observations of one   *)
(* certificate, machine snapshots), each page a statement of its own that  *)
(* starts after the last row of the page before.                           *)
(***************************************************************************)
EXTENDS Inventory

CONSTANTS
    Lists,      \* the listings operators ask for
    PageLimit   \* the page size, without the extra row that tells of a next page

ASSUME ListingAssumption ==
    /\ PageLimit \in Nat \ {0}
    /\ Nil \notin [at : Time, id : Nat \X Nat]     \* no cursor is not a row of a listing
    /\ Lists \subseteq [kind : {"certificates", "summaries"}, currentOnly : BOOLEAN, of : {Nil}]
                       \cup [kind : {"agent_certificates"}, currentOnly : BOOLEAN, of : Agent]
                       \cup [kind : {"observations"}, currentOnly : BOOLEAN, of : Cert]

VARIABLE walk   \* the pages one operator has read so far

vars == <<inventoryVars, walk>>

NoWalk == [pc |-> "idle", list |-> Nil, cursor |-> Nil, returned |-> {}, steady |-> {}, repeats |-> 0]

Init == InventoryInit /\ walk = NoWalk

----------------------------------------------------------------------------

\* A row of a listing: its sort time and the ids that break ties.
Row(at, id) == [at |-> at, id |-> id]

\* The filter of ListCertificates: observed by the agent asked for, currently if asked for.
Observed(c, l) == \E k \in Key : /\ k[2] = c /\ obs[k] # Nil
                                 /\ l.of = Nil \/ k[1] = l.of
                                 /\ l.currentOnly => obs[k].removed = Nil

\* The committed rows that listing l would return with no cursor and no limit.
ListCertificates(l) ==
    {Row(certs[c].last, <<c, 0>>) : c \in
        {d \in Cert : certs[d] # Nil /\ (l.of # Nil \/ l.currentOnly => Observed(d, l))}}

ListObservationsPage(l) ==
    {Row(obs[k].last, <<k[1], k[3]>>) : k \in
        {j \in Key : j[2] = l.of /\ obs[j] # Nil /\ (l.currentOnly => obs[j].removed = Nil)}}

ListSummaries == {Row(snapshots[a], <<a, 0>>) : a \in {b \in Agent : snapshots[b] # Nil}}

Rows(l) == CASE l.kind \in {"certificates", "agent_certificates"} -> ListCertificates(l)
             [] l.kind = "observations" -> ListObservationsPage(l)
             [] l.kind = "summaries"    -> ListSummaries

IdBefore(x, y) == x[1] < y[1] \/ (x[1] = y[1] /\ x[2] < y[2])

\* The order of every listing: newest first, then by id.
Before(r, s) == r.at > s.at \/ (r.at = s.at /\ IdBefore(r.id, s.id))

\* The rows a page may hold.
After(rows, cursor) == {r \in rows : cursor = Nil \/ Before(cursor, r)}

\* The rows of a page.
Page(rest) == {r \in rest : Cardinality({s \in rest : Before(s, r)}) < PageLimit}

\* The first request of a walk.  A request that is not well formed is refused and reads nothing.
Ask(l) ==
    /\ walk.pc = "idle"
    /\ walk' = [NoWalk EXCEPT !.pc = "page", !.list = l, !.steady = Rows(l)]
    /\ UNCHANGED inventoryVars

CertificatesList(l) == l.kind = "certificates" /\ Ask(l)

\* The agent of the path has to exist: every agent that reports does.
AgentCertificatesList(l) == l.kind = "agent_certificates" /\ Ask(l)

\* The certificate of the path has to exist.
CertificateObservationsList(l) == l.kind = "observations" /\ certs[l.of] # Nil /\ Ask(l)

AgentInventoryList(l) == l.kind = "summaries" /\ Ask(l)

\* Mutant of NextCursor: the cursor is the extra row.
NextCursorExtraRow(rest, page) ==
    IF Cardinality(rest) <= PageLimit THEN Nil
    ELSE CHOOSE r \in rest \ page : \A s \in rest \ page : r = s \/ Before(r, s)

\* The last row of the page, when one more row shows that there is another page.
NextCursor(rest, page) ==
    IF Cardinality(rest) <= PageLimit THEN Nil
    ELSE CHOOSE r \in page : \A s \in page : r = s \/ Before(s, r)

\* One page.  steady keeps the rows that each page so far could have returned; a walk that
\* is done keeps those it has not returned.
ReadPage ==
    /\ walk.pc = "page"
    /\ LET rows     == Rows(walk.list)
           rest     == After(rows, walk.cursor)
           page     == Page(rest)
           next     == NextCursor(rest, page)
           returned == walk.returned \cup {r.id : r \in page}
           steady   == walk.steady \cap rows
           repeats  == walk.repeats + Cardinality({r \in page : r.id \in walk.returned})
       IN  IF next # Nil
           THEN walk' = [walk EXCEPT !.cursor = next, !.returned = returned, !.steady = steady,
                                     !.repeats = repeats]
           ELSE walk' = [NoWalk EXCEPT !.pc = "done", !.list = walk.list, !.repeats = repeats,
                                       !.steady = {r \in steady : r.id \notin returned}]
    /\ UNCHANGED inventoryVars

EndWalk == walk.pc = "done" /\ walk' = NoWalk /\ UNCHANGED inventoryVars

Next == \/ InventoryNext /\ UNCHANGED walk
        \/ ReadPage \/ EndWalk
        \/ \E l \in Lists : \/ CertificatesList(l) \/ AgentCertificatesList(l)
                            \/ CertificateObservationsList(l) \/ AgentInventoryList(l)

Spec == Init /\ [][Next]_vars

FairSpec == Spec /\ InventoryFairness

----------------------------------------------------------------------------
(* Properties. *)

TypeOK ==
    /\ InventoryTypeOK
    /\ walk.pc \in {"idle", "page", "done"}
    /\ walk.pc # "idle" => walk.list \in Lists
    /\ walk.cursor # Nil => walk.cursor.at \in Time
    /\ walk.repeats \in Nat

\* Rows, calls and pages are what they should be, and each certificate row agrees with its
\* observations whatever batches ran at the same time (Submit).
TablesAgree == TypeOK /\ CertificateSpansObservations

\* A walk that has read its last page has returned every row that stood still, however many
\* rows were added, moved to the front or removed between its pages.  No walk over
\* certificates or observations returns a row twice: last_seen_at only grows, so a row that
\* moves while the operator reads moves to pages already read.
WalkIsExact ==
    /\ walk.pc = "done" => walk.steady = {}
    /\ walk.pc # "idle" /\ walk.list.kind # "summaries" => walk.repeats = 0
=============================================================================
