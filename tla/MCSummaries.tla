---------------------------- MODULE MCSummaries ----------------------------
(* Small instances of Summaries for TLC. *)
EXTENDS Summaries

CONSTANTS d1, d2, c1, c2, n1, n2, h1, e1

MCContents == {{c1}, {c2}}

\* A joint bound on the two counters: two lists and two revisions, or one list
\* and three revisions.  No fair action advances either.
MCNext == Next /\ \A h \in Homes, d \in Decks : lists'[h] + revision'[d] <= 4
MCSpec == Init /\ [][MCNext]_vars /\ Fairness

=============================================================================
