----------------------------- MODULE MCFetching -----------------------------
(* The instance of Fetching that reads an aggregator. *)
EXTENDS Fetching

CONSTANTS p1, p2, p3

Three == {p1, p2, p3}

\* The second query overlaps the first, and one posting is on a board polled directly.
TwoQueries == <<{p1, p2}, {p2, p3}>>
LastIsPolled == {p3}
=============================================================================
