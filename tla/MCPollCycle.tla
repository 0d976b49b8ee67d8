---------------------------- MODULE MCPollCycle ----------------------------
(* Instances of PollCycle for TLC. *)
EXTENDS PollCycle

CONSTANTS c1, c2, b1, b2, j1, j2

TwoCycles == {c1, c2}
OneCycle == {c1}
OneBoard == {b1}
TwoBoards == {b1, b2}
OneJob == {j1}
OnlyJ2 == {j2}
TwoJobs == {j1, j2}

\* b1 lists every job.
AllOnOne == [j \in Jobs |-> b1]
\* Each job on a board of its own.
Split == [j \in Jobs |-> IF j = j1 THEN b1 ELSE b2]

=============================================================================
