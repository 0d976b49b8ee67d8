-------------------------------- MODULE Funnel --------------------------------
(***************************************************************************)
(* What the pipeline page makes of the matches: src/src/web/funnel.py.     *)
(* Pure functions of a sequence of matches, each [status, history]: the    *)
(* status of a card now, and the set of those it has had.                  *)
(***************************************************************************)
EXTENDS Integers, Sequences, FiniteSets, SequencesExt

CONSTANT None

\* _LADDER, and the node of each of its rungs.
Ladder == <<"new", "interested", "applied", "interviewing", "offer">>
StageNode == [Ladder EXCEPT ![1] = "matches"]
New == 1
Applied == 3
Offer == 5
Nodes == {"matches", "interested", "still_new", "dismissed", "applied", "interviewing",
          "awaiting", "offer", "rejected", "ghosted", "withdrawn"}
TriageExits == {"dismissed", "still_new"}

\* VALID_STATUSES
Statuses == ToSet(Ladder) \union {"rejected", "ghosted", "dismissed"}

\* _reduce: the furthest rung a match has stood on, backward moves absorbed.
Reached(m) == LET rungs == {i \in DOMAIN Ladder : Ladder[i] \in m.history \union {m.status}}
              IN IF rungs = {} THEN New ELSE CHOOSE i \in rungs : \A j \in rungs : j <= i

\* _exit_node
ExitNode(m) == CASE m.status \in {"rejected", "ghosted"} -> m.status
                 [] m.status = "dismissed" -> IF Reached(m) = New THEN "dismissed" ELSE "withdrawn"
                 [] OTHER -> None

\* The links a match is drawn along: the rungs up to its furthest, and where it left or
\* waits; an offer is the last column.
Path(m) ==
    LET stages == {<<StageNode[i], StageNode[i + 1]>> : i \in 1 .. Reached(m) - 1}
        here == StageNode[Reached(m)]
        wait == CASE Reached(m) = New /\ m.status = "new" -> "still_new"
                  [] Reached(m) = Applied /\ m.status = "applied" -> "awaiting"
                  [] OTHER -> None
        leaf == CASE Reached(m) = Offer -> None
                  [] Reached(m) # Offer /\ ExitNode(m) # None -> ExitNode(m)
                  [] OTHER -> wait
    IN stages \union (IF leaf = None THEN {} ELSE {<<here, leaf>>})

\* build_funnel: how many matches there are along each link and at each node.
Count(matches, P(_)) == Cardinality({i \in DOMAIN matches : P(matches[i])})
Links(matches) == UNION {Path(m) : m \in ToSet(matches)}
LinkCount(matches, link) == Count(matches, LAMBDA m : link \in Path(m))
NodeCount(matches, node) ==
    Count(matches, LAMBDA m : node = "matches" \/ \E link \in Path(m) : link[2] = node)

\* _live_count: what triage let through, by the counts of the nodes.
LiveCount(matches) ==
    NodeCount(matches, "matches") - NodeCount(matches, "still_new") - NodeCount(matches, "dismissed")

\* triage_split: the segments of the bar.
TriageSplit(matches) ==
    [pipeline |-> LiveCount(matches), still_new |-> NodeCount(matches, "still_new"),
     dismissed |-> NodeCount(matches, "dismissed")]

\* pipeline_funnel: the links that survive without the triage hop.
PipelineLinks(matches) == {link \in Links(matches) : link[2] \notin TriageExits}

\* Mutant: a card dismissed later counts as dismissed at triage.
DismissedLater(m) == m.status \in {"new", "dismissed"}

\* _is_triage_exit
IsTriageExit(m) == Reached(m) = New /\ m.status \in {"new", "dismissed"}
Live(matches) == SelectSeq(matches, LAMBDA m : ~IsTriageExit(m))

\* _funnel_steps: how many of the live got to each rung.
Steps(matches) == [i \in DOMAIN Ladder |-> Count(Live(matches), LAMBDA m : Reached(m) >= i)]

\* _standing: the live by their status now.
Standing(matches) ==
    [s \in {m.status : m \in ToSet(Live(matches))} |-> Count(Live(matches), LAMBDA m : m.status = s)]

\* pipeline_rates: a numerator and a denominator each.
Rates(matches) ==
    LET AtLeast(rung) == Count(matches, LAMBDA m : Reached(m) >= rung)
    IN <<<<AtLeast(Applied), Len(matches)>>, <<AtLeast(4), AtLeast(Applied)>>,
         <<AtLeast(Offer), AtLeast(Applied)>>>>

-----------------------------------------------------------------------------
(* Properties *)

Total(counts) == FoldLeft(LAMBDA n, k : n + counts[k], 0, SetToSeq(DOMAIN counts))

\* The bands of the panel count the same cards: what triage lets through by the nodes of the
\* chart is what the steps start from, what the standing bar divides, and what flows along
\* the links that remain of the chart; the triage bar divides all matches; no step is
\* larger than the one before, nothing leaves an outcome, and no rate exceeds one.
BandsAgree(matches) ==
    LET live == Len(Live(matches))
        out == {link \in PipelineLinks(matches) : link[1] = "matches"}
    IN /\ live = LiveCount(matches) /\ live = Steps(matches)[1]
       /\ Total(Standing(matches)) = live /\ Total(TriageSplit(matches)) = Len(matches)
       /\ Total([link \in out |-> LinkCount(matches, link)]) = live
       /\ \A link \in Links(matches) : link[1] \in ToSet(StageNode) \ {"offer"} /\ link[2] \in Nodes
       /\ \A i \in 2 .. Len(Ladder) : Steps(matches)[i] <= Steps(matches)[i - 1]
       /\ \A r \in ToSet(Rates(matches)) : r[1] <= r[2]
=============================================================================
