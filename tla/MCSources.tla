------------------------------ MODULE MCSources ------------------------------
(***************************************************************************)
(* The boards of the seed companies and the reading of a source, side by   *)
(* side: BoardSweep, and an instance of Fetching.  A behaviour is of       *)
(* either, and the other stays as it began.                                *)
(***************************************************************************)
EXTENDS BoardSweep

CONSTANTS Postings, Kinds, Limit, PageSize, MaxPages, Overlap, FirstRun, MaxJobs, Queries,
          Active, Budget, SeenCap, ScoreCap, MaxTime, MaxChanges, FetchMishaps,
          daemon, s1, s2, h1, p1, p2, p3

VARIABLES part,
          source, listing, lastmod, now, store, fetch, carried, fate, made, unbooked,
          changes, fetchMishaps

fetchVars == <<source, listing, lastmod, now, store, fetch, carried, fate, made, unbooked,
               changes, fetchMishaps>>

Fetch == INSTANCE Fetching WITH MaxMishaps <- FetchMishaps, mishaps <- fetchMishaps

ASSUME SourcesAssumption == SweepAssumption /\ Fetch!FetchingAssumption

\* BoardSweep: two seed companies, the first with a board nothing can poll, and a board an
\* aggregator may sight.
Address(vendor, label, path) ==
    [vendor |-> vendor, label |-> label, region |-> None, path |-> path]
TwoSeeds == <<s1, s2>>
OneHost == {h1}
OneRunner == {daemon}
TheirLinks == [d \in {s1, s2, h1} |->
    CASE d = s1 -> <<Address("workable", "", <<"a">>)>>
      [] d = s2 -> <<Address("workday", "b", <<"x">>)>>
      [] d = h1 -> <<Address("workday", "h", <<"x">>)>>]

\* Fetching: the second query overlaps the first, and one posting is on a board polled
\* directly.
Three == {p1, p2, p3}
TwoQueries == <<{p1, p2}, {p2, p3}>>
LastIsPolled == {p3}

\* A part that is not run has one initial state.
SourcesInit ==
    /\ part \in {"sweep", "fetch"}
    /\ Init /\ Fetch!Init
    /\ part = "fetch" => \A d \in Domains : answers[d] = "empty"
    /\ part = "sweep" => source = Fetch!Adzuna

SourcesNext ==
    /\ UNCHANGED part
    /\ \/ part = "sweep" /\ Next /\ UNCHANGED fetchVars
       \/ part = "fetch" /\ Fetch!Next /\ UNCHANGED vars

\* The fairness of either, of the part that is run.
SourcesSpec ==
    /\ SourcesInit /\ [][SourcesNext]_<<part, vars, fetchVars>>
    /\ WF_vars(part = "sweep" /\ Step(daemon)) /\ WF_vars(part = "sweep" /\ Swept(daemon))
    /\ WF_fetchVars(part = "fetch" /\ Fetch!Cycle)
    /\ WF_fetchVars(part = "fetch" /\ Fetch!NewDay)

\* BoardSweep: a company is given up only after its failures (QuarantineIsEarned), and every
\* seed gets its turn (SeedsAreSwept); with the types.
SeedsGetTheirTurn == [](TypeOK /\ QuarantineIsEarned) /\ (part = "sweep" => SeedsAreSwept)

\* Fetching: what no fetch will return again was decided or is accounted for
\* (SkippedIsAccounted), a walk returns what was there all the while (WalkIsComplete), and
\* the calls of a day are counted (BudgetHolds); with the types.
FetchesAccount ==
    [](Fetch!TypeOK /\ Fetch!SkippedIsAccounted /\ Fetch!BudgetHolds) /\ Fetch!WalkIsComplete

\* Fetching!ListedIsDecided, where a source is read.
ListedIsDecided == part = "fetch" => Fetch!ListedIsDecided
=============================================================================
