------------------------------- MODULE PollSet -------------------------------
(***************************************************************************)
(* Which boards a cycle polls, by what name, and which postings the        *)
(* aggregators leave to it: build_connectors of                            *)
(* src/src/connectors/base.py, the names of src/src/settings/boards.py,    *)
(* the gate of src/src/starter_pack.py and the count on the page of        *)
(* src/src/web/settings/companies.py.  Pure functions of the settings and  *)
(* of two tables.                                                          *)
(*                                                                         *)
(* A board is [family, tenant, region, site]; a row of a table adds        *)
(* whether it is healthy and whether it is the starter pack's.             *)
(***************************************************************************)
EXTENDS Fingerprint

\* The elements of s at the places in I, in their order; picked[n] has those of the first n.
\* What is said of it for every list and every set of places holds of any test.
Picked(s, I) ==
    LET picked[n \in 0 .. Len(s)] ==
            IF n = 0 THEN <<>>
            ELSE IF n \in I THEN Append(picked[n - 1], s[n]) ELSE picked[n - 1]
    IN picked[Len(s)]

\* The families of a tier: Workable is polled on the slow one, Avature by a browser.
AtsSlugs == SlugFamilies \ {"workable"}
AtsFamilies == AtsSlugs \union {"workday", "oraclecloud", "taleo", "phenom", "eightfold",
                                "jsonld"}
SlowSlugs == {"workable"}
TierFamilies(tier) == CASE tier = "ats" -> AtsFamilies
                        [] tier = "slow" -> SlowSlugs
                        [] tier = "headless" -> {"avature"}

\* connector_from_identity: what a row of discovered_boards is polled as.
FromIdentity == AtsSlugs \union {"workday", "oraclecloud", "taleo", "eightfold", "jsonld"}

\* board_key: the poller's name of an entry of the settings, the connector's, and the one
\* poll health suppresses.
BoardKey(board) == ConnectorName(board)
Keys(boards) == {BoardKey(b) : b \in ToSet(boards)}

\* gate_stores: a row of the pack is listed as healthy only while the pack is on.
Healthy(rows, packOn) ==
    Picked(rows, {i \in DOMAIN rows : rows[i].healthy /\ (rows[i].pack => packOn)})

\* Mutant: boards are told apart as they are written, and not by their names.
FirstWritten(boards) == {i \in DOMAIN boards : \A j \in 1 .. i - 1 : boards[j] # boards[i]}

\* The first entry of a name stands for it.
FirstOfTheName(boards) ==
    {i \in DOMAIN boards : \A j \in 1 .. i - 1 : BoardKey(boards[j]) # BoardKey(boards[i])}

BoardOf(row) == RegionalBoard(row.family, row.tenant, row.region, row.site)

\* The boards of these families, in their order.
Of(rows, families) == LET own == Picked(rows, {i \in DOMAIN rows : rows[i].family \in families})
                      IN [i \in DOMAIN own |-> BoardOf(own[i])]

\* The healthy rows of both tables a tier polls: the browser's polls none.
Discovered(tier, slugs, boards) ==
    CASE tier = "ats" -> Of(slugs, AtsSlugs) \o Of(boards, FromIdentity)
      [] tier = "slow" -> Of(slugs, SlowSlugs)
      [] tier = "headless" -> <<>>

\* build_connectors: the settings' boards first, then the discovered, without the suppressed.
BuildConnectors(tier, sources, slugs, boards, suppressed) ==
    LET all == Of(sources, TierFamilies(tier)) \o Discovered(tier, slugs, boards)
    IN Picked(all, {i \in FirstOfTheName(all) : BoardKey(all[i]) \notin suppressed})

\* _board_active_pair and the active set the aggregators compare a posting's board with: the
\* slug families of the settings, and every healthy row.
ActiveSet(sources, slugs, boards) ==
    {<<b.family, b.tenant>> : b \in {s \in ToSet(sources) : s.family \in SlugFamilies}
                                       \union ToSet(slugs) \union ToSet(boards)}

\* Mutant: an entry of the settings is counted again as a discovered one.
CountedTwice(sources, slugs, boards) ==
    LET all == slugs \o boards IN {BoardKey(all[i]) : i \in 1 .. Len(all)}

\* discovery_only_count: the healthy rows that are no entry of the settings.
DiscoveryOnly(sources, slugs, boards) ==
    LET all == slugs \o boards
    IN {BoardKey(all[i]) : i \in 1 .. Len(all)} \ Keys(sources)

-----------------------------------------------------------------------------
(* Properties *)

Tiers == {"ats", "slow", "headless"}

\* Every board that can be polled is polled by one connector and no more, whichever of the
\* three tables it stands in and however often: the names of the three tiers are apart,
\* they are those of the settings and of the healthy rows that have a connector, and
\* what is suppressed takes nothing else with it.
PolledOnce(sources, slugs, boards, suppressed) ==
    LET Built(tier) == BuildConnectors(tier, sources, slugs, boards, suppressed)
        Polled(tier) == Keys(Built(tier))
        found == {BoardOf(r) : r \in {s \in ToSet(slugs) : s.family \in SlugFamilies}
                                       \union {b \in ToSet(boards) : b.family \in FromIdentity}}
    IN /\ \A t \in Tiers : Cardinality(Polled(t)) = Len(Built(t))
       /\ \A t, u \in Tiers : t # u => Polled(t) \intersect Polled(u) = {}
       /\ UNION {Polled(t) : t \in Tiers}
             = (Keys(sources) \union {BoardKey(b) : b \in found}) \ suppressed

\* An entry of the settings is polled as it is written there: a discovered row of the same
\* name, which may give another region, does not replace it.
SettingsWin(sources, slugs, boards, suppressed) ==
    \A t \in Tiers :
        \A b \in ToSet(BuildConnectors(t, sources, slugs, boards, suppressed)) :
            BoardKey(b) \in Keys(sources) => b \in ToSet(sources)

\* The page counts as discovered what is polled without being configured.
CountedArePolled(sources, slugs, boards) ==
    (\A b \in ToSet(boards) : b.family \in FromIdentity)
    => DiscoveryOnly(sources, slugs, boards)
         = (UNION {Keys(BuildConnectors(t, sources, slugs, boards, {})) : t \in Tiers})
              \ Keys(sources)

(***************************************************************************)
(* Not kept by the code.  A Workable row of discovered_boards is in the    *)
(* active set and on the page's count and is polled by no tier             *)
(* (BoardSweep!LeftOutIsPolled).                                           *)
(***************************************************************************)
ActiveArePolled(sources, slugs, boards) ==
    \A pair \in ActiveSet(sources, slugs, boards) :
        \E t \in Tiers : \E b \in ToSet(BuildConnectors(t, sources, slugs, boards, {})) :
            <<b.family, b.tenant>> = pair
=============================================================================
