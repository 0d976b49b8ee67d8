------------------------------ MODULE Discovery ------------------------------
(***************************************************************************)
(* The daily discovery run of src/src/discovery.py (run_discovery, then    *)
(* run_vc_discovery) over discovered_slugs, beside the other writers of    *)
(* that table: the aggregator sightings a slow cycle stages (sightings.py) *)
(* and the starter pack every ats cycle reconciles (starter_pack.py).      *)
(*                                                                         *)
(* A key is an ATS family and a slug; a company is probed under each of    *)
(* its slug variants in every family, then by its careers page.  The run   *)
(* has one budget of probes for five phases.  The rows that are polled     *)
(* stand in `order`, by the time of their last validation, which is also   *)
(* the order of their last write and so of a table scan.  Every statement  *)
(* commits on its own: what a verdict takes two for, the run owes between. *)
(***************************************************************************)
EXTENDS Naturals, Sequences, FiniteSets, SequencesExt

CONSTANTS Families,       \* _SUPPORTED_ATS
          Slugs,          \* board tokens
          Companies,      \* companies known by name
          Variants,       \* labeled_slug_candidates of each company
          Sites,          \* the companies with a website
          Manual,         \* discovery.manual_companies, of which no website is known
          Linked,         \* the keys its careers page links to
          Structured,     \* the companies whose page may lead to a board of another kind
          Crawl,          \* the companies of yc-oss and discovery.manual_companies
          Portfolio,      \* the companies of discovery.vc_firms
          Sightable,      \* keys an aggregator may sight
          Pack,           \* keys of the starter pack
          MaxValidations, \* discovery.max_validations_per_run
          Reserve,        \* discovery.revalidate_reserve
          Quarantine,     \* discovery.quarantine_after_failures
          MaxChanges,     \* bound: boards opened or closed, switches of the pack
          MaxMishaps      \* bound: throttled probes, failed fetches and crashes

Keys == Families \X Slugs
Cost == Cardinality(Families)     \* _PROBES_PER_CANDIDATE

\* The longest chain has to fit in what the reserve leaves: a shorter budget is cut at
\* the same candidate in every run. The defaults (200, 100, and chains of at most 36
\* probes) leave room.
ASSUME DiscoveryAssumption ==
    /\ IsFiniteSet(Families) /\ IsFiniteSet(Slugs) /\ IsFiniteSet(Companies)
    /\ \A c \in Companies : Variants[c] \in Seq(Slugs) /\ Variants[c] # <<>>
    /\ Linked \in [Companies -> SUBSET Keys]
    /\ Structured \subseteq Sites /\ Sites \subseteq Companies /\ Manual \subseteq Companies
    /\ Crawl \in Seq(Companies) /\ Portfolio \subseteq Companies
    /\ Companies \intersect Keys = {}   \* their rows have names of their own
    /\ Sightable \subseteq Keys /\ Pack \subseteq Keys
    /\ MaxValidations \in Nat /\ Reserve \in 0 .. MaxValidations
    /\ Quarantine \in Nat \ {0}
    /\ \A c \in Companies : MaxValidations - Reserve >= Cost * (Len(Variants[c]) + 1)
    /\ MaxChanges \in Nat /\ MaxMishaps \in Nat

VARIABLES slugs,    \* the row of each key in discovered_slugs
          order,    \* the keys with an ok row, longest unvalidated first
          stale,    \* how many of them are due for revalidation
          line,     \* staged candidates, keys and companies, by sighted_at
          misses,   \* the nomatch: row of each slug
          boards,   \* companies with an ok row in discovered_boards
          run,      \* the locals of the discovery run
          sighting, \* the key upsert_candidate is about to write, if any
          seeding,  \* the keys reconcile found missing
          packOn,   \* discovery.starter_pack
          live,     \* keys whose board answers with postings
          steady,   \* history: keys live since the run began
          changes, mishaps   \* count what the bounds bound

table == <<slugs, order, stale, line, misses, boards>>
world == <<packOn, live>>
vars == <<table, run, sighting, seeding, world, steady, changes, mishaps>>

Primary(c) == Variants[c][1]
Staged == ToSet(line)

NoRow == [status |-> "none", pack |-> FALSE, fails |-> 0]
Candidate == [status |-> "candidate", pack |-> FALSE, fails |-> 0]
NoMiss == [age |-> "none", tried |-> "nothing", site |-> FALSE]
Settled == [kind |-> "none", of |-> <<>>]
Idle == [pc |-> "idle", queue |-> <<>>, at |-> 0, budget |-> 0, spent |-> 0,
         active |-> {}, packOn |-> FALSE, owes |-> Settled]

TypeOK ==
    /\ slugs \in [Keys -> [status: {"none", "candidate", "ok", "failed", "quarantined",
                                    "no_match"}, pack: BOOLEAN, fails: 0 .. Quarantine]]
    /\ ToSet(order) = {k \in Keys : slugs[k].status = "ok"} /\ IsInjective(order)
    /\ stale \in 0 .. Len(order)
    /\ \A k \in Keys : slugs[k].status = "candidate" <=> k \in Staged
    /\ Staged \subseteq Keys \union Companies /\ IsInjective(line)
    /\ misses \in [Slugs -> [age: {"none", "fresh", "expired"},
                            tried: {"nothing", "slugs", "all"}, site: BOOLEAN]]
    /\ boards \subseteq Companies
    /\ run.pc \in {"idle", "drain", "crawl", "revalidate", "exhausted"}
    /\ run.budget \in 0 .. MaxValidations /\ run.active \subseteq Keys
    /\ run.owes = Settled \/ run.owes.kind \in {"confirm", "miss", "unstage"}
    /\ sighting \subseteq Sightable /\ seeding \subseteq Pack
    /\ packOn \in BOOLEAN /\ live \subseteq Keys /\ steady \subseteq live

Init ==
    /\ slugs = [k \in Keys |-> NoRow] /\ order = <<>> /\ stale = 0 /\ line = <<>>
    /\ misses = [s \in Slugs |-> NoMiss] /\ boards = {}
    /\ run = Idle /\ sighting = {} /\ seeding = {}
    /\ packOn \in BOOLEAN /\ live \in SUBSET (Sightable \union Pack)
    /\ steady = {} /\ changes = 0 /\ mishaps = 0

Mishap == mishaps < MaxMishaps /\ mishaps' = mishaps + 1
MishapUnless(fine) == IF fine THEN UNCHANGED mishaps ELSE Mishap

\* starter_visible: a row of the pack is polled only while the pack is on.
Visible(k, on) == slugs[k].status = "ok" /\ (slugs[k].pack => on)
Due(k) == k \in ToSet(SubSeq(order, 1, stale))

-----------------------------------------------------------------------------
(* The rows *)

\* What is left of the rows of a table when some are deleted or written anew.
Without(s, out) ==
    LET left[i \in 0 .. Len(s)] ==
            IF i = 0 THEN <<>>
            ELSE IF s[i] \in out THEN left[i - 1] ELSE Append(left[i - 1], s[i])
    IN left[Len(s)]

\* _probe_one_ats: a posting at least; an empty board, an error and a time-out are all misses.
Answers(k) == k \in live

\* _probe_all_ats: one slug in many families at once, the throttled ones aside.
Answering(families, s) == {<<f, s>> : f \in {g \in families : Answers(<<g, s>>)}}

\* INSERT OR REPLACE of one row; NoRow deletes it.
Put(k, row) ==
    LET rest == Without(order, {k})
        waiting == Without(line, {k})
    IN
    /\ slugs' = [slugs EXCEPT ![k] = row]
    /\ order' = IF row.status = "ok" THEN Append(rest, k) ELSE rest
    /\ stale' = Cardinality(ToSet(SubSeq(order, 1, stale)) \ {k})
    /\ line' = IF row.status = "candidate" THEN Append(waiting, k) ELSE waiting

\* Mutant: the row keeps the origin it has.
KeepsOrigin(k) == [status |-> "ok", pack |-> slugs[k].pack, fails |-> 0]

\* upsert_ok by a probe that found the board: the row stops being the pack's.
Confirmed(k) == [status |-> "ok", pack |-> FALSE, fails |-> 0]

\* upsert_ok by a revalidation: the origin stays.
Revalidated(k) == [slugs[k] EXCEPT !.status = "ok", !.fails = 0]

\* upsert_failed: one failure more than the row has.
Failed(k) ==
    LET fails == slugs[k].fails + 1 IN
    [slugs[k] EXCEPT !.fails = fails,
                     !.status = IF fails >= Quarantine THEN "quarantined" ELSE "failed"]

\* upsert_no_match: a website once known is kept.
Missed(s, tried, site) ==
    misses' = [misses EXCEPT ![s] = [age |-> "fresh", tried |-> tried, site |-> @.site \/ site]]

\* A new timer and what was learned before.
MissedAgain(s) == misses' = [misses EXCEPT ![s].age = "fresh"]

\* no_match_exhausted: every method that applies was tried and missed.
Exhausted(s) ==
    /\ misses[s].tried # "nothing"
    /\ misses[s].site => misses[s].tried = "all"

-----------------------------------------------------------------------------
(* The run: the staged candidates *)

Current == Head(run.queue)
At(phase) == run.pc = phase /\ run.queue # <<>> /\ run.owes = Settled
Spend(n) == [run EXCEPT !.budget = @ - n, !.spent = @ + n]
NextItem(r) == [r EXCEPT !.queue = Tail(@), !.at = 0]
EndPhase(r) == [r EXCEPT !.queue = <<>>, !.at = 0]

\* The first of two statements is made, and the other is still to come.
Owing(n, kind, of) == [Spend(n) EXCEPT !.owes = [kind |-> kind, of |-> of]]

\* The reserve for revalidation is carved out of the budget first.
InitialBudget == MaxValidations - Reserve

\* One settings snapshot, the keys that are polled, and the candidates by sighted_at.
Start ==
    /\ run.pc = "idle"
    /\ run' = [pc |-> "drain", queue |-> line, at |-> 0, budget |-> InitialBudget,
               spent |-> 0, active |-> {k \in Keys : Visible(k, packOn)},
               packOn |-> packOn, owes |-> Settled]
    /\ steady' = live
    /\ UNCHANGED <<table, sighting, seeding, world, changes, mishaps>>

\* A candidate the budget does not reach ends the phase.
DrainCut ==
    /\ At("drain") /\ run.at = 0 /\ run.budget < 1
    /\ run' = EndPhase(run)
    /\ UNCHANGED <<table, sighting, seeding, world, steady, changes, mishaps>>

\* _validate_slug_candidate: the claimed family first. The other families follow if
\* the budget covers them; else the row stays staged.
ProbeClaimed(k, throttled) ==
    /\ At("drain") /\ k \in Keys /\ Current = k /\ run.at = 0 /\ run.budget >= 1
    /\ MishapUnless(~throttled)
    /\ IF ~throttled /\ Answers(k)
       THEN Put(k, Confirmed(k)) ELSE UNCHANGED <<slugs, order, stale, line>>
    /\ run' = IF throttled \/ Answers(k) \/ run.budget < Cost
              THEN NextItem(Spend(1)) ELSE [Spend(1) EXCEPT !.at = 1]
    /\ UNCHANGED <<misses, boards, sighting, seeding, world, steady, changes>>

\* All other families at once: the row is deleted, and comes back under the key that
\* answered; with a throttled family and no answer it stays staged; else it is resolved
\* in place, and the miss recorded.
ProbeOthers(k, throttled) ==
    LET answers == Answering(Families \ (throttled \union {k[1]}), k[2]) IN
    /\ At("drain") /\ k \in Keys /\ Current = k /\ run.at = 1
    /\ throttled \subseteq Families \ {k[1]}
    /\ MishapUnless(throttled = {})
    /\ \/ /\ \E found \in answers : run' = Owing(Cost - 1, "confirm", found)
          /\ Put(k, NoRow)
       \/ /\ answers = {} /\ throttled # {}
          /\ run' = NextItem(Spend(Cost - 1))
          /\ UNCHANGED <<slugs, order, stale, line>>
       \/ /\ answers = {} /\ throttled = {}
          /\ run' = Owing(Cost - 1, "miss", k[2])
          /\ IF slugs[k].status = "candidate"
             THEN Put(k, [slugs[k] EXCEPT !.status = "no_match"])
             ELSE UNCHANGED <<slugs, order, stale, line>>
    /\ UNCHANGED <<misses, boards, sighting, seeding, world, steady, changes>>

\* The second statement: upsert_ok of the key that answered, upsert_no_match of the slug,
\* delete of a staged company that got its verdict.
Settle ==
    /\ run.owes # Settled
    /\ run' = NextItem([run EXCEPT !.owes = Settled])
    /\ \/ /\ run.owes.kind = "confirm" /\ Put(run.owes.of, Confirmed(run.owes.of))
          /\ UNCHANGED misses
       \/ /\ run.owes.kind = "miss" /\ MissedAgain(run.owes.of)
          /\ UNCHANGED <<slugs, order, stale, line>>
       \/ /\ run.owes.kind = "unstage" /\ line' = Without(line, {run.owes.of})
          /\ UNCHANGED <<slugs, order, stale, misses>>
    /\ UNCHANGED <<boards, sighting, seeding, world, steady, changes, mishaps>>

-----------------------------------------------------------------------------
(* The run: the conversion chain of a company *)

\* The chain runs for a staged company, one of the crawl, or one of the exhausted.
Chained(c) ==
    /\ At(run.pc) /\ run.pc \in {"drain", "crawl", "exhausted"}
    /\ c \in Companies /\ Current = c
    /\ run.at = 0 => run.budget >= (IF run.pc = "drain" THEN 1 ELSE Cost)

\* The website comes with the staged row, the yc-oss entry, or the miss.
HasSite(c) ==
    /\ c \in Sites
    /\ run.pc = "crawl" => c \notin Manual
    /\ run.pc = "exhausted" => misses[Primary(c)].site

\* Under any of its variants, when the run began.
Active(c) == \E f \in Families, i \in DOMAIN Variants[c] : <<f, Variants[c][i]>> \in run.active

\* Or by a board of its website. (A quarantined board counts as well; BoardSweep has them.)
AlreadyPolled(c) == Active(c) \/ (HasSite(c) /\ c \in boards)

\* Mutant: a company found to be polled already keeps its staging row.
KeptWhenMoot(c) == IF run.pc = "drain" /\ ~AlreadyPolled(c) THEN {c} ELSE {}

\* A staging row is deleted on any resolution.
Resolved(c) == IF run.pc = "drain" THEN {c} ELSE {}

\* The chain has persisted its outcome, which costs one probe more in every family.
Concluded(c) == IF Resolved(c) = {} THEN NextItem(Spend(Cost))
                ELSE Owing(Cost, "unstage", c)

\* A company of the crawl that missed lately, or has no method left to try, is passed
\* over.
Skips(c) ==
    run.pc = "crawl" /\ (misses[Primary(c)].age = "fresh"
                         \/ (misses[Primary(c)].age # "none" /\ Exhausted(Primary(c))))

Skip(c) ==
    /\ Chained(c) /\ run.at = 0 /\ Skips(c)
    /\ run' = NextItem(run)
    /\ UNCHANGED <<table, sighting, seeding, world, steady, changes, mishaps>>

\* "active": nothing is probed. In the exhausted phase the row gets a new timer.
Moot(c) ==
    /\ Chained(c) /\ run.at = 0 /\ AlreadyPolled(c) /\ ~Skips(c)
    /\ run' = NextItem(run)
    /\ line' = Without(line, Resolved(c))
    /\ IF run.pc = "exhausted" THEN MissedAgain(Primary(c)) ELSE UNCHANGED misses
    /\ UNCHANGED <<slugs, order, stale, boards, sighting, seeding, world, steady, changes,
                   mishaps>>

\* Between two methods, or before the first, the budget runs out: nothing is persisted,
\* the phase ends and the company starts over in a later run.
Cut ==
    /\ At(run.pc) /\ run.pc \in {"drain", "crawl", "exhausted"}
    /\ Current \in Companies /\ run.budget < Cost
    /\ (run.pc = "drain" /\ run.at = 0) => (run.budget >= 1 /\ ~AlreadyPolled(Current))
    /\ run' = EndPhase(run)
    /\ UNCHANGED <<table, sighting, seeding, world, steady, changes, mishaps>>

\* The last method missed; a page that could not be read stays untried.
ChainMissed(c, tried) ==
    /\ Missed(Primary(c), tried, HasSite(c))
    /\ UNCHANGED <<slugs, order, stale, line, boards>>

\* Mutant: a throttled family counts as a miss.
Inconclusive(throttled) == FALSE

\* With no answer and a throttled family a miss cannot be concluded.
Unproven(throttled) == throttled # {}

\* One variant in every family at once; the one with the most postings wins. Before
\* the first the company must be neither polled nor passed over.
ProbeVariant(c, throttled) ==
    LET s == Variants[c][run.at + 1]
        answers == Answering(Families \ throttled, s)
        last == run.at + 1 = Len(Variants[c]) /\ ~HasSite(c)
    IN
    /\ Chained(c) /\ run.at < Len(Variants[c]) /\ run.budget >= Cost
    /\ run.at = 0 => ~AlreadyPolled(c) /\ ~Skips(c)
    /\ throttled \subseteq Families
    /\ MishapUnless(throttled = {})
    /\ \/ /\ \E k \in answers : Put(k, Confirmed(k))
          /\ run' = Concluded(c)
          /\ UNCHANGED <<misses, boards>>
       \/ /\ answers = {} /\ Unproven(throttled)
          /\ run' = NextItem(Spend(Cost))
          /\ UNCHANGED table
       \/ /\ answers = {} /\ ~Unproven(throttled) /\ ~last
          /\ run' = [Spend(Cost) EXCEPT !.at = @ + 1]
          /\ UNCHANGED table
       \/ /\ answers = {} /\ ~Unproven(throttled) /\ last
          /\ run' = Concluded(c)
          /\ ChainMissed(c, "slugs")
    /\ UNCHANGED <<sighting, seeding, world, steady, changes>>

\* The careers page, at a flat charge: a key of a slug family, a board of another
\* kind, a definitive miss, or an error.
Fingerprint(c, ok) ==
    LET answers == Linked[c] \intersect live IN
    /\ Chained(c) /\ HasSite(c) /\ run.at = Len(Variants[c]) /\ run.budget >= Cost
    /\ MishapUnless(ok)
    /\ run' = Concluded(c)
    /\ \/ /\ ok /\ \E k \in answers : Put(k, Confirmed(k))
          /\ UNCHANGED <<misses, boards>>
       \/ /\ ok /\ answers = {} /\ c \in Structured
          /\ boards' = boards \union {c}
          /\ UNCHANGED <<slugs, order, stale, line, misses>>
       \/ /\ ok => answers = {}
          /\ ChainMissed(c, IF ok THEN "all" ELSE "slugs")
    /\ UNCHANGED <<sighting, seeding, world, steady, changes>>

-----------------------------------------------------------------------------
(* The run: its phases *)

\* Staged boards of other kinds (BoardSweep has their rows) take any share of the
\* budget at the price of a chain step each; the crawl follows.
DrainBoards(n) ==
    /\ run.pc = "drain" /\ run.queue = <<>> /\ n * Cost <= run.budget
    /\ run' = [Spend(n * Cost) EXCEPT !.pc = "crawl", !.queue = Crawl]
    /\ UNCHANGED <<table, sighting, seeding, world, steady, changes, mishaps>>

\* Mutant: revalidation gets what the other phases left, and no reserve.
NoReserve == run.budget
RevalidationBudget == run.budget + Reserve

\* list_for_revalidation through the gate: the visible stale rows, longest unvalidated
\* first, as many as the budget allows.
ForRevalidation ==
    LET due == SelectSeq(SubSeq(order, 1, stale), LAMBDA k : Visible(k, run.packOn)) IN
    SubSeq(due, 1, IF Len(due) < RevalidationBudget THEN Len(due) ELSE RevalidationBudget)

EndCrawl ==
    /\ run.pc = "crawl" /\ run.queue = <<>>
    /\ run' = [run EXCEPT !.pc = "revalidate", !.queue = ForRevalidation,
                          !.budget = RevalidationBudget - Len(ForRevalidation)]
    /\ UNCHANGED <<table, sighting, seeding, world, steady, changes, mishaps>>

\* _revalidate_one: a throttled probe counts neither way.
Revalidate(k, throttled) ==
    /\ At("revalidate") /\ Current = k
    /\ MishapUnless(~throttled)
    /\ run' = [NextItem(run) EXCEPT !.spent = @ + 1]
    /\ IF throttled THEN UNCHANGED <<slugs, order, stale, line>>
       ELSE Put(k, IF k \in live THEN Revalidated(k) ELSE Failed(k))
    /\ UNCHANGED <<misses, boards, sighting, seeding, world, steady, changes>>

\* The expired rows with no method left, in some order, if the budget still covers one.
Drainable == {c \in Companies : misses[Primary(c)].age = "expired" /\ Exhausted(Primary(c))}

EndRevalidation ==
    /\ run.pc = "revalidate" /\ run.queue = <<>>
    /\ run' = [run EXCEPT !.pc = "exhausted",
                          !.queue = IF run.budget < Cost THEN <<>> ELSE SetToSeq(Drainable)]
    /\ UNCHANGED <<table, sighting, seeding, world, steady, changes, mishaps>>

\* run_vc_discovery: a company is staged unless it is polled, known under its primary
\* slug, staged, or missed lately. A row of the pack that is hidden is not known.
New(c) ==
    /\ \A f \in Families : LET k == <<f, Primary(c)>> IN
          /\ k \notin run.active
          /\ slugs[k].status = "none" \/ (slugs[k].pack /\ ~run.packOn)
    /\ c \notin Staged /\ c \notin boards
    /\ misses[Primary(c)].age # "fresh"

\* The portfolio is staged, or its watermark is fresh, or the fetch failed or was
\* empty; the run is over.
Capture(fetched) ==
    /\ run.pc = "exhausted" /\ run.queue = <<>>
    /\ line' = IF fetched THEN line \o SetToSeq({c \in Portfolio : New(c)}) ELSE line
    /\ run' = Idle
    /\ steady' = {}
    /\ UNCHANGED <<slugs, order, stale, misses, boards, sighting, seeding, world, changes,
                   mishaps>>

Crash ==
    /\ run.pc # "idle" /\ Mishap
    /\ run' = Idle
    /\ steady' = {}
    /\ UNCHANGED <<table, sighting, seeding, world, changes>>

-----------------------------------------------------------------------------
(* The other writers of the table *)

\* drain_sightings: the lookups of a sighting, up to the one upsert_candidate repeats.
Sight(k) ==
    /\ k \in Sightable /\ sighting = {} /\ slugs[k].status = "none"
    /\ \A c \in Companies : Primary(c) = k[2] => c \notin Staged
    /\ misses[k[2]].age # "fresh"
    /\ sighting' = {k}
    /\ UNCHANGED <<table, run, seeding, world, steady, changes, mishaps>>

\* Its write, in a statement of its own.
Stage(k) ==
    /\ sighting = {k}
    /\ sighting' = {}
    /\ Put(k, Candidate)
    /\ UNCHANGED <<misses, boards, run, seeding, world, steady, changes, mishaps>>

\* reconcile reads the keys that are there ...
Reconcile ==
    /\ packOn /\ seeding = {}
    /\ seeding' = {k \in Pack : slugs[k].status = "none"}
    /\ seeding' # {}
    /\ UNCHANGED <<table, run, sighting, world, steady, changes, mishaps>>

\* seed_many: INSERT OR IGNORE.
Insertable(k) == slugs[k].status = "none"

\* ... and inserts the others in one transaction.
Seed ==
    LET new == {k \in seeding : Insertable(k)} IN
    /\ seeding # {} /\ seeding' = {}
    /\ slugs' = [k \in Keys |-> IF k \in new THEN [status |-> "ok", pack |-> TRUE, fails |-> 0]
                                ELSE slugs[k]]
    /\ order' = Without(order, new) \o SetToSeq(new)
    /\ line' = Without(line, new)
    /\ stale' = Cardinality(ToSet(SubSeq(order, 1, stale)) \ new)
    /\ UNCHANGED <<misses, boards, run, sighting, world, steady, changes, mishaps>>

-----------------------------------------------------------------------------
(* The world *)

\* revalidate_after_days pass over one more row.
Age ==
    /\ stale < Len(order)
    /\ stale' = stale + 1
    /\ UNCHANGED <<slugs, order, line, misses, boards, run, sighting, seeding, world, steady,
                   changes, mishaps>>

\* no_match_revalidate_after_days pass over a miss.
Expire(s) ==
    /\ misses[s].age = "fresh"
    /\ misses' = [misses EXCEPT ![s].age = "expired"]
    /\ UNCHANGED <<slugs, order, stale, line, boards, run, sighting, seeding, world, steady,
                   changes, mishaps>>

\* A board gets its first posting or loses its last one.
Flip(k) ==
    /\ changes < MaxChanges /\ changes' = changes + 1
    /\ live' = IF k \in live THEN live \ {k} ELSE live \union {k}
    /\ steady' = steady \ {k}
    /\ UNCHANGED <<table, run, sighting, seeding, packOn, mishaps>>

\* The user switches discovery.starter_pack.
SwitchPack ==
    /\ changes < MaxChanges /\ changes' = changes + 1
    /\ packOn' = ~packOn
    /\ UNCHANGED <<table, run, sighting, seeding, live, steady, mishaps>>

-----------------------------------------------------------------------------
Probe ==
    \/ \E k \in Keys, throttled \in BOOLEAN : ProbeClaimed(k, throttled)
    \/ \E k \in Keys, throttled \in SUBSET Families : ProbeOthers(k, throttled)
    \/ \E c \in Companies : Moot(c) \/ Skip(c)
    \/ \E c \in Companies, throttled \in SUBSET Families : ProbeVariant(c, throttled)
    \/ \E c \in Companies, ok \in BOOLEAN : Fingerprint(c, ok)
    \/ \E k \in Keys, throttled \in BOOLEAN : Revalidate(k, throttled)
    \/ Settle

EndOfPhase ==
    \/ DrainCut \/ Cut
    \/ EndCrawl \/ EndRevalidation
    \/ \E n \in 0 .. MaxValidations : DrainBoards(n)
    \/ \E fetched \in BOOLEAN : Capture(fetched)

\* Each of them changes run.
RunStep == Start \/ EndOfPhase \/ Probe

Others ==
    \/ \E k \in Keys : Sight(k) \/ Stage(k) \/ Flip(k)
    \/ \E s \in Slugs : Expire(s)
    \/ Reconcile \/ Seed \/ Age \/ SwitchPack \/ Crash

Next == RunStep \/ Others

Spec == Init /\ [][Next]_vars

\* The daily job is started again whatever became of the last run, and its probes time
\* out after 20 seconds. Board candidates (DrainBoards) may take all that is left in
\* every run. Nothing is assumed of the other writers.
FairSpec == Spec /\ WF_run(RunStep)

-----------------------------------------------------------------------------
(* Properties *)

\* No slug gets a verdict of "no match", which hides it for 90 days, while a board
\* under it answered during the whole run: throttled probes, cut-off chains and boards
\* found on the way prove nothing. Only a company that is polled already is excepted:
\* its row gets a new timer.
NewMiss(s) == misses[s].age # "fresh" /\ misses'[s].age = "fresh"
VerdictsAreEarned ==
    [][\A s \in Slugs : NewMiss(s) =>
          \/ \E c \in Companies : Primary(c) = s /\ AlreadyPolled(c)
          \/ \A f \in Families : <<f, s>> \notin steady]_vars

\* A staged candidate leaves the line only for a verdict: a board that is polled
\* whatever becomes of the starter pack, a recorded miss or failure, or because the
\* company was polled already. A company's verdict is in the table before its row is
\* deleted. A key's row is deleted first: until it is back under the family that answered
\* the run has it in hand, and only a crash in between loses it. One lost otherwise waits
\* for an aggregator or a portfolio to name it again.
OwnRow(k) == slugs[k].status = "ok" /\ ~slugs[k].pack
Judged(e) ==
    IF e \in Keys THEN \/ \E f \in Families : OwnRow(<<f, e[2]>>)
                       \/ slugs[e].status = "no_match" \/ misses[e[2]].age = "fresh"
                       \/ slugs[e].fails > 0
    ELSE \/ misses[Primary(e)].age = "fresh" \/ e \in boards \/ Active(e)
         \/ \E i \in DOMAIN Variants[e], f \in Families : OwnRow(<<f, Variants[e][i]>>)
         \/ \E k \in Linked[e] : OwnRow(k)
InHand(e) == run.pc = "drain" /\ run.queue # <<>> /\ run.owes.kind = "confirm" /\ Current = e
Spoken(e) == run.owes = [kind |-> "unstage", of |-> e]
NothingIsDropped ==
    [][\A e \in Keys \union Companies :
          /\ e \in Staged \/ InHand(e) =>
                \/ e \in Staged' \/ InHand(e)' \/ Judged(e)' \/ Spoken(e)
                \/ InHand(e) /\ run' = Idle
          /\ Spoken(e)' => Spoken(e) \/ Judged(e)']_vars

\* However many candidates and companies compete for the budget, run after run, every
\* stale board that is polled gets revalidated, or stops being polled.
StaleIsRevalidated ==
    \A k \in Keys : (Due(k) /\ Visible(k, packOn)) ~> ~(Due(k) /\ Visible(k, packOn))

\* Every staged candidate gets its verdict, however often the run is throttled, cut
\* off or killed.
CandidatesAreJudged == \A e \in Sightable \union Portfolio : e \in Staged ~> e \notin Staged

-----------------------------------------------------------------------------
(* Not kept by the code *)

\* "Consecutive probe failures before a discovered slug is quarantined" (CONFIG.md): a
\* slug that failed is probed again until it answers or is quarantined. In the code
\* one failure takes it out of the polling and out of list_for_revalidation, which
\* reads ok rows, while its row keeps sightings and captures from staging it again.
FailingIsSettled ==
    \A k \in Keys : slugs[k].status = "failed" ~> slugs[k].status # "failed"

\* _validate_slug_candidate: "the row is left staged for the next run (the chain is
\* idempotent)". It deletes the row before it writes the one that takes its place, and a
\* crash between the two loses the candidate.
CrashesDropNothing == [][\A e \in Keys : InHand(e) => run' # Idle]_vars

\* upsert_candidate: "never demote a validated/failed/no_match row". It looks and
\* writes in two statements, between which a probe or the pack may write.
SightingsDemoteNothing ==
    [][\A k \in Keys : slugs'[k].status = "candidate" => slugs[k].status \in {"none", "candidate"}]_vars
=============================================================================
