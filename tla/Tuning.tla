-------------------------------- MODULE Tuning --------------------------------
(***************************************************************************)
(* What the user's judgements are used for: the rows of the audit page     *)
(* (src/src/web/audit.py) and the thresholds they recommend                *)
(* (src/src/tuning.py).  Pure functions of the rows AuditTrail writes.     *)
(*                                                                         *)
(* A suppressed row is [job, score, verdict], with the score it was        *)
(* suppressed at, or None; a rejected row is [job, gate, verdict, title],  *)
(* the title a sequence of words.  Both verdicts are None, "rescued" or    *)
(* "confirmed_rejected".                                                   *)
(***************************************************************************)
EXTENDS Integers, Sequences, FiniteSets, SequencesExt

CONSTANTS None,
          MaxScore,     \* scores and thresholds are 0 .. MaxScore
          MinVerdicts,  \* below it nothing is recommended
          MaxListed     \* rows of rejected_postings one page lists

-----------------------------------------------------------------------------
(* The page *)

\* list_rejected: the newest of a gate, or of all.
ListRejected(rejected, gate) ==
    LET own == SelectSeq(rejected, LAMBDA r : gate \in {None, r.gate})
    IN IF Len(own) <= MaxListed THEN own ELSE SubSeq(own, 1, MaxListed)

Row(r, gate) == [job |-> r.job, gate |-> gate, verdict |-> r.verdict]

\* Mutant: the filter's row is preferred, which came first.
FirstWins(shown) == {r \in shown : r.gate # "score_low"
                                     \/ ~\E s \in shown : s.job = r.job /\ s.gate # "score_low"}

\* One row a job: the suppressed one carries the score.
Deduped(shown) == {r \in shown : r.gate = "score_low"
                                   \/ ~\E s \in shown : s.job = r.job /\ s.gate = "score_low"}

\* AuditProvider.rows: `gate` is None, a filter's, or "score_low".
AuditRows(rejected, suppressed, gate, judged) ==
    LET filtered == IF gate = "score_low" THEN {}
                    ELSE {Row(r, r.gate) : r \in ToSet(ListRejected(rejected, gate))}
        low == IF gate \in {None, "score_low"}
               THEN {Row(s, "score_low") : s \in ToSet(suppressed)} ELSE {}
    IN {r \in Deduped(filtered \union low) : judged \/ r.verdict = None}

\* AuditProvider.tally, counts_by_gate: both tables, without the page's limit.
TallyOf(rejected, suppressed, gate) ==
    IF gate = "score_low" THEN Len(suppressed)
    ELSE Len(SelectSeq(rejected, LAMBDA r : r.gate = gate))

-----------------------------------------------------------------------------
(* The score *)

\* list_rescued_suppressions: the cards a rescue made of suppressed postings, [job, score,
\* signal, verdict], each at the score it had been suppressed at, its signal.
RescuedSuppressions(cards) ==
    LET rescued == SelectSeq(cards, LAMBDA c : c.signal # None)
    IN [i \in DOMAIN rescued |->
          [job |-> rescued[i].job, score |-> rescued[i].signal, verdict |-> rescued[i].verdict]]

\* _read_verdict_rows: without them no rescue of a suppressed posting would count.
VerdictRows(suppressed, cards) == suppressed \o RescuedSuppressions(cards)

Scored(suppressed, verdict) ==
    SelectSeq(suppressed, LAMBDA s : s.verdict = verdict /\ s.score # None)

\* What a threshold would have got wrong: a rescued score it hides, a confirmed one it shows.
Errors(suppressed, t) ==
    Len(SelectSeq(Scored(suppressed, "rescued"), LAMBDA s : s.score <= t))
      + Len(SelectSeq(Scored(suppressed, "confirmed_rejected"), LAMBDA s : s.score > t))

Distance(t, current) == IF t < current THEN current - t ELSE t - current

\* Mutant: among the best the lowest is taken.
LowestFirst(suppressed, t, u, current) ==
    \/ Errors(suppressed, t) < Errors(suppressed, u)
    \/ Errors(suppressed, t) = Errors(suppressed, u) /\ t <= u

\* Fewest errors, then closest to the current, then lowest.
NoWorse(suppressed, t, u, current) ==
    LET et == Errors(suppressed, t) eu == Errors(suppressed, u)
        dt == Distance(t, current) du == Distance(u, current)
    IN et < eu \/ (et = eu /\ (dt < du \/ (dt = du /\ t <= u)))

\* analyze_score_low: None below the confidence gate.
AnalyzeScoreLow(suppressed, current) ==
    LET rescued == Scored(suppressed, "rescued")
        confirmed == Scored(suppressed, "confirmed_rejected")
    IN IF Len(rescued) + Len(confirmed) < MinVerdicts \/ rescued = <<>> \/ confirmed = <<>>
       THEN None
       ELSE CHOOSE t \in 0 .. MaxScore :
                \A u \in 0 .. MaxScore : NoWorse(suppressed, t, u, current)

-----------------------------------------------------------------------------
(* The titles *)

\* _ngrams: the words of a title and its adjacent pairs.
Grams(title) == {<<title[i]>> : i \in DOMAIN title}
                  \union {<<title[i], title[i + 1]>> : i \in 1 .. Len(title) - 1}

RescuedTitles(rejected) ==
    SelectSeq(rejected, LAMBDA r : r.gate = "role" /\ r.verdict = "rescued" /\ r.title # <<>>)

\* Mutant: a gram of one title is suggested, too.
OnceIsEnough(rejected, phrases) ==
    LET titles == RescuedTitles(rejected)
    IN UNION {Grams(t.title) : t \in ToSet(titles)} \ UNION {Grams(p) : p \in phrases}

\* analyze_role_titles: the grams of two rescued titles or more that no phrase covers.
AnalyzeRoleTitles(rejected, phrases) ==
    LET titles == RescuedTitles(rejected)
        Count(g) == Len(SelectSeq(titles, LAMBDA r : g \in Grams(r.title)))
    IN {g \in UNION {Grams(t.title) : t \in ToSet(titles)} \ UNION {Grams(p) : p \in phrases} :
          Count(g) >= 2}

-----------------------------------------------------------------------------
(* The snippets: a scored row is [job, source, key, score, seen], key the company and the title *)

\* analyze_snippet_pairs: each scored row of an aggregator with each of a board's of its company
\* and title, seen within the window; without a date the window is not looked at.
SnippetPairs(rows, window) ==
    LET scored == SelectSeq(rows, LAMBDA r : r.score # None /\ r.key # None)
        adzuna == SelectSeq(scored, LAMBDA r : r.source = "adzuna")
        Others(key) == SelectSeq(scored, LAMBDA r : r.source # "adzuna" /\ r.key = key)
        Near(a, o) == a.seen = None \/ o.seen = None \/ Distance(a.seen, o.seen) <= window
        PairsOf(a) == LET near == SelectSeq(Others(a.key), LAMBDA o : Near(a, o))
                      IN [i \in DOMAIN near |-> <<a.job, near[i].job>>]
    IN FlattenSeq([i \in DOMAIN adzuna |-> PairsOf(adzuna[i])])

-----------------------------------------------------------------------------
(* Properties *)

\* A recommendation is worth following (tuning.py): the threshold it changes makes strictly
\* fewer mistakes on what was judged, the rescued and the confirmed, and no other makes
\* fewer; followed, it recommends itself.
AdviceSettles(low, cards, current) ==
    LET suppressed == VerdictRows(low, cards)
        advice == AnalyzeScoreLow(suppressed, current)
    IN advice # None =>
         /\ \A t \in 0 .. MaxScore : Errors(suppressed, advice) <= Errors(suppressed, t)
         /\ advice # current => Errors(suppressed, advice) < Errors(suppressed, current)
         /\ AnalyzeScoreLow(suppressed, advice) = advice

\* Titles that were rescued once are not suggested, and taking every suggestion leaves none:
\* the suggestions are what two titles share beyond the phrases.
RolesSettle(rejected, phrases) ==
    LET advice == AnalyzeRoleTitles(rejected, phrases)
        titles == RescuedTitles(rejected)
    IN /\ AnalyzeRoleTitles(rejected, phrases \union advice) = {}
       /\ \A i \in DOMAIN titles :
             \A g \in Grams(titles[i].title) :
                g \in advice => \E j \in DOMAIN titles \ {i} : g \in Grams(titles[j].title)

\* The page shows a job once, whichever tables it is in, with the judgement that counts: of a
\* job that was suppressed, that of the suppression; and what the tally counts beyond the
\* page is there twice, or beyond the page's limit.
PageShowsOnce(rejected, suppressed) ==
    LET all == AuditRows(rejected, suppressed, None, TRUE)
        gates == {rejected[i].gate : i \in DOMAIN rejected} \union {"score_low"}
        jobs == {rejected[i].job : i \in DOMAIN rejected} \union {s.job : s \in ToSet(suppressed)}
    IN /\ \A r, s \in all : r.job = s.job => r = s
       /\ Len(rejected) <= MaxListed => {r.job : r \in all} = jobs
       /\ \A s \in ToSet(suppressed) : \E r \in all : r.job = s.job /\ r.verdict = s.verdict
       /\ \A g \in gates : Cardinality({r \in all : r.gate = g}) <= TallyOf(rejected, suppressed, g)

\* The report compares what it says it does: an aggregator's snippet with a board's full text
\* of the same job, each two of them once, unless both were dated and too far apart.
PairsAreOfOneJob(rows, window) ==
    LET pairs == SnippetPairs(rows, window)
        Same(i, j) == /\ {rows[i].score, rows[i].key, rows[j].score} \intersect {None} = {}
                      /\ rows[i].key = rows[j].key
                      /\ rows[i].source = "adzuna" /\ rows[j].source # "adzuna"
        Apart(i, j) == /\ {rows[i].seen, rows[j].seen} \intersect {None} = {}
                       /\ Distance(rows[i].seen, rows[j].seen) > window
    IN /\ IsInjective(pairs)
       /\ ToSet(pairs) = {<<rows[p[1]].job, rows[p[2]].job>> :
                            p \in {q \in (DOMAIN rows) \X (DOMAIN rows) :
                                      Same(q[1], q[2]) /\ ~Apart(q[1], q[2])}}

(***************************************************************************)
(* Not kept by the code, though the module says so: judged scores above    *)
(* the threshold in effect, from when it was higher, recommend to raise    *)
(* it.                                                                     *)
(***************************************************************************)
OnlyLowers(suppressed, current) ==
    AnalyzeScoreLow(suppressed, current) # None => AnalyzeScoreLow(suppressed, current) <= current
=============================================================================
