------------------------------ MODULE Fetching ------------------------------
(***************************************************************************)
(* How one source is read, cycle after cycle: the connectors of            *)
(* src/src/connectors, what a fetch makes of the answers it gets, and what *)
(* the state it stores hides from the next fetch.  The connectors differ   *)
(* in their protocol and share the rest:                                   *)
(*   conditional  one request with an ETag;                                *)
(*   plain        one request, no state;                                   *)
(*   paged        a walk through pages the board may shift under it;       *)
(*   sitemap      what changed since a watermark, one request per job;     *)
(*   search       several searches, all or nothing;                        *)
(*   metered      several queries under a daily budget, and the ids seen.  *)
(* A posting is decided when the cycle gives it a row or a rejection.      *)
(***************************************************************************)
EXTENDS Naturals, Sequences, FiniteSets, SequencesExt, FiniteSetsExt

CONSTANTS Postings,
          Kinds,       \* the kinds of connectors an instance looks at
          Limit,       \* postings a one-request connector asks for (100)
          PageSize,    \* _PAGE_SIZE, results_per_page
          MaxPages,    \* _MAX_PAGES
          Overlap,     \* _OVERLAP of the sitemap's watermark
          FirstRun,    \* _FIRST_RUN_DAYS
          MaxJobs,     \* _MAX_JOBS_PER_RUN, max_postings_per_cycle
          Queries,     \* what each query of an aggregator matches
          Active,      \* postings of boards that are polled directly
          Budget,      \* adzuna's daily_call_budget
          SeenCap,     \* _SEEN_CAP
          ScoreCap,    \* relevance.max_scored_per_cycle
          None,        \* no ETag
          MaxTime,     \* bound: ticks of the clock the lastmods are read from
          MaxChanges,  \* bound: postings published or taken down
          MaxMishaps   \* bound: failed requests and writes, previews, releases, crashes

FetchingAssumption ==
    /\ IsFiniteSet(Postings) /\ Limit \in Nat /\ PageSize \in Nat \ {0} /\ MaxPages \in Nat \ {0}
    /\ Overlap \in Nat /\ FirstRun \in Nat /\ MaxJobs \in Nat \ {0}
    /\ Queries \in Seq(SUBSET Postings) /\ Queries # <<>> /\ Active \subseteq Postings
    /\ Budget \in Nat /\ Len(Queries) <= Budget   \* else the last query is never asked
    /\ SeenCap \in Nat /\ ScoreCap \in Nat \ {0}
    /\ None \notin Seq(Postings)
    /\ MaxTime \in Nat /\ FirstRun <= MaxTime   \* the clock starts at FirstRun
    /\ MaxChanges \in Nat /\ MaxMishaps \in Nat

VARIABLES source,   \* the connector
          listing,  \* what the vendor lists, newest first
          lastmod,  \* when a posting changed, by the sitemap; 0 without a date
          now,
          store,    \* its row in source_state
          fetch,    \* the locals of a fetch; owed: history, what a walk has to return
          carried,  \* postings the cycle has fetched and not decided
          fate,     \* of each posting: open, decided, or how it got lost
          made,     \* history: metered calls made today
          unbooked, \* history: those of them no stored state will ever count
          changes, mishaps

vars == <<source, listing, lastmod, now, store, fetch, carried, fate, made, unbooked, changes,
          mishaps>>
world == <<source, listing, lastmod, now, changes>>

-----------------------------------------------------------------------------
(* The connectors *)

Whole == Cardinality(Postings)

Greenhouse == [kind |-> "conditional", limit |-> Whole]
Lever == [kind |-> "conditional", limit |-> Whole]
Ashby == [kind |-> "conditional", limit |-> Whole]
Workable == [kind |-> "conditional", limit |-> Whole]
Rippling == [kind |-> "conditional", limit |-> Whole]
Recruitee == [kind |-> "conditional", limit |-> Whole]
Teamtailor == [kind |-> "conditional", limit |-> Whole]
SmartRecruiters == [kind |-> "conditional", limit |-> Limit]

\* The feed is under one of two hosts; the second is asked when the first fails.
Personio == [kind |-> "conditional", limit |-> Whole]
\* The feed, or the sitemap in its place if there is none.
SuccessFactors == [kind |-> "plain", limit |-> Whole]
Remotive == [kind |-> "plain", limit |-> Limit]
RemoteOk == [kind |-> "plain", limit |-> Whole]
\* The first comments of the month's thread, each in a request of its own.
HackerNews == [kind |-> "plain", limit |-> Limit]
\* A page rendered by a browser, once the number of its cards stands still.
Avature == [kind |-> "plain", limit |-> Whole]

\* partial: a page that is not full is the last one. total: the count the vendor
\* reports is read on each page, on the first, or not at all.
Workday == [kind |-> "paged", partial |-> TRUE, total |-> "each"]
OracleCloud == [kind |-> "paged", partial |-> TRUE, total |-> "each"]
Taleo == [kind |-> "paged", partial |-> FALSE, total |-> "each"]
Eightfold == [kind |-> "paged", partial |-> FALSE, total |-> "first"]
TalentBrew == [kind |-> "paged", partial |-> FALSE, total |-> "first"]
ICims == [kind |-> "paged", partial |-> FALSE, total |-> "none"]

Phenom == [kind |-> "sitemap"]
HiringCafe == [kind |-> "search"]
Adzuna == [kind |-> "metered"]

\* build_connectors; those that work alike are one record.
Sources ==
    {c \in {Greenhouse, Lever, Ashby, Workable, Rippling, Recruitee, Teamtailor,
            SmartRecruiters, Personio, SuccessFactors, Remotive, RemoteOk, HackerNews, Avature,
            Workday, OracleCloud, Taleo, Eightfold, TalentBrew, ICims, Phenom, HiringCafe,
            Adzuna} : c.kind \in Kinds}

-----------------------------------------------------------------------------
Listed == ToSet(listing)
Part(s, first, last) == SubSeq(s, first, Min({last, Len(s)}))

Latest(s, n) == SubSeq(s, Max({1, Len(s) + 1 - n}), Len(s))
Quiet == [pc |-> "idle", dry |-> FALSE, at |-> 0, total |-> 0, out |-> {}, owed |-> {},
          base |-> 0, asked |-> 0, today |-> TRUE,
          mark |-> 0, entries |-> {}, recent |-> {}, chosen |-> {}]
NoState == [etag |-> None, mark |-> 0, calls |-> 0, today |-> FALSE, seen |-> <<>>]
Fates == {"open", "decided", "old", "truncated", "detail", "sitemap", "direct", "deferred",
          "released", "crashed"}

TypeOK ==
    /\ source \in Sources
    /\ Listed \subseteq Postings /\ IsInjective(listing)
    /\ lastmod \in [Postings -> 0 .. MaxTime] /\ now \in 0 .. MaxTime
    /\ store.etag = None \/ ToSet(store.etag) \subseteq Postings
    /\ store.mark \in 0 .. now /\ store.calls \in 0 .. Budget
    /\ store.today \in BOOLEAN /\ Len(store.seen) <= SeenCap /\ IsInjective(store.seen)
    /\ fetch.pc \in {"idle", "fetch", "score", "decide"}
    /\ fetch.out \subseteq Postings /\ fetch.chosen \subseteq fetch.recent
    /\ fetch.recent \subseteq fetch.entries /\ fetch.entries \subseteq Postings
    /\ carried \subseteq Postings /\ (carried # {} => fetch.pc \in {"score", "decide"})
    /\ fate \in [Postings -> Fates]
    /\ made \in Nat /\ unbooked \in 0 .. made

Init ==
    /\ source \in Sources
    /\ listing = <<>> /\ lastmod = [p \in Postings |-> 0] /\ now = FirstRun
    /\ store = NoState /\ fetch = Quiet /\ carried = {}
    /\ fate = [p \in Postings |-> "open"]
    /\ made = 0 /\ unbooked = 0 /\ changes = 0 /\ mishaps = 0

Mishap == mishaps < MaxMishaps /\ mishaps' = mishaps + 1
MishapUnless(fine) == IF fine THEN UNCHANGED mishaps ELSE Mishap

\* Postings nobody will look at again, unless they were decided before.
Lose(how) == fate' = [p \in Postings |-> IF fate[p] = "open" THEN how[p] ELSE fate[p]]
LoseAll(S, how) == Lose([p \in Postings |-> IF p \in S THEN how ELSE "open"])

Fetching(kind) == fetch.pc = "fetch" /\ source.kind = kind

\* The calls of a fetch whose state is not stored are never counted.
CallsLost == unbooked' = unbooked + (IF fetch.today THEN fetch.asked ELSE 0)
AnswerLost == \E answered \in {0, 1} : made' = made + answered /\ unbooked' = unbooked + answered

\* A cycle, or a preview of one, reads the stored state and begins.
Start(dry) ==
    /\ fetch.pc = "idle" /\ MishapUnless(~dry)
    /\ fetch' = [Quiet EXCEPT !.pc = "fetch", !.dry = dry,
                              !.owed = IF source.kind = "paged" THEN Listed ELSE {},
                              !.base = IF store.today THEN store.calls ELSE 0]
    /\ UNCHANGED <<world, store, carried, fate, made, unbooked>>

\* The answer is screened in the step that returns it: the state it comes with is
\* stored, unless that write or the screening fails or the cycle is a preview, which ends
\* here. `fine` says that no request failed.
Finish(out, new, fine) ==
    /\ \/ /\ ~fetch.dry /\ store' = new /\ MishapUnless(fine)
          /\ fetch' = [Quiet EXCEPT !.pc = "score", !.out = out]
          /\ carried' = {p \in out : fate[p] # "decided"}
          /\ UNCHANGED unbooked
       \/ /\ ~fetch.dry /\ new # store /\ Mishap
          /\ fetch' = [Quiet EXCEPT !.pc = "score", !.out = out]
          /\ carried' = {p \in out : fate[p] # "decided"}
          /\ CallsLost /\ UNCHANGED store
       \/ /\ fetch' = Quiet /\ MishapUnless(fetch.dry /\ fine)
          /\ CallsLost /\ UNCHANGED <<store, carried>>
    /\ UNCHANGED <<world, made>>

\* The first request fails, or any of a search: the cycle has nothing of this source.
FetchFails ==
    /\ fetch.pc = "fetch" /\ Mishap
    /\ \/ source.kind \in {"conditional", "plain", "paged", "sitemap"} /\ fetch.at = 0
       \/ source.kind = "search"
    /\ fetch' = Quiet
    /\ UNCHANGED <<world, store, carried, fate, made, unbooked>>

-----------------------------------------------------------------------------
(* One request *)

Window == Part(listing, 1, source.limit)

\* 304: the postings are as they were when the ETag was stored.
NotModified ==
    /\ Fetching("conditional") /\ store.etag = Window
    /\ fetch' = Quiet
    /\ UNCHANGED <<world, store, carried, fate, made, unbooked, mishaps>>

FetchModified ==
    /\ Fetching("conditional") /\ store.etag # Window
    /\ Finish(ToSet(Window), [store EXCEPT !.etag = Window], TRUE)
    /\ UNCHANGED fate

\* A comment that cannot be read, a card not rendered yet, are left out.
FetchPlain(missed) ==
    /\ Fetching("plain") /\ missed \subseteq ToSet(Window)
    /\ Finish(ToSet(Window) \ missed, store, missed = {})
    /\ UNCHANGED fate

-----------------------------------------------------------------------------
(* A walk through pages *)

Page(at) == Part(listing, at * PageSize + 1, (at + 1) * PageSize)

\* What the vendor reported, as far as the connector reads it.
Total(at) == IF source.total = "each" \/ at = 0 THEN Len(listing) ELSE fetch.total

\* Mutant: the page that reaches one short of the total is the last.
LastEarly(at) ==
    \/ source.partial /\ Len(Page(at)) < PageSize
    \/ source.total # "none" /\ (at + 1) * PageSize + 1 >= Total(at)
    \/ at + 1 = MaxPages

LastPage(at) ==
    \/ source.partial /\ Len(Page(at)) < PageSize
    \/ source.total # "none" /\ (at + 1) * PageSize >= Total(at)
    \/ at + 1 = MaxPages

FetchPage ==
    LET at == fetch.at
        out == fetch.out \union ToSet(Page(at)) IN
    /\ Fetching("paged")
    /\ \/ /\ Page(at) = <<>> \/ LastPage(at)
          /\ Finish(out, store, TRUE)
       \/ /\ Page(at) # <<>> /\ ~LastPage(at)
          /\ fetch' = [fetch EXCEPT !.at = at + 1, !.out = out, !.total = Total(at)]
          /\ UNCHANGED <<world, store, carried, made, unbooked, mishaps>>
    /\ UNCHANGED fate

\* A later page fails: the cycle gets what there is.
PageFails ==
    /\ Fetching("paged") /\ fetch.at > 0
    /\ Finish(fetch.out, store, FALSE)
    /\ UNCHANGED fate

-----------------------------------------------------------------------------
(* A sitemap and a watermark *)

\* Mutant: the watermark is taken without its overlap.
NoOverlap(p) ==
    IF store.mark > 0 THEN lastmod[p] >= store.mark ELSE lastmod[p] + FirstRun >= now

\* Modified since the watermark, less an overlap; without one, in the last days.
Recent(p) ==
    IF store.mark > 0 THEN lastmod[p] + Overlap >= store.mark ELSE lastmod[p] + FirstRun >= now

\* The latest lastmod of all entries, and never an earlier watermark.
NewMark(entries, mark) ==
    LET marks == {lastmod[p] : p \in entries} \union {store.mark}
    IN mark \in marks /\ \A m \in marks : m <= mark

\* The tree of sitemaps; a subordinate one that fails is passed over. Of the recent
\* jobs as many as a run may read are chosen, the latest first.
ReadSitemap(missing) ==
    LET entries == Listed \ missing
        recent == {p \in entries : lastmod[p] > 0 /\ Recent(p)} IN
    /\ Fetching("sitemap") /\ fetch.at = 0
    /\ missing \subseteq Listed /\ MishapUnless(missing = {})
    /\ IF entries = {} THEN fetch' = Quiet
       ELSE \E chosen \in SUBSET recent, mark \in 0 .. MaxTime :
                /\ Cardinality(chosen) = Min({MaxJobs, Cardinality(recent)})
                /\ \A p \in chosen, q \in recent \ chosen : lastmod[p] >= lastmod[q]
                /\ NewMark(entries, mark)
                /\ fetch' = [fetch EXCEPT !.at = 1, !.mark = mark, !.entries = entries,
                                          !.recent = recent, !.chosen = chosen]
    /\ UNCHANGED <<world, store, carried, fate, made, unbooked>>

Behind(p) == lastmod[p] > 0 /\ lastmod[p] + Overlap < store'.mark

\* The jobs themselves; one that fails is left out, and once stored the watermark may pass
\* it, like one of a sitemap that failed or one too old at first. One over the cap is lost.
ReadJobs(failed) ==
    LET out == (fetch.chosen \ failed) \intersect Listed
        left == Listed \ out IN
    /\ Fetching("sitemap") /\ fetch.at = 1
    /\ failed \subseteq fetch.chosen
    /\ Finish(out, [store EXCEPT !.mark = fetch.mark], failed = {})
    /\ IF fetch'.pc = "idle" THEN UNCHANGED fate
       ELSE Lose([p \in Postings |->
                CASE p \in left \intersect (fetch.recent \ fetch.chosen) -> "truncated"
                  [] p \in left \intersect fetch.chosen /\ Behind(p) -> "detail"
                  [] p \in left \intersect (fetch.entries \ fetch.recent) /\ Behind(p) -> "old"
                  [] p \in left \ fetch.entries /\ Behind(p) -> "sitemap"
                  [] OTHER -> "open"])

-----------------------------------------------------------------------------
(* Searches *)

\* The first page of a query, newest first.
Answer(q) ==
    LET hits == {i \in DOMAIN listing : listing[i] \in Queries[q]}
    IN {listing[i] : i \in {j \in hits : Cardinality(hits \intersect 1 .. j) <= PageSize}}

\* hiring.cafe: the searches one by one, then the results whose boards are not polled.
Search ==
    LET out == fetch.out \union Answer(fetch.at + 1)
        others == out \ Active IN
    /\ Fetching("search")
    /\ IF fetch.at + 1 < Len(Queries)
       THEN /\ fetch' = [fetch EXCEPT !.at = @ + 1, !.out = out]
            /\ UNCHANGED <<world, store, carried, made, unbooked, mishaps>>
       ELSE \E kept \in SUBSET others :
                /\ Cardinality(kept) = Min({MaxJobs, Cardinality(others)})
                /\ Finish(kept, store, TRUE)
    /\ UNCHANGED fate

\* Mutant: a fetch starts to count at zero.
OwnCalls == fetch.asked

\* The calls booked when the fetch began, if that was on the same day, and its own.
Calls == fetch.base + fetch.asked
MayAsk == Fetching("metered") /\ fetch.at < Len(Queries) /\ Calls < Budget

\* adzuna: a query, if the budget of the day has a call left.
Query ==
    /\ MayAsk
    /\ made' = made + 1
    /\ unbooked' = IF fetch.today THEN unbooked ELSE unbooked + 1
    /\ fetch' = [fetch EXCEPT !.asked = @ + 1, !.at = @ + 1,
                              !.out = @ \union Answer(fetch.at + 1)]
    /\ UNCHANGED <<world, store, carried, fate, mishaps>>

\* The first one fails: nothing is stored, not even a call that was answered.
FirstQueryFails ==
    /\ MayAsk /\ fetch.at = 0 /\ Mishap
    /\ AnswerLost /\ fetch' = Quiet
    /\ UNCHANGED <<world, store, carried, fate>>

\* A later one fails: it ends the queries. An answer counts, whatever it says.
QueryFails ==
    /\ MayAsk /\ fetch.at > 0 /\ Mishap
    /\ \/ /\ fetch' = [fetch EXCEPT !.at = Len(Queries), !.asked = @ + 1]
          /\ made' = made + 1
          /\ unbooked' = IF fetch.today THEN unbooked ELSE unbooked + 1
       \/ fetch' = [fetch EXCEPT !.at = Len(Queries)] /\ UNCHANGED <<made, unbooked>>
    /\ UNCHANGED <<world, store, carried, fate>>

\* The results never seen are followed to their page and seen from now on. One that
\* leads to a board polled directly is dropped; if the redirect fails it is kept.
Resolve(unresolved) ==
    LET new == fetch.out \ ToSet(store.seen)
        out == new \ (Active \ unresolved)
        seen == store.seen \o SetToSeq(new) IN
    /\ Fetching("metered") /\ ~MayAsk
    /\ unresolved \subseteq new \intersect Active
    /\ Finish(out, [store EXCEPT !.calls = Calls, !.today = fetch.today,
                                 !.seen = Latest(seen, SeenCap)],
              unresolved = {})
    /\ IF store' = store THEN UNCHANGED fate ELSE LoseAll(new \ out, "direct")

-----------------------------------------------------------------------------
(* The rest of the cycle *)

\* Mutant: the hint of a source with deferred matches is kept.
KeepsHint == store

\* The payload is the connector's own bookkeeping and stays.
WithoutHint == [store EXCEPT !.etag = None, !.mark = 0]

\* _cap_for_scoring: what is over the cap is dropped from this cycle, to match again in
\* the next one.
CapForScoring ==
    /\ fetch.pc = "score"
    /\ \E kept \in SUBSET carried :
          /\ Cardinality(kept) = Min({ScoreCap, Cardinality(carried)})
          /\ carried' = kept
          /\ store' = IF kept = carried THEN store ELSE WithoutHint
          /\ LoseAll((carried \ kept) \intersect ToSet(store.seen), "deferred")
    /\ fetch' = [Quiet EXCEPT !.pc = "decide"]
    /\ UNCHANGED <<world, made, unbooked, mishaps>>

\* Every match is scored, then alerted or suppressed; one whose alert no sink takes is
\* released.
Decide(released) ==
    /\ fetch.pc = "decide" /\ released \subseteq carried /\ MishapUnless(released = {})
    /\ fate' = [p \in Postings |-> IF p \in carried \ released THEN "decided"
                                   ELSE IF p \in released THEN "released" ELSE fate[p]]
    /\ carried' = {} /\ fetch' = Quiet
    /\ UNCHANGED <<world, store, made, unbooked>>

\* The cycle dies with what it carries.
Crash ==
    /\ fetch.pc # "idle" /\ Mishap
    /\ fetch' = Quiet /\ carried' = {}
    /\ LoseAll(carried, "crashed")
    /\ IF fetch.pc = "fetch" THEN CallsLost ELSE UNCHANGED unbooked
    /\ UNCHANGED <<world, store, made>>

-----------------------------------------------------------------------------
(* The world *)

Change == changes < MaxChanges /\ changes' = changes + 1

\* A posting appears, with the date its sitemap gives it: none, or one the overlap of
\* the watermark allows for.
Publish(p, date) ==
    /\ Change /\ p \notin Listed
    /\ IF source.kind = "sitemap" THEN date = 0 \/ (date <= now /\ date + Overlap >= now)
                                  ELSE date = 0
    /\ listing' = <<p>> \o listing
    /\ lastmod' = [lastmod EXCEPT ![p] = date]
    /\ fetch' = IF source.kind = "paged" /\ (source.total = "first"
                                            \/ Len(listing) >= PageSize * MaxPages)
                THEN [fetch EXCEPT !.owed = {}] ELSE fetch
    /\ UNCHANGED <<source, now, store, carried, fate, made, unbooked, mishaps>>

TakeDown(p) ==
    /\ Change
    /\ \E i \in DOMAIN listing : listing[i] = p /\ listing' = RemoveAt(listing, i)
    /\ lastmod' = [lastmod EXCEPT ![p] = 0]
    /\ fetch' = [fetch EXCEPT !.owed = {}]
    /\ UNCHANGED <<source, now, store, carried, fate, made, unbooked, mishaps>>

Tick ==
    /\ source.kind = "sitemap" /\ now < MaxTime /\ now' = now + 1
    /\ UNCHANGED <<source, listing, lastmod, store, fetch, carried, fate, made, unbooked,
                   changes, mishaps>>

\* Midnight, UTC.
NewDay ==
    /\ source.kind = "metered" /\ (made > 0 \/ store.today)
    /\ made' = 0 /\ unbooked' = 0
    /\ store' = [store EXCEPT !.today = FALSE]
    /\ fetch' = [fetch EXCEPT !.today = fetch.pc # "fetch"]
    /\ UNCHANGED <<world, carried, fate, mishaps>>

-----------------------------------------------------------------------------
Request ==
    \/ NotModified \/ FetchModified \/ FetchPage \/ Search \/ Query
    \/ FetchPlain({}) \/ ReadSitemap({}) \/ ReadJobs({}) \/ Resolve({})

Failure ==
    \/ FetchFails \/ PageFails \/ FirstQueryFails \/ QueryFails \/ Crash \/ Start(TRUE)
    \/ \E S \in (SUBSET Postings) \ {{}} :
          FetchPlain(S) \/ ReadSitemap(S) \/ ReadJobs(S) \/ Resolve(S) \/ Decide(S)

Cycle == Start(FALSE) \/ Request \/ CapForScoring \/ Decide({})

World ==
    \/ \E p \in Postings : TakeDown(p) \/ \E date \in 0 .. MaxTime : Publish(p, date)
    \/ Tick \/ NewDay

Next == Cycle \/ Failure \/ World

Spec == Init /\ [][Next]_vars

\* The tier's job fires again and again and every request ends in an answer or an error;
\* days go by.
FairSpec == Spec /\ WF_vars(Cycle) /\ WF_vars(NewDay)
-----------------------------------------------------------------------------
(* Properties *)

\* What the stored state keeps the next fetch from returning.
Skipped(p) ==
    CASE source.kind = "conditional" -> store.etag = Window /\ p \in ToSet(Window)
      [] source.kind = "sitemap" -> store.mark > 0 /\ lastmod[p] > 0 /\ ~Recent(p)
      [] source.kind = "metered" -> p \in ToSet(store.seen)
      [] OTHER -> FALSE

\* A listed posting that the stored state hides from the next fetch was decided, is being
\* carried, or was lost in one of the ways `fate` names: the ETag, the watermark and the
\* ids seen never run ahead of the cycle otherwise.
SkippedIsAccounted ==
    \A p \in Listed : Skipped(p) => fate[p] # "open" \/ p \in carried

\* A walk through the pages that no failure cut short returns every posting that was
\* listed all the while, however many were published ahead of it. Only a posting taken
\* down shifts others out of it, or a new one where the total of the first page is kept.
WalkIsComplete ==
    [][fetch.pc = "fetch" /\ fetch'.pc = "score" /\ source.kind = "paged"
       /\ mishaps' = mishaps /\ Len(listing) <= PageSize * MaxPages
       => fetch.owed \subseteq fetch'.out]_vars

\* The metered calls of a day stay within the budget, except those no stored state knows
\* of: of a fetch that failed, died or was a preview, or that ran over midnight.
BudgetHolds == made - unbooked <= Budget

\* Every posting a source goes on listing within its reach is decided in the end, or lost
\* in one of the known ways.
Reach ==
    CASE source.kind \in {"conditional", "plain"} -> ToSet(Window)
      [] source.kind = "sitemap" -> {p \in Listed : lastmod[p] > 0}
      [] OTHER -> Listed
ListedIsDecided ==
    source.kind \in {"conditional", "plain", "paged", "sitemap"} =>
        \A p \in Postings : (p \in Reach /\ fate[p] = "open") ~> ~(p \in Reach /\ fate[p] = "open")

-----------------------------------------------------------------------------
(* Not kept by the code *)

\* "Deferred pairs are dropped from this cycle: the seen-jobs store records nothing for
\* them, and run_once drops their boards' cache hints, so they re-match next cycle"
\* (_cap_for_scoring). The ids adzuna has seen are payload and stay, so it never returns
\* a deferred posting again.
DeferredComesBack ==
    [][\A p \in carried \ carried' : fetch.pc = "score" /\ fetch'.pc = "decide" => ~Skipped(p)']_vars

\* The daily budget is a hard stop: previews and failed or killed fetches are not booked.
BudgetIsHard == made <= Budget

\* Nothing is lost behind a watermark: a truncated run and a job that fails are passed.
WatermarkLosesNothing ==
    \A p \in Listed : fate[p] \notin {"truncated", "detail", "sitemap"}
=============================================================================
