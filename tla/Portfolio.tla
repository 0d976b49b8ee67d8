------------------------------ MODULE Portfolio ------------------------------
(***************************************************************************)
(* The companies discovery looks at, and by which names: the slugs of a    *)
(* company (src/src/slugging.py), the crawl of the user's own list and the *)
(* yc-oss dump (src/src/yc_oss.py, Phase 1 of run_discovery), and the      *)
(* import of an investor's portfolio (src/src/vc_portfolio.py).  Pure      *)
(* functions.                                                              *)
(*                                                                         *)
(* A company is [name, site, alt]: the slug its name gives, the one its    *)
(* website gives and the one its source claims, each None if there is none.*)
(***************************************************************************)
EXTENDS Fingerprint

AddSlug(out, slug) == IF slug = None \/ slug \in ToSet(out) THEN out ELSE Append(out, slug)

\* labeled_slug_candidates: the name's slug, the website's, the claimed one.
SlugCandidates(c) == AddSlug(AddSlug(AddSlug(<<>>, c.name), c.site), c.alt)

\* filter_companies: of the dump, the active and the public ones that are large enough.
Included(c) == c.status \in {"Active", "Public"} /\ c.large
FilterCompanies(dump) == SelectSeq(dump, Included)

\* Mutant: the dump has the last word.
DumpWins(manual, dump) ==
    LET Take(out, c) ==
            IF SlugCandidates(c) = <<>> THEN out
            ELSE LET primary == Head(SlugCandidates(c))
                 IN [k \in DOMAIN out \union {primary} |-> IF k = primary THEN c ELSE out[k]]
    IN FoldLeft(Take, FoldLeft(Take, <<>>, manual), FilterCompanies(dump))

\* run_discovery, Phase 1: by the first slug of each company, the last entry of the user's
\* list, or the first of the dump.
CrawlCandidates(manual, dump) ==
    LET Put(out, c) == LET primary == Head(SlugCandidates(c))
                       IN [k \in DOMAIN out \union {primary} |-> IF k = primary THEN c ELSE out[k]]
        Add1(out, c) == IF SlugCandidates(c) = <<>> \/ Head(SlugCandidates(c)) \in DOMAIN out
                        THEN out ELSE Put(out, c)
    IN FoldLeft(Add1, FoldLeft(Put, <<>>, manual), FilterCompanies(dump))

-----------------------------------------------------------------------------
(* An investor's portfolio: a company is [slugs, domain, active, verticals] *)

\* _SUPPORTED_ATS, in its order.
SupportedAts == <<"greenhouse", "lever", "ashby", "workable", "smartrecruiters", "rippling",
                  "recruitee", "personio", "teamtailor">>

\* a16z_in_profile
InProfile(c) ==
    c.active /\ c.verticals \intersect {"Enterprise", "Infra", "Fintech", "Consumer"} # {}

\* A page an investor's site answers with is [answers, companies]: "ok", "refused" (a status
\* of 400 or more) or "broken" (no answer, or one that is not what it should be).

\* a16z_portfolio: one page lists all, and those in the profile are taken; None is an error.
A16z(page) == IF page.answers = "ok" THEN SelectSeq(page.companies, InProfile) ELSE None

\* sequoia_portfolio: the pages up to the first that is empty or refused; a refusal of the
\* first and a broken answer to any that is asked for are an error of the whole.
Sequoia(pages) ==
    LET ends == {i \in DOMAIN pages : pages[i].answers # "ok" \/ pages[i].companies = <<>>}
        last == IF ends = {} THEN Len(pages) + 1 ELSE CHOOSE i \in ends : \A j \in ends : i <= j
        Ends(answers) == last \in ends /\ pages[last].answers = answers
    IN IF Ends("broken") \/ (Ends("refused") /\ last = 1) THEN None
       ELSE FlattenSeq([i \in 1 .. last - 1 |-> pages[i].companies])

\* _all_slugs_polled
AllSlugsPolled(c, manual) == c.slugs # <<>> /\ ToSet(c.slugs) \subseteq manual

\* Mutant: a throttled probe counts as an answer.
ThrottledHits(c, probe) ==
    LET tries == [i \in 1 .. Len(c.slugs) * 9 |->
                     <<SupportedAts[((i - 1) % 9) + 1], c.slugs[((i - 1) \div 9) + 1]>>]
        hits == SelectSeq(tries, LAMBDA t : probe[t] # "nothing")
    IN IF hits = <<>> THEN None ELSE Board(hits[1][1], hits[1][2], None)

\* _slug_probe: the first slug that some vendor has postings for, in the vendors' order; a
\* throttled vendor is passed over.
SlugProbe(c, probe) ==
    LET tries == [i \in 1 .. Len(c.slugs) * 9 |->
                     <<SupportedAts[((i - 1) % 9) + 1], c.slugs[((i - 1) \div 9) + 1]>>]
        hits == SelectSeq(tries, LAMBDA t : probe[t] = "postings")
    IN IF hits = <<>> THEN None ELSE Board(hits[1][1], hits[1][2], None)

\* _run_driver: the firm's list, and the user's own as it is; None is an error.
RunDriver(firm, pages) ==
    CASE firm = "a16z" -> A16z(Head(pages))
      [] firm = "sequoia" -> Sequoia(pages)
      [] firm = "csv" -> Head(pages).companies

\* discover_portfolio: the companies whose slugs answer, then those whose pages lead to a
\* board, each board once.  pages: the board a domain's pages lead to, verified, or None.
DiscoverPortfolio(companies, manual, probe, pages) ==
    LET wanted == SelectSeq(companies, LAMBDA c : ~AllSlugsPolled(c, manual))
        Hit(c) == SlugProbe(c, probe)
        Page(c) == IF Hit(c) = None /\ c.domain # None THEN pages[c.domain] ELSE None
        Boards(Of(_)) == SelectSeq([i \in 1 .. Len(wanted) |-> Of(wanted[i])],
                                   LAMBDA b : b # None)
        Once(out, b) == IF \E a \in ToSet(out) : ConnectorName(a) = ConnectorName(b)
                        THEN out ELSE Append(out, b)
    IN FoldLeft(Once, <<>>, Boards(Hit) \o Boards(Page))

-----------------------------------------------------------------------------
(* Properties *)

\* A company is crawled once, under its first slug, and as the user wrote it if the user did:
\* an entry of the dump that shares the slug does not take its place, and nothing that has a
\* slug is left out.
CrawledOnce(manual, dump) ==
    LET crawl == CrawlCandidates(manual, dump)
        Primaries(cs) == {Head(SlugCandidates(c)) : c \in {d \in ToSet(cs) : SlugCandidates(d) # <<>>}}
    IN /\ DOMAIN crawl = Primaries(manual) \union Primaries(FilterCompanies(dump))
       /\ \A p \in DOMAIN crawl : /\ Head(SlugCandidates(crawl[p])) = p
                                  /\ p \in Primaries(manual) => crawl[p] \in ToSet(manual)
                                  /\ IsInjective(SlugCandidates(crawl[p]))

\* What an investor's list lets through: a list that is cut short by a refusal brings in the
\* companies up to there, in their order and none that lies beyond; one that breaks is
\* an error, never a shorter list, and so is one that is refused from the start; a page
\* behind the end is never asked for, so how it would answer changes nothing; and only
\* a16z's list is filtered.
ListIsTaken(firm, pages) ==
    LET taken == RunDriver(firm, pages)
        Listed(n) == FlattenSeq([i \in 1 .. n |-> pages[i].companies])
        \* The pages asked for: all before it answered, and had something to list.
        Reached == {i \in DOMAIN pages : \A j \in 1 .. i - 1 :
                       pages[j].answers = "ok" /\ pages[j].companies # <<>>}
        Cut == {i \in Reached : pages[i].answers = "refused"}
    IN CASE firm = "csv" -> taken = Listed(Len(pages))
         [] firm = "a16z" /\ Head(pages).answers # "ok" -> taken = None
         [] firm = "a16z" /\ Head(pages).answers = "ok" ->
               taken # None /\ \A c \in ToSet(Listed(1)) : c \in ToSet(taken) <=> InProfile(c)
         [] firm = "sequoia" ->
               IF 1 \in Cut \/ \E i \in Reached : pages[i].answers = "broken" THEN taken = None
               ELSE /\ taken # None
                    /\ \E n \in 0 .. Len(pages) : taken = Listed(n)
                    /\ \A i \in Reached : pages[i].answers = "ok"
                                             => IsPrefix(Listed(i), taken)
                    /\ \A i \in Cut : taken = Listed(i - 1)

\* An import proposes a board only where one answered with postings, and every company that
\* is not queued already and has such a board brings one in, none twice: a throttled vendor
\* proves nothing, so it neither ends the search nor counts as a board.
ImportIsFounded(companies, manual, probe, pages) ==
    LET out == DiscoverPortfolio(companies, manual, probe, pages)
        Founded(c) == {Board(t[1], t[2], None) : t \in
                          {p \in ToSet(SupportedAts) \X ToSet(c.slugs) : probe[p] = "postings"}}
                      \union (IF c.domain = None THEN {} ELSE {pages[c.domain]} \ {None})
        Names(bs) == {ConnectorName(b) : b \in bs}
    IN /\ \A b \in ToSet(out) : \E c \in ToSet(companies) : b \in Founded(c)
       /\ \A c \in ToSet(companies) :
             ~AllSlugsPolled(c, manual) /\ Founded(c) # {}
             => Names(Founded(c)) \intersect Names(ToSet(out)) # {}
       /\ \A i, j \in 1 .. Len(out) : i # j => ConnectorName(out[i]) # ConnectorName(out[j])
=============================================================================
