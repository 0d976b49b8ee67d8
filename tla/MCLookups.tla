------------------------------ MODULE MCLookups ------------------------------
(***************************************************************************)
(* The modules that are pure functions, over bounded inputs: an initial    *)
(* state is a question to one of them, and the one step answers it.        *)
(***************************************************************************)
EXTENDS Companies, Portfolio

CONSTANTS MaxScore, MinVerdicts, MaxListed,      \* of Tuning
          MaxMembers, MaxTotal, MaxUpload        \* of Backups

Filters == INSTANCE Screening
Pages == INSTANCE Resume
Calls == INSTANCE ModelCalls
Archive == INSTANCE Backups
Advice == INSTANCE Tuning
Chart == INSTANCE Funnel

VARIABLES asked, answered

\* What is absent is no number, no flag and no gate.
ASSUME LookupsAssumption ==
    /\ None \notin Int /\ None \notin BOOLEAN
    /\ None \notin {"age", "company", "role", "employment_type", "seniority", "location",
                    "stack", "comp"}

\* The sequences of n elements of S at most.
UpTo(n, S) == BoundedSeq(S, n)
\* The same without repetitions.
Injective(n, S) == {s \in UpTo(n, S) : IsInjective(s)}

-----------------------------------------------------------------------------
(* Fingerprint *)

At(vendor, label, path) == [vendor |-> vendor, label |-> label, region |-> None, path |-> path]
Addresses ==
    {At("plain", "acme", <<"careers">>), At("greenhouse", "", <<"acme">>),
     At("greenhouse", "", <<"acme", "1">>), At("greenhouse", "", <<>>),
     At("workday", "acme", <<"en-US", "ext">>), At("workday", "acme", <<"es">>),
     At("taleo", "acme", <<"careersection", "2">>), At("taleo", "acme", <<"careersection", "iam">>),
     At("eightfold", "acme", <<>>), At("icims", "acme", <<>>), At("icims", "acme-2", <<>>),
     At("recruitee", "www", <<>>),
     At("recruitee", "acme", <<>>), At("avature", "acme", <<>>)}
Everywhere(answer) ==
    [f \in SlugFamilies \union Unsupported \union {"workday", "oraclecloud", "jsonld"} |-> answer]
Answers == {Everywhere(a) : a \in {"postings", "empty", "broken", "throttled"}}

Gh == Board("greenhouse", "acme", None)
WdOne == RegionalBoard("workday", "acme", "wd1", "ext")
WdTwo == RegionalBoard("workday", "acme", "wd2", "ext")
Wb == Board("workable", "acme", None)
Av == Board("avature", "acme", None)
Verdicts == {Verdict("matched", Gh), Verdict("matched", WdOne), Verdict("matched", WdTwo),
             Verdict("not_found", None), Verdict("error", Gh)}

\* What the pages of a pasted host lead to: to nothing, to one address, or to two.
Sites == {[known |-> <<>>, home |-> <<>>]} \union {LeadsOnlyTo(u) : u \in Addresses}
           \union {[known |-> <<[final |-> At("plain", "acme", <<"careers">>), links |-> <<u>>]>>,
                    home |-> <<At("greenhouse", "", <<"acme">>)>>] : u \in Addresses}

AskFingerprint ==
    \/ \E urls \in Injective(3, Addresses), a \in Answers :
          asked = [kind |-> "site", urls |-> urls, answer |-> a]
    \/ \E u \in Addresses, own \in Sites, a \in Answers :
          asked = [kind |-> "paste", url |-> u, own |-> own, answer |-> a]
    \/ \E sources \in {<<>>, <<Gh>>, <<WdOne>>, <<Gh, WdOne>>}, results \in UpTo(3, Verdicts),
          polled \in {{}, {ConnectorName(Gh)}} :
          asked = [kind |-> "merge", sources |-> sources, results |-> results, polled |-> polled]

-----------------------------------------------------------------------------
(* Portfolio *)

Firm(name, site, alt) ==
    [name |-> name, site |-> site, alt |-> alt, status |-> "Active", large |-> TRUE]
Manuals == {Firm("a", None, "a"), Firm("a", "b", "x"), Firm(None, "b", "x"),
            Firm("b", None, "b")}
Dumped == {Firm("a", "c", None), Firm(None, None, None), Firm("b", None, "c"),
           [Firm("d", None, None) EXCEPT !.status = "Inactive"],
           [Firm("e", None, None) EXCEPT !.large = FALSE]}
Held == {[slugs |-> s, domain |-> d, active |-> TRUE, verticals |-> {"Infra"}] :
            s \in {<<>>, <<"a">>, <<"b", "a">>}, d \in {None, "d"}}
Probes == {[t \in ToSet(SupportedAts) \X {"a", "b"} |->
               CASE t = <<"greenhouse", "a">> -> p [] t = <<"lever", "a">> -> q
                 [] t = <<"ashby", "b">> -> r [] OTHER -> "nothing"] :
              p, q \in {"postings", "throttled"}, r \in {"postings", "throttled", "nothing"}}

Sheet(answers, held) == [answers |-> answers, companies |-> held]
FirmPages == {Sheet(a, <<>>) : a \in {"ok", "refused", "broken"}} \union
    {Sheet("ok", <<[slugs |-> <<s>>, domain |-> None, active |-> a, verticals |-> v]>>) :
        s \in {"a", "b"}, a \in BOOLEAN, v \in {{"Infra"}, {"Bio"}}}

AskPortfolio ==
    \/ \E firm \in {"a16z", "sequoia", "csv"}, sheets \in UpTo(3, FirmPages) \ {<<>>} :
          /\ firm # "sequoia" => Len(sheets) = 1
          /\ firm = "csv" => Head(sheets).answers = "ok"
          /\ asked = [kind |-> "firm", firm |-> firm, sheets |-> sheets]
    \/ \E manual \in UpTo(2, Manuals), dump \in UpTo(2, Dumped) :
          asked = [kind |-> "crawl", manual |-> manual, dump |-> dump]
    \/ \E companies \in UpTo(2, Held), manual \in {{}, {"a"}}, probe \in Probes,
          page \in {None, WdOne, Board("greenhouse", "a", None)} :
          asked = [kind |-> "import", companies |-> companies, manual |-> manual,
                   probe |-> probe, pages |-> [d \in {"d"} |-> page]]

-----------------------------------------------------------------------------
(* PollSet and Companies *)

Tabled(b, healthy, pack) ==
    [family |-> b.family, tenant |-> b.tenant, region |-> b.region, site |-> b.site,
     healthy |-> healthy, pack |-> pack]
Installs == [sources : UpTo(2, {Gh, WdOne, WdTwo, Wb, Av}),
             slugs : {<<>>, <<Tabled(Gh, TRUE, FALSE)>>, <<Tabled(Wb, TRUE, TRUE)>>,
                      <<Tabled(Gh, FALSE, FALSE), Tabled(Wb, TRUE, FALSE)>>},
             boards : {<<>>, <<Tabled(WdTwo, TRUE, FALSE)>>,
                       <<Tabled(WdTwo, FALSE, FALSE), Tabled(Board("jsonld", "b", None), TRUE, FALSE)>>},
             packOn : BOOLEAN]
\* What is absent is no board.
ASSUME BoardsAssumption == None \notin {Gh, WdTwo, Av}

Muted == {{}, {BoardKey(Gh)}, {BoardKey(WdOne), BoardKey(Wb)}}

Stored(v, e, bare) == [value |-> v, extra |-> e, bare |-> bare]
RowsOf(kind) ==
    CASE kind = "chips" -> {Stored("a", None, TRUE), Stored("b", None, TRUE)}
      [] kind = "model" -> {Stored("a", None, FALSE), Stored("a", 1, FALSE), Stored("b", 1, FALSE)}
      [] kind = "union" -> {Stored("a", None, TRUE), Stored("a", None, FALSE), Stored("a", 1, FALSE)}
FormsOf == {[value |-> v, extra |-> e] : v \in {"", "a", "b"}, e \in {None, 1}}

AskPolled ==
    \/ \E inst \in Installs, suppressed \in Muted, board \in {Gh, WdTwo, Av} :
          asked = [kind |-> "polled", inst |-> inst, suppressed |-> suppressed, board |-> board]
    \/ \E kind \in {"chips", "model", "union"} :
       \E list \in UpTo(2, RowsOf(kind)), shown \in UpTo(2, RowsOf(kind)) \ {<<>>}, form \in FormsOf :
       \E i \in DOMAIN shown :
          asked = [kind |-> "row", list |-> list, shown |-> shown, at |-> i, of |-> kind,
                   form |-> form]

-----------------------------------------------------------------------------
(* Screening *)

De == Filters!Country("de")
Us == Filters!Country("us")
Eu == Filters!Region("eu")
World == Filters!Region("worldwide")
Places == {None} \union
    [marks : SUBSET {"remote", "hybrid"}, cities : SUBSET {"berlin"},
     areas : {{}, {De}, {Us}, {De, Us}, {Eu}, {World}, {World, Us}, {Eu, Us}}]
Placed == [titles : {{"engineer"}}, levels : {{}}, company : {<<"acme", "labs">>},
           source : {<<"lever", <<"acme">>>>}, place : Places, remote : {TRUE, FALSE, None},
           kind : {{"full"}}, comp : {2}, tech : {{"go"}}, posted : {1}]
Told(company, source) ==
    [titles : {{"engineer"}}, levels : {{}, {"senior"}, {"senior", "junior"}}, company : {company},
     source : {source}, place : {[marks |-> {"remote"}, cities |-> {}, areas |-> {De}]},
     remote : {None}, kind : {{}, {"contract", "to hire"}}, comp : {None, 0, 2},
     tech : {{}, {"go"}, {"java"}}, posted : {None, 0, 1}]
\* A blocked employer that the connector names, and one that only the source tells.
Other == Told(<<"acme", "labs">>, <<"lever", <<"acme">>>>)
            \union Told(None, <<"hiringcafe", <<"taleo">>, <<"labs">>>>)

PlaceSettings ==
    [titles : {{"engineer"}}, seniority : {{"mid", "senior"}}, countries : {{}, {"de"}, {"de", "us"}},
     cities : {{}, {"berlin"}}, policy : {"anywhere", "countries"}, allowUnknown : BOOLEAN,
     floor : {0}, stack : {{}}, maxAge : {None}, blocked : {{}}, blockedTypes : {{}}]
OtherSettings ==
    [titles : {{"engineer"}}, seniority : {{"mid", "senior"}}, countries : {{"de"}}, cities : {{}},
     policy : {"anywhere"}, allowUnknown : {TRUE}, floor : {0, 1}, stack : {{}, {"go"}},
     maxAge : {None, 1}, blocked : {{}, {<<"labs">>}}, blockedTypes : {{}, {"contract_to_hire"}}]
Wideners(f) == IF f \in PlaceSettings THEN PlaceSettings ELSE OtherSettings

AskFilters ==
    \/ \E raw \in Placed, f \in PlaceSettings :
          asked = [kind |-> "filters", raw |-> raw, f |-> f, now |-> 1]
    \/ \E raw \in Other, f \in OtherSettings, now \in 1 .. 2 :
          asked = [kind |-> "filters", raw |-> raw, f |-> f, now |-> now]

-----------------------------------------------------------------------------
(* Resume *)

Entry(kind, label, bullets) == [kind |-> kind, label |-> label, bullets |-> bullets]
Entries ==
    {None, Entry("experience", <<"acme">>, <<<<"x">>>>),
     Entry("experience", <<"acme">>, <<<<"x">>, <<>>, <<"y">>>>),
     Entry("experience", <<"acme", "2">>, <<<<"x">>>>),
     Entry("experience", <<"acme", "b1">>, <<<<"x">>>>), Entry("experience", <<>>, <<<<"x">>>>),
     Entry("experience", <<"?">>, <<<<"junk">>>>), Entry("project", <<"acme">>, <<<<"x">>>>)}
Reviews == [dropped : {{}, {<<"acme", "b1">>}}, texts : {<<>>, [i \in {<<"acme", "2", "b1">>} |-> <<>>]},
            unnamed : {{}, {<<"acme">>}}]

\* The résumé's own bullets cite a ticket of the bank, T1, and one it no longer has.
Bullet(id) == [id |-> id, text |-> <<"x">>, refs |-> {"T1", "T8"}]
Content == <<[kind |-> "experience", id |-> "e1", bullets |-> <<Bullet("b1"), Bullet("b2")>>],
             [kind |-> "experience", id |-> "e2", bullets |-> <<Bullet("b3")>>]>>
Rewritten == [id : {"b1", "b2", "b3", "b9"}, text : {<<"new">>}, refs : {{}, {"T1", "T9"}}]
Answer(n) == [kind : {"experience"}, id : {"e1", "e2", "e9"}, bullets : UpTo(n, Rewritten)]

Filled(kind, n) == [kind |-> kind, bullets |-> [i \in 1 .. n |-> i]]
Sheets == UpTo(3, {Filled(k, n) : k \in {"experience", "project"}, n \in 0 .. 3})

AskResume ==
    \/ \E entries \in UpTo(3, Entries), form \in Reviews, named \in BOOLEAN :
          asked = [kind |-> "draft", answer |-> [named |-> named, entries |-> entries], form |-> form]
    \/ \E answer \in {None} \union UpTo(1, Answer(3)) \union UpTo(2, Answer(1)) :
          asked = [kind |-> "tailor", answer |-> answer]
    \/ \E page \in Sheets, room \in 0 .. 5, floor \in 0 .. 2, e, p \in {None, 1} :
          asked = [kind |-> "fit", page |-> page, room |-> room, floor |-> floor,
                   caps |-> [experience |-> e, project |-> p]]

-----------------------------------------------------------------------------
(* ModelCalls *)

Value(kind, n, items) == [kind |-> kind, n |-> n, items |-> items]
Listed(S, n) == {None, Value("words", 0, <<>>)} \union {Value("list", 0, s) : s \in UpTo(n, S)}
Object(score, skills, cards) ==
    LET all == [score |-> score, missing_skills |-> skills, recommendations |-> cards]
    IN [kind |-> "object", fields |-> [k \in {j \in DOMAIN all : all[j] # None} |-> all[k]]]
ScoreValues == {None, Value("words", 0, <<>>), Value("infinite", 0, <<>>)}
                  \union {Value("number", n, <<>>) : n \in {0 - 1, 5, 11}}
SkillLists == Listed({"go", "blank"}, 3)
Plain == {Calls!NoObject, [kind |-> "other", fields |-> <<>>]}
Objects == Plain \union {Object(v, s, c) : v \in ScoreValues, s \in SkillLists,
                                           c \in Listed({"card", "junk", "blank"}, 2)}
FewObjects == Plain \union {Object(Value("number", 11, <<>>), s, None) : s \in
                 {None, Value("words", 0, <<>>), Value("list", 0, <<"go", "blank", "go">>)}}
Texts == {None} \union [whole : FewObjects, braced : FewObjects]
Call(raised, blocks, text) == [raised |-> raised, blocks |-> blocks, text |-> text]
Blocks == UpTo(2, [tool : {"record_gaps", "record_relevance"}, input : FewObjects])
CallsMade == {Call(r, b, None) : r \in {None, "Timeout"}, b \in Blocks}
           \union {Call(r, <<>>, t) : r \in {None, "Timeout"}, t \in Texts}
Retried == {Call("Timeout", <<>>, None), Call(None, <<>>, None)}
              \union {Call(None, <<>>, [whole |-> o, braced |-> o]) : o \in FewObjects}
Wired == [enabled : BOOLEAN, provider : Calls!Providers, local : BOOLEAN,
          keys : SUBSET Calls!Providers, profile : BOOLEAN, resume : BOOLEAN,
          gaps : [enabled : {TRUE}, provider : {None, "anthropic"}],
          coach : [enabled : BOOLEAN, provider : {None}]]

\* What is absent is no provider, no error, and no text.
ASSUME AnswersAssumption ==
    /\ None \notin Calls!Providers /\ None # "MalformedResponse"
    /\ \A obj \in Objects : Calls!Bare(obj).text # None

AskCalls ==
    \/ \E obj \in Objects, most \in 1 .. 2 : asked = [kind |-> "object", obj |-> obj, most |-> most]
    \/ \E call \in CallsMade, provider \in Calls!Providers, most \in 1 .. 2 :
          asked = [kind |-> "gaps", call |-> call, provider |-> provider, most |-> most]
    \/ \E calls \in [1 .. 3 -> Retried] : asked = [kind |-> "tries", calls |-> calls]
    \/ \E cfg \in Wired, call \in Retried :
          asked = [kind |-> "wired", cfg |-> cfg, calls |-> <<call, call, call>>]

-----------------------------------------------------------------------------
(* Backups *)

File(body, valid) == [readable |-> TRUE, valid |-> valid, text |-> body]
Member(name, reads) ==
    [name |-> name, kind |-> "file", shape |-> "plain", size |-> 1, reads |-> reads,
     body |-> File(1, TRUE)]
Members ==
    {Member(<<"a">>, "ok"), Member(<<"a">>, "corrupt"), Member(<<"a", "b">>, "ok"),
     Member(<<"a", "b">>, "unopened"), Member(<<"a", "b", "c">>, "ok"),
     Member(<<"d", "e">>, "corrupt"), Member(<<"d", "e">>, "full"), Member(<<"d", "e">>, "ok"),
     [Member(<<"f">>, "ok") EXCEPT !.shape = "linked"], [Member(<<"d">>, "ok") EXCEPT !.kind = "dir"]}
Dests ==
    {Archive!Fresh, [there |-> FALSE, files |-> <<>>, dirs |-> {}],
     [there |-> TRUE, files |-> [p \in {<<"d", "x">>} |-> File(0, TRUE)], dirs |-> {<<"d">>}],
     [there |-> TRUE, files |-> [p \in {<<"a">>} |-> File(0, TRUE)], dirs |-> {}]}
Bodies(own, n) == [k \in Archive!Kinds |-> IF k \in own THEN File(n, TRUE) ELSE None]
\* A pack of two files and one that is a template only, and a directory that is no pack.
Pack(name, n) ==
    [f \in {Archive!Template} \union IF name = "modern" THEN {"meta.yaml"} ELSE {} |-> File(n, TRUE)]
Torn(n) == [f \in {"meta.yaml"} |-> File(n, TRUE)]
Folder(names, n) == [m \in names |-> Pack(m, n)]
Instances ==
    [settings : {"s1", "s2"},
     documents : {Bodies(own, n) : own \in {{}, {"profile"}, {"resume_content"}}, n \in 1 .. 2},
     packs : {Folder(names, n) : names \in {{}, {"modern"}, {"modern", "plain"}}, n \in 1 .. 2}
             \union {[m \in {"modern"} |-> Torn(1)]}]

\* Where the packs of an instance are cut short: before one, or when its directory is there
\* and holds nothing, one of the files, a file that was half written, or all of them.
Parts(pack) == {<<>>, [f \in DOMAIN pack \ {Archive!Template} |-> pack[f]],
                [pack EXCEPT ![Archive!Template] = None], pack}
Cuts(inst) ==
    LET packs == Archive!WholePacks(inst.packs)
    IN {None} \union [copied : SUBSET packs, torn : {None}, left : {<<>>}]
         \union UNION {[copied : SUBSET (packs \ {n}), torn : {n}, left : Parts(inst.packs[n])] :
                          n \in packs}

\* The limits leave room for what is exported here, five files of one byte at most, in an
\* archive of one byte.
ASSUME LimitsAssumption ==
    /\ {MaxMembers, MaxTotal, MaxUpload} \subseteq Nat
    /\ 5 <= MaxMembers /\ 5 <= MaxTotal /\ 1 <= MaxUpload

AskArchive ==
    \/ \E members \in UpTo(3, Members), dest \in Dests :
          asked = [kind |-> "extract", archive |-> [zip |-> TRUE, size |-> 1, members |-> members],
                   dest |-> dest]
    \/ \E inst, over \in Instances : \E cut \in Cuts(inst) :
          asked = [kind |-> "restore", inst |-> inst, over |-> over, cut |-> cut]

-----------------------------------------------------------------------------
(* Tuning and Funnel *)

Low(job, score, verdict) == [job |-> job, score |-> score, verdict |-> verdict]
Lows == {Low(1, None, "rescued"), Low(1, 1, None)}
           \union {Low(1, n, v) : n \in 0 .. MaxScore, v \in {"rescued", "confirmed_rejected"}}
Cards == UpTo(1, {[job |-> 2, score |-> 3, signal |-> n, verdict |-> "rescued"] : n \in {None, 1, 2}})
Turned(job, gate, verdict, title) == [job |-> job, gate |-> gate, verdict |-> verdict, title |-> title]
Titles == UpTo(2, {"data", "lead"})
TurnedByRole == {Turned(1, "role", "rescued", t) : t \in Titles}
                   \union {Turned(1, "role", None, <<"data">>), Turned(1, "company", "rescued", <<"lead">>)}
Tables == UNION {[1 .. n -> {"role", "comp"} \X {None, "rescued"}] : n \in 0 .. 3}
ScoredRows == [source : {"adzuna", "lever"}, key : {None, "a", "b"}, score : {None, 5}, seen : {None, 0, 2}]
Numbered(rows) == [i \in DOMAIN rows |-> [job |-> i] @@ rows[i]]
Match(status, history) == [status |-> status, history |-> history]
Matches == {Match(s, h) : s \in Chart!Statuses,
               h \in {{}, {"interested"}, {"applied"}, {"interested", "offer"}, {"interviewing"}}}

AskPages ==
    \/ \E low \in UpTo(3, Lows), cards \in Cards, current \in 0 .. MaxScore :
          asked = [kind |-> "threshold", low |-> low, cards |-> cards, current |-> current]
    \/ \E rejected \in UpTo(3, TurnedByRole), phrases \in {{}, {<<"data">>}, {<<"data", "lead">>}} :
          asked = [kind |-> "titles", rejected |-> rejected, phrases |-> phrases]
    \/ \E rows \in UpTo(2, ScoredRows), third \in {[source |-> "adzuna", key |-> "a", score |-> 5, seen |-> None],
                                                  [source |-> "lever", key |-> "a", score |-> 5, seen |-> 0]} :
          asked = [kind |-> "pairs", rows |-> Numbered(Append(rows, third))]
    \/ \E page \in Tables, jobs \in Injective(2, {1, 4}), v \in {None, "confirmed_rejected"} :
          asked = [kind |-> "page",
                   rejected |-> [i \in DOMAIN page |-> Turned(i, page[i][1], page[i][2], <<>>)],
                   suppressed |-> [i \in DOMAIN jobs |-> Low(jobs[i], 1, v)]]
    \/ \E matches \in UpTo(2, Matches) : asked = [kind |-> "chart", matches |-> matches]

-----------------------------------------------------------------------------
Init ==
    /\ answered = FALSE
    /\ \/ AskFingerprint \/ AskPortfolio \/ AskPolled \/ AskFilters
       \/ AskResume \/ AskCalls \/ AskArchive \/ AskPages

Next == ~answered /\ answered' = TRUE /\ UNCHANGED asked

Asked(kind) == answered /\ asked.kind = kind

\* Which board a company has, and which companies are looked at: Fingerprint!AloneIsVerified,
\* PastedAgrees and MergesOnce, Portfolio!CrawledOnce, ListIsTaken and
\* ImportIsFounded.
BoardsAreFounded ==
    /\ Asked("site") => AloneIsVerified(asked.urls, asked.answer)
    /\ Asked("paste") => PastedAgrees(asked.url, asked.own, asked.answer)
    /\ Asked("merge") => MergesOnce(asked.sources, asked.results, asked.polled)
    /\ Asked("firm") => ListIsTaken(asked.firm, asked.sheets)
    /\ Asked("crawl") => CrawledOnce(asked.manual, asked.dump)
    /\ Asked("import") => ImportIsFounded(asked.companies, asked.manual, asked.probe, asked.pages)

\* What is listed is polled, once and as it is written, whichever tables list it, and an edit
\* of a list hits the row it was meant for: PollSet!PolledOnce, SettingsWin and
\* CountedArePolled, Companies!AddedIsPolled, OfferIsKept and
\* StaleEditsHitTheSame.
ListedIsPolled ==
    /\ Asked("polled") =>
         LET inst == asked.inst
             slugs == Healthy(inst.slugs, inst.packOn)
             boards == Healthy(inst.boards, inst.packOn)
         IN /\ PolledOnce(inst.sources, slugs, boards, asked.suppressed)
            /\ SettingsWin(inst.sources, slugs, boards, asked.suppressed)
            /\ CountedArePolled(inst.sources, slugs, boards)
            /\ AddedIsPolled(inst, asked.board, asked.suppressed)
            /\ OfferIsKept(inst, FALSE, asked.suppressed)
    /\ Asked("row") => StaleEditsHitTheSame(asked.list, asked.shown, asked.at, asked.of, asked.form)

\* The hard filters: Screening!WideningKeeps, for every wider setting of the instance,
\* RejectionLasts, MissingPasses, ForeignIsRejected and BucketsAgree.
FiltersHold ==
    Asked("filters") =>
        /\ \A g \in Wideners(asked.f) : Filters!WideningKeeps(asked.raw, asked.f, g, asked.now)
        /\ Filters!RejectionLasts(asked.raw, asked.f, asked.now, asked.now + 1)
        /\ Filters!MissingPasses(asked.raw, asked.f, asked.now)
        /\ Filters!ForeignIsRejected(asked.raw, asked.f, asked.now)
        /\ Filters!BucketsAgree(asked.raw, asked.f)

\* The structured résumé: Resume!SavedIsUsable, NothingIsFabricated and FitTakesTheTail.
ResumeHolds ==
    /\ Asked("draft") => Pages!SavedIsUsable(asked.answer, asked.form)
    /\ Asked("tailor") => Pages!NothingIsFabricated(Content, asked.answer, {"T1"})
    /\ Asked("fit") => Pages!FitTakesTheTail(asked.page, asked.caps, asked.room, asked.floor)

\* The model's answers: ModelCalls!ProvidersAgree, GapsAreClean, UnscoredIsEarned and
\* WarningsExplain.
AnswersHold ==
    /\ Asked("object") => Calls!ProvidersAgree(asked.obj, asked.most)
    /\ Asked("gaps") => Calls!GapsAreClean(asked.provider, asked.call, asked.most)
    /\ Asked("tries") => Calls!UnscoredIsEarned(asked.calls)
    /\ Asked("wired") => Calls!WarningsExplain(asked.cfg, asked.calls)

\* Backups: Backups!RejectedLeavesNothing and BackupBringsBack.
BackupsHold ==
    /\ Asked("extract") => Archive!RejectedLeavesNothing(asked.archive, asked.dest)
    /\ Asked("restore") => Archive!BackupBringsBack(asked.inst, asked.over, asked.cut)

\* What the pages make of the tables: Tuning!AdviceSettles, RolesSettle, PairsAreOfOneJob
\* and PageShowsOnce, Funnel!BandsAgree.
PagesAgree ==
    /\ Asked("threshold") => Advice!AdviceSettles(asked.low, asked.cards, asked.current)
    /\ Asked("titles") => Advice!RolesSettle(asked.rejected, asked.phrases)
    /\ Asked("pairs") => Advice!PairsAreOfOneJob(asked.rows, 1)
    /\ Asked("page") => Advice!PageShowsOnce(asked.rejected, asked.suppressed)
    /\ Asked("chart") => Chart!BandsAgree(asked.matches)
=============================================================================
