------------------------------ MODULE Screening ------------------------------
(***************************************************************************)
(* What is read out of a posting and whether it passes the hard filters:   *)
(* src/src/normalize.py, src/src/geo.py and src/src/filters.py, as         *)
(* _screen_board of src/src/orchestrator.py calls them.  Pure functions of *)
(* a posting, the filters of the settings and the day.                     *)
(*                                                                         *)
(* A raw posting is [titles, levels, company, source, place, remote, kind, *)
(* comp, tech, posted]: the configured titles and technologies its text has, the *)
(* words of rank in its title, its company's words, None if the connector  *)
(* gave none, the parts of its source, its location (None, or the words of *)
(* workplace, the cities and the areas in it), the connector's remote      *)
(* flag, and the words of its employment type.                             *)
(***************************************************************************)
EXTENDS Integers, Sequences, FiniteSets, SequencesExt

CONSTANT None

Country(c) == [kind |-> "country", of |-> c]
Region(r) == [kind |-> "region", of |-> r]

\* REGION_COUNTRIES, of the countries used here; "worldwide" covers every one.
RegionCountries == [eu |-> {"de", "ie"}, emea |-> {"de", "ie", "ae"}, latam |-> {"cr"}]

-----------------------------------------------------------------------------
(* normalize *)

\* _seniority: the first rank that the title has a word of.
Seniority(levels) ==
    LET ranks == <<"staff", "manager", "senior", "junior">>
        found == SelectInSeq(ranks, LAMBDA l : l \in levels)
    IN IF found = 0 THEN None ELSE ranks[found]

\* normalize_employment_type: hired after a contract is not the same as a contract.
EmploymentType(words) ==
    LET tried == <<<<"intern", "internship">>, <<"contract", "contract">>, <<"temp", "temporary">>,
                   <<"part", "part_time">>, <<"full", "full_time">>>>
        found == SelectInSeq(tried, LAMBDA t : t[1] \in words)
    IN CASE words \intersect {"contract", "temp"} # {} /\ "to hire" \in words -> "contract_to_hire"
         [] OTHER -> IF found = 0 THEN None ELSE tried[found][2]

\* _location_tags: a place without a word of workplace is taken for an office.
LocationTags(place, remote, cities) ==
    LET flag == IF remote = TRUE THEN {"remote"} ELSE {}
        marks == flag \union place.marks
    IN CASE place # None -> (IF marks = {} THEN {"onsite_only"} ELSE marks)
                            \union (place.cities \intersect cities)
         [] place = None /\ remote = None -> {"unknown_location"}
         [] OTHER -> IF remote THEN {"remote"} ELSE {"onsite_only"}

\* resolve_geo_tags, geo_tags
GeoTags(place) == IF place = None THEN {} ELSE place.areas

\* workplace_type_from_tags
WorkplaceFromTags(tags) ==
    LET buckets == <<<<"hybrid", "hybrid">>, <<"remote", "remote">>, <<"onsite_only", "onsite">>>>
        found == SelectInSeq(buckets, LAMBDA b : b[1] \in tags)
    IN IF found = 0 THEN "unknown" ELSE buckets[found][2]

\* workplace_type_of: the same of the text alone, for the rows that kept no tags.
WorkplaceOf(place) == CASE place = None -> "unknown"
                        [] place # None /\ "hybrid" \in place.marks -> "hybrid"
                        [] place # None /\ place.marks \intersect {"hybrid", "remote"} = {"remote"} -> "remote"
                        [] OTHER -> "onsite"

\* _company: the employer, if the connector gave none: of the source's parts, the last one
\* for a connector that wraps another vendor's board, else the second.
Company(given, source) == CASE given # None -> given
                            [] given = None /\ source[1] = "hiringcafe" -> Last(source)
                            [] OTHER -> source[2]

\* _extract_stack: of the technologies the filters name, those in the text.
ExtractStack(text, keywords) == text \intersect keywords

Normalize(raw, f) ==
    [titles |-> raw.titles, seniority |-> Seniority(raw.levels), company |-> Company(raw.company, raw.source),
     tags |-> LocationTags(raw.place, raw.remote, f.cities), geo |-> GeoTags(raw.place),
     stack |-> ExtractStack(raw.tech, f.stack), type |-> EmploymentType(raw.kind),
     comp |-> raw.comp, posted |-> raw.posted]

-----------------------------------------------------------------------------
(* The gates: "match", "reject" or "unknown" *)

MatchIf(b) == IF b THEN "match" ELSE "reject"

\* Mutant: no limit is a limit of nothing.
AgeUnset(p, f, now) ==
    IF p.posted = None THEN "unknown"
    ELSE MatchIf(now - p.posted <= (IF f.maxAge = None THEN 0 ELSE f.maxAge))

\* filter_age
FilterAge(p, f, now) ==
    CASE f.maxAge = None -> "match"
      [] f.maxAge # None /\ p.posted = None -> "unknown"
      [] OTHER -> MatchIf(now - p.posted <= f.maxAge)

\* filter_company: the words of an entry, one after the other.
FilterCompany(p, f) ==
    MatchIf(\A entry \in f.blocked :
              \A i \in 1 .. Len(p.company) - Len(entry) + 1 :
                 SubSeq(p.company, i, i + Len(entry) - 1) # entry)

FilterRole(p, f) == MatchIf(p.titles \intersect f.titles # {})

FilterEmploymentType(p, f) ==
    IF p.type = None THEN "unknown" ELSE MatchIf(p.type \notin f.blockedTypes)

\* filter_seniority: a title without a rank is a "mid" one.
FilterSeniority(p, f) ==
    MatchIf((IF p.seniority = None THEN "mid" ELSE p.seniority) \in f.seniority)

\* covers_any: the whole world, if no country is named beside it.
CoversAny(geo, allowed) ==
    \E tag \in geo :
        \/ tag.kind = "country" /\ tag.of \in allowed
        \/ tag = Region("worldwide") /\ \A other \in geo : other.kind # "country"
        \/ /\ tag.kind = "region" /\ tag.of \in DOMAIN RegionCountries
           /\ RegionCountries[tag.of] \intersect allowed # {}

\* Mutant: a city of an allowed name is enough.
NamesakePasses(p, f) ==
    CASE p.tags \intersect f.cities # {} -> "match"
      [] "unknown_location" \in p.tags -> IF f.allowUnknown THEN "unknown" ELSE "reject"
      [] "remote" \in p.tags /\ f.policy # "anywhere" /\ p.geo = {} -> "unknown"
      [] OTHER -> MatchIf("remote" \in p.tags
                          /\ (f.policy = "anywhere" \/ CoversAny(p.geo, f.countries)))

\* filter_location
FilterLocation(p, f) ==
    LET covered == CoversAny(p.geo, f.countries)
        local == p.tags \intersect f.cities # {} /\ (p.geo = {} \/ covered)
    IN CASE local -> "match"
         [] ~local /\ "unknown_location" \in p.tags ->
               IF f.allowUnknown THEN "unknown" ELSE "reject"
         [] ~local /\ "remote" \in p.tags ->
               IF f.policy # "anywhere" /\ p.geo = {} THEN "unknown"
               ELSE MatchIf(f.policy = "anywhere" \/ covered)
         [] OTHER -> "reject"

FilterStack(p, f) == IF p.stack = {} THEN "unknown" ELSE MatchIf(p.stack \intersect f.stack # {})

\* Mutant: no pay is a pay of nothing.
UnpaidRejected(p, f) == MatchIf((IF p.comp = None THEN 0 ELSE p.comp) >= f.floor)

FilterComp(p, f) == IF p.comp = None THEN "unknown" ELSE MatchIf(p.comp >= f.floor)

\* _PIPELINE
Pipeline(p, f, now) ==
    <<<<"age", FilterAge(p, f, now)>>, <<"company", FilterCompany(p, f)>>,
      <<"role", FilterRole(p, f)>>, <<"employment_type", FilterEmploymentType(p, f)>>,
      <<"seniority", FilterSeniority(p, f)>>, <<"location", FilterLocation(p, f)>>,
      <<"stack", FilterStack(p, f)>>, <<"comp", FilterComp(p, f)>>>>

\* evaluate: the gate that rejects a posting first, or None.
RejectedBy(p, f, now) ==
    LET gates == Pipeline(p, f, now)
        rejects == SelectInSeq(gates, LAMBDA g : g[2] = "reject")
    IN IF rejects = 0 THEN None ELSE gates[rejects][1]

\* What _screen_board makes of a raw posting.
Allowed(raw, f, now) == RejectedBy(Normalize(raw, f), f, now) = None

-----------------------------------------------------------------------------
(* Properties *)

\* g lets through whatever f names, and more.
Wider(g, f) ==
    /\ f.titles \subseteq g.titles /\ f.seniority \subseteq g.seniority
    /\ f.countries \subseteq g.countries /\ f.cities \subseteq g.cities
    /\ g.policy \in {f.policy, "anywhere"} /\ (f.allowUnknown => g.allowUnknown)
    /\ g.floor <= f.floor /\ f.stack \subseteq g.stack
    /\ g.blocked \subseteq f.blocked /\ g.blockedTypes \subseteq f.blockedTypes
    /\ g.maxAge # None => f.maxAge # None /\ f.maxAge <= g.maxAge

\* A filter that is widened lets nothing be lost: no posting that passed is rejected because
\* a country, a city or a technology was added, a limit raised or lifted, a block removed.
\* The text of a posting is read with the filters in hand, so the gates see another
\* posting under other settings.
WideningKeeps(raw, f, g, now) == Wider(g, f) /\ Allowed(raw, f, now) => Allowed(raw, g, now)

\* A posting once rejected stays rejected while neither it nor the settings change, whichever
\* day it is read again: the evaluation memory skips it without reading it.
RejectionLasts(raw, f, now, later) ==
    now <= later /\ ~Allowed(raw, f, now) => ~Allowed(raw, f, later)

\* What a connector does not tell rejects nothing: without its pay, its age, its employment
\* type or its technologies a posting passes if it passed with them.
MissingPasses(raw, f, now) ==
    Allowed(raw, f, now) =>
        /\ Allowed([raw EXCEPT !.comp = None], f, now)
        /\ Allowed([raw EXCEPT !.posted = None], f, now)
        /\ Allowed([raw EXCEPT !.kind = {}], f, now)
        /\ Allowed([raw EXCEPT !.tech = {}], f, now)

\* A posting whose place is read as an area without an allowed country is rejected unless
\* remote work is allowed from anywhere, whatever else its text says: a city abroad that
\* shares its name with an allowed one, a country named beside "anywhere".
ForeignIsRejected(raw, f, now) ==
    LET areas == GeoTags(raw.place)
        countries == {t.of : t \in {a \in areas : a.kind = "country"}}
        reached == countries \union UNION {RegionCountries[r] : r \in
                      {s \in DOMAIN RegionCountries : Region(s) \in areas}}
    IN /\ areas # {} /\ reached \intersect f.countries = {}
       /\ Region("worldwide") \in areas => countries # {}
       /\ f.policy # "anywhere"
       => ~Allowed(raw, f, now)

\* A row that kept no tags shows the workplace the tags would have given, where the connector
\* told nothing the text does not say.
BucketsAgree(raw, f) ==
    raw.remote = None \/ (raw.place # None /\ raw.remote = FALSE)
    => WorkplaceOf(raw.place) = WorkplaceFromTags(Normalize(raw, f).tags)

(***************************************************************************)
(* Not kept by the code.  docs/CONFIG.md says of filters.stack_any_of that *)
(* a posting must mention at least one listed technology: a posting that   *)
(* mentions none has an empty stack, which is "unknown" and passes, and    *)
(* one that mentions some has nothing else in its stack.                   *)
(***************************************************************************)
StackIsMentioned(raw, f, now) ==
    f.stack # {} /\ Allowed(raw, f, now) => raw.tech \intersect f.stack # {}
=============================================================================
