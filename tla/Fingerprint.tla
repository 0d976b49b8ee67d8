----------------------------- MODULE Fingerprint -----------------------------
(***************************************************************************)
(* Which job board a company has: src/src/fingerprint.py.  Its careers     *)
(* pages are located, the applicant tracking system behind each address is *)
(* read from the address, and a board that is alone on those pages is      *)
(* verified by asking it for postings.  Pure functions: the sweep that     *)
(* calls them and writes the verdicts down is BoardSweep.                  *)
(*                                                                         *)
(* An address is the vendor its host belongs to ("plain" for a company's   *)
(* own), the labels that name the tenant and the region in it, and its     *)
(* path segments.                                                          *)
(***************************************************************************)
EXTENDS Naturals, Sequences, FiniteSets, SequencesExt

CONSTANTS None,     \* the Python None
          Locales,  \* path segments that name a locale, like en-US
          Langs     \* and a bare language, like es

\* _SLUG_HOSTS: the board's token is the first path segment.
PathFamilies == {"greenhouse", "lever", "ashby", "workable", "smartrecruiters", "rippling"}

\* _SUBDOMAIN_SLUG_HOSTS: it is the first label of the host.
SubdomainFamilies == {"recruitee", "personio", "teamtailor"}
SlugFamilies == PathFamilies \union SubdomainFamilies
Reserved == {"www", "app", "api", "docs", "careers", "jobs"}

\* _UNSUPPORTED_HOST_SUFFIXES: some of them get a reading of their own below.
Unsupported == {"icims", "eightfold", "taleo", "successfactors", "avature", "phenom",
                "talentbrew"}

RegionalBoard(family, tenant, region, site) ==
    [family |-> family, tenant |-> tenant, region |-> region, site |-> site]
Board(family, tenant, site) == RegionalBoard(family, tenant, None, site)

\* The path without a locale and a bare language; a language alone is no site.
Unlocalised(path) ==
    LET Drop(p, prefixes) == IF p # <<>> /\ Head(p) \in prefixes THEN Tail(p) ELSE p
    IN Drop(Drop(path, Locales), Langs)

\* The segment after a mark in a path: of /sites/ and of /careersection/.
After(path, mark) ==
    LET at == {i \in 1 .. Len(path) - 1 : path[i] = mark}
    IN IF at = {} THEN None ELSE path[1 + CHOOSE i \in at : \A j \in at : i <= j]

\* parse_ats_url
ParseAts(u) ==
    CASE u.vendor = "workday" /\ Unlocalised(u.path) # <<>> ->
            RegionalBoard("workday", u.label, u.region, Head(Unlocalised(u.path)))
      [] u.vendor = "oraclecloud" /\ After(u.path, "sites") # None ->
            RegionalBoard("oraclecloud", u.label, u.region, After(u.path, "sites"))
      [] u.vendor \in SubdomainFamilies /\ u.label \notin Reserved ->
            Board(u.vendor, u.label, None)
      [] u.vendor \in PathFamilies /\ u.path # <<>> -> Board(u.vendor, Head(u.path), None)
      [] OTHER -> None

\* parse_jsonld_url, parse_eightfold_url
ParseByHost(u) ==
    CASE u.vendor = "icims" -> Board("jsonld", u.label, None)
      [] u.vendor = "eightfold" -> Board("eightfold", u.label, None)
      [] OTHER -> None

\* parse_taleo_url: the sections of the login and the API are not boards.
ParseTaleo(u) ==
    LET section == After(u.path, "careersection") IN
    IF u.vendor = "taleo" /\ section \notin {None, "iam", "rest"}
    THEN Board("taleo", u.label, section)
    ELSE None

\* The readings in the order they are tried.
Parsed(u) == CASE ParseAts(u) # None -> ParseAts(u)
               [] ParseByHost(u) # None -> ParseByHost(u)
               [] OTHER -> ParseTaleo(u)

\* detect_unsupported
DetectUnsupported(u) == IF u.vendor \in Unsupported THEN u.vendor ELSE None

Fingerprintable(u) == ParseAts(u) # None \/ DetectUnsupported(u) # None

-----------------------------------------------------------------------------
(* Where a company's careers pages are *)

\* A site: what each well-known address answers (the page it ends on and its links, or
\* nothing), and the links of the home page that look like careers.
Add(out, u) == IF u \in ToSet(out) THEN out ELSE Append(out, u)
AddAll(out, us) == FoldLeft(Add, out, us)

\* locate_careers_urls: the home page is fetched only if nothing was recognised.
Located(site) ==
    LET Visit(out, page) == AddAll(Add(out, page.final), SelectSeq(page.links, Fingerprintable))
        known == FoldLeft(Visit, <<>>, site.known)
    IN IF \E u \in ToSet(known) : Fingerprintable(u) THEN known ELSE AddAll(known, site.home)

-----------------------------------------------------------------------------
(* The verdict *)

\* verify_identity: how many postings the board has, where it answers.  Taleo and
\* eightfold take every failure for an empty board, a probe of a slug all but a 429.
Verified(board, answer) ==
    CASE answer \in {"postings", "empty"} -> answer
      [] board.family \in {"taleo", "eightfold"} -> "empty"
      [] board.family \in SlugFamilies /\ answer = "broken" -> "empty"
      [] OTHER -> "raises"

Verdict(status, board) == [status |-> status, board |-> board]

\* Mutant: a second address of a board read from its host is left to detect_unsupported.
NotAbsorbed(found, u) ==
    LET board == Parsed(u)
        new == board # None /\ \A b \in ToSet(found.supported) : b.family # board.family
        odd == DetectUnsupported(u)
    IN CASE new -> [found EXCEPT !.supported = Append(@, board)]
         [] ~new /\ odd # None -> [found EXCEPT !.unsupported = @ \union {odd}]
         [] OTHER -> found

\* One address is classified: the first board of a family stands for the family, and the
\* others are absorbed.
Classify(found, u) ==
    LET board == Parsed(u)
        new == board # None /\ \A b \in ToSet(found.supported) : b.family # board.family
        odd == DetectUnsupported(u)
    IN CASE new -> [found EXCEPT !.supported = Append(@, board)]
         [] board = None /\ odd # None -> [found EXCEPT !.unsupported = @ \union {odd}]
         [] OTHER -> found

Classified(urls) == FoldLeft(Classify, [supported |-> <<>>, unsupported |-> {}], urls)

\* The status of a board that is verified.
Status(board, answer) ==
    CASE Verified(board, answer) = "postings" -> "matched"
      [] Verified(board, answer) = "empty" -> "not_found"
      [] OTHER -> "error"

\* fingerprint_company: several families are reported, not merged.
FingerprintUrls(urls, answer) ==
    LET found == Classified(urls)
        board == Head(found.supported)
    IN CASE Len(found.supported) = 1 /\ found.unsupported = {} ->
                Verdict(Status(board, answer[board.family]), board)
         [] found.supported = <<>> /\ found.unsupported = {} -> Verdict("not_found", None)
         [] OTHER -> Verdict("unsupported", None)
FingerprintCompany(site, answer) == FingerprintUrls(Located(site), answer)

\* normalize_target, probe_target: an address with a path is read first, and only if it
\* tells nothing are the pages of its host located; a bare host is a company's domain,
\* whoever it belongs to.  own: the site of the host.
ProbeTarget(u, own, answer) ==
    CASE u.path # <<>> /\ Parsed(u) # None ->
            Verdict(Status(Parsed(u), answer[Parsed(u).family]), Parsed(u))
      [] u.path # <<>> /\ Parsed(u) = None /\ DetectUnsupported(u) # None ->
            Verdict("unsupported", None)
      [] OTHER -> FingerprintCompany(own, answer)

-----------------------------------------------------------------------------
(* The merge into the settings *)

\* connector_name: the region of a Workday tenant is not part of the name.
ConnectorName(board) ==
    IF board.family \in {"workday", "oraclecloud", "taleo"}
    THEN <<board.family, board.tenant, board.site>>
    ELSE <<board.family, board.tenant>>

\* Mutant: the batch is compared with the settings only.
MergedTwice(sources, results, polled) ==
    LET fresh == SelectSeq(results, LAMBDA r : r.status = "matched"
                                      /\ ConnectorName(r.board) \notin
                                           {ConnectorName(b) : b \in ToSet(sources)} \union polled)
    IN sources \o [i \in 1 .. Len(fresh) |-> fresh[i].board]

\* merge_results_into_settings: the matches whose name neither the settings, nor
\* `polled`, nor an earlier one of the batch has.
Merged(sources, results, polled) ==
    LET Merge(out, r) ==
            IF /\ r.status = "matched"
               /\ ConnectorName(r.board) \notin {ConnectorName(b) : b \in ToSet(out)} \union polled
            THEN Append(out, r.board) ELSE out
    IN FoldLeft(Merge, sources, results)

-----------------------------------------------------------------------------
(* Properties *)

\* A company's board is taken for its own only when every address that was found and can be
\* read names the same family, whichever order the addresses come in and however many
\* there are: fingerprint_company merges nothing ambiguous, and a second link to the
\* same board (a login page, a featured job) does not make it ambiguous.
AloneIsVerified(urls, answer) ==
    LET boards == {Parsed(u) : u \in ToSet(urls)} \ {None}
        odd == {u \in ToSet(urls) : Parsed(u) = None /\ DetectUnsupported(u) # None}
        verdict == FingerprintUrls(urls, answer)
    IN /\ verdict.board # None <=> /\ odd = {}
                                   /\ Cardinality({b.family : b \in boards}) = 1
       /\ verdict.board # None => verdict.board \in boards
       /\ verdict.status = "not_found" /\ verdict.board = None <=> boards = {} /\ odd = {}

\* What the sweep says of a company whose pages lead to an address and nowhere else.
LeadsOnlyTo(u) == [known |-> <<[final |-> u, links |-> <<>>]>>, home |-> <<>>]
Readable(u) == Parsed(u) # None \/ DetectUnsupported(u) # None

\* The form and the sweep agree: a pasted address that has a path and can be read gets the
\* verdict of a company whose pages lead there and nowhere else, whatever the pages of
\* its own host lead to; and any other is never taken for a board that those pages do
\* not lead to.
PastedAgrees(u, own, answer) ==
    LET verdict == ProbeTarget(u, own, answer)
        pages == {Parsed(v) : v \in ToSet(Located(own))} \ {None}
    IN IF u.path # <<>> /\ Readable(u) THEN verdict = FingerprintCompany(LeadsOnlyTo(u), answer)
       ELSE verdict.board \in pages \union {None}

\* A merge adds every match that is not polled already, and no connector name twice.
MergesOnce(sources, results, polled) ==
    LET all == Merged(sources, results, polled)
        Names(boards) == {ConnectorName(b) : b \in boards}
        matches == {r.board : r \in {q \in ToSet(results) : q.status = "matched"}}
    IN /\ IsPrefix(sources, all)
       /\ \A i, j \in 1 .. Len(all) :
             i < j /\ j > Len(sources) => ConnectorName(all[i]) # ConnectorName(all[j])
       /\ Names(ToSet(all)) = Names(ToSet(sources)) \union (Names(matches) \ polled)

(***************************************************************************)
(* Not kept by the code.  A second address of Taleo whose section is the   *)
(* login's is not absorbed: parse_taleo_url rejects it, so it falls to     *)
(* detect_unsupported, and the company becomes "unsupported".  And a bare  *)
(* host that is itself a board's (acme.recruitee.com) is not read: its own *)
(* pages are located, and if they lead back to no address that can be read *)
(* the form says there is no board.                                        *)
(***************************************************************************)
LoginLinksAreAbsorbed(urls, answer) ==
    LET boards == {Parsed(u) : u \in ToSet(urls)} \ {None}
    IN Cardinality({b.family : b \in boards}) = 1
          /\ (\A u \in ToSet(urls) : DetectUnsupported(u) \in {None, "taleo"})
       => FingerprintUrls(urls, answer).board # None
BareHostsAreRead(u, own, answer) ==
    Parsed(u) # None => ProbeTarget(u, own, answer).board = Parsed(u)
=============================================================================
