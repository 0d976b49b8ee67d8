------------------------------ MODULE Companies ------------------------------
(***************************************************************************)
(* The Companies page (src/src/web/settings/companies.py), and the rows it *)
(* shares with every other list of the settings (src/src/settings/rows.py, *)
(* src/src/web/settings/rows.py, src/src/settings/boards.py).  Pure        *)
(* functions; how their writes race is in SettingsStore.                   *)
(*                                                                         *)
(* A row of a list is [value, extra, bare]: its first field, what its      *)
(* other fields hold, None without any, and whether it is stored as a bare *)
(* string.  A page's install is [sources, slugs, boards, packOn].          *)
(***************************************************************************)
EXTENDS PollSet

-----------------------------------------------------------------------------
(* Rows: a list is of strings, "chips", of models, "model", or of both, "union" *)

\* row_digest: the canonical JSON of the stored form, so equal rows share an address.
Digest(row) == row

\* _as_values: what the form shows.
AsValues(row) == [value |-> row.value, extra |-> row.extra]

\* _as_entry: a blank row is refused, and what is only its first field is written as a bare
\* string where the list has those.
AsEntry(kind, values) ==
    IF values.value = "" THEN None
    ELSE [value |-> values.value, extra |-> IF kind = "chips" THEN None ELSE values.extra,
          bare |-> kind = "chips" \/ (kind = "union" /\ values.extra = None)]

\* Mutant: the row is found by its place on the page that was shown.
FoundByPlace(list, shown, i) == IF i \in DOMAIN list THEN i ELSE None

\* find_row: the first row of the address; None is RowGone.
Found(list, shown, i) ==
    LET same == {j \in DOMAIN list : Digest(list[j]) = Digest(shown[i])}
    IN IF same = {} THEN None ELSE CHOOSE j \in same : \A k \in same : j <= k

\* Each edit of the row a page showed as its i-th, against the list as it is now: the new list,
\* and whether it was made.
Refused(list) == [list |-> list, done |-> FALSE]
Made(list) == [list |-> list, done |-> TRUE]

\* add_row_patch
AddRowPatch(list, kind, values) ==
    IF AsEntry(kind, values) = None THEN Refused(list)
    ELSE Made(Append(list, AsEntry(kind, values)))

\* update_row_patch
UpdateRowPatch(list, shown, i, kind, values) ==
    IF AsEntry(kind, values) = None \/ Found(list, shown, i) = None THEN Refused(list)
    ELSE Made([list EXCEPT ![Found(list, shown, i)] = AsEntry(kind, values)])

\* remove_row_patch
RemoveRowPatch(list, shown, i) ==
    IF Found(list, shown, i) = None THEN Refused(list)
    ELSE LET at == Found(list, shown, i)
         IN Made(SubSeq(list, 1, at - 1) \o SubSeq(list, at + 1, Len(list)))

\* decode_row: a field that is required and was left blank is refused.
DecodeRow(form) == IF form.value = "" THEN None ELSE form

\* _write: the form of a new row, i = None, or of the i-th of the page.
Write(list, shown, i, kind, form) ==
    IF DecodeRow(form) = None THEN Refused(list)
    ELSE IF i = None THEN AddRowPatch(list, kind, form)
    ELSE UpdateRowPatch(list, shown, i, kind, form)

-----------------------------------------------------------------------------
(* The page *)

\* board_entries: the boards of the settings, with their names.
BoardEntries(inst) == {[board |-> b, key |-> BoardKey(b)] : b \in ToSet(inst.sources)}

\* companies_probe: the verdict is shown, with whether the board is configured; nothing is
\* written.
ProbeShown(inst, result) ==
    [result |-> result,
     already |-> /\ result.status \in {"matched", "not_found"} /\ result.board # None
                 /\ BoardKey(result.board) \in Keys(inst.sources)]

\* Mutant: a board is looked for as it is written, and not by its name.
AddedByIdentity(inst, board) ==
    IF board \in ToSet(inst.sources) THEN inst ELSE [inst EXCEPT !.sources = Append(@, board)]

\* companies_add: a board of a name the settings have is not added again.
AddBoard(inst, board) ==
    IF BoardKey(board) \in Keys(inst.sources) THEN inst
    ELSE [inst EXCEPT !.sources = Append(@, board)]

\* companies_starter_pack: the flag, once.
StarterPack(inst) == [inst EXCEPT !.packOn = TRUE]

\* starter_offer: the boards of the pack to offer, None where there is nothing to offer.
StarterOffer(inst, dismissed, eligible) ==
    IF inst.packOn \/ dismissed \/ eligible = 0 THEN None ELSE eligible

\* companies_remove_confirm, row_remove: the page warns of a row of discovered_slugs.
Warned(inst, board) ==
    \E r \in ToSet(inst.slugs) : r.healthy /\ BoardKey(BoardOf(r)) = BoardKey(board)
RemoveBoard(inst, board) ==
    [inst EXCEPT !.sources = RemoveFirst(@, board)]

\* What the cycles poll, by tier.
PolledOf(inst, suppressed) ==
    UNION {Keys(BuildConnectors(t, inst.sources, Healthy(inst.slugs, inst.packOn),
                                Healthy(inst.boards, inst.packOn), suppressed)) : t \in Tiers}

-----------------------------------------------------------------------------
(* Properties *)

Ahead(list, j) == SubSeq(list, 1, j - 1)
Behind(list, j) == SubSeq(list, j + 1, Len(list))

\* An edit hits the row it was meant for (rows.py): made on a page that is out of date, it is
\* refused when the row the page showed is gone, and otherwise changes a row equal to that
\* one and no other; and a form that is sent back as it was shown changes nothing.
StaleEditsHitTheSame(list, shown, i, kind, values) ==
    LET updated == Write(list, shown, i, kind, values)
        removed == RemoveRowPatch(list, shown, i)
        \* The lists one edit away: a row equal to the one shown becomes `new`, or goes.
        Hit(out, new) == \E j \in DOMAIN list :
                            list[j] = shown[i] /\ out = Ahead(list, j) \o new \o Behind(list, j)
    IN /\ removed.done <=> shown[i] \in ToSet(list)
       /\ removed.done => Hit(removed.list, <<>>)
       /\ updated.done => Hit(updated.list, <<AsEntry(kind, values)>>)
       /\ ~updated.done => updated.list = list
       /\ LET same == Write(list, shown, i, kind, AsValues(shown[i]))
          IN same.done /\ shown[i] = AsEntry(kind, AsValues(shown[i])) => same.list = list

\* What the page adds is polled from the next cycle on: by one connector, whatever the address
\* was written like before and whether discovery found it first; nothing else is polled
\* more or less, and adding it again changes nothing.
AddedIsPolled(inst, board, suppressed) ==
    LET new == AddBoard(inst, board)
    IN /\ PolledOf(new, suppressed) = PolledOf(inst, suppressed)
                                       \union ({BoardKey(board)} \ suppressed)
       /\ Cardinality(Keys(new.sources)) - Cardinality(Keys(inst.sources))
             = Len(new.sources) - Len(inst.sources)
       /\ AddBoard(new, board) = new
       /\ ProbeShown(new, [status |-> "matched", board |-> board]).already

\* The offer of the starter pack (companies.py): taken, it is gone, every healthy board of the
\* pack that no cycle polled yet is polled but for the suppressed, nothing is polled less,
\* and the boards of the settings stay the entries of the page.
OfferIsKept(inst, dismissed, suppressed) ==
    LET new == StarterPack(inst)
        pack == {BoardKey(BoardOf(r)) : r \in {s \in ToSet(inst.slugs \o inst.boards) :
                                                  s.pack /\ s.healthy}}
        eligible == Cardinality(pack)
    IN /\ StarterOffer(new, dismissed, eligible) = None
       /\ StarterOffer(inst, FALSE, eligible) # None => pack # {} /\ ~inst.packOn
       /\ PolledOf(new, suppressed) = PolledOf(inst, suppressed) \union (pack \ suppressed)
       /\ BoardEntries(new) = BoardEntries(inst)

(***************************************************************************)
(* Not kept by the code: the page that confirms a removal looks for the    *)
(* board in discovered_slugs alone, so a Workday board discovery polls     *)
(* goes on being polled without a word; and of the starter pack it warns   *)
(* while the pack is off.                                                  *)
(***************************************************************************)
RemovalIsTold(inst, board) ==
    Warned(inst, board) <=> BoardKey(board) \in PolledOf(RemoveBoard(inst, board), {})
=============================================================================
