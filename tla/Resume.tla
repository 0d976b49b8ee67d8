-------------------------------- MODULE Resume --------------------------------
(***************************************************************************)
(* The structured résumé from the model's draft to the page: the ids a     *)
(* draft is given (src/src/resume_intake/content_draft.py), the edits of   *)
(* its review (src/src/web/settings/content_draft.py), the rewriting for a *)
(* posting (src/src/tailor/engine.py) and the fit to a number of pages     *)
(* (src/src/tailor/render/assemble.py).  Pure functions.                   *)
(*                                                                         *)
(* An answer of the model is [named, entries]; an entry is None or         *)
(* [kind, label, bullets], the words of its company, position or name and  *)
(* its bullets.  A text is a sequence of words, <<>> if it is blank.       *)
(***************************************************************************)
EXTENDS Naturals, Sequences, FiniteSets, SequencesExt, TLC

CONSTANT None

Kinds == <<"experience", "project">>
OfKind(entries, kind) == SelectSeq(entries, LAMBDA e : e.kind = kind)

-----------------------------------------------------------------------------
(* The draft *)

\* _slug: a text without a letter or a digit is called "entry".
Slug(text) == IF text = <<"?">> THEN <<"entry">> ELSE text

\* Mutant: a second entry of a name takes the name's next number, taken or not.
SecondTaken(used, base) ==
    IF base \notin used THEN base ELSE Append(base, "2")

\* assign_ids.unique: the base, or the base with the first free number from 2.
Unique(used, base) ==
    LET Nth(n) == Append(base, ToString(n))
    IN IF base \notin used THEN base
       ELSE Nth(CHOOSE n \in 2 .. Cardinality(used) + 2 :
                    Nth(n) \notin used /\ \A m \in 2 .. n - 1 : Nth(m) \in used)

\* assign_ids.bullets_of: the bullets that have a text, each with an id of its own.
BulletsOf(used, bullets, entryId) ==
    LET Put(acc, text) ==
            LET id == Unique(acc.used, Append(entryId, "b" \o ToString(Len(acc.out) + 1)))
            IN [used |-> acc.used \union {id}, out |-> Append(acc.out, [id |-> id, text |-> text])]
    IN FoldLeft(Put, [used |-> used, out |-> <<>>],
                SelectSeq(bullets, LAMBDA t : t \notin {<<>>, <<"junk">>}))

\* assign_ids: the entries that have a label, experiences first.
AssignIds(answer) ==
    LET Put(acc, e) ==
            LET id == Unique(acc.used, Slug(e.label))
                own == BulletsOf(acc.used \union {id}, e.bullets, id)
            IN [used |-> own.used,
                out |-> Append(acc.out, [kind |-> e.kind, id |-> id, bullets |-> own.out])]
        good == SelectSeq(answer.entries, LAMBDA e : e # None /\ e.label # <<>>)
    IN FoldLeft(Put, [used |-> {}, out |-> <<>>],
                OfKind(good, "experience") \o OfKind(good, "project")).out

\* draft_content: what has no name, no experience or no accomplishment is no draft.
DraftContent(answer) ==
    LET document == AssignIds(answer)
        jobs == OfKind(document, "experience")
    IN IF answer.named /\ \E e \in ToSet(jobs) : e.bullets # <<>> THEN document ELSE None

-----------------------------------------------------------------------------
(* The review: a form is [dropped, texts, unnamed] *)

\* apply_edits.edited_bullets
EditedBullets(bullets, form) ==
    LET Text(b) == IF b.id \in DOMAIN form.texts THEN form.texts[b.id] ELSE b.text
        kept == SelectSeq(bullets, LAMBDA b : b.id \notin form.dropped /\ Text(b) # <<>>)
    IN [i \in DOMAIN kept |-> [kept[i] EXCEPT !.text = Text(kept[i])]]

\* Mutant: an entry that lost its bullets stays.
EmptiedStays(document, form) ==
    LET edited == [i \in DOMAIN document |->
                     [document[i] EXCEPT !.bullets = EditedBullets(@, form)]]
    IN SelectSeq(edited, LAMBDA e : e.id \notin form.unnamed)

\* apply_edits: the structure is the draft's; what has no bullets or no name left goes.
ApplyEdits(document, form) ==
    LET edited == [i \in DOMAIN document |->
                     [document[i] EXCEPT !.bullets = EditedBullets(@, form)]]
    IN SelectSeq(edited, LAMBDA e : e.bullets # <<>> /\ e.id \notin form.unnamed)

\* parse_content: an id stands for one bullet.
ParseContent(document) == IsInjective(FlattenSeq([i \in DOMAIN document |->
                              [j \in DOMAIN document[i].bullets |-> document[i].bullets[j].id]]))

-----------------------------------------------------------------------------
(* The rewriting: an answer is None or a sequence of [kind, id, bullets], its *)
(* bullets [id, text, refs] *)

\* Mutant: a bullet may come from any entry of the résumé.
AnywhereGrounded(items, own, all, tickets) ==
    LET Put(out, b) ==
            IF b.id \in all /\ \A c \in ToSet(out) : c.id # b.id
            THEN Append(out, [b EXCEPT !.refs = @ \intersect tickets]) ELSE out
    IN FoldLeft(Put, <<>>, items)

\* _grounded_bullets: only the entry's own bullets, each once, and tickets of the bank.
Grounded(items, own, all, tickets) ==
    LET Put(out, b) ==
            IF b.id \in own /\ \A c \in ToSet(out) : c.id # b.id
            THEN Append(out, [b EXCEPT !.refs = @ \intersect tickets]) ELSE out
    IN FoldLeft(Put, <<>>, items)

\* _restore_omitted: what the model left out is put back as it was, with those of its own
\* tickets that the bank has.
RestoreOmitted(bullets, source, tickets) ==
    LET left == SelectSeq(source, LAMBDA b : \A c \in ToSet(bullets) : c.id # b.id)
    IN bullets \o [i \in DOMAIN left |-> [left[i] EXCEPT !.refs = @ \intersect tickets]]

Ids(bullets) == {b.id : b \in ToSet(bullets)}

\* parse_tailor_result: the entries of the résumé in its order, with the first answer to each.
ParseTailorResult(answer, content, tickets) ==
    LET all == UNION {Ids(e.bullets) : e \in ToSet(content)}
        Answers(e) == SelectSeq(answer, LAMBDA a : a.kind = e.kind /\ a.id = e.id)
        Items(e) == IF Answers(e) = <<>> THEN <<>> ELSE Head(Answers(e)).bullets
        Tailored(e) == [kind |-> e.kind, id |-> e.id,
                        bullets |-> RestoreOmitted(Grounded(Items(e), Ids(e.bullets), all, tickets),
                                                   e.bullets, tickets)]
    IN IF answer = None THEN <<>> ELSE [i \in DOMAIN content |-> Tailored(content[i])]

-----------------------------------------------------------------------------
(* The page *)

\* assemble_render_doc: an entry without a counterpart, or with an empty one, keeps its own
\* bullets; of two counterparts of an id the last one counts.
Assemble(content, tailored) ==
    LET Counterparts(e) == SelectSeq(tailored, LAMBDA t : t.kind = e.kind /\ t.id = e.id)
        Shown(e) == IF Counterparts(e) # <<>> /\ Last(Counterparts(e)).bullets # <<>>
                    THEN Last(Counterparts(e)).bullets ELSE e.bullets
    IN [i \in DOMAIN content |-> [kind |-> content[i].kind, bullets |-> Shown(content[i])]]

\* apply_bullet_caps: the head of each list; a cap may be None.
ApplyBulletCaps(page, caps) ==
    [i \in DOMAIN page |->
       LET cap == caps[page[i].kind]
       IN IF cap # None /\ cap < Len(page[i].bullets)
          THEN [page[i] EXCEPT !.bullets = SubSeq(@, 1, cap)] ELSE page[i]]

\* Mutant: an entry at the floor may lose a bullet too.
BelowFloor(page, kind, floor) ==
    {i \in DOMAIN page : page[i].kind = kind /\ Len(page[i].bullets) >= floor
                           /\ page[i].bullets # <<>>}

\* The entries of a kind that are above the floor.
Trimmable(page, kind, floor) ==
    {i \in DOMAIN page : page[i].kind = kind /\ Len(page[i].bullets) > floor}

\* _drop_one_trailing_bullet: the last entry above the floor, projects before experiences.
DropOne(page, floor) ==
    LET projects == Trimmable(page, "project", floor)
        from == IF projects # {} THEN projects ELSE Trimmable(page, "experience", floor)
        last == CHOOSE i \in from : \A j \in from : j <= i
    IN IF from = {} THEN None ELSE [page EXCEPT ![last].bullets = Front(@)]

Bullets(page) == FlattenSeq([i \in DOMAIN page |-> page[i].bullets])

\* fit_to_pages: a page is full when it has `room` bullets; each round takes one bullet, until
\* the page fits or no entry is above the floor.
FitToPages(page, room, floor) ==
    LET over == Len(Bullets(page)) - room
        after[n \in 0 .. over] ==
            IF n = 0 THEN page
            ELSE LET before == after[n - 1]
                     shorter == DropOne(before, floor)
                 IN IF shorter = None THEN before ELSE shorter
        fitted == IF over > 0 THEN after[over] ELSE page
    IN [page |-> fitted, warned |-> Len(Bullets(fitted)) > room]

\* render_resume
RenderResume(page, caps, room, floor) == FitToPages(ApplyBulletCaps(page, caps), room, floor)

-----------------------------------------------------------------------------
(* Properties *)

\* What the review may save can be stored and tailored, whatever the model answered and the
\* user struck out: no id stands twice, not even among companies whose names look like the
\* ids of another's bullets, every entry has a bullet, and nothing is there that the draft
\* did not have.
SavedIsUsable(answer, form) ==
    LET draft == DraftContent(answer)
        saved == ApplyEdits(draft, form)
        entryIds == [i \in DOMAIN saved |-> saved[i].id]
    IN draft # None =>
         /\ ParseContent(saved) /\ IsInjective(entryIds)
         /\ ToSet(entryIds) \intersect UNION {Ids(e.bullets) : e \in ToSet(saved)} = {}
         /\ \A e \in ToSet(saved) :
               /\ e.bullets # <<>>
               /\ \E d \in ToSet(draft) : d.id = e.id /\ Ids(e.bullets) \subseteq Ids(d.bullets)

\* The rewritten résumé shows each bullet of the résumé once, under the job it was done in,
\* and cites only tickets of the bank, whatever the model answers: it may invent ids,
\* repeat them, move them to another job or leave them out.
NothingIsFabricated(content, answer, tickets) ==
    LET tailored == ParseTailorResult(answer, content, tickets)
        page == Assemble(content, tailored)
    IN /\ \A i \in DOMAIN content :
             /\ Ids(page[i].bullets) = Ids(content[i].bullets)
             /\ Len(page[i].bullets) = Len(content[i].bullets)
       /\ \A e \in ToSet(tailored) : \A b \in ToSet(e.bullets) : b.refs \subseteq tickets

\* Fitting to the page takes no more than it must: beyond the caps an experience loses a
\* bullet only when every project is down to the floor, none is taken below it, the head of
\* each list stays in its order, and what still does not fit is said not to.
FitTakesTheTail(page, caps, room, floor) ==
    LET fit == RenderResume(page, caps, room, floor)
        Capped(i) == LET cap == caps[page[i].kind] n == Len(page[i].bullets)
                     IN IF cap = None \/ n < cap THEN n ELSE cap
        Lost(i) == Len(fit.page[i].bullets) < Capped(i)
    IN /\ fit.warned <=> Len(Bullets(fit.page)) > room
       /\ \A i \in DOMAIN page :
             /\ IsPrefix(fit.page[i].bullets, page[i].bullets)
             /\ Len(fit.page[i].bullets) <= Capped(i)
             /\ Lost(i) => Len(fit.page[i].bullets) >= floor
             /\ Lost(i) /\ page[i].kind = "experience" =>
                  \A j \in DOMAIN page : page[j].kind = "project" => Len(fit.page[j].bullets) <= floor
       /\ (\E i \in DOMAIN page : Lost(i)) /\ ~fit.warned => Len(Bullets(fit.page)) = room
=============================================================================
