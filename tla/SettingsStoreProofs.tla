------------------------- MODULE SettingsStoreProofs -------------------------
(***************************************************************************)
(* Proofs about SettingsStore, for any threads and processes, any settings *)
(* and any bounds.                                                         *)
(*                                                                         *)
(* That no process ever caches rows of two transactions, or of one that is *)
(* rolled back, is not inductive.  StoreInv adds why it is so: the newest  *)
(* generation stands for the rows in effect; within a process the lock     *)
(* keeps a read and a write apart, so a read sees no staged row; and a     *)
(* commit waits for the reads of the others, so that a read ends under the *)
(* generation it began with.                                               *)
(*                                                                         *)
(* What a commit does to the settings it replaces was decided when it was  *)
(* prepared, of which EditInv says what was true then: a save that names a *)
(* base was derived from it while it was the newest row, and a write that  *)
(* is under way keeps it the newest. Together the two invariants make the  *)
(* store the register of SettingsRegister.                                 *)
(***************************************************************************)
EXTENDS SettingsStore, SequenceTheorems, WellFoundedInduction, TLAPS

Row == [doc : Document, source : {"import", "other"}]
Patch == [title : Titles \union {Keep}, boards : (SUBSET Entries) \union {Keep},
          plus : SUBSET Entries]
ThreadRow == [pc : Phase, kind : Kind, snap : Snapshot, patch : Patch, base : Nat,
              draft : Document, attempt : 1 .. 2]

-----------------------------------------------------------------------------
(* The rows *)

\* A set of version ids that is not empty has a newest one.
LEMMA NewestExists ==
    ASSUME NEW n \in Nat, NEW S, S \subseteq 1 .. n, S # {}
    PROVE  \E i \in S : \A j \in S : j <= i
<1> DEFINE T == {n - i : i \in S}
<1>1. T \subseteq Nat /\ T # {}
  <2>1. \A i \in S : i \in 1 .. n /\ n - i \in Nat /\ n - i \in T
    OBVIOUS
  <2> QED
    BY <2>1
<1>2. PICK x \in T : \A y \in T : ~(<<y, x>> \in OpToRel(<, Nat))
  <2> HIDE DEF T
  <2> QED
    BY <1>1, NatLessThanWellFounded, WFMin
<1>3. PICK i \in S : x = n - i
  OBVIOUS
<1>4. ASSUME NEW j \in S, ~(j <= i) PROVE FALSE
  <2>1. n - j \in T /\ n - j \in Nat /\ x \in Nat /\ n - j < x
    BY <1>3, <1>4
  <2> HIDE DEF T
  <2> QED
    BY <1>2, <2>1 DEF OpToRel
<1> QED
  BY <1>4

LEMMA DefaultTyped == Default \in Document /\ NoSnapshot \in Snapshot /\ Idle \in ThreadRow
<1>1. Default \in Document
  BY SettingsAssumption DEF Default, Document
<1>2. NoSnapshot \in Snapshot
  BY <1>1 DEF NoSnapshot, Snapshot
<1>3. NoPatch \in Patch
  BY DEF NoPatch, Patch
<1> QED
  BY <1>1, <1>2, <1>3 DEF Idle, ThreadRow, Phase, Kind

LEMMA EffectiveTyped ==
    ASSUME NEW rows \in Seq(Row)
    PROVE  Effective(rows) \in 0 .. Len(rows) /\ DocOf(rows, Effective(rows)) \in Document
<1> DEFINE valid == {i \in 1 .. Len(rows) : i \notin broken}
<1>1. Len(rows) \in Nat /\ \A i \in 1 .. Len(rows) : rows[i] \in Row
  BY ElementOfSeq, LenProperties
<1>2. Effective(rows) \in 0 .. Len(rows)
  <2>1. CASE valid = {}
    BY <1>1, <2>1 DEF Effective
  <2>2. CASE valid # {}
    <3>1. \E i \in valid : \A j \in valid : j <= i
      BY <1>1, <2>2, NewestExists
    <3>2. (CHOOSE i \in valid : \A j \in valid : j <= i) \in valid
      <4> HIDE DEF valid
      <4> QED
        BY <3>1
    <3>3. Effective(rows) = CHOOSE i \in valid : \A j \in valid : j <= i
      BY <2>2 DEF Effective
    <3> QED
      BY <1>1, <3>2, <3>3
  <2> QED
    BY <2>1, <2>2
<1> QED
  BY <1>1, <1>2, DefaultTyped DEF DocOf, Row

LEMMA EffectiveTypedNext ==
    (\A rows \in Seq(Row) : /\ Effective(rows) \in 0 .. Len(rows)
                            /\ DocOf(rows, Effective(rows)) \in Document)'
<1>1. \A rows \in Seq(Row) : /\ Effective(rows) \in 0 .. Len(rows)
                             /\ DocOf(rows, Effective(rows)) \in Document
  BY EffectiveTyped
<1> QED
  BY <1>1, PTL

\* A row that was just appended and is not known to be broken is the one in effect.
LEMMA AppendedIsEffective ==
    ASSUME NEW rows \in Seq(Row), NEW row \in Row, broken \subseteq 1 .. Len(rows)
    PROVE  /\ Effective(Append(rows, row)) = Len(rows) + 1
           /\ DocOf(Append(rows, row), Len(rows) + 1) = row.doc
<1> DEFINE n == Len(rows) + 1
<1> DEFINE valid == {i \in 1 .. n : i \notin broken}
<1>1. Len(rows) \in Nat /\ Len(Append(rows, row)) = n /\ Append(rows, row)[n] = row
  BY AppendProperties, LenProperties
<1>2. n \in valid /\ \A j \in valid : j <= n
  BY <1>1
<1>3. (CHOOSE i \in valid : \A j \in valid : j <= i) = n
  <2>1. \A i \in valid : (\A j \in valid : j <= i) => i = n
    BY <1>1, <1>2
  <2> HIDE DEF valid, n
  <2> QED
    BY <1>2, <2>1
<1>4. Effective(Append(rows, row)) = n
  BY <1>1, <1>2, <1>3 DEF Effective
<1> QED
  BY <1>1, <1>4 DEF DocOf

-----------------------------------------------------------------------------
(* Types *)

LEMMA Typed ==
    ASSUME TypeOK
    PROVE  /\ versions \in Seq(Row) /\ broken \subseteq 1 .. Len(versions) /\ gen \in Nat
           /\ thread \in [Threads -> ThreadRow]
           /\ cache \in [Processes -> Snapshot \union {None}]
           /\ engine \in Nat /\ applied \in Titles /\ running \in Titles
           /\ committed \in Seq(Snapshot) /\ Len(committed) = gen + 1
           /\ upgrades \in Nat /\ mishaps \in Nat
           /\ Len(versions) \in Nat /\ \A i \in 1 .. Len(versions) : versions[i] \in Row
           /\ \A t \in Threads : thread[t] \in ThreadRow
<1>1. /\ versions \in Seq(Row) /\ broken \subseteq 1 .. Len(versions) /\ gen \in Nat
      /\ thread \in [Threads -> ThreadRow]
      /\ cache \in [Processes -> Snapshot \union {None}]
      /\ engine \in Nat /\ applied \in Titles /\ running \in Titles
      /\ committed \in Seq(Snapshot) /\ Len(committed) = gen + 1
      /\ upgrades \in Nat /\ mishaps \in Nat
  BY DEF TypeOK, Row, ThreadRow, Patch
<1> QED
  BY <1>1, ElementOfSeq, LenProperties

LEMMA Retyped ==
    ASSUME versions' \in Seq(Row), broken' \subseteq 1 .. Len(versions'), gen' \in Nat,
           thread' \in [Threads -> ThreadRow], cache' \in [Processes -> Snapshot \union {None}],
           engine' \in Nat, applied' \in Titles, running' \in Titles,
           committed' \in Seq(Snapshot), Len(committed') = gen' + 1,
           upgrades' \in Nat, mishaps' \in Nat
    PROVE  TypeOK'
BY DEF TypeOK, Row, ThreadRow, Patch

\* A step of one thread that leaves the file and what was built from it.
LEMMA ThreadSteps ==
    ASSUME TypeOK, NEW t \in Threads, NEW to \in ThreadRow, Step(t, to),
           UNCHANGED <<file, engine, triggers, committed, upgrades>>,
           cache' \in [Processes -> Snapshot \union {None}], mishaps' \in Nat
    PROVE  TypeOK'
<1>1. thread' \in [Threads -> ThreadRow]
  BY Typed DEF Step
<1> QED
  BY <1>1, Typed, Retyped DEF file, triggers

\* What a request does between its reads and its writes.
Thinks(t, to) ==
    /\ Step(t, to) /\ to.pc \in {"idle", "update", "compare", "save", "build"}
    /\ UNCHANGED <<file, cache, engine, triggers, committed, upgrades>>

LEMMA PatchedTyped ==
    ASSUME NEW doc \in Document, NEW patch \in Patch
    PROVE  Patched(doc, patch) \in Document
BY DEF Patched, Document, Patch

LEMMA PatchesTyped ==
    ASSUME NEW t \in Threads, thread[t].snap.doc \in Document,
           NEW kind \in {"section", "row", "source"}, NEW patch \in Patches(t, kind)
    PROVE  patch \in Patch
<1>1. NoPatch \in Patch
  BY DEF NoPatch, Patch
<1>2. CASE kind = "section"
  <2>1. PICK title \in Titles : patch = SectionPatch(t, title)
    BY <1>2 DEF Patches
  <2> QED
    BY <1>1, <2>1 DEF SectionPatch, Patch
<1>3. CASE kind = "row"
  <2>1. PICK e \in Entries : patch = AddRow(t, e) \/ patch = RemoveRow(t, e)
    BY <1>3 DEF Patches, Document
  <2> QED
    BY <1>1, <2>1 DEF AddRow, RemoveRow, Patch, Document
<1>4. CASE kind = "source"
  <2>1. PICK e \in Entries : patch = Append1(t, e)
    BY <1>4 DEF Patches
  <2> QED
    BY <1>1, <2>1 DEF Append1, Patch
<1> QED
  BY <1>2, <1>3, <1>4

\* A thread's row that goes back to read and mutate once more.
LEMMA Reread ==
    ASSUME NEW r \in ThreadRow
    PROVE  LET to == [r EXCEPT !.pc = "update", !.base = 0, !.draft = Default, !.attempt = 2]
           IN to \in ThreadRow /\ to.pc = "update"
<1>1. ASSUME NEW p \in Phase, NEW n \in 1 .. 2, NEW b \in Nat, NEW d \in Document
      PROVE  [r EXCEPT !.pc = p, !.base = b, !.draft = d, !.attempt = n] \in ThreadRow
  BY DEF ThreadRow
<1>2. "update" \in Phase /\ 2 \in 1 .. 2 /\ 0 \in Nat /\ Default \in Document
  BY DefaultTyped DEF Phase
<1>3. [r EXCEPT !.pc = "update", !.base = 0, !.draft = Default, !.attempt = 2] \in ThreadRow
  BY <1>1, <1>2, Zenon
<1>4. [r EXCEPT !.pc = "update", !.base = 0, !.draft = Default, !.attempt = 2].pc = "update"
  BY DEF ThreadRow
<1> QED
  BY <1>3, <1>4, Zenon

\* And one that has begun its write.
LEMMA Begun ==
    ASSUME NEW r \in ThreadRow
    PROVE  LET to == [r EXCEPT !.pc = "commit", !.attempt = 1]
           IN to \in ThreadRow /\ to.pc = "commit"
<1>1. ASSUME NEW p \in Phase, NEW n \in 1 .. 2
      PROVE  [r EXCEPT !.pc = p, !.attempt = n] \in ThreadRow
  BY DEF ThreadRow
<1>2. "commit" \in Phase /\ 1 \in 1 .. 2
  BY DEF Phase
<1>3. [r EXCEPT !.pc = "commit", !.attempt = 1] \in ThreadRow
  BY <1>1, <1>2, Zenon
<1>4. [r EXCEPT !.pc = "commit", !.attempt = 1].pc = "commit"
  BY DEF ThreadRow
<1> QED
  BY <1>3, <1>4, Zenon

LEMMA RequestsThink ==
    ASSUME TypeOK, NEW t \in Requests,
           \/ \E kind \in {"section", "row", "source"} : Submit(t, kind)
           \/ UpdateRead(t) \/ \E v \in 1 .. Len(versions) : Restore(t, v)
           \/ \E title \in Titles : Review(t, title)
           \/ SetUp(t) \/ \E doc \in Imports : ForceImport(t, doc) \/ ImportRead(t, doc)
           \/ ImportCompare(t) \/ RefuseStale(t) \/ Rollback(t) \/ Look(t)
    PROVE  mishaps' \in Nat /\ \E to \in ThreadRow : Thinks(t, to)
<1> DEFINE Fine == mishaps' \in Nat /\ \E to \in ThreadRow : Thinks(t, to)
<1>0. t \in Threads /\ mishaps \in Nat /\ thread[t] \in ThreadRow /\ thread[t].snap \in Snapshot
      /\ thread[t].snap.doc \in Document /\ thread[t].patch \in Patch /\ Idle.pc = "idle"
      /\ thread[t].draft \in Document /\ thread[t].base \in Nat
  BY Typed DEF Threads, ThreadRow, Snapshot, Idle
<1>1. ASSUME NEW kind \in {"section", "row", "source"}, Submit(t, kind) PROVE Fine
  <2>1. PICK patch \in Patches(t, kind) :
          Step(t, [Idle EXCEPT !.pc = "update", !.kind = kind, !.patch = patch])
    BY <1>1 DEF Submit
  <2> DEFINE to == [Idle EXCEPT !.pc = "update", !.kind = kind, !.patch = patch]
  <2>2. to \in ThreadRow /\ to.pc = "update"
    BY <1>0, DefaultTyped, PatchesTyped DEF ThreadRow, Phase, Kind
  <2> HIDE DEF to
  <2> QED
    BY <1>0, <1>1, <2>1, <2>2 DEF Submit, Thinks, counts, to
<1>2. CASE UpdateRead(t)
  <2> DEFINE doc == Patched(Current, thread[t].patch)
             to == [thread[t] EXCEPT !.pc = "save", !.base = Len(versions), !.draft = doc]
  <2>1. doc \in Document /\ Len(versions) \in Nat
    BY <1>0, Typed, EffectiveTyped, PatchedTyped DEF Current
  <2>2. Step(t, Idle) \/ Step(t, to)
    BY <1>2 DEF UpdateRead
  <2> HIDE DEF doc
  <2>3. to \in ThreadRow /\ to.pc = "save"
    BY <1>0, <2>1 DEF ThreadRow, Phase
  <2> HIDE DEF to
  <2> QED
    BY <1>0, <1>2, <2>2, <2>3, DefaultTyped DEF UpdateRead, Thinks, counts
<1>3. ASSUME NEW kind \in Kind, NEW doc \in Document, Save(t, kind, doc) PROVE Fine
  <2> DEFINE to == [Idle EXCEPT !.pc = "save", !.kind = kind, !.draft = doc]
  <2>1. to \in ThreadRow /\ to.pc = "save"
    BY <1>0, DefaultTyped DEF ThreadRow, Phase
  <2> HIDE DEF to
  <2> QED
    BY <1>0, <1>3, <2>1 DEF Save, Thinks, counts, to
<1>4. CASE \E v \in 1 .. Len(versions) : Restore(t, v)
  <2>1. PICK v \in 1 .. Len(versions) : Save(t, "restore", versions[v].doc)
    BY <1>4 DEF Restore
  <2>2. versions[v].doc \in Document
    BY Typed DEF Row
  <2> QED
    BY <1>3, <2>1, <2>2 DEF Kind
<1>5. CASE \E title \in Titles : Review(t, title)
  <2>1. PICK title \in Titles : Save(t, "review", [thread[t].snap.doc EXCEPT !.title = title])
    BY <1>5 DEF Review
  <2>2. [thread[t].snap.doc EXCEPT !.title = title] \in Document
    BY <1>0 DEF Document
  <2> QED
    BY <1>3, <2>1, <2>2 DEF Kind
<1>6. CASE SetUp(t)
  BY <1>3, <1>6, DefaultTyped DEF SetUp, Kind
<1>7. ASSUME NEW doc \in Imports, ForceImport(t, doc) PROVE Fine
  BY <1>3, <1>7, SettingsAssumption DEF ForceImport, Kind
<1>8. ASSUME NEW doc \in Imports, ImportRead(t, doc) PROVE Fine
  <2> DEFINE to == [Idle EXCEPT !.pc = "compare", !.kind = "import", !.base = Len(versions),
                               !.draft = doc]
  <2>1. to \in ThreadRow /\ to.pc = "compare"
    BY <1>0, DefaultTyped, Typed, SettingsAssumption DEF ThreadRow, Phase, Kind
  <2> HIDE DEF to
  <2> QED
    BY <1>0, <1>8, <2>1 DEF ImportRead, Thinks, counts, to
<1>9. CASE ImportCompare(t)
  <2> DEFINE to == [thread[t] EXCEPT !.pc = "save"]
  <2>1. to \in ThreadRow /\ to.pc = "save"
    BY <1>0 DEF ThreadRow, Phase
  <2>2. Step(t, Idle) \/ Step(t, to)
    BY <1>9 DEF ImportCompare
  <2> HIDE DEF to
  <2> QED
    BY <1>0, <1>9, <2>1, <2>2, DefaultTyped DEF ImportCompare, Thinks, counts
<1>10. CASE RefuseStale(t)
  <2> DEFINE to == [thread[t] EXCEPT !.pc = "update", !.base = 0, !.draft = Default,
                                    !.attempt = 2]
  <2>1. to \in ThreadRow /\ to.pc = "update"
    BY <1>0, Reread, Zenon
  <2>2. Step(t, Idle) \/ Step(t, to)
    BY <1>10 DEF RefuseStale
  <2> HIDE DEF to
  <2> QED
    BY <1>0, <1>10, <2>1, <2>2, DefaultTyped DEF RefuseStale, Thinks, counts
<1>11. CASE Rollback(t)
  BY <1>0, <1>11, DefaultTyped DEF Rollback, Leave, Mishap, Thinks
<1>12. CASE Look(t)
  <2> DEFINE to == [Idle EXCEPT !.pc = "build", !.snap.gen = thread[t].snap.gen]
  <2>0. to = [Idle EXCEPT !.pc = "build", !.snap = [NoSnapshot EXCEPT !.gen = thread[t].snap.gen]]
    BY DEF Idle
  <2>1. to \in ThreadRow /\ to.pc = "build"
    <3>1. [NoSnapshot EXCEPT !.gen = thread[t].snap.gen] \in Snapshot
      BY <1>0, DefaultTyped DEF Snapshot
    <3> QED
      BY <2>0, <3>1, DefaultTyped DEF ThreadRow, Phase
  <2>2. Step(t, Idle) \/ Step(t, to)
    BY <1>12 DEF Look
  <2> HIDE DEF to
  <2> QED
    BY <1>0, <1>12, <2>1, <2>2, DefaultTyped DEF Look, Thinks, counts
<1> QED
  BY <1>1, <1>2, <1>4, <1>5, <1>6, <1>7, <1>8, <1>9, <1>10, <1>11, <1>12

\* The read of the generation.
LEMMA BeginTyped ==
    ASSUME TypeOK, NEW t \in Threads, Begin(t)
    PROVE  \E to \in ThreadRow :
              /\ Step(t, to) /\ UNCHANGED <<file, cache, engine, triggers, committed, counts>>
              /\ \/ to.pc = "ready"
                 \/ to.pc = "version" /\ to.snap.gen = gen
<1> DEFINE hit == cache[Process[t]]
           known == [Idle EXCEPT !.pc = "ready", !.snap = hit]
           reads == [Idle EXCEPT !.pc = "version", !.snap.gen = gen]
<1>1. hit \in Snapshot \union {None} /\ gen \in Nat
  BY Typed DEF Processes
<1>2. hit # None => known \in ThreadRow /\ known.pc = "ready"
  BY <1>1, DefaultTyped DEF ThreadRow, Phase
<1>3. reads = [Idle EXCEPT !.pc = "version", !.snap = [NoSnapshot EXCEPT !.gen = gen]]
  BY DEF Idle
<1>4. reads \in ThreadRow /\ reads.pc = "version" /\ reads.snap.gen = gen
  <2>1. [NoSnapshot EXCEPT !.gen = gen] \in Snapshot /\ [NoSnapshot EXCEPT !.gen = gen].gen = gen
    BY <1>1, DefaultTyped DEF Snapshot
  <2> QED
    BY <1>3, <2>1, DefaultTyped DEF ThreadRow, Phase
<1>5. (hit # None /\ Step(t, known)) \/ Step(t, reads)
  BY DEF Begin
<1> HIDE DEF known, reads
<1> QED
  BY <1>2, <1>4, <1>5 DEF Begin

\* The read of the rows.
LEMMA ReadTyped ==
    ASSUME TypeOK, NEW t \in Threads, ReadVersion(t)
    PROVE  \E s \in Snapshot, to \in ThreadRow :
              /\ s.gen = thread[t].snap.gen /\ s.version = Effective(Rows(t))
              /\ s.doc = DocOf(Rows(t), Effective(Rows(t)))
              /\ Step(t, to) /\ to.pc = "ready" /\ to.snap = s
              /\ cache' = [cache EXCEPT ![Process[t]] = s]
              /\ UNCHANGED <<file, engine, triggers, committed, counts>>
<1>1. Rows(t) \in Seq(Row)
  <2>1. CASE Staged(t) = {}
    BY <2>1, Typed DEF Rows
  <2>2. CASE Staged(t) # {}
    <3>1. \A u \in Staged(t) : [doc |-> thread[u].draft, source |-> "other"] \in Row
      BY Typed DEF Staged, Row, ThreadRow
    <3>2. PICK u \in Staged(t) : Rows(t) = Append(versions, [doc |-> thread[u].draft, source |-> "other"])
      <4>1. (CHOOSE u \in Staged(t) : TRUE) \in Staged(t)
        BY <2>2
      <4> QED
        BY <2>2, <4>1 DEF Rows
    <3> QED
      BY <3>1, <3>2, Typed, AppendProperties
  <2> QED
    BY <2>1, <2>2
<1> DEFINE v == Effective(Rows(t))
           s == [thread[t].snap EXCEPT !.version = v, !.doc = DocOf(Rows(t), v)]
           to == [thread[t] EXCEPT !.pc = "ready", !.snap = s]
<1>2. v \in Nat /\ DocOf(Rows(t), v) \in Document
  BY <1>1, EffectiveTyped, LenProperties
<1>3. thread[t] \in ThreadRow /\ thread[t].snap \in Snapshot
  BY Typed DEF ThreadRow
<1>4. /\ Step(t, to) /\ cache' = [cache EXCEPT ![Process[t]] = s]
      /\ UNCHANGED <<file, engine, triggers, committed, counts>>
  BY DEF ReadVersion
<1>5. s \in Snapshot /\ s.gen = thread[t].snap.gen /\ s.version = v /\ s.doc = DocOf(Rows(t), v)
  <2> HIDE DEF v
  <2> QED
    BY <1>2, <1>3 DEF Snapshot
<1>6. to \in ThreadRow /\ to.pc = "ready" /\ to.snap = s
  <2> HIDE DEF s
  <2> QED
    BY <1>3, <1>5 DEF ThreadRow, Phase
<1> HIDE DEF s, to
<1> QED
  BY <1>4, <1>5, <1>6

\* The insert of a version and the build of an object.
LEMMA WritesTyped ==
    ASSUME TypeOK, NEW t \in Threads, BeginWrite(t) \/ Put(t) \/ Reschedule(TRUE) \/ Reschedule(FALSE)
    PROVE  /\ TypeOK'
           /\ \E u \in Threads, to \in ThreadRow :
                 /\ Step(u, to) /\ UNCHANGED <<file, cache, committed>>
                 /\ to.pc = "idle" \/ (to.pc = "commit" /\ LockFree(u))
<1>0. /\ thread[t] \in ThreadRow /\ thread[t].snap \in Snapshot /\ Watch \in Threads
      /\ thread[Watch] \in ThreadRow /\ Idle.pc = "idle"
  BY Typed DEF ThreadRow, Threads, Idle
<1>1. CASE BeginWrite(t)
  <2> DEFINE to == [thread[t] EXCEPT !.pc = "commit", !.attempt = 1]
  <2>1. to \in ThreadRow /\ to.pc = "commit"
    BY <1>0, Begun, Zenon
  <2>2. Step(t, to) /\ LockFree(t) /\ UNCHANGED <<file, cache, engine, triggers, committed, counts>>
    BY <1>1 DEF BeginWrite, MayWrite
  <2> HIDE DEF to
  <2> QED
    BY <2>1, <2>2, Typed, ThreadSteps DEF counts
<1>2. CASE Put(t)
  <2>1. /\ Step(t, Idle) /\ UNCHANGED <<file, cache, triggers, committed, counts>>
        /\ engine' = engine \/ engine' = thread[t].snap.gen
    BY <1>2 DEF Put, Leave, Kept
  <2>2. thread' \in [Threads -> ThreadRow]
    BY <2>1, DefaultTyped, Typed DEF Step
  <2>3. engine' \in Nat
    BY <1>0, <2>1, Typed DEF Snapshot
  <2>4. TypeOK'
    BY <2>1, <2>2, <2>3, Typed, Retyped DEF file, triggers, counts
  <2> QED
    BY <1>0, <2>1, <2>4, DefaultTyped
<1>3. CASE Reschedule(TRUE) \/ Reschedule(FALSE)
  <2>1. /\ Step(Watch, Idle) /\ UNCHANGED <<file, cache, engine, committed, upgrades>>
        /\ applied' = applied \/ applied' = thread[Watch].snap.doc.title
        /\ running' = running \/ running' = thread[Watch].snap.doc.title
        /\ mishaps' = mishaps \/ mishaps' = mishaps + 1
    BY <1>3 DEF Reschedule, Leave, Booked, Mishap
  <2>2. thread' \in [Threads -> ThreadRow]
    BY <1>0, <2>1, DefaultTyped, Typed DEF Step
  <2>3. applied' \in Titles /\ running' \in Titles /\ mishaps' \in Nat
    <3>1. thread[Watch].snap \in Snapshot
      BY <1>0 DEF ThreadRow
    <3>2. thread[Watch].snap.doc.title \in Titles
      BY <3>1 DEF Snapshot, Document
    <3> QED
      BY <2>1, <3>2, Typed
  <2>4. TypeOK'
    BY <2>1, <2>2, <2>3, Typed, Retyped DEF file
  <2> QED
    BY <1>0, <2>1, <2>4, DefaultTyped
<1> QED
  BY <1>1, <1>2, <1>3

\* The commit and the upgrade, which write the file.
LEMMA CommitTyped ==
    ASSUME TypeOK, NEW t \in Threads, Commit(t)
    PROVE  /\ TypeOK'
           /\ \E row \in Row : /\ row.doc = thread[t].draft /\ versions' = Append(versions, row)
                             /\ committed' = Append(committed, [gen |-> gen + 1,
                                                  version |-> Len(versions) + 1, doc |-> row.doc])
<1> DEFINE row == [doc |-> thread[t].draft,
                   source |-> IF thread[t].kind \in {"import", "force"} THEN "import" ELSE "other"]
           new == [gen |-> gen + 1, version |-> Len(versions) + 1, doc |-> thread[t].draft]
<1>1. row \in Row /\ new \in Snapshot /\ row.doc = thread[t].draft
  BY Typed DEF Row, Snapshot, ThreadRow
<1>2. /\ versions' = Append(versions, row) /\ committed' = Append(committed, new)
      /\ gen' = gen + 1 /\ Step(t, Idle) /\ UNCHANGED <<broken, cache, engine, triggers, counts>>
  BY DEF Commit, Leave
<1>3. thread' \in [Threads -> ThreadRow]
  BY <1>2, DefaultTyped, Typed DEF Step
<1> HIDE DEF row
<1>4. versions' \in Seq(Row) /\ Len(versions') = Len(versions) + 1
  BY <1>1, <1>2, Typed, AppendProperties
<1>5. committed' \in Seq(Snapshot) /\ Len(committed') = gen' + 1 /\ gen' \in Nat
  <2> HIDE DEF new
  <2>1. committed' \in Seq(Snapshot) /\ Len(committed') = Len(committed) + 1
    BY <1>1, <1>2, Typed, AppendProperties
  <2> QED
    BY <1>2, <2>1, Typed
<1>6. broken' \subseteq 1 .. Len(versions')
  BY <1>2, <1>4, Typed
<1>7. TypeOK'
  BY <1>2, <1>3, <1>4, <1>5, <1>6, Typed, Retyped DEF triggers, counts
<1> QED
  BY <1>1, <1>2, <1>7

LEMMA UpgradeTyped ==
    ASSUME TypeOK, NEW bad \in SUBSET (1 .. Len(versions)), Upgrade(bad)
    PROVE  /\ TypeOK'
           /\ LET v == Effective(versions)'
              IN committed' = [committed EXCEPT ![gen + 1] =
                                  [gen |-> gen, version |-> v, doc |-> DocOf(versions, v)]]
<1> DEFINE v == Effective(versions)'
           new == [gen |-> gen, version |-> v, doc |-> DocOf(versions, v)]
<1>1. /\ broken' = bad /\ thread' = [t \in Threads |-> Idle]
      /\ cache' = [p \in Processes |-> None] /\ engine' = 0 /\ upgrades' = upgrades + 1
      /\ UNCHANGED <<versions, gen, mishaps>>
  BY DEF Upgrade
<1>2. /\ committed' = [committed EXCEPT ![gen + 1] = new]
      /\ applied' = DocOf(versions, v).title /\ running' = DocOf(versions, v).title
  <2>1. {i \in 1 .. Len(versions) : i \notin bad} = (1 .. Len(versions)) \ bad
    OBVIOUS
  <2>2. v = LET valid == (1 .. Len(versions)) \ bad
            IN IF valid = {} THEN 0 ELSE CHOOSE i \in valid : \A j \in valid : j <= i
    BY <1>1, <2>1 DEF Effective
  <2> HIDE DEF v
  <2> QED
    BY <2>2 DEF Upgrade
<1>3. v \in 0 .. Len(versions) /\ DocOf(versions, v) \in Document
  <2>1. versions' \in Seq(Row)
    BY <1>1, Typed
  <2>2. v \in 0 .. Len(versions') /\ DocOf(versions', v) \in Document
    BY <2>1, EffectiveTypedNext
  <2> QED
    BY <1>1, <2>2
<1>4. new \in Snapshot /\ DocOf(versions, v).title \in Titles
  <2> HIDE DEF v
  <2> QED
    BY <1>3, Typed DEF Snapshot, Document
<1>5. committed' \in Seq(Snapshot) /\ Len(committed') = gen' + 1
  <2> HIDE DEF new
  <2>1. gen + 1 \in 1 .. Len(committed)
    BY Typed
  <2> QED
    BY <1>1, <1>2, <1>4, <2>1, Typed, ExceptSeq
<1>6. thread' \in [Threads -> ThreadRow]
  BY <1>1, DefaultTyped
<1>7. TypeOK'
  <2> HIDE DEF v
  <2> QED
    BY <1>1, <1>2, <1>4, <1>5, <1>6, Typed, Retyped
<1> QED
  BY <1>2, <1>7

-----------------------------------------------------------------------------
(* The snapshots *)

Holds(t) == Reading(t) \/ Writing(t)

StoreInv ==
    /\ committed[gen + 1] = [gen |-> gen, version |-> Effective(versions), doc |-> Current]
    /\ \A t, u \in Threads : t # u /\ Process[t] = Process[u] => ~(Holds(t) /\ Holds(u))
    /\ \A t \in Threads : Reading(t) => thread[t].snap.gen = gen
    /\ \A p \in Processes : cache[p] # None =>
                               cache[p].gen <= gen /\ cache[p] = committed[cache[p].gen + 1]

\* A step of one thread that writes neither the file nor a cache, and takes the lock of its
\* process before it reads or writes.
Moves(t, to) ==
    /\ Step(t, to) /\ UNCHANGED <<file, cache, committed>>
    /\ to.pc \in {"version", "commit"} =>
          LockFree(t) /\ (to.pc = "version" => to.snap.gen = gen)

LEMMA StepKinds ==
    ASSUME TypeOK, [Next]_vars
    PROVE  /\ TypeOK'
           /\ \/ \E t \in Threads, to \in ThreadRow : Moves(t, to)
              \/ \E t \in Threads : ReadVersion(t) \/ Commit(t)
              \/ \E bad \in SUBSET (1 .. Len(versions)) : Upgrade(bad)
              \/ UNCHANGED vars
<1> DEFINE Fine == /\ TypeOK'
                   /\ \/ \E t \in Threads, to \in ThreadRow : Moves(t, to)
                      \/ \E t \in Threads : ReadVersion(t) \/ Commit(t)
                      \/ \E bad \in SUBSET (1 .. Len(versions)) : Upgrade(bad)
                      \/ UNCHANGED vars
<1>0. Requests \subseteq Threads /\ Watch \in Threads
  BY DEF Threads
<1>1. ASSUME NEW t \in Threads, Begin(t) PROVE Fine
  <2>1. PICK to \in ThreadRow :
          /\ Step(t, to) /\ UNCHANGED <<file, cache, engine, triggers, committed, counts>>
          /\ \/ to.pc = "ready"
             \/ to.pc = "version" /\ to.snap.gen = gen
    BY <1>1, BeginTyped
  <2>2. LockFree(t)
    BY <1>1 DEF Begin
  <2>3. TypeOK'
    BY <2>1, Typed, ThreadSteps DEF counts
  <2> QED
    BY <2>1, <2>2, <2>3 DEF Moves
<1>2. ASSUME NEW t \in Threads, ReadVersion(t) PROVE Fine
  <2>1. PICK s \in Snapshot, to \in ThreadRow :
          /\ Step(t, to) /\ cache' = [cache EXCEPT ![Process[t]] = s]
          /\ UNCHANGED <<file, engine, triggers, committed, counts>>
    BY <1>2, ReadTyped
  <2>2. cache' \in [Processes -> Snapshot \union {None}]
    BY <2>1, Typed
  <2>3. TypeOK'
    BY <2>1, <2>2, Typed, ThreadSteps DEF counts
  <2> QED
    BY <1>2, <2>3
<1>3. ASSUME NEW t \in Requests, NEW to \in ThreadRow, Thinks(t, to), mishaps' \in Nat PROVE Fine
  <2>1. TypeOK'
    BY <1>0, <1>3, Typed, ThreadSteps DEF Thinks
  <2> QED
    BY <1>0, <1>3, <2>1 DEF Thinks, Moves
<1>4. ASSUME NEW t \in Threads, BeginWrite(t) \/ Put(t) \/ Reschedule(TRUE) \/ Reschedule(FALSE)
      PROVE  Fine
  BY <1>4, WritesTyped DEF Moves
<1>5. ASSUME NEW t \in Threads, Commit(t) PROVE Fine
  BY <1>5, CommitTyped
<1>6. ASSUME NEW bad \in SUBSET (1 .. Len(versions)), Upgrade(bad) PROVE Fine
  BY <1>6, UpgradeTyped
<1>7. ASSUME UNCHANGED vars PROVE Fine
  <2>1. TypeOK'
    BY <1>7 DEF vars, file, triggers, counts, TypeOK
  <2> QED
    BY <1>7, <2>1
<1>8. ASSUME NEW t \in Requests, Request(t) PROVE Fine
  BY <1>0, <1>1, <1>2, <1>3, <1>4, <1>5, <1>8, RequestsThink DEF Request
<1> HIDE DEF Fine
<1>9. ASSUME WatchPass \/ Reschedule(FALSE) PROVE Fine
  BY <1>0, <1>1, <1>2, <1>4, <1>9 DEF WatchPass
<1>10. Fine
  BY <1>6, <1>7, <1>8, <1>9 DEF Next
<1> QED
  BY <1>10 DEF Fine

\* Every reachable state is well typed, for any settings, threads and bounds.
THEOREM StoreTypeCorrect == Spec => []TypeOK
<1>1. Init => TypeOK
  <2>1. /\ <<>> \in Seq(Row) /\ Len(<<>>) = 0
        /\ <<NoSnapshot>> \in Seq(Snapshot) /\ Len(<<NoSnapshot>>) = 1
    BY DefaultTyped
  <2>2. Default.title \in Titles
    BY SettingsAssumption DEF Default
  <2> QED
    BY <2>1, <2>2, DefaultTyped DEF Init, TypeOK, ThreadRow, Patch, Row
<1>2. TypeOK /\ [Next]_vars => TypeOK'
  BY StepKinds
<1> QED
  BY <1>1, <1>2, PTL DEF Spec

LEMMA MovesKeep ==
    ASSUME TypeOK, StoreInv, NEW t \in Threads, NEW to \in ThreadRow, Moves(t, to)
    PROVE  StoreInv'
<1>1. /\ thread'[t] = to /\ \A u \in Threads \ {t} : thread'[u] = thread[u]
      /\ UNCHANGED <<versions, broken, gen, cache, committed>>
  BY Typed DEF Moves, Step, file
<1>2. UNCHANGED <<Effective(versions), Current>>
  BY <1>1 DEF Effective, Current, DocOf
<1>3. ASSUME NEW u \in Threads, NEW v \in Threads, u # v, Process[u] = Process[v]
      PROVE  ~(Holds(u)' /\ Holds(v)')
  <2>1. CASE u # t /\ v # t
    BY <1>1, <1>3, <2>1 DEF StoreInv, Holds, Reading, Writing
  <2>2. CASE u = t \/ v = t
    BY <1>1, <1>3, <2>2 DEF Moves, LockFree, Holds, Reading, Writing
  <2> QED
    BY <2>1, <2>2
<1>4. ASSUME NEW u \in Threads, Reading(u)' PROVE thread'[u].snap.gen = gen
  BY <1>1, <1>4 DEF Moves, StoreInv, Reading
<1> QED
  BY <1>1, <1>2, <1>3, <1>4 DEF StoreInv

\* A read ends under the generation it began with, and sees no staged row.
LEMMA ReadFinds ==
    ASSUME TypeOK, StoreInv, NEW t \in Threads, ReadVersion(t)
    PROVE  \E s \in Snapshot, to \in ThreadRow :
              /\ s = [gen |-> gen, version |-> Effective(versions), doc |-> Current]
              /\ Step(t, to) /\ to.pc = "ready" /\ to.snap = s
              /\ cache' = [cache EXCEPT ![Process[t]] = s]
              /\ UNCHANGED <<file, engine, triggers, committed, counts>>
<1>1. PICK s \in Snapshot, to \in ThreadRow :
        /\ s.gen = thread[t].snap.gen /\ s.version = Effective(Rows(t))
        /\ s.doc = DocOf(Rows(t), Effective(Rows(t)))
        /\ Step(t, to) /\ to.pc = "ready" /\ to.snap = s
        /\ cache' = [cache EXCEPT ![Process[t]] = s]
        /\ UNCHANGED <<file, engine, triggers, committed, counts>>
  BY ReadTyped
<1>2. Reading(t)
  BY DEF ReadVersion, Reading
<1>3. Staged(t) = {}
  <2>1. \A u \in Threads : Process[u] = Process[t] => ~Writing(u)
    BY <1>2 DEF StoreInv, Holds, Reading, Writing
  <2> QED
    BY <2>1 DEF Staged
<1>4. Rows(t) = versions
  BY <1>3 DEF Rows
<1>5. s = [gen |-> gen, version |-> Effective(versions), doc |-> Current]
  <2>1. s.gen = gen /\ s.version = Effective(versions) /\ s.doc = Current
    BY <1>1, <1>2, <1>4 DEF StoreInv, Current
  <2> QED
    BY <2>1 DEF Snapshot
<1> QED
  BY <1>1, <1>5

LEMMA ReadKeeps ==
    ASSUME TypeOK, StoreInv, NEW t \in Threads, ReadVersion(t)
    PROVE  StoreInv'
<1>1. PICK s \in Snapshot, to \in ThreadRow :
        /\ s = [gen |-> gen, version |-> Effective(versions), doc |-> Current]
        /\ Step(t, to) /\ to.pc = "ready"
        /\ cache' = [cache EXCEPT ![Process[t]] = s]
        /\ UNCHANGED <<file, engine, triggers, committed, counts>>
  BY ReadFinds
<1>6. s = committed[gen + 1] /\ s.gen = gen
  BY <1>1 DEF StoreInv
<1>7. /\ thread'[t] = to /\ \A u \in Threads \ {t} : thread'[u] = thread[u]
      /\ UNCHANGED <<versions, broken, gen, committed>>
  BY <1>1, Typed DEF Step, file
<1>8. UNCHANGED <<Effective(versions), Current>>
  BY <1>7 DEF Effective, Current, DocOf
<1>9. \A p \in Processes : cache'[p] # None =>
          cache'[p].gen <= gen /\ cache'[p] = committed[cache'[p].gen + 1]
  BY <1>1, <1>6, Typed DEF StoreInv
<1>10. \A u \in Threads : Holds(u)' => Holds(u) /\ thread'[u] = thread[u]
  BY <1>1, <1>7 DEF Holds, Reading, Writing
<1> QED
  BY <1>7, <1>8, <1>9, <1>10 DEF StoreInv, Holds, Reading

\* A commit finds nobody reading, and its row is the one in effect.
LEMMA CommitKeeps ==
    ASSUME TypeOK, StoreInv, NEW t \in Threads, Commit(t)
    PROVE  StoreInv'
<1>1. PICK row \in Row :
        /\ row.doc = thread[t].draft /\ versions' = Append(versions, row)
        /\ committed' = Append(committed, [gen |-> gen + 1, version |-> Len(versions) + 1,
                                           doc |-> row.doc])
  BY CommitTyped
<1>2. gen' = gen + 1 /\ Step(t, Idle) /\ broken' = broken /\ cache' = cache
  BY DEF Commit, Leave
<1>3. /\ thread'[t] = Idle /\ Idle.pc = "idle"
      /\ \A u \in Threads \ {t} : thread'[u] = thread[u]
  BY <1>2, Typed DEF Step, Idle
<1>4. \A u \in Threads : ~Reading(u)
  <2>1. Writing(t)
    BY DEF Commit
  <2>2. ASSUME NEW u \in Threads, Process[u] = Process[t] PROVE ~Reading(u)
    BY <2>1, <2>2 DEF StoreInv, Holds, Reading, Writing
  <2> QED
    BY <2>2 DEF Commit, MayCommit
<1>5. \A u \in Threads : ~Reading(u)' /\ (Holds(u)' => Holds(u))
  BY <1>3, <1>4 DEF Holds, Reading, Writing
<1>6. [gen |-> gen + 1, version |-> Len(versions) + 1, doc |-> row.doc] \in Snapshot
  BY Typed DEF Snapshot, Row
<1>7. /\ \A i \in 1 .. gen + 1 : committed'[i] = committed[i]
      /\ committed'[gen' + 1] = [gen |-> gen + 1, version |-> Len(versions) + 1, doc |-> row.doc]
  BY <1>1, <1>2, <1>6, Typed, AppendProperties
<1>8. /\ Effective(versions)' = Effective(Append(versions, row))
      /\ Current' = DocOf(Append(versions, row), Effective(versions)')
  BY <1>1, <1>2 DEF Effective, Current, DocOf
<1>9. Effective(versions)' = Len(versions) + 1 /\ Current' = row.doc
  BY <1>8, Typed, AppendedIsEffective
<1>10. \A p \in Processes : cache[p] # None =>
          cache[p].gen \in Nat /\ cache[p].gen <= gen /\ cache[p].gen + 1 \in 1 .. gen + 1
  BY Typed DEF StoreInv, Snapshot
<1>11. \A p \in Processes : cache'[p] # None =>
          cache'[p].gen <= gen' /\ cache'[p] = committed'[cache'[p].gen + 1]
  <2>1. ASSUME NEW p \in Processes, cache[p] # None
        PROVE  cache[p].gen <= gen' /\ cache[p] = committed'[cache[p].gen + 1]
    <3>1. cache[p] = committed[cache[p].gen + 1]
      BY <2>1 DEF StoreInv
    <3>2. committed[cache[p].gen + 1] = committed'[cache[p].gen + 1]
      BY <1>7, <1>10, <2>1
    <3>3. cache[p].gen <= gen'
      BY <1>2, <1>10, <2>1, Typed
    <3> QED
      BY <3>1, <3>2, <3>3
  <2> QED
    BY <1>2, <2>1
<1> QED
  BY <1>2, <1>5, <1>7, <1>9, <1>11 DEF StoreInv

LEMMA UpgradeKeeps ==
    ASSUME TypeOK, StoreInv, NEW bad \in SUBSET (1 .. Len(versions)), Upgrade(bad)
    PROVE  StoreInv'
<1> DEFINE v == Effective(versions)'
           new == [gen |-> gen, version |-> v, doc |-> DocOf(versions, v)]
<1>1. /\ thread' = [t \in Threads |-> Idle] /\ cache' = [p \in Processes |-> None]
      /\ UNCHANGED <<versions, gen>>
  BY DEF Upgrade
<1>2. committed' = [committed EXCEPT ![gen + 1] = new]
  BY UpgradeTyped
<1>3. gen + 1 \in DOMAIN committed
  BY Typed, LenProperties
<1>4. committed'[gen' + 1] = [gen |-> gen', version |-> v, doc |-> Current']
  <2>1. Current' = DocOf(versions, v)
    BY <1>1 DEF Current, DocOf
  <2> HIDE DEF v
  <2> QED
    BY <1>1, <1>2, <1>3, <2>1
<1>5. \A t \in Threads : ~Holds(t)' /\ ~Reading(t)'
  BY <1>1 DEF Holds, Reading, Writing, Idle
<1> QED
  BY <1>1, <1>4, <1>5 DEF StoreInv

LEMMA StoreHolds == Spec => [](TypeOK /\ StoreInv)
<1>1. Init => TypeOK /\ StoreInv
  <2>1. /\ <<>> \in Seq(Row) /\ Len(<<>>) = 0
        /\ <<NoSnapshot>> \in Seq(Snapshot) /\ Len(<<NoSnapshot>>) = 1
        /\ <<NoSnapshot>>[1] = NoSnapshot
    BY DefaultTyped
  <2>2. Default.title \in Titles
    BY SettingsAssumption DEF Default
  <2>3. Effective(<<>>) = 0 /\ DocOf(<<>>, 0) = Default
    BY <2>1 DEF Effective, DocOf
  <2>4. Init => TypeOK
    BY <2>1, <2>2, DefaultTyped DEF Init, TypeOK, ThreadRow, Patch, Row
  <2>5. Init => \A t \in Threads : ~Holds(t) /\ ~Reading(t)
    BY DEF Init, Holds, Reading, Writing, Idle
  <2>6. Init => committed[gen + 1] = [gen |-> gen, version |-> Effective(versions), doc |-> Current]
    BY <2>1, <2>3 DEF Init, Current, NoSnapshot
  <2>7. Init => \A p \in Processes : cache[p] = None
    BY DEF Init
  <2> QED
    BY <2>4, <2>5, <2>6, <2>7 DEF StoreInv
<1>2. TypeOK /\ StoreInv /\ [Next]_vars => TypeOK' /\ StoreInv'
  <2>1. TypeOK /\ StoreInv /\ UNCHANGED vars => StoreInv'
    BY DEF StoreInv, Holds, Reading, Writing, Current, Effective, DocOf, vars, file
  <2> QED
    BY <2>1, StepKinds, MovesKeep, ReadKeeps, CommitKeeps, UpgradeKeeps
<1> QED
  BY <1>1, <1>2, PTL DEF Spec

\* No process ever works with rows of a transaction that was rolled back, or of two of them,
\* under any lock order of any threads, commits that fail, and releases that reject versions.
THEOREM SnapshotsAreWhole == Spec => []SnapshotsAreCommitted
<1>1. TypeOK /\ StoreInv => SnapshotsAreCommitted
  BY Typed DEF StoreInv, SnapshotsAreCommitted
<1> QED
  BY <1>1, StoreHolds, PTL

-----------------------------------------------------------------------------
(* The edits *)

Mutating == {"section", "row", "source"}

\* What a save whose base is the newest row is of the settings in effect.
Derived(r) ==
    /\ r.kind \in Mutating => r.draft = Patched(Current, r.patch)
    /\ r.kind = "import" => \/ versions[r.base].source = "import"
                            \/ ~Undoes(LastImport(r.base), Current, r.draft)

\* What a thread that edits knows of the rows: a save that names its base was derived from that
\* base if it is still the newest row, and a write is only under way if it is.
Sound(r) ==
    /\ r.base <= Len(versions)
    /\ r.pc = "update" => r.kind \in Mutating
    /\ r.pc = "compare" => r.kind = "import"
    /\ r.pc \in {"save", "commit"} =>
          /\ r.kind \in Mutating => r.base # 0
          /\ r.kind \notin Mutating \union {"import"} => r.base = 0
          /\ r.base # 0 /\ r.base = Len(versions) => Derived(r)
    /\ r.pc = "commit" => r.base = 0 \/ r.base = Len(versions)

EditInv ==
    /\ \A t \in Threads : Sound(thread[t])
    /\ \A t, u \in Threads : Writing(t) /\ Writing(u) => t = u

\* A step of one thread that leaves the rows alone, and writes only if nobody else does.
Edits(t, to) ==
    /\ Step(t, to) /\ Sound(to) /\ UNCHANGED <<versions, broken>>
    /\ to.pc = "commit" => \A u \in Threads : ~Writing(u)

LEMMA IdleSound == ASSUME TypeOK PROVE Sound(Idle)
<1>1. Idle.pc = "idle" /\ Idle.base = 0 /\ Len(versions) \in Nat
  BY Typed DEF Idle
<1> QED
  BY <1>1 DEF Sound

LEMMA SubmitEdits ==
    ASSUME TypeOK, NEW t \in Threads, NEW kind \in {"section", "row", "source"}, Submit(t, kind)
    PROVE  \E to \in ThreadRow : Edits(t, to)
<1>1. PICK patch \in Patches(t, kind) :
        Step(t, [Idle EXCEPT !.pc = "update", !.kind = kind, !.patch = patch])
  BY DEF Submit
<1> DEFINE to == [Idle EXCEPT !.pc = "update", !.kind = kind, !.patch = patch]
<1>2. patch \in Patch
  BY PatchesTyped, Typed DEF ThreadRow, Snapshot
<1>3. to \in ThreadRow /\ to.pc = "update" /\ to.kind = kind /\ to.patch = patch /\ to.base = 0
  BY <1>2, DefaultTyped DEF ThreadRow, Phase, Kind, Idle
<1> HIDE DEF to
<1>4. Sound(to)
  BY <1>3, Typed DEF Sound, Mutating
<1> QED
  BY <1>1, <1>3, <1>4 DEF Edits, Submit, file, to

LEMMA UpdateEdits ==
    ASSUME TypeOK, NEW t \in Threads, Sound(thread[t]), UpdateRead(t)
    PROVE  \E to \in ThreadRow : Edits(t, to)
<1> DEFINE r == thread[t]
           doc == Patched(Current, r.patch)
           to == [r EXCEPT !.pc = "save", !.base = Len(versions), !.draft = doc]
<1>1. /\ r \in ThreadRow /\ Len(versions) \in Nat /\ Current \in Document /\ r.patch \in Patch
      /\ Effective(versions) \in 0 .. Len(versions)
  BY Typed, EffectiveTyped DEF Current, ThreadRow
<1>2. doc \in Document
  BY <1>1, PatchedTyped
<1>3. \/ Step(t, Idle)
      \/ Effective(versions) # 0 /\ Step(t, to)
  BY DEF UpdateRead
<1>4. r.pc = "update" /\ r.kind \in Mutating /\ UNCHANGED <<versions, broken>>
  BY DEF UpdateRead, Sound, file
<1>5. doc = Patched(Current, r.patch)
  OBVIOUS
<1> HIDE DEF doc, r
<1>6. /\ to \in ThreadRow /\ to.pc = "save" /\ to.base = Len(versions) /\ to.draft = doc
      /\ to.kind = r.kind /\ to.patch = r.patch
  BY <1>1, <1>2 DEF ThreadRow, Phase
<1> HIDE DEF to
<1>7. CASE Step(t, Idle)
  BY <1>4, <1>7, DefaultTyped, IdleSound DEF Edits, Idle
<1>8. CASE Effective(versions) # 0 /\ Step(t, to)
  <2>1. Derived(to)
    BY <1>4, <1>5, <1>6 DEF Derived, Mutating
  <2>2. Sound(to)
    BY <1>1, <1>4, <1>6, <1>8, <2>1 DEF Sound
  <2> QED
    BY <1>4, <1>6, <1>8, <2>2 DEF Edits
<1> QED
  BY <1>3, <1>7, <1>8

LEMMA SaveEdits ==
    ASSUME TypeOK, NEW t \in Threads, NEW kind \in Kind \ {"section", "row", "source", "import"},
           NEW doc \in Document, Save(t, kind, doc)
    PROVE  \E to \in ThreadRow : Edits(t, to)
<1> DEFINE to == [Idle EXCEPT !.pc = "save", !.kind = kind, !.draft = doc]
<1>1. to \in ThreadRow /\ to.pc = "save" /\ to.kind = kind /\ to.base = 0
  BY DefaultTyped DEF ThreadRow, Phase, Idle
<1> HIDE DEF to
<1>2. Sound(to)
  BY <1>1, Typed DEF Sound, Mutating
<1> QED
  BY <1>1, <1>2 DEF Edits, Save, file, to

\* An import goes on to its save only if it undoes nothing of what it was compared with.
LEMMA ImportEdits ==
    ASSUME TypeOK, NEW t \in Threads, Sound(thread[t]),
           (\E doc \in Imports : ImportRead(t, doc)) \/ ImportCompare(t)
    PROVE  \E to \in ThreadRow : Edits(t, to)
<1>1. ASSUME NEW doc \in Imports, ImportRead(t, doc) PROVE \E to \in ThreadRow : Edits(t, to)
  <2> DEFINE to == [Idle EXCEPT !.pc = "compare", !.kind = "import", !.base = Len(versions),
                               !.draft = doc]
  <2>1. to \in ThreadRow /\ to.pc = "compare" /\ to.kind = "import" /\ to.base = Len(versions)
    BY DefaultTyped, Typed, SettingsAssumption DEF ThreadRow, Phase, Kind
  <2> HIDE DEF to
  <2>2. Sound(to)
    BY <2>1, Typed DEF Sound
  <2> QED
    BY <1>1, <2>1, <2>2 DEF Edits, ImportRead, file, to
<1>2. CASE ImportCompare(t)
  <2> DEFINE r == thread[t]
             to == [r EXCEPT !.pc = "save"]
             n == r.base
             refused == /\ n > 0 /\ versions[n].source # "import"
                        /\ Undoes(LastImport(n), Current, r.draft)
  <2>1. r \in ThreadRow /\ n \in Nat /\ Len(versions) \in Nat
    BY Typed DEF ThreadRow
  <2>2. r.pc = "compare" /\ r.kind = "import" /\ n <= Len(versions)
    BY <1>2 DEF ImportCompare, Sound
  <2>3. UNCHANGED <<versions, broken>> /\ (Step(t, Idle) \/ (~refused /\ Step(t, to)))
    BY <1>2 DEF ImportCompare, file
  <2>4. /\ to \in ThreadRow /\ to.pc = "save" /\ to.kind = r.kind /\ to.base = r.base
        /\ to.draft = r.draft
    BY <2>1 DEF ThreadRow, Phase
  <2> HIDE DEF to, r
  <2>5. CASE Step(t, Idle)
    BY <2>3, <2>5, DefaultTyped, IdleSound DEF Edits, Idle
  <2>6. CASE ~refused /\ Step(t, to)
    <3>1. to.base # 0 => Derived(to)
      BY <2>1, <2>2, <2>4, <2>6 DEF Derived, Mutating
    <3>2. Sound(to)
      BY <2>1, <2>2, <2>4, <3>1 DEF Sound, Mutating
    <3> QED
      BY <2>3, <2>4, <2>6, <3>2 DEF Edits
  <2> QED
    BY <2>3, <2>5, <2>6
<1> QED
  BY <1>1, <1>2

\* A write begins on the base it was derived from; a stale one is mutated anew or given up.
LEMMA WriteEdits ==
    ASSUME TypeOK, NEW t \in Threads, Sound(thread[t]), BeginWrite(t) \/ RefuseStale(t)
    PROVE  \E to \in ThreadRow : Edits(t, to)
<1> DEFINE r == thread[t]
<1>1. r \in ThreadRow /\ r.base \in Nat /\ Len(versions) \in Nat /\ r.pc = "save"
      /\ UNCHANGED <<versions, broken>> /\ \A u \in Threads : ~Writing(u)
  BY Typed DEF BeginWrite, RefuseStale, MayWrite, ThreadRow, file
<1>2. CASE BeginWrite(t)
  <2> DEFINE to == [r EXCEPT !.pc = "commit", !.attempt = 1]
  <2>1. Step(t, to) /\ (r.base = 0 \/ r.base = Len(versions))
    BY <1>2 DEF BeginWrite, Stale
  <2> HIDE DEF r
  <2>2. /\ to \in ThreadRow /\ to.pc = "commit" /\ to.kind = r.kind /\ to.base = r.base
        /\ to.draft = r.draft /\ to.patch = r.patch
    <3>1. to \in ThreadRow /\ to.pc = "commit"
      BY <1>1, Begun, Zenon
    <3>2. to.kind = r.kind /\ to.base = r.base /\ to.draft = r.draft /\ to.patch = r.patch
      BY <1>1 DEF ThreadRow
    <3> QED
      BY <3>1, <3>2, Zenon
  <2> HIDE DEF to
  <2>3. Sound(r)
    BY DEF r
  <2>4. Derived(r) => Derived(to)
    BY <2>2 DEF Derived
  <2>5. Sound(to)
    BY <1>1, <2>1, <2>2, <2>3, <2>4 DEF Sound
  <2> QED
    BY <1>1, <2>1, <2>2, <2>5 DEF Edits
<1>3. CASE RefuseStale(t)
  <2> DEFINE to == [r EXCEPT !.pc = "update", !.base = 0, !.draft = Default, !.attempt = 2]
  <2>1. r.base # 0 /\ (Step(t, Idle) \/ (r.kind # "import" /\ Step(t, to)))
    BY <1>3 DEF RefuseStale, Stale
  <2>2. Sound(r)
    OBVIOUS
  <2> HIDE DEF r
  <2>3. to \in ThreadRow /\ to.pc = "update" /\ to.kind = r.kind /\ to.base = 0
    <3>1. to \in ThreadRow /\ to.pc = "update"
      BY <1>1, Reread, Zenon
    <3>2. to.kind = r.kind /\ to.base = 0
      BY <1>1 DEF ThreadRow
    <3> QED
      BY <3>1, <3>2, Zenon
  <2> HIDE DEF to
  <2>4. CASE Step(t, Idle)
    BY <1>1, <2>4, DefaultTyped, IdleSound DEF Edits, Idle
  <2>5. CASE r.kind # "import" /\ Step(t, to)
    <3>1. Sound(to)
      BY <1>1, <2>1, <2>2, <2>3, <2>5 DEF Sound
    <3> QED
      BY <1>1, <2>3, <2>5, <3>1 DEF Edits
  <2> QED
    BY <2>1, <2>4, <2>5
<1> QED
  BY <1>2, <1>3

\* Reading a snapshot, building from it, and giving up.
LEMMA OthersEdit ==
    ASSUME TypeOK, NEW t \in Threads, Sound(thread[t]),
           \/ Begin(t) \/ ReadVersion(t) \/ Look(t) \/ Put(t) \/ Rollback(t)
           \/ t = Watch /\ (Reschedule(TRUE) \/ Reschedule(FALSE))
    PROVE  \E to \in ThreadRow : Edits(t, to)
<1>0. thread[t] \in ThreadRow /\ thread[t].base \in Nat /\ Len(versions) \in Nat
      /\ Idle \in ThreadRow /\ Idle.pc = "idle" /\ Idle.base = 0
  BY Typed, DefaultTyped DEF ThreadRow, Idle
<1>1. ASSUME NEW to \in ThreadRow, Step(t, to), UNCHANGED <<versions, broken>>,
             to.pc \in {"ready", "version", "idle", "build"}, to.base \in {0, thread[t].base}
      PROVE  Edits(t, to)
  <2>1. to.base <= Len(versions)
    BY <1>0, <1>1 DEF Sound
  <2>2. Sound(to)
    BY <1>1, <2>1 DEF Sound
  <2> QED
    BY <1>1, <2>2 DEF Edits
<1>2. CASE Begin(t)
  <2>1. PICK to \in ThreadRow :
          Step(t, to) /\ UNCHANGED file /\ to.pc \in {"ready", "version"}
    BY <1>2, BeginTyped
  <2>2. thread' = [thread EXCEPT ![t] = to] /\ to.base = 0
    <3>1. thread'[t] = to /\ thread'[t].base = 0
      BY <1>2, <2>1, Typed DEF Begin, Step, Idle
    <3> QED
      BY <2>1, <3>1 DEF Step
  <2> QED
    BY <1>1, <2>1, <2>2 DEF file
<1>3. CASE ReadVersion(t)
  <2>1. PICK to \in ThreadRow : Step(t, to) /\ UNCHANGED file /\ to.pc = "ready"
    BY <1>3, ReadTyped
  <2>2. to.base = thread[t].base
    <3>1. \E s : Step(t, [thread[t] EXCEPT !.pc = "ready", !.snap = s])
      BY <1>3 DEF ReadVersion
    <3>2. PICK s : thread'[t] = [thread[t] EXCEPT !.pc = "ready", !.snap = s]
      BY <3>1, Typed DEF Step
    <3>3. thread'[t] = to
      BY <2>1, Typed DEF Step
    <3>4. [thread[t] EXCEPT !.pc = "ready", !.snap = s].base = thread[t].base
      BY <1>0 DEF ThreadRow
    <3> QED
      BY <3>2, <3>3, <3>4, Zenon
  <2> QED
    BY <1>1, <2>1, <2>2 DEF file
<1>4. CASE Look(t)
  <2> DEFINE to == [Idle EXCEPT !.pc = "build", !.snap.gen = thread[t].snap.gen]
  <2>1. (Step(t, Idle) \/ Step(t, to)) /\ UNCHANGED file
    BY <1>4 DEF Look
  <2>2. to = [Idle EXCEPT !.pc = "build", !.snap = [NoSnapshot EXCEPT !.gen = thread[t].snap.gen]]
    BY DEF Idle
  <2>3. [NoSnapshot EXCEPT !.gen = thread[t].snap.gen] \in Snapshot
    BY <1>0, DefaultTyped DEF Snapshot, ThreadRow
  <2>4. to \in ThreadRow /\ to.pc = "build" /\ to.base = 0
    BY <1>0, <2>2, <2>3 DEF ThreadRow, Phase
  <2> HIDE DEF to
  <2> QED
    BY <1>0, <1>1, <2>1, <2>4 DEF file
<1>5. CASE \/ Put(t) \/ Rollback(t)
           \/ t = Watch /\ (Reschedule(TRUE) \/ Reschedule(FALSE))
  <2>1. Step(t, Idle) /\ UNCHANGED <<versions, broken>>
    BY <1>5 DEF Put, Rollback, Reschedule, Leave, file
  <2> QED
    BY <1>0, <1>1, <2>1
<1> QED
  BY <1>2, <1>3, <1>4, <1>5

LEMMA EditKinds ==
    ASSUME TypeOK, EditInv, [Next]_vars
    PROVE  \/ \E t \in Threads, to \in ThreadRow : Edits(t, to)
           \/ \E t \in Threads : Commit(t)
           \/ \E bad \in SUBSET (1 .. Len(versions)) : Upgrade(bad)
           \/ UNCHANGED vars
<1>0. Requests \subseteq Threads /\ Watch \in Threads /\ \A t \in Threads : Sound(thread[t])
  BY DEF Threads, EditInv
<1> DEFINE Fine == \/ \E t \in Threads, to \in ThreadRow : Edits(t, to)
                   \/ \E t \in Threads : Commit(t)
                   \/ \E bad \in SUBSET (1 .. Len(versions)) : Upgrade(bad)
                   \/ UNCHANGED vars
<1>1. ASSUME NEW t \in Requests, Request(t) PROVE Fine
  <2>1. CASE \E kind \in {"section", "row", "source"} : Submit(t, kind)
    BY <1>0, <2>1, SubmitEdits
  <2>2. CASE UpdateRead(t)
    BY <1>0, <2>2, UpdateEdits
  <2>3. ASSUME NEW kind \in Kind \ {"section", "row", "source", "import"}, NEW doc \in Document,
               Save(t, kind, doc)
        PROVE  Fine
    BY <1>0, <2>3, SaveEdits
  <2>4. CASE \E v \in 1 .. Len(versions) : Restore(t, v)
    BY <2>3, <2>4, Typed DEF Restore, Kind, Row
  <2>5. CASE \E title \in Titles : Review(t, title)
    <3>1. PICK title \in Titles : Save(t, "review", [thread[t].snap.doc EXCEPT !.title = title])
      BY <2>5 DEF Review
    <3>2. [thread[t].snap.doc EXCEPT !.title = title] \in Document
      BY <1>0, Typed DEF Document, ThreadRow, Snapshot
    <3> QED
      BY <2>3, <3>1, <3>2 DEF Kind
  <2>6. CASE SetUp(t)
    BY <2>3, <2>6, DefaultTyped DEF SetUp, Kind
  <2>7. CASE \E doc \in Imports : ForceImport(t, doc)
    BY <2>3, <2>7, SettingsAssumption DEF ForceImport, Kind
  <2>8. CASE (\E doc \in Imports : ImportRead(t, doc)) \/ ImportCompare(t)
    BY <1>0, <2>8, ImportEdits
  <2>9. CASE BeginWrite(t) \/ RefuseStale(t)
    BY <1>0, <2>9, WriteEdits
  <2>10. CASE Begin(t) \/ ReadVersion(t) \/ Look(t) \/ Put(t) \/ Rollback(t)
    BY <1>0, <2>10, OthersEdit
  <2>11. CASE Commit(t)
    BY <1>0, <2>11
  <2> QED
    BY <1>1, <2>1, <2>2, <2>4, <2>5, <2>6, <2>7, <2>8, <2>9, <2>10, <2>11 DEF Request
<1>2. ASSUME WatchPass \/ Reschedule(FALSE) PROVE Fine
  BY <1>0, <1>2, OthersEdit DEF WatchPass
<1> HIDE DEF Fine
<1>3. (\E bad \in SUBSET (1 .. Len(versions)) : Upgrade(bad)) \/ UNCHANGED vars => Fine
  BY DEF Fine
<1>4. Fine
  BY <1>1, <1>2, <1>3 DEF Next
<1> QED
  BY <1>4 DEF Fine

LEMMA SameRows ==
    ASSUME UNCHANGED <<versions, broken>>
    PROVE  \A r : Sound(r) => Sound(r)'
<1>1. UNCHANGED Current /\ \A n : LastImport(n)' = LastImport(n)
  BY DEF Current, Effective, DocOf, LastImport
<1> QED
  BY <1>1 DEF Sound, Derived, Undoes, Patched

\* Only the thread that moved may have begun to write.
LEMMA EditsKeep ==
    ASSUME TypeOK, EditInv, NEW t \in Threads, NEW to \in ThreadRow, Edits(t, to)
    PROVE  EditInv'
<1>1. /\ thread'[t] = to /\ \A u \in Threads \ {t} : thread'[u] = thread[u]
      /\ UNCHANGED <<versions, broken>>
  BY Typed DEF Edits, Step
<1>3. \A r : Sound(r) => Sound(r)'
  BY <1>1, SameRows
<1>4. \A u \in Threads : Sound(thread'[u])
  BY <1>1 DEF EditInv, Edits
<1>5. \A u \in Threads : Sound(thread[u])'
  BY <1>3, <1>4
<1>6. ASSUME NEW u \in Threads, NEW v \in Threads, Writing(u)', Writing(v)' PROVE u = v
  BY <1>1, <1>6 DEF EditInv, Edits, Writing
<1> QED
  BY <1>5, <1>6 DEF EditInv

\* A new row makes the base of every save under way stale.
LEMMA CommitEdits ==
    ASSUME TypeOK, EditInv, NEW t \in Threads, Commit(t)
    PROVE  EditInv'
<1>1. PICK row \in Row : versions' = Append(versions, row)
  BY CommitTyped
<1>2. /\ thread'[t] = Idle /\ Idle.pc = "idle" /\ Idle.base = 0
      /\ \A u \in Threads \ {t} : thread'[u] = thread[u] /\ ~Writing(u)
  BY Typed DEF Commit, Leave, Step, Idle, EditInv
<1>3. Len(versions) \in Nat /\ Len(versions') = Len(versions) + 1
  BY <1>1, Typed, AppendProperties
<1>4. ASSUME NEW u \in Threads PROVE Sound(thread[u])'
  <2>1. CASE u = t
    BY <1>2, <1>3, <2>1 DEF Sound
  <2>2. CASE u # t
    <3>1. /\ Sound(thread[u]) /\ thread'[u] = thread[u] /\ thread[u].pc # "commit"
          /\ thread[u].base \in Nat
      BY <1>2, <2>2, Typed DEF EditInv, Writing, ThreadRow
    <3> QED
      BY <1>3, <3>1 DEF Sound
  <2> QED
    BY <2>1, <2>2
<1>5. \A u \in Threads : ~Writing(u)'
  BY <1>2 DEF Writing
<1> QED
  BY <1>4, <1>5 DEF EditInv

LEMMA UpgradeEdits ==
    ASSUME TypeOK, NEW bad \in SUBSET (1 .. Len(versions)), Upgrade(bad)
    PROVE  EditInv'
<1>1. thread' = [t \in Threads |-> Idle] /\ versions' = versions
  BY DEF Upgrade
<1>2. Idle.pc = "idle" /\ Idle.base = 0 /\ Len(versions) \in Nat
  BY Typed DEF Idle
<1> QED
  BY <1>1, <1>2 DEF EditInv, Sound, Writing

LEMMA EditsAreSound == Spec => [](TypeOK /\ EditInv)
<1>1. Init => EditInv
  <2>1. Init => thread = [t \in Threads |-> Idle] /\ Len(versions) = 0
    BY DefaultTyped DEF Init
  <2>2. Idle.pc = "idle" /\ Idle.base = 0
    BY DEF Idle
  <2> QED
    BY <2>1, <2>2 DEF EditInv, Sound, Writing
<1>2. TypeOK /\ EditInv /\ [Next]_vars => EditInv'
  <2>1. TypeOK /\ EditInv /\ UNCHANGED vars => EditInv'
    BY SameRows DEF vars, file, EditInv, Writing
  <2> QED
    BY <2>1, EditKinds, EditsKeep, CommitEdits, UpgradeEdits
<1> QED
  BY <1>1, <1>2, StoreTypeCorrect, PTL DEF Spec

\* A commit puts its draft into effect.
LEMMA CommitApplies ==
    ASSUME TypeOK, EditInv, NEW t \in Threads, Commit(t)
    PROVE  /\ Current' = thread[t].draft
           /\ thread[t].base # 0 => thread[t].base = Len(versions) /\ Derived(thread[t])
<1>1. Sound(thread[t]) /\ thread[t].pc = "commit" /\ broken' = broken
  BY DEF EditInv, Commit, Writing
<1>2. PICK row \in Row : row.doc = thread[t].draft /\ versions' = Append(versions, row)
  BY CommitTyped
<1>3. /\ Effective(versions)' = Effective(Append(versions, row))
      /\ Current' = DocOf(Append(versions, row), Effective(versions)')
  BY <1>1, <1>2 DEF Effective, Current, DocOf
<1>4. Current' = row.doc
  BY <1>3, Typed, AppendedIsEffective
<1> QED
  BY <1>1, <1>2, <1>4 DEF Sound

\* The only step of a save is its commit.
LEMMA SavesCommit ==
    ASSUME TypeOK, EditInv, [Next]_vars, NEW t \in Requests, Saves(t)
    PROVE  Commit(t)
<1>0. t \in Threads /\ Len(versions) \in Nat
  BY Typed DEF Threads
<1>1. PICK u \in Threads : Commit(u)
  <2>1. versions' # versions
    BY <1>0 DEF Saves
  <2> QED
    BY <2>1, EditKinds DEF Edits, Upgrade, vars, file
<1>2. u = t
  BY <1>0, <1>1 DEF EditInv, Saves, Commit
<1> QED
  BY <1>1, <1>2

\* Settings in effect that the newest row is an import of are what that import said.
LEMMA NothingToUndo ==
    ASSUME TypeOK, Len(versions) # 0, Len(versions) \notin broken,
           versions[Len(versions)].source = "import", NEW doc \in Document
    PROVE  ~Undoes(LastImport(Len(versions)), Current, doc)
<1> DEFINE n == Len(versions)
           valid == {i \in 1 .. n : i \notin broken}
           is == {i \in 1 .. n : versions[i].source = "import"}
<1>1. n \in Nat /\ n \in valid /\ n \in is /\ versions[n].doc \in Document
  BY Typed DEF Row
<1>2. ASSUME NEW S, S \subseteq 1 .. n, n \in S
      PROVE  S # {} /\ (CHOOSE i \in S : \A j \in S : j <= i) = n
  <2>1. \A i \in S : (\A j \in S : j <= i) => i = n
    BY <1>1, <1>2
  <2>2. \A j \in S : j <= n
    BY <1>1, <1>2
  <2> HIDE DEF n
  <2> QED
    BY <1>2, <2>1, <2>2
<1>3. Current = versions[n].doc
  <2>1. valid # {} /\ (CHOOSE i \in valid : \A j \in valid : j <= i) = n
    BY <1>1, <1>2
  <2>2. Effective(versions) = n
    BY <2>1 DEF Effective
  <2> QED
    BY <1>1, <2>2 DEF Current, DocOf
<1>4. LastImport(n) = versions[n].doc
  <2>1. is # {} /\ (CHOOSE i \in is : \A j \in is : j <= i) = n
    BY <1>1, <1>2
  <2>2. LastImport(n) = IF is = {} THEN None
                        ELSE LET i == CHOOSE i \in is : \A j \in is : j <= i
                             IN  IF i \in broken THEN None ELSE versions[i].doc
    BY DEF LastImport
  <2> HIDE DEF is, n
  <2>3. n \notin broken
    BY DEF n
  <2> QED
    BY <2>1, <2>2, <2>3
<1>5. LastImport(n) # None
  BY <1>1, <1>4, SettingsAssumption
<1> QED
  BY <1>3, <1>4, <1>5 DEF Undoes

\* No import that names a base version undoes what was saved since the import before it, also
\* when it was saved while this one was under way.
THEOREM ImportsAreHarmless == Spec => ImportsUndoNothing
<1>1. ASSUME TypeOK, EditInv, [Next]_vars, NEW t \in Requests, Saves(t),
             thread[t].kind = "import", thread[t].base # 0, Len(versions) \notin broken
      PROVE  ~Undoes(LastImport(Len(versions)), Current, Current')
  <2>1. Current' = thread[t].draft /\ thread[t].base = Len(versions) /\ Derived(thread[t])
    BY <1>1, SavesCommit, CommitApplies DEF Threads
  <2>2. thread[t].draft \in Document
    BY <1>1, Typed DEF Threads, ThreadRow
  <2> QED
    BY <1>1, <2>1, <2>2, NothingToUndo DEF Derived
<1>2. TypeOK /\ EditInv /\ [Next]_vars =>
        [\A t \in Requests :
            Saves(t) /\ thread[t].kind = "import" /\ thread[t].base # 0
               /\ Len(versions) \notin broken
            => ~Undoes(LastImport(Len(versions)), Current, Current')]_vars
  BY <1>1
<1> QED
  BY <1>2, EditsAreSound, PTL DEF Spec, ImportsUndoNothing

\* The web process never trades an object built from newer settings for one that a slower
\* request built from older ones; only a release, which restarts it, starts over.
THEOREM EnginesOnlyAdvance == Spec => EnginesMoveForward
<1>1. ASSUME TypeOK, [Next]_vars, upgrades' = upgrades PROVE engine' >= engine
  <2>1. engine \in Nat /\ upgrades \in Nat
    BY <1>1, Typed
  <2>2. ASSUME NEW t \in Threads, Put(t) PROVE engine' >= engine
    <3>1. thread[t] \in ThreadRow
      BY <1>1, Typed
    <3>2. thread[t].snap.gen \in Nat
      BY <3>1 DEF ThreadRow, Snapshot
    <3> QED
      BY <2>1, <2>2, <3>2 DEF Put, Kept
  <2>3. ASSUME NEW bad \in SUBSET (1 .. Len(versions)), Upgrade(bad) PROVE FALSE
    BY <1>1, <2>1, <2>3 DEF Upgrade
  <2>4. ASSUME NEW t \in Requests, Request(t) PROVE Put(t) \/ engine' = engine
    BY ZenonT(30), <2>4
       DEF Request, Begin, ReadVersion, Submit, UpdateRead, Restore, Review, SetUp, Save,
           ForceImport, ImportRead, ImportCompare, BeginWrite, RefuseStale, Commit,
           Rollback, Look
  <2>5. WatchPass \/ Reschedule(FALSE) => engine' = engine
    BY DEF WatchPass, Begin, ReadVersion, Reschedule
  <2>6. engine' = engine => engine' >= engine
    BY <2>1
  <2>7. CASE Next
    BY <2>2, <2>3, <2>4, <2>5, <2>6, <2>7 DEF Next, Threads
  <2> QED
    BY <1>1, <2>6, <2>7 DEF vars
<1>2. TypeOK /\ [Next]_vars => [upgrades' = upgrades => engine' >= engine]_vars
  BY <1>1
<1> QED
  BY <1>2, StoreTypeCorrect, PTL DEF Spec, EnginesMoveForward

-----------------------------------------------------------------------------
(* Refinement of the register *)

RegisterMoves == [Register!Next]_(Register!register)

\* What a row of a thread is to the register.
LEMMA RowTells ==
    ASSUME NEW r \in ThreadRow
    PROVE  /\ r.pc = "ready" => /\ Seen(r) = [stamp |-> r.snap.gen, document |-> r.snap.doc]
                                /\ Seen(r) # None /\ Wanted(r) = None
           /\ r.pc # "ready" => Seen(r) = None
           /\ r.pc \in {"idle", "version", "build"} => Wanted(r) = None
           /\ r.pc \in {"update", "compare", "save", "commit"} =>
                 /\ r.kind \in Mutating => Wanted(r) = r.patch
                 /\ r.kind \notin Mutating =>
                       Wanted(r) = [title |-> r.draft.title, boards |-> r.draft.boards, plus |-> {}]
                 /\ Wanted(r) \in Register!Orders /\ Wanted(r) # None
<1>1. r.snap.gen \in Nat /\ r.snap.doc \in Document /\ r.patch \in Patch /\ r.draft \in Document
  BY DEF ThreadRow, Snapshot
<1>2. [title |-> r.draft.title, boards |-> r.draft.boards, plus |-> {}] \in Patch
  BY <1>1 DEF Patch, Document
<1>3. Register!Orders = Patch /\ None \notin Patch /\ None \notin [stamp: Nat, document: Document]
  BY SettingsAssumption DEF Register!Orders, Patch
<1>4. Seen(r) = IF r.pc = "ready" THEN [stamp |-> r.snap.gen, document |-> r.snap.doc] ELSE None
  BY DEF Seen
<1>5. r.pc \notin {"update", "compare", "save", "commit"} => Wanted(r) = None
  BY DEF Wanted
<1>6. r.pc \in {"update", "compare", "save", "commit"} =>
        /\ r.kind \in Mutating => Wanted(r) = r.patch
        /\ r.kind \notin Mutating =>
              Wanted(r) = [title |-> r.draft.title, boards |-> r.draft.boards, plus |-> {}]
  BY DEF Wanted, Mutating
<1>7. r.pc = "ready" => Seen(r) # None
  BY <1>1, <1>3, <1>4
<1>8. r.pc \in {"update", "compare", "save", "commit"} =>
        Wanted(r) \in Register!Orders /\ Wanted(r) # None
  BY <1>1, <1>2, <1>3, <1>6
<1> QED
  BY <1>4, <1>5, <1>6, <1>7, <1>8

\* What a step of one thread that leaves the file alone may be to the register.
Tells(r, to) ==
    \/ Seen(to) = Seen(r) /\ Wanted(to) = Wanted(r)
    \/ /\ Seen(r) = None /\ Seen(to) = [stamp |-> gen, document |-> Current]
       /\ Wanted(r) = None /\ Wanted(to) = None
    \/ Seen(r) # None /\ Seen(to) = None /\ Wanted(to) = Wanted(r)
    \/ /\ Seen(r) # None /\ Seen(to) = None
       /\ Wanted(to) \in Register!Orders /\ Register!Fits(Wanted(to), Seen(r).document)
    \/ Wanted(r) # None /\ Wanted(to) = None /\ Seen(to) = Seen(r)

LEMMA TellsRegister ==
    ASSUME TypeOK, NEW t \in Threads, NEW to \in ThreadRow, Step(t, to), UNCHANGED file,
           Tells(thread[t], to)
    PROVE  RegisterMoves
<1> DEFINE view == [u \in Threads |-> Seen(thread[u])]
           order == [u \in Threads |-> Wanted(thread[u])]
           r == thread[t]
<1>1. UNCHANGED <<Current, gen>>
  BY DEF file, Current, Effective, DocOf
<1>2. thread'[t] = to /\ \A u \in Threads \ {t} : thread'[u] = thread[u]
  BY Typed DEF Step
<1>3. /\ view[t] = Seen(r) /\ view' = [view EXCEPT ![t] = Seen(to)]
      /\ order[t] = Wanted(r) /\ order' = [order EXCEPT ![t] = Wanted(to)]
      /\ view'[t] = Seen(to) /\ order'[t] = Wanted(to)
      /\ Seen(to) = Seen(r) => view' = view
      /\ Wanted(to) = Wanted(r) => order' = order
  BY <1>2
<1>4. Tells(r, to)
  OBVIOUS
<1> HIDE DEF view, order, r
<1>5. CASE Seen(to) = Seen(r) /\ Wanted(to) = Wanted(r)
  BY <1>1, <1>3, <1>5 DEF RegisterMoves, Register!register, view, order
<1>6. CASE /\ Seen(r) = None /\ Seen(to) = [stamp |-> gen, document |-> Current]
           /\ Wanted(r) = None /\ Wanted(to) = None
  <2>1. Register!Look(t)
    BY <1>1, <1>3, <1>6 DEF Register!Look, view, order
  <2> QED
    BY <2>1 DEF RegisterMoves, Register!Next
<1>7. CASE Seen(r) # None /\ Seen(to) = None /\ Wanted(to) = Wanted(r)
  <2>1. Register!LookAway(t)
    BY <1>1, <1>3, <1>7 DEF Register!LookAway, view, order
  <2> QED
    BY <2>1 DEF RegisterMoves, Register!Next
<1>8. CASE /\ Seen(r) # None /\ Seen(to) = None
           /\ Wanted(to) \in Register!Orders /\ Register!Fits(Wanted(to), Seen(r).document)
  <2>1. Register!Ask(t)
    BY <1>1, <1>3, <1>8 DEF Register!Ask, view, order
  <2> QED
    BY <2>1 DEF RegisterMoves, Register!Next
<1>9. CASE Wanted(r) # None /\ Wanted(to) = None /\ Seen(to) = Seen(r)
  <2>1. Register!GiveUp(t)
    BY <1>1, <1>3, <1>9 DEF Register!GiveUp, view, order
  <2> QED
    BY <2>1 DEF RegisterMoves, Register!Next
<1> QED
  BY <1>4, <1>5, <1>6, <1>7, <1>8, <1>9 DEF Tells

\* Reads: what a thread goes on to work with is in effect at that moment.
LEMMA ReadsTell ==
    ASSUME TypeOK, StoreInv, NEW t \in Threads, Begin(t) \/ ReadVersion(t)
    PROVE  \E to \in ThreadRow : Step(t, to) /\ UNCHANGED file /\ Tells(thread[t], to)
<1>0. thread[t] \in ThreadRow
  BY Typed
<1>1. CASE Begin(t)
  <2> DEFINE hit == cache[Process[t]]
             known == [Idle EXCEPT !.pc = "ready", !.snap = hit]
             reads == [Idle EXCEPT !.pc = "version", !.snap.gen = gen]
  <2>1. thread[t].pc = "idle" /\ UNCHANGED file
    BY <1>1 DEF Begin
  <2>2. CASE hit # None /\ hit.gen = gen
    <3>1. Step(t, known) /\ Process[t] \in Processes
      BY <1>1, <2>2 DEF Begin, Processes
    <3>2. hit \in Snapshot /\ hit = committed[gen + 1]
      BY <2>2, <3>1, Typed DEF StoreInv
    <3>3. hit.gen = gen /\ hit.doc = Current
      BY <3>2 DEF StoreInv
    <3> HIDE DEF hit
    <3>4. known \in ThreadRow /\ known.pc = "ready" /\ known.snap = hit
      BY <3>2, DefaultTyped DEF ThreadRow, Phase
    <3> HIDE DEF known
    <3>5. Tells(thread[t], known)
      BY <1>0, <2>1, <3>3, <3>4, RowTells DEF Tells
    <3> QED
      BY <2>1, <3>1, <3>4, <3>5
  <2>3. CASE ~(hit # None /\ hit.gen = gen)
    <3>1. Step(t, reads)
      BY <1>1, <2>3 DEF Begin
    <3>2. reads = [Idle EXCEPT !.pc = "version", !.snap = [NoSnapshot EXCEPT !.gen = gen]]
      BY DEF Idle
    <3>3. [NoSnapshot EXCEPT !.gen = gen] \in Snapshot
      BY DefaultTyped, Typed DEF Snapshot
    <3>4. reads \in ThreadRow /\ reads.pc = "version"
      BY <3>2, <3>3, DefaultTyped DEF ThreadRow, Phase
    <3> HIDE DEF reads
    <3>5. Tells(thread[t], reads)
      BY <1>0, <2>1, <3>4, RowTells DEF Tells
    <3> QED
      BY <2>1, <3>1, <3>4, <3>5
  <2> QED
    BY <2>2, <2>3
<1>2. CASE ReadVersion(t)
  <2>1. PICK s \in Snapshot, to \in ThreadRow :
          /\ s = [gen |-> gen, version |-> Effective(versions), doc |-> Current]
          /\ Step(t, to) /\ to.pc = "ready" /\ to.snap = s /\ UNCHANGED file
    BY <1>2, ReadFinds
  <2>2. to.snap.gen = gen /\ to.snap.doc = Current /\ thread[t].pc = "version"
    BY <1>2, <2>1 DEF ReadVersion
  <2>3. Tells(thread[t], to)
    BY <1>0, <2>1, <2>2, RowTells DEF Tells
  <2> QED
    BY <2>1, <2>3
<1> QED
  BY <1>1, <1>2

\* A form asks for what fits the snapshot its page was made of.
LEMMA SubmitTells ==
    ASSUME TypeOK, NEW t \in Threads, NEW kind \in Mutating, Submit(t, kind)
    PROVE  \E to \in ThreadRow : Step(t, to) /\ UNCHANGED file /\ Tells(thread[t], to)
<1> DEFINE seen == thread[t].snap.doc
<1>1. PICK patch \in Patches(t, kind) :
        Step(t, [Idle EXCEPT !.pc = "update", !.kind = kind, !.patch = patch])
  BY DEF Submit
<1> DEFINE to == [Idle EXCEPT !.pc = "update", !.kind = kind, !.patch = patch]
<1>2. thread[t] \in ThreadRow /\ thread[t].pc = "ready" /\ seen \in Document /\ UNCHANGED file
  BY Typed DEF Submit, Does, ThreadRow, Snapshot
<1>3. patch \in Patch
  BY <1>2, PatchesTyped DEF Mutating
<1>4. to \in ThreadRow /\ to.pc = "update" /\ to.kind = kind /\ to.patch = patch
  BY <1>3, DefaultTyped DEF ThreadRow, Phase, Kind, Mutating
<1>5. NoPatch \in Patch /\ NoPatch.title = Keep /\ NoPatch.boards = Keep /\ NoPatch.plus = {}
  BY DEF NoPatch, Patch
<1>6. Register!Fits(patch, seen)
  <2>1. CASE kind = "section"
    <3>1. PICK title \in Titles : patch = SectionPatch(t, title)
      BY <1>1, <2>1 DEF Patches
    <3>2. patch.boards = Keep /\ patch.plus = {}
      BY <1>5, <3>1 DEF SectionPatch, Patch
    <3> QED
      BY <3>2 DEF Register!Fits
  <2>2. CASE kind = "row"
    <3>1. PICK e \in Entries : patch = AddRow(t, e) \/ patch = RemoveRow(t, e)
      BY <1>1, <1>2, <2>2 DEF Patches, Document
    <3>2. /\ patch.title = Keep /\ patch.plus = {}
          /\ patch.boards = seen.boards \union {e} \/ patch.boards = seen.boards \ {e}
      BY <1>5, <3>1 DEF AddRow, RemoveRow, Patch
    <3> QED
      BY <3>2 DEF Register!Fits
  <2>3. CASE kind = "source"
    <3>1. PICK e \in Entries : patch = Append1(t, e)
      BY <1>1, <2>3 DEF Patches
    <3>2. patch.title = Keep /\ patch.boards = Keep /\ patch.plus = {e}
      BY <1>5, <3>1 DEF Append1, Patch
    <3> QED
      BY <3>2 DEF Register!Fits
  <2> QED
    BY <2>1, <2>2, <2>3 DEF Mutating
<1> HIDE DEF to
<1>7. /\ Seen(thread[t]) # None /\ Seen(thread[t]).document = seen
      /\ Seen(to) = None /\ Wanted(to) = patch /\ Wanted(to) \in Register!Orders
  <2>1. Seen(thread[t]) # None
        /\ Seen(thread[t]) = [stamp |-> thread[t].snap.gen, document |-> seen]
    BY <1>2, RowTells
  <2>2. Seen(to) = None /\ Wanted(to) = patch /\ Wanted(to) \in Register!Orders
    BY <1>4, RowTells
  <2> QED
    BY <2>1, <2>2
<1>8. Tells(thread[t], to)
  BY <1>6, <1>7 DEF Tells
<1> QED
  BY <1>1, <1>2, <1>4, <1>8 DEF to

\* A document fits whatever was seen.
LEMMA DocumentTells ==
    ASSUME TypeOK, NEW t \in Threads, thread[t].pc = "ready", NEW to \in ThreadRow,
           to.pc \in {"compare", "save"}, to.kind \notin Mutating
    PROVE  Tells(thread[t], to)
<1>1. to.draft.title \in Titles /\ to.draft.boards \in SUBSET Entries /\ thread[t] \in ThreadRow
  BY Typed DEF ThreadRow, Document
<1>2. Seen(thread[t]) # None /\ Seen(to) = None /\ Wanted(to) \in Register!Orders
      /\ Wanted(to) = [title |-> to.draft.title, boards |-> to.draft.boards, plus |-> {}]
  BY <1>1, RowTells
<1>3. Register!Fits(Wanted(to), Seen(thread[t]).document)
  BY <1>1, <1>2, SettingsAssumption DEF Register!Fits
<1> QED
  BY <1>2, <1>3 DEF Tells

LEMMA SaveTells ==
    ASSUME TypeOK, NEW t \in Threads,
           \/ \E v \in 1 .. Len(versions) : Restore(t, v)
           \/ \E title \in Titles : Review(t, title)
           \/ SetUp(t) \/ \E doc \in Imports : ForceImport(t, doc) \/ ImportRead(t, doc)
    PROVE  \E to \in ThreadRow : Step(t, to) /\ UNCHANGED file /\ Tells(thread[t], to)
<1> DEFINE Fine == \E to \in ThreadRow : Step(t, to) /\ UNCHANGED file /\ Tells(thread[t], to)
<1>1. ASSUME NEW kind \in Kind \ (Mutating \union {"import"}), NEW doc \in Document,
             Does(t, kind), Save(t, kind, doc)
      PROVE  Fine
  <2> DEFINE to == [Idle EXCEPT !.pc = "save", !.kind = kind, !.draft = doc]
  <2>1. Step(t, to) /\ UNCHANGED file /\ thread[t].pc = "ready"
    BY <1>1 DEF Save, Does
  <2>2. to \in ThreadRow /\ to.pc = "save" /\ to.kind = kind
    BY DefaultTyped DEF ThreadRow, Phase
  <2> HIDE DEF to
  <2> QED
    BY <2>1, <2>2, DocumentTells
<1>2. ASSUME NEW doc \in Imports, ImportRead(t, doc) PROVE Fine
  <2> DEFINE to == [Idle EXCEPT !.pc = "compare", !.kind = "import", !.base = Len(versions),
                               !.draft = doc]
  <2>1. Step(t, to) /\ UNCHANGED file /\ thread[t].pc = "ready"
    BY <1>2 DEF ImportRead, Does
  <2>2. to \in ThreadRow /\ to.pc = "compare" /\ to.kind = "import"
    BY DefaultTyped, Typed, SettingsAssumption DEF ThreadRow, Phase, Kind
  <2> HIDE DEF to
  <2> QED
    BY <2>1, <2>2, DocumentTells DEF Mutating
<1>3. ASSUME NEW v \in 1 .. Len(versions), Restore(t, v) PROVE Fine
  BY <1>1, <1>3, Typed DEF Restore, Kind, Mutating, Row
<1>4. ASSUME NEW title \in Titles, Review(t, title) PROVE Fine
  <2>1. [thread[t].snap.doc EXCEPT !.title = title] \in Document
    BY Typed DEF Document, ThreadRow, Snapshot
  <2> QED
    BY <1>1, <1>4, <2>1 DEF Review, Kind, Mutating
<1>5. CASE SetUp(t)
  BY <1>1, <1>5, DefaultTyped DEF SetUp, Kind, Mutating
<1>6. ASSUME NEW doc \in Imports, ForceImport(t, doc) PROVE Fine
  BY <1>1, <1>6, SettingsAssumption DEF ForceImport, Kind, Mutating
<1> QED
  BY <1>2, <1>3, <1>4, <1>5, <1>6

\* Until it is committed or given up, what a thread wants stays what it asked for, also when
\* it has to read and mutate once more.
LEMMA WaitsTell ==
    ASSUME TypeOK, EditInv, NEW t \in Threads,
           UpdateRead(t) \/ ImportCompare(t) \/ BeginWrite(t) \/ RefuseStale(t) \/ Rollback(t)
    PROVE  \E to \in ThreadRow : Step(t, to) /\ UNCHANGED file /\ Tells(thread[t], to)
<1> DEFINE r == thread[t]
           Same(to) == /\ to.pc \in {"update", "compare", "save", "commit"} /\ to.kind = r.kind
                        /\ IF r.kind \in Mutating THEN to.patch = r.patch ELSE to.draft = r.draft
<1>1. /\ r \in ThreadRow /\ r.pc \in {"update", "compare", "save", "commit"} /\ UNCHANGED file
      /\ Sound(r) /\ Idle \in ThreadRow /\ Idle.pc = "idle"
  BY Typed, DefaultTyped
     DEF UpdateRead, ImportCompare, BeginWrite, RefuseStale, Rollback, Writing, EditInv, Idle
<1>2. ASSUME NEW to \in ThreadRow, Same(to) PROVE Tells(r, to)
  <2> HIDE DEF r
  <2>1. Seen(r) = None /\ Seen(to) = None
    BY <1>1, <1>2, RowTells
  <2>2. Wanted(r) = Wanted(to)
    <3>1. CASE r.kind \in Mutating
      BY <1>1, <1>2, <3>1, RowTells
    <3>2. CASE r.kind \notin Mutating
      BY <1>1, <1>2, <3>2, RowTells
    <3> QED
      BY <3>1, <3>2
  <2> QED
    BY <2>1, <2>2 DEF Tells
<1>3. Tells(r, Idle)
  BY <1>1, RowTells DEF Tells
<1>4. CASE UpdateRead(t)
  <2> DEFINE doc == Patched(Current, r.patch)
             to == [r EXCEPT !.pc = "save", !.base = Len(versions), !.draft = doc]
  <2>1. doc \in Document /\ Len(versions) \in Nat
    BY <1>1, Typed, EffectiveTyped, PatchedTyped DEF Current, ThreadRow
  <2>2. (Step(t, Idle) \/ Step(t, to)) /\ r.kind \in Mutating
    BY <1>1, <1>4 DEF UpdateRead, Sound
  <2> HIDE DEF r, doc
  <2>3. to \in ThreadRow /\ to.pc = "save" /\ to.kind = r.kind /\ to.patch = r.patch
    BY <1>1, <2>1 DEF ThreadRow, Phase
  <2> HIDE DEF to
  <2> QED
    BY <1>1, <1>2, <1>3, <2>2, <2>3 DEF r
<1>5. CASE ImportCompare(t)
  <2> DEFINE to == [r EXCEPT !.pc = "save"]
  <2>1. (Step(t, Idle) \/ Step(t, to)) /\ r.kind \notin Mutating
    BY <1>1, <1>5 DEF ImportCompare, Sound, Mutating
  <2> HIDE DEF r
  <2>2. to \in ThreadRow /\ to.pc = "save" /\ to.kind = r.kind /\ to.draft = r.draft
    BY <1>1 DEF ThreadRow, Phase
  <2> HIDE DEF to
  <2> QED
    BY <1>1, <1>2, <1>3, <2>1, <2>2 DEF r
<1>6. CASE BeginWrite(t)
  <2> DEFINE to == [r EXCEPT !.pc = "commit", !.attempt = 1]
  <2>1. Step(t, to)
    BY <1>6 DEF BeginWrite
  <2> HIDE DEF r
  <2>2. to \in ThreadRow /\ to.pc = "commit"
    BY <1>1, Begun, Zenon
  <2>3. to.kind = r.kind /\ to.draft = r.draft /\ to.patch = r.patch
    BY <1>1 DEF ThreadRow
  <2> HIDE DEF to
  <2> QED
    BY <1>1, <1>2, <2>1, <2>2, <2>3 DEF r
<1>7. CASE RefuseStale(t)
  <2> DEFINE to == [r EXCEPT !.pc = "update", !.base = 0, !.draft = Default, !.attempt = 2]
  <2>1. Step(t, Idle) \/ (r.kind \in Mutating /\ Step(t, to))
    BY <1>1, <1>7 DEF RefuseStale, Stale, Sound
  <2> HIDE DEF r
  <2>2. to \in ThreadRow /\ to.pc = "update"
    BY <1>1, Reread, Zenon
  <2>3. to.kind = r.kind /\ to.patch = r.patch
    BY <1>1 DEF ThreadRow
  <2> HIDE DEF to
  <2> QED
    BY <1>1, <1>2, <1>3, <2>1, <2>2, <2>3 DEF r
<1>8. CASE Rollback(t)
  BY <1>1, <1>3, <1>8 DEF Rollback, Leave
<1> QED
  BY <1>4, <1>5, <1>6, <1>7, <1>8

\* What is built from a snapshot asks for nothing.
LEMMA LooksTell ==
    ASSUME TypeOK, NEW t \in Threads,
           Look(t) \/ Put(t) \/ (t = Watch /\ (Reschedule(TRUE) \/ Reschedule(FALSE)))
    PROVE  \E to \in ThreadRow : Step(t, to) /\ UNCHANGED file /\ Tells(thread[t], to)
<1>1. /\ thread[t] \in ThreadRow /\ thread[t].pc \in {"ready", "build"} /\ UNCHANGED file
      /\ Idle \in ThreadRow /\ Idle.pc = "idle"
  BY Typed, DefaultTyped DEF Look, Does, Put, Reschedule, Idle
<1>2. ASSUME NEW to \in ThreadRow, to.pc \in {"idle", "build"} PROVE Tells(thread[t], to)
  BY <1>1, <1>2, RowTells DEF Tells
<1>3. CASE Look(t)
  <2> DEFINE to == [Idle EXCEPT !.pc = "build", !.snap.gen = thread[t].snap.gen]
  <2>1. Step(t, Idle) \/ Step(t, to)
    BY <1>3 DEF Look
  <2>2. to = [Idle EXCEPT !.pc = "build", !.snap = [NoSnapshot EXCEPT !.gen = thread[t].snap.gen]]
    BY DEF Idle
  <2>3. [NoSnapshot EXCEPT !.gen = thread[t].snap.gen] \in Snapshot
    BY <1>1, DefaultTyped DEF Snapshot, ThreadRow
  <2>4. to \in ThreadRow /\ to.pc = "build"
    BY <2>2, <2>3, DefaultTyped DEF ThreadRow, Phase
  <2> HIDE DEF to
  <2> QED
    BY <1>1, <1>2, <2>1, <2>4
<1>4. CASE Put(t) \/ (t = Watch /\ (Reschedule(TRUE) \/ Reschedule(FALSE)))
  BY <1>1, <1>2, <1>4 DEF Put, Reschedule, Leave
<1> QED
  BY <1>3, <1>4

\* The commit is the save: on the settings it replaces.
LEMMA CommitSaves ==
    ASSUME TypeOK, EditInv, NEW t \in Threads, Commit(t)
    PROVE  RegisterMoves
<1> DEFINE view == [u \in Threads |-> Seen(thread[u])]
           order == [u \in Threads |-> Wanted(thread[u])]
           r == thread[t]
<1>1. /\ r \in ThreadRow /\ r.pc = "commit" /\ Sound(r) /\ gen' = gen + 1
      /\ thread'[t] = Idle /\ \A u \in Threads \ {t} : thread'[u] = thread[u]
      /\ Idle \in ThreadRow /\ Idle.pc = "idle"
  BY Typed, DefaultTyped DEF Commit, Writing, EditInv, Leave, Step, Idle
<1>2. Seen(Idle) = None /\ Wanted(Idle) = None /\ Seen(r) = None /\ Wanted(r) # None
  BY <1>1, RowTells
<1>3. /\ view' = view /\ order[t] = Wanted(r) /\ order' = [order EXCEPT ![t] = None]
  BY <1>1, <1>2
<1>4. Current' = r.draft /\ (r.base # 0 => Derived(r)) /\ Current \in Document
  BY CommitApplies, Typed, EffectiveTyped DEF Current
<1> HIDE DEF view, order, r
<1>5. Current' = Register!Applied(Wanted(r), Current)
  <2>1. CASE r.kind \in Mutating
    <3>1. Wanted(r) = r.patch /\ r.draft = Patched(Current, r.patch)
      BY <1>1, <1>4, <2>1, RowTells DEF Sound, Derived
    <3> QED
      BY <1>4, <3>1 DEF Patched, Register!Applied
  <2>2. CASE r.kind \notin Mutating
    <3>1. Wanted(r) = [title |-> r.draft.title, boards |-> r.draft.boards, plus |-> {}]
      BY <1>1, <2>2, RowTells
    <3>2. r.draft \in Document
      BY <1>1 DEF ThreadRow
    <3>3. r.draft.title # Keep /\ r.draft.boards # Keep
      BY <3>2, SettingsAssumption DEF Document
    <3> QED
      BY <1>4, <3>1, <3>2, <3>3 DEF Register!Applied, Document
  <2> QED
    BY <2>1, <2>2
<1>6. Register!Save(t)
  BY <1>1, <1>2, <1>3, <1>5 DEF Register!Save, view, order
<1> QED
  BY <1>6 DEF RegisterMoves, Register!Next

\* A release changes nothing but how stored versions are read.
LEMMA UpgradeReleases ==
    ASSUME TypeOK, NEW bad \in SUBSET (1 .. Len(versions)), Upgrade(bad)
    PROVE  RegisterMoves
<1>1. thread' = [t \in Threads |-> Idle] /\ UNCHANGED <<versions, gen>>
  BY DEF Upgrade
<1>2. Seen(Idle) = None /\ Wanted(Idle) = None
  BY DEF Idle, Seen, Wanted
<1>3. Current' \in Register!Documents
  <2>1. versions' \in Seq(Row)
    BY <1>1, Typed
  <2> QED
    BY <2>1, EffectiveTypedNext DEF Current, Register!Documents, Document
<1>4. Register!Release
  BY <1>1, <1>2, <1>3 DEF Register!Release
<1> QED
  BY <1>4 DEF RegisterMoves, Register!Next

LEMMA RegisterStep == TypeOK /\ StoreInv /\ EditInv /\ [Next]_vars => RegisterMoves
<1> SUFFICES ASSUME TypeOK, StoreInv, EditInv, [Next]_vars PROVE RegisterMoves
  OBVIOUS
<1>0. Requests \subseteq Threads /\ Watch \in Threads
  BY DEF Threads
<1>1. ASSUME NEW t \in Threads,
             \E to \in ThreadRow : Step(t, to) /\ UNCHANGED file /\ Tells(thread[t], to)
      PROVE  RegisterMoves
  BY <1>1, TellsRegister
<1>2. ASSUME NEW t \in Requests, Request(t) PROVE RegisterMoves
  <2>1. CASE Begin(t) \/ ReadVersion(t)
    BY <1>0, <1>1, <2>1, ReadsTell
  <2>2. CASE \E kind \in {"section", "row", "source"} : Submit(t, kind)
    BY <1>0, <1>1, <2>2, SubmitTells DEF Mutating
  <2>3. CASE \/ \E v \in 1 .. Len(versions) : Restore(t, v)
             \/ \E title \in Titles : Review(t, title)
             \/ SetUp(t) \/ \E doc \in Imports : ForceImport(t, doc) \/ ImportRead(t, doc)
    BY <1>0, <1>1, <2>3, SaveTells
  <2>4. CASE UpdateRead(t) \/ ImportCompare(t) \/ BeginWrite(t) \/ RefuseStale(t) \/ Rollback(t)
    BY <1>0, <1>1, <2>4, WaitsTell
  <2>5. CASE Look(t) \/ Put(t)
    BY <1>0, <1>1, <2>5, LooksTell
  <2>6. CASE Commit(t)
    BY <1>0, <2>6, CommitSaves
  <2> QED
    BY <1>2, <2>1, <2>2, <2>3, <2>4, <2>5, <2>6 DEF Request
<1>3. CASE WatchPass \/ Reschedule(FALSE)
  BY <1>0, <1>1, <1>3, ReadsTell, LooksTell DEF WatchPass
<1>4. CASE UNCHANGED vars
  BY <1>4 DEF RegisterMoves, Register!register, Current, Effective, DocOf, vars, file
<1> QED
  BY <1>2, <1>3, <1>4, UpgradeReleases DEF Next

\* However many processes, caches and retries, and whatever they save in between, the store is
\* to its clients one register: a snapshot is the settings of the moment, and what a form asked
\* for is applied, once, to the settings it replaces, or not at all.
THEOREM StoreIsRegister == Spec => KeepsRegister
<1>1. Init => Register!Init
  <2>1. Effective(<<>>) = 0 /\ DocOf(<<>>, 0) = Default
    BY DEF Effective, DocOf
  <2>2. Seen(Idle) = None /\ Wanted(Idle) = None
    BY DEF Idle, Seen, Wanted
  <2> QED
    BY <2>1, <2>2 DEF Init, Register!Init, Current
<1> QED
  BY <1>1, StoreHolds, EditsAreSound, RegisterStep, PTL
     DEF Spec, KeepsRegister, Register!Spec, RegisterMoves
=============================================================================
