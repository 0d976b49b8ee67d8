----------------------------- MODULE SettingsStore -----------------------------
(***************************************************************************)
(* The settings of the instance (src/src/settings/store.py, service.py):   *)
(* append-only versions and a generation in one SQLite file, read as       *)
(* snapshots by several processes and written by the forms of the web      *)
(* process and by the command line; the objects the web process builds     *)
(* from a snapshot (web/generation_cache.py); and the triggers the poller  *)
(* runs on (scheduler._config_watch).                                      *)
(*                                                                         *)
(* A process has one connection, shared by its threads and guarded by a    *)
(* lock; what a write transaction inserted is visible to that connection   *)
(* at once and to the others when it commits. A settings document is kept  *)
(* as one single-valued setting, which is also the poller's trigger, and   *)
(* one list; secrets and text documents, which a snapshot reads in the     *)
(* same transaction as the version, are left out.                          *)
(***************************************************************************)
EXTENDS Naturals, Sequences

CONSTANTS Requests,     \* threads that serve a request or run a command
          Watch,        \* the poller's thread that runs config_watch
          Process,      \* the process of each thread
          Kinds,        \* what the threads may do
          Titles,       \* values of the single setting; 0 is the default
          Entries,      \* entries of the list
          Imports,      \* documents a user's files hold
          MaxVersions,  \* bound: settings versions
          MaxUpgrades,  \* bound: releases installed
          MaxMishaps,   \* bound: failed commits and failed reschedules
          Keep, None    \* a setting no patch touches; no snapshot

Threads == Requests \union {Watch}
Document == [title: Titles, boards: SUBSET Entries]
Default == [title |-> 0, boards |-> {}]
Kind == {"section", "row", "source", "restore", "review", "import", "force", "setup", "page",
         "watch"}

ASSUME SettingsAssumption ==
    /\ Watch \notin Requests /\ Process \in [Threads -> {"web", "poller", "cli"}]
    /\ Kinds \subseteq Kind /\ 0 \in Titles /\ Titles \subseteq Nat
    /\ Imports \subseteq Document
    /\ MaxVersions \in Nat /\ MaxUpgrades \in Nat /\ MaxMishaps \in Nat
    /\ Keep \notin Titles /\ \A S \in SUBSET Entries : S # Keep
    /\ None \notin Document /\ None \notin [stamp: Nat, document: Document]
    /\ None \notin [title: Titles \union {Keep}, boards: (SUBSET Entries) \union {Keep},
                    plus: SUBSET Entries]

VARIABLES versions,   \* settings_versions: [doc, source]
          broken,     \* ids that this release cannot migrate or validate
          gen,        \* config_generation
          thread,     \* what each thread is doing
          cache,      \* ConfigService._cached of each process, or None
          engine,     \* generation of the object in the web process' GenerationCache
          applied,    \* config_watch: the trigger it believes the job runs on
          running,    \* the trigger the job runs on
          committed,  \* history: the snapshot that each generation stands for
          upgrades, mishaps   \* count what the bounds bound

file == <<versions, broken, gen>>
triggers == <<applied, running>>
counts == <<upgrades, mishaps>>
vars == <<file, thread, cache, engine, triggers, committed, counts>>

Processes == {Process[t] : t \in Threads}
NoPatch == [title |-> Keep, boards |-> Keep, plus |-> {}]

\* A generation without usable settings is a snapshot, too: version 0.
Snapshot == [gen: Nat, version: Nat, doc: Document]
NoSnapshot == [gen |-> 0, version |-> 0, doc |-> Default]

\* A field is meaningful in some phases and keeps its first value in the others.
Idle == [pc |-> "idle", kind |-> "page", snap |-> NoSnapshot, patch |-> NoPatch,
         base |-> 0, draft |-> Default, attempt |-> 1]

Phase == {"idle", "version", "ready", "update", "compare", "save", "commit", "build"}

TypeOK ==
    /\ versions \in Seq([doc: Document, source: {"import", "other"}])
    /\ broken \subseteq 1 .. Len(versions)
    /\ gen \in Nat
    /\ thread \in [Threads ->
          [pc: Phase, kind: Kind, snap: Snapshot,
           patch: [title: Titles \union {Keep}, boards: (SUBSET Entries) \union {Keep},
                   plus: SUBSET Entries],
           base: Nat, draft: Document, attempt: 1 .. 2]]
    /\ cache \in [Processes -> Snapshot \union {None}]
    /\ engine \in Nat
    /\ applied \in Titles /\ running \in Titles
    /\ committed \in Seq(Snapshot) /\ Len(committed) = gen + 1
    /\ upgrades \in Nat /\ mishaps \in Nat

Init ==
    /\ versions = <<>> /\ broken = {} /\ gen = 0
    /\ thread = [t \in Threads |-> Idle]
    /\ cache = [p \in Processes |-> None]
    /\ engine = 0
    /\ applied = Default.title /\ running = Default.title
    /\ committed = <<NoSnapshot>>
    /\ upgrades = 0 /\ mishaps = 0

Mishap == mishaps < MaxMishaps /\ mishaps' = mishaps + 1

Step(t, to) == thread' = [thread EXCEPT ![t] = to]
Leave(t) == Step(t, Idle)

-----------------------------------------------------------------------------
(* Connections and locks *)

Reading(t) == thread[t].pc = "version"
Writing(t) == thread[t].pc = "commit"

\* SqliteSettingsStore._lock: one thread of a process reads or writes at a time.
NoLock(t) == TRUE  \* Mutant: the reads take no lock.
LockFree(t) ==
    \A u \in Threads : Process[u] = Process[t] => ~Reading(u) /\ ~Writing(u)

\* BEGIN IMMEDIATE: one write transaction at a time, whatever its process.
MayWrite(t) == LockFree(t) /\ \A u \in Threads : ~Writing(u)

\* A commit waits for the read transactions of other connections.
MayCommit(t) == \A u \in Threads : Process[u] # Process[t] => ~Reading(u)

\* The settings rows a thread's connection shows: the committed ones, and what a
\* write transaction of its own process has inserted.
Staged(t) == {u \in Threads : Process[u] = Process[t] /\ Writing(u)}
Rows(t) ==
    IF Staged(t) = {} THEN versions
    ELSE LET u == CHOOSE u \in Staged(t) : TRUE
         IN  Append(versions, [doc |-> thread[u].draft, source |-> "other"])

\* _effective_version: the newest row that migrates and validates; 0 if none does.
Effective(rows) ==
    LET valid == {i \in 1 .. Len(rows) : i \notin broken} IN
    IF valid = {} THEN 0 ELSE CHOOSE i \in valid : \A j \in valid : j <= i

DocOf(rows, i) == IF i = 0 THEN Default ELSE rows[i].doc
Current == DocOf(versions, Effective(versions))

-----------------------------------------------------------------------------
(* ConfigService.snapshot: the generation, then, unless it is cached, the rest *)

Begin(t) ==
    /\ thread[t].pc = "idle" /\ LockFree(t)
    /\ LET hit == cache[Process[t]] IN
       Step(t, IF hit # None /\ hit.gen = gen
               THEN [Idle EXCEPT !.pc = "ready", !.snap = hit]
               ELSE [Idle EXCEPT !.pc = "version", !.snap.gen = gen])
    /\ UNCHANGED <<file, cache, engine, triggers, committed, counts>>

\* The snapshot is cached under the generation read first.
ReadVersion(t) ==
    /\ thread[t].pc = "version"
    /\ LET rows == Rows(t)
           v == Effective(rows)
           s == [thread[t].snap EXCEPT !.version = v, !.doc = DocOf(rows, v)]
       IN  /\ Step(t, [thread[t] EXCEPT !.pc = "ready", !.snap = s])
           /\ cache' = [cache EXCEPT ![Process[t]] = s]
    /\ UNCHANGED <<file, engine, triggers, committed, counts>>

-----------------------------------------------------------------------------
(* What a request does with its snapshot *)

IsSetUp(t) == thread[t].snap.version # 0
Does(t, kind) == thread[t].pc = "ready" /\ kind \in Kinds

\* The forms' patches: a section's setting, unless the snapshot has it already; the
\* whole new list of a row form, made from the snapshot's; entries to append.
SectionPatch(t, title) ==
    [NoPatch EXCEPT !.title = IF title = thread[t].snap.doc.title THEN Keep ELSE title]
AddRow(t, e) == [NoPatch EXCEPT !.boards = thread[t].snap.doc.boards \union {e}]
RemoveRow(t, e) == [NoPatch EXCEPT !.boards = thread[t].snap.doc.boards \ {e}]
Append1(t, e) == [NoPatch EXCEPT !.plus = {e}]

Patches(t, kind) ==
    CASE kind = "section" -> {SectionPatch(t, title) : title \in Titles}
      [] kind = "row" -> {AddRow(t, e) : e \in Entries \ thread[t].snap.doc.boards}
                            \union {RemoveRow(t, e) : e \in thread[t].snap.doc.boards}
      [] kind = "source" -> {Append1(t, e) : e \in Entries}

\* apply_patch, on the document it is given.
Patched(doc, patch) ==
    [title |-> IF patch.title = Keep THEN doc.title ELSE patch.title,
     boards |-> (IF patch.boards = Keep THEN doc.boards ELSE patch.boards)
                   \union patch.plus]

Submit(t, kind) ==
    /\ Does(t, kind) /\ IsSetUp(t)
    /\ \E patch \in Patches(t, kind) :
          Step(t, [Idle EXCEPT !.pc = "update", !.kind = kind, !.patch = patch])
    /\ UNCHANGED <<file, cache, engine, triggers, committed, counts>>

\* update_settings: read the newest row and the document in effect, mutate it.
UpdateRead(t) ==
    /\ thread[t].pc = "update" /\ LockFree(t)
    /\ LET doc == Patched(Current, thread[t].patch) IN
       Step(t, IF Effective(versions) = 0 \/ doc = Current THEN Idle
               ELSE [thread[t] EXCEPT !.pc = "save", !.base = Len(versions), !.draft = doc])
    /\ UNCHANGED <<file, cache, engine, triggers, committed, counts>>

\* A save that names no base version.
Save(t, kind, doc) ==
    /\ Step(t, [Idle EXCEPT !.pc = "save", !.kind = kind, !.draft = doc])
    /\ UNCHANGED <<file, cache, engine, triggers, committed, counts>>

\* restore: an old version that still validates, as the newest one.
Restore(t, v) ==
    /\ Does(t, "restore") /\ LockFree(t) /\ v \notin broken
    /\ Save(t, "restore", versions[v].doc)

\* wizard_review_save: the request's document with the form's setting.
Review(t, title) ==
    /\ Does(t, "review") /\ IsSetUp(t)
    /\ Save(t, "review", [thread[t].snap.doc EXCEPT !.title = title])

\* setup_start, for a request that found no settings.
SetUp(t) ==
    /\ Does(t, "setup") /\ ~IsSetUp(t)
    /\ Save(t, "setup", Default)

\* import_dir --force.
ForceImport(t, doc) ==
    /\ Does(t, "force")
    /\ Save(t, "force", doc)

\* import_dir: first the newest row, against which it will be saved.
ImportRead(t, doc) ==
    /\ Does(t, "import") /\ LockFree(t)
    /\ Step(t, [Idle EXCEPT !.pc = "compare", !.kind = "import", !.base = Len(versions),
                            !.draft = doc])
    /\ UNCHANGED <<file, cache, engine, triggers, committed, counts>>

\* undone_changes: would doc undo what cur changed since base? (None: since the
\* defaults, which it must not touch at all.)
Undoes(base, cur, doc) ==
    IF base = None
    THEN \/ cur.title # Default.title /\ doc.title # cur.title
         \/ ~(cur.boards \subseteq doc.boards)
    ELSE \/ cur.title # base.title /\ doc.title = base.title
         \/ ~((cur.boards \ base.boards) \subseteq doc.boards)
         \/ (base.boards \ cur.boards) \cap doc.boards # {}

\* The document of the last import among the first n versions, if it still parses.
LastImport(n) ==
    LET is == {i \in 1 .. n : versions[i].source = "import"} IN
    IF is = {} THEN None
    ELSE LET i == CHOOSE i \in is : \A j \in is : j <= i
         IN  IF i \in broken THEN None ELSE versions[i].doc

\* Then the settings in effect, by now perhaps newer; nothing is compared when the
\* newest row was an import.
ImportCompare(t) ==
    /\ thread[t].pc = "compare" /\ LockFree(t)
    /\ LET n == thread[t].base
           refused == /\ n > 0 /\ versions[n].source # "import"
                      /\ Undoes(LastImport(n), Current, thread[t].draft)
       IN  Step(t, IF refused THEN Idle ELSE [thread[t] EXCEPT !.pc = "save"])
    /\ UNCHANGED <<file, cache, engine, triggers, committed, counts>>

-----------------------------------------------------------------------------
(* The write transaction *)

\* Mutant: the base version is not checked.
NeverStale(t) == FALSE
Stale(t) == thread[t].base # 0 /\ thread[t].base # Len(versions)

\* BEGIN IMMEDIATE, the check of the base version, the inserts.
BeginWrite(t) ==
    /\ thread[t].pc = "save" /\ MayWrite(t) /\ ~Stale(t) /\ Len(versions) < MaxVersions
    /\ Step(t, [thread[t] EXCEPT !.pc = "commit", !.attempt = 1])
    /\ UNCHANGED <<file, cache, engine, triggers, committed, counts>>

\* StaleWrite: update_settings reads and mutates once more, everyone else gives up.
RefuseStale(t) ==
    /\ thread[t].pc = "save" /\ MayWrite(t) /\ Stale(t)
    /\ Step(t, IF thread[t].kind # "import" /\ thread[t].attempt = 1
               THEN [thread[t] EXCEPT !.pc = "update", !.base = 0, !.draft = Default,
                                      !.attempt = 2]
               ELSE Idle)
    /\ UNCHANGED <<file, cache, engine, triggers, committed, counts>>

\* The generation and the version appear together.
Commit(t) ==
    /\ Writing(t) /\ MayCommit(t)
    /\ versions' = Append(versions,
                      [doc |-> thread[t].draft,
                       source |-> IF thread[t].kind \in {"import", "force"} THEN "import"
                                  ELSE "other"])
    /\ gen' = gen + 1
    /\ committed' = Append(committed, [gen |-> gen + 1, version |-> Len(versions) + 1,
                                       doc |-> thread[t].draft])
    /\ Leave(t)
    /\ UNCHANGED <<broken, cache, engine, triggers, counts>>

\* A locked database or a full disk, as which the bound acts: nothing is written.
Rollback(t) ==
    /\ \/ Writing(t) /\ Mishap
       \/ thread[t].pc = "save" /\ Len(versions) = MaxVersions /\ UNCHANGED mishaps
    /\ Leave(t)
    /\ UNCHANGED <<file, cache, engine, triggers, committed, upgrades>>

-----------------------------------------------------------------------------
(* The objects built from a snapshot, and the triggers *)

\* GenerationCache.get: a hit is returned; a miss is built outside the lock.
Look(t) ==
    /\ Does(t, "page")
    /\ Step(t, IF IsSetUp(t) /\ engine # thread[t].snap.gen
               THEN [Idle EXCEPT !.pc = "build", !.snap.gen = thread[t].snap.gen]
               ELSE Idle)
    /\ UNCHANGED <<file, cache, engine, triggers, committed, counts>>

\* Mutant: the value built last wins.
Newest(a, b) == b
Kept(old, new) == IF old <= new THEN new ELSE old

Put(t) ==
    /\ thread[t].pc = "build"
    /\ engine' = Kept(engine, thread[t].snap.gen)
    /\ Leave(t)
    /\ UNCHANGED <<file, cache, triggers, committed, counts>>

\* Mutant: the trigger is booked as applied before it is.
BookedAnyway(ok, trigger) == trigger
Booked(ok, trigger) == IF ok THEN trigger ELSE applied

\* _config_watch: a job whose trigger differs is rescheduled, or fails to be.
Reschedule(ok) ==
    LET trigger == thread[Watch].snap.doc.title IN
    /\ thread[Watch].pc = "ready"
    /\ IF ok THEN UNCHANGED mishaps ELSE Mishap /\ applied # trigger
    /\ applied' = Booked(ok, trigger)
    /\ running' = IF ok /\ applied # trigger THEN trigger ELSE running
    /\ Leave(Watch)
    /\ UNCHANGED <<file, cache, engine, committed, upgrades>>

-----------------------------------------------------------------------------
(* A new release: every process starts anew and may reject stored versions. *)
(* The bound leaves out one that comes when nothing more can be saved.      *)

Upgrade(bad) ==
    /\ upgrades < MaxUpgrades /\ Len(versions) > 0 /\ Len(versions) < MaxVersions
    /\ upgrades' = upgrades + 1
    /\ broken' = bad
    /\ thread' = [t \in Threads |-> Idle]
    /\ cache' = [p \in Processes |-> None]
    /\ engine' = 0
    /\ LET valid == (1 .. Len(versions)) \ bad
           v == IF valid = {} THEN 0 ELSE CHOOSE i \in valid : \A j \in valid : j <= i
       IN  /\ committed' = [committed EXCEPT ![gen + 1] =
                              [gen |-> gen, version |-> v, doc |-> DocOf(versions, v)]]
           /\ applied' = DocOf(versions, v).title
           /\ running' = DocOf(versions, v).title
    /\ UNCHANGED <<versions, gen, mishaps>>

Request(t) ==
    \/ Begin(t) \/ ReadVersion(t)
    \/ \E kind \in {"section", "row", "source"} : Submit(t, kind)
    \/ UpdateRead(t)
    \/ \E v \in 1 .. Len(versions) : Restore(t, v)
    \/ \E title \in Titles : Review(t, title)
    \/ SetUp(t)
    \/ \E doc \in Imports : ForceImport(t, doc) \/ ImportRead(t, doc)
    \/ ImportCompare(t)
    \/ BeginWrite(t) \/ RefuseStale(t) \/ Commit(t) \/ Rollback(t)
    \/ Look(t) \/ Put(t)

WatchPass ==
    \/ "watch" \in Kinds /\ Begin(Watch)
    \/ ReadVersion(Watch)
    \/ Reschedule(TRUE)

Next ==
    \/ \E t \in Requests : Request(t)
    \/ WatchPass \/ Reschedule(FALSE)
    \/ \E bad \in SUBSET (1 .. Len(versions)) : Upgrade(bad)

Spec == Init /\ [][Next]_vars

\* config_watch fires every thirty seconds, and no pass of it waits for a writer.
Fairness == WF_vars(WatchPass)

FairSpec == Spec /\ Fairness

-----------------------------------------------------------------------------
(* Properties *)

\* A snapshot is what was committed under its generation, whole: no process ever works
\* with rows of a transaction that was rolled back or of two of them ("a phantom
\* snapshot ... would then sit cached under the current generation", snapshot()).
SnapshotsAreCommitted ==
    \A p \in DOMAIN cache : cache[p] # None => cache[p] = committed[cache[p].gen + 1]

\* What a request looks at while it decides, and what it wants saved: the patch of a form, which
\* update_settings applies, or a document.
Seen(r) ==
    IF r.pc = "ready" THEN [stamp |-> r.snap.gen, document |-> r.snap.doc] ELSE None

Wanted(r) ==
    IF r.pc \notin {"update", "compare", "save", "commit"} THEN None
    ELSE IF r.kind \in {"section", "row", "source"} THEN r.patch
    ELSE [title |-> r.draft.title, boards |-> r.draft.boards, plus |-> {}]

Register == INSTANCE SettingsRegister WITH
    Clients <- Threads, Nothing <- None, document <- Current, stamp <- gen,
    view <- [t \in Threads |-> Seen(thread[t])],
    order <- [t \in Threads |-> Wanted(thread[t])]

\* To its clients the store is one register, whatever the processes, their caches, their locks
\* and their retries: a snapshot is the settings of the moment, and what a form asks for is
\* applied to the settings it replaces, whoever saved in between ("If another writer saves in
\* between, the update re-reads and runs mutate once more", update_settings).
KeepsRegister == Register!Spec

Saves(t) == Writing(t) /\ Len(versions') > Len(versions)

\* An import that was not forced undoes nothing saved since the last one, also when it
\* was saved while the import was under way. One that found no settings names no base
\* version, so it is not held to this.
ImportsUndoNothing ==
    [][\A t \in Requests :
          Saves(t) /\ thread[t].kind = "import" /\ thread[t].base # 0
             /\ Len(versions) \notin broken
          => ~Undoes(LastImport(Len(versions)), Current, Current')]_vars

\* "without ever outliving the settings they were built from": an object is not
\* replaced by one that a slower request built from older settings.
EnginesMoveForward == [][upgrades' = upgrades => engine' >= engine]_vars

\* The poller's job ends up on the trigger of the settings in effect, however many
\* saves and failed reschedules it takes.
TriggersCatchUp == <>[](running = Current.title)

\* Not kept by the code: "mutate must derive everything from the doc it is given". A
\* row form would add or remove its own entry and leave the rest of the list alone.
RowsKeepTheRest ==
    [][\A t \in Requests : Saves(t) /\ thread[t].kind = "row" =>
          \E e \in Entries : Current'.boards \ {e} = Current.boards \ {e}]_vars

\* Not kept by the code: "Idempotent: if a version already exists (two visitors racing
\* the button), this writes nothing" (setup_start).
SetupWritesOnce ==
    [][\A t \in Requests : Saves(t) /\ thread[t].kind = "setup" => versions = <<>>]_vars

\* Not kept by the code, whose handler of StaleWrite no save of it can reach: "Someone
\* else saved while you were editing. Reload and reapply." (wizard_review_save).
ReviewKeepsTheRest ==
    [][\A t \in Requests : Saves(t) /\ thread[t].kind = "review" =>
          Current'.boards = Current.boards]_vars
=============================================================================
