------------------------------- MODULE Backups -------------------------------
(***************************************************************************)
(* Settings backups: the archive (src/src/settings/archive.py), the        *)
(* directory it holds (src/src/settings/transfer.py) and the page that     *)
(* restores one (src/src/web/settings/backup.py).  Pure functions.  The    *)
(* guard of an import and its races with other writers are in              *)
(* SettingsStore; here it is a verdict the import is given.                *)
(*                                                                         *)
(* A path is a sequence of names, a tree a function from the paths of its  *)
(* files to their contents.  An instance is [settings, documents, packs]:  *)
(* the settings in effect, None before the setup, a body or None for each  *)
(* kind of document, and the folder of its template packs: a function from *)
(* the names of its directories to what each holds, by the files' names.   *)
(***************************************************************************)
EXTENDS Naturals, Sequences, FiniteSets, SequencesExt

CONSTANTS None,
          MaxMembers,  \* MAX_MEMBERS
          MaxTotal,    \* MAX_TOTAL_BYTES
          MaxUpload    \* MAX_UPLOAD_BYTES

Prefixed(p) == {SubSeq(p, 1, i) : i \in 1 .. Len(p)}
Parent(p) == SubSeq(p, 1, Len(p) - 1)

-----------------------------------------------------------------------------
(* Extracting: a member is [name, kind, shape, size, reads, body], an archive [zip, members], *)
(* a destination [there, files, dirs]                                                       *)

\* _check_member: only a plain name of a plain file is accepted.
CheckMember(m) == m.shape = "plain"

\* What is checked before anything is written.
Acceptable(archive) ==
    LET total[n \in 0 .. Len(archive.members)] ==
            IF n = 0 THEN 0 ELSE total[n - 1] + archive.members[n].size
    IN /\ archive.zip /\ Len(archive.members) <= MaxMembers
       /\ \A m \in ToSet(archive.members) : CheckMember(m)
       /\ total[Len(archive.members)] <= MaxTotal
       /\ \E m \in ToSet(archive.members) : m.kind = "file"

Exists(s, p) == p = <<>> \/ p \in DOMAIN s.files \/ p \in s.dirs
IsDir(s, p) == p = <<>> \/ p \in s.dirs

\* _ensure_dir: the missing levels, each noted when it is made; none can be under a file.
EnsureDir(s, p) ==
    LET missing == {q \in Prefixed(p) : ~Exists(s, q) /\ \A r \in Prefixed(p) :
                                           Len(r) > Len(q) => ~Exists(s, r)}
    IN IF missing = {} THEN s
       ELSE IF \E q \in missing : Parent(q) \in DOMAIN s.files
       THEN [s EXCEPT !.error = "rejected"]
       ELSE [s EXCEPT !.dirs = @ \union missing, !.created = @ \union missing]

\* Mutant: a file is noted only once it holds what the member had.
NotedLate(s, m) ==
    IF m.reads # "ok" \/ Exists(s, m.name) THEN s ELSE [s EXCEPT !.touched = @ \union {m.name}]

\* A path is noted before it is opened, unless it was there before.
Noted(s, m) == IF Exists(s, m.name) THEN s ELSE [s EXCEPT !.touched = @ \union {m.name}]

\* Opening the member, opening the target, which empties it, and reading the one into the
\* other.  A fault of the server is not the archive's.
WriteBody(s, m) ==
    CASE m.reads = "unopened" -> [s EXCEPT !.error = "rejected"]
      [] m.reads # "unopened" /\ (IsDir(s, m.name) \/ ~IsDir(s, Parent(m.name))) ->
           [s EXCEPT !.error = "rejected"]
      [] OTHER ->
           [s EXCEPT !.files = [p \in DOMAIN @ \union {m.name} |->
                                   IF p # m.name THEN @[p]
                                   ELSE IF m.reads = "ok" THEN m.body ELSE None],
                     !.error = CASE m.reads = "ok" -> None
                                 [] m.reads = "corrupt" -> "rejected"
                                 [] m.reads = "full" -> "fault"]

WriteMember(s, m) ==
    IF s.error # None \/ m.kind = "dir" THEN s
    ELSE LET made == EnsureDir(s, Parent(m.name))
         IN IF made.error # None THEN made ELSE WriteBody(Noted(made, m), m)

\* _remove_empty_dirs: deepest first, so a directory goes if all it holds goes.
RemoveEmptyDirs(s) ==
    [s EXCEPT !.dirs = {d \in @ : \/ d \notin s.created
                                  \/ \E p \in DOMAIN s.files : d \in Prefixed(p)
                                  \/ \E e \in s.dirs \ s.created : d \in Prefixed(e)}]

\* _cleanup: a destination this call made goes as a whole.
Cleanup(s, dest) ==
    IF ~dest.there THEN [s EXCEPT !.there = FALSE, !.files = <<>>, !.dirs = {}]
    ELSE RemoveEmptyDirs([s EXCEPT !.files = [p \in DOMAIN @ \ s.touched |-> @[p]]])

\* extract_upload
ExtractUpload(archive, dest) ==
    LET start == [there |-> TRUE, files |-> dest.files, dirs |-> dest.dirs, touched |-> {},
                  created |-> {}, error |-> None]
        after[n \in 0 .. Len(archive.members)] ==
            IF n = 0 THEN start ELSE WriteMember(after[n - 1], archive.members[n])
        done == after[Len(archive.members)]
    IN CASE ~Acceptable(archive) -> [start EXCEPT !.there = dest.there, !.error = "rejected"]
         [] Acceptable(archive) /\ done.error = None -> done
         [] OTHER -> Cleanup(done, dest)

-----------------------------------------------------------------------------
(* The directory *)

Kinds == {"profile", "resume_text", "resume_content", "evidence", "kit_facts"}
ConfigFile == <<"config.yaml">>

\* DOCUMENT_FILES
DocumentFile(kind) ==
    CASE kind = "profile" -> <<"profile.md">>
      [] kind = "resume_text" -> <<"resume.md">>
      [] kind = "resume_content" -> <<"resume", "content.json">>
      [] kind = "evidence" -> <<"resume", "evidence.json">>
      [] kind = "kit_facts" -> <<"resume", "facts.yaml">>
Template == "template.html.j2"
PackFile(name, file) == <<"resume", "templates", name, file>>

\* A directory without the template is no pack.
WholePacks(folder) == {n \in DOMAIN folder : Template \in DOMAIN folder[n]}

\* _copy_packs: one pack after the other, and a directory the target has is left alone,
\* whatever it holds.  `cut` is where it ends, None if it does not: [copied, torn, left],
\* the packs that were copied by then, the one that was being copied, None if none was, and
\* what its directory holds.
CopyPacks(from, to, cut) ==
    LET new == WholePacks(from) \ DOMAIN to
        torn == IF cut = None THEN {} ELSE {cut.torn} \intersect new
        copied == IF cut = None THEN new ELSE cut.copied \intersect new
    IN [n \in DOMAIN to \union copied \union torn |->
          IF n \in DOMAIN to THEN to[n] ELSE IF n \in torn THEN cut.left ELSE from[n]]

\* export_dir: the settings, then the documents and the packs; `later` is the instance by then.
ExportDir(now, later) ==
    LET docs == {k \in Kinds : later.documents[k] # None}
        packs == CopyPacks(later.packs, <<>>, None)
        files == {ConfigFile} \union {DocumentFile(k) : k \in docs}
                   \union UNION {{PackFile(n, f) : f \in DOMAIN packs[n]} : n \in DOMAIN packs}
    IN [p \in files |->
          IF p = ConfigFile
          THEN [readable |-> TRUE, valid |-> TRUE, settings |-> now.settings, secrets |-> FALSE,
                legacy |-> <<>>]
          ELSE IF \E k \in docs : p = DocumentFile(k)
          THEN later.documents[CHOOSE k \in docs : p = DocumentFile(k)]
          ELSE packs[p[3]][p[4]]]

\* export_zip: the files in the order of their names; one order stands for it.
ExportZip(now, later) ==
    LET tree == ExportDir(now, later)
        paths == SetToSeq(DOMAIN tree)
    IN [zip |-> TRUE, size |-> 1,
        members |-> [i \in DOMAIN paths |->
            [name |-> paths[i], kind |-> "file", shape |-> "plain", size |-> 1, reads |-> "ok",
             body |-> tree[paths[i]]]]]

\* _read_config, _read_text
Unreadable(body) == ~body.readable

\* LEGACY_PATH_KEYS: a path of the old settings replaces the default name, and an upload's
\* must stay inside; it never falls back.
DocumentPath(kind, config, trusted) ==
    IF kind \in DOMAIN config.legacy /\ (trusted \/ Head(config.legacy[kind]) # "..")
    THEN config.legacy[kind] ELSE DocumentFile(kind)

\* The folder resume/templates of a directory.
Packs(tree) ==
    LET paths == {p \in DOMAIN tree : Len(p) = 4 /\ p = PackFile(p[3], p[4])}
    IN [n \in {p[3] : p \in paths} |->
          [f \in {p[4] : p \in {q \in paths : q[3] = n}} |-> tree[PackFile(n, f)]]]

\* save_bundle: everything is validated, and written in one transaction.
SaveBundle(inst, config, documents) ==
    [inst EXCEPT !.settings = config.settings,
                 !.documents = [k \in Kinds |-> IF k \in DOMAIN documents THEN documents[k] ELSE @[k]]]

\* import_dir: an instance and an outcome.  `refused` is the guard's verdict, and `cut` where the
\* process goes, or a write fails, once the settings and the documents are saved.
ImportDir(inst, tree, trusted, refused, cut) ==
    LET Fails(why) == [inst |-> inst, outcome |-> why]
        config == tree[ConfigFile]
        Path(k) == DocumentPath(k, config, trusted)
        documents == [k \in {j \in Kinds : Path(j) \in DOMAIN tree} |-> tree[Path(k)]]
        saved == SaveBundle(inst, config, documents)
    IN IF ConfigFile \notin DOMAIN tree THEN Fails("failed")
       ELSE IF Unreadable(config) \/ \E k \in DOMAIN documents : Unreadable(documents[k])
       THEN Fails("failed")
       ELSE IF refused THEN Fails("refused")
       ELSE IF ~config.valid \/ \E k \in DOMAIN documents : ~documents[k].valid
       THEN Fails("invalid")
       ELSE [inst |-> [saved EXCEPT !.packs = CopyPacks(Packs(tree), @, cut)],
             outcome |-> IF cut = None THEN "ok" ELSE "cut"]

Fresh == [there |-> TRUE, files |-> <<>>, dirs |-> {}]

\* restore_from_upload: into a fresh directory, and never trusted.
Restore(inst, archive, refused, cut) ==
    LET out == ExtractUpload(archive, Fresh)
    IN CASE archive.size > MaxUpload -> [inst |-> inst, outcome |-> "oversized"]
         [] archive.size <= MaxUpload /\ out.error # None -> [inst |-> inst, outcome |-> out.error]
         [] OTHER -> ImportDir(inst, out.files, FALSE, refused, cut)

-----------------------------------------------------------------------------
(* Properties *)

\* Extracting is all or nothing (archive.py): an archive that is turned down, before or in the
\* middle of the writing, leaves no file and no directory behind, takes none away that was
\* there, and changes no file it does not name.
RejectedLeavesNothing(archive, dest) ==
    LET out == ExtractUpload(archive, dest)
    IN out.error # None =>
         /\ out.there = dest.there /\ DOMAIN out.files = DOMAIN dest.files /\ out.dirs = dest.dirs
         /\ \A p \in DOMAIN dest.files :
               out.files[p] = dest.files[p] \/ \E m \in ToSet(archive.members) : m.name = p

\* A backup brings an instance back: what was exported from one and is restored over another
\* gives it the settings, every document the first had, and every pack whose name no
\* directory of its own has; what the first did not have stays.  A restore that was cut
\* short is completed by doing it again, but for the one pack that was being copied, whose
\* directory is there by then and is left as it is.
BackupBringsBack(inst, over, cut) ==
    LET archive == ExportZip(inst, inst)
        first == Restore(over, archive, FALSE, cut)
        out == Restore(first.inst, archive, FALSE, None)
    IN /\ out.outcome = "ok" /\ out.inst.settings = inst.settings
       /\ \A k \in Kinds :
             out.inst.documents[k] = IF inst.documents[k] # None THEN inst.documents[k]
                                     ELSE over.documents[k]
       /\ DOMAIN out.inst.packs = DOMAIN over.packs \union WholePacks(inst.packs)
       /\ \A n \in DOMAIN out.inst.packs :
             out.inst.packs[n] = IF n \in DOMAIN over.packs THEN over.packs[n]
                                 ELSE IF cut # None /\ n = cut.torn THEN cut.left
                                 ELSE inst.packs[n]

(***************************************************************************)
(* Not kept by the code: a pack that was being copied when a restore was   *)
(* cut short is never completed, as copytree is not atomic and the         *)
(* directory it leaves is taken for the user's own.  And the settings and  *)
(* the documents of an export are read one after the other, so a save in   *)
(* between leaves an archive of an instance that never was.                *)
(***************************************************************************)
TornPacksAreCompleted(inst, over, cut) ==
    LET archive == ExportZip(inst, inst)
        out == Restore(Restore(over, archive, FALSE, cut).inst, archive, FALSE, None)
    IN \A n \in WholePacks(inst.packs) \ DOMAIN over.packs : out.inst.packs[n] = inst.packs[n]
ExportIsOfOneMoment(now, later) ==
    ExportDir(now, later) \in {ExportDir(now, now), ExportDir(later, later)}
=============================================================================
