------------------------------ MODULE DraftRuns ------------------------------
(***************************************************************************)
(* The draft of the structured résumé on its page of the settings          *)
(* (src/src/web/settings/content_draft.py): one record in the wizard's     *)
(* store, a background task that calls the model for minutes, a page that  *)
(* polls, and a review form whose save replaces a document.                *)
(*                                                                         *)
(* The routes run on the event loop and wait for their form, and the       *)
(* middleware takes a snapshot of the settings before that.  The document  *)
(* is edited elsewhere, in a thread.  What a draft holds is the text of    *)
(* ResumeDraft; here a document is a number, 0 if there is none.           *)
(***************************************************************************)
EXTENDS Naturals, FiniteSets

CONSTANTS None,
          Requests,   \* posts to the page's routes: starts, discards and saves
          MaxRuns,    \* bound: runs that are started
          MaxWrites,  \* bound: contents the document gets
          MaxMishaps  \* bound: answers that fail, restarts, and résumés removed

DraftAssumption == MaxRuns \in Nat /\ MaxWrites \in Nat /\ MaxMishaps \in Nat

VARIABLES record,    \* what the store has under content_draft: None, or
                     \* [status, run, digest, stale]
          tasks,     \* the runs alive: of each, the document its call was made on, or None
                     \* before its first line has run
          latest,    \* app.state.content_draft_task
          document,  \* resume_content, as stored
          resume,    \* there is a résumé text
          posts,     \* the requests: what each is, its snapshot, and what it has read
          runs, writes, mishaps,
          drafted    \* history: the document as it was when the call of each run was made

vars == <<record, tasks, latest, document, resume, posts, runs, writes, mishaps, drafted>>

Runs == 1 .. MaxRuns
Documents == 0 .. MaxWrites
Statuses == {"running", "ok", "error", "confirm"}
Plain(status) == [status |-> status, run |-> None, digest |-> None, stale |-> FALSE]
Records == [status : Statuses, run : Runs \union {None}, digest : Documents \union {None},
            stale : BOOLEAN]
NoPost == [kind |-> "none"]

TypeOK ==
    /\ record \in Records \union {None}
    /\ DOMAIN tasks \subseteq Runs /\ \A r \in DOMAIN tasks : tasks[r] \in Documents \union {None}
    /\ latest \in Runs \union {None} /\ document \in Documents /\ resume \in BOOLEAN
    /\ runs \in 0 .. MaxRuns /\ writes \in 0 .. MaxWrites /\ mishaps \in 0 .. MaxMishaps
    /\ drafted \in [Runs -> Documents]

Init ==
    /\ record = None /\ tasks = <<>> /\ latest = None /\ document = 0 /\ resume = TRUE
    /\ posts = [q \in Requests |-> NoPost] /\ runs = 0 /\ writes = 0 /\ mishaps = 0
    /\ drafted = [r \in Runs |-> 0]

Mishap == mishaps < MaxMishaps /\ mishaps' = mishaps + 1
MishapUnless(fine) == IF fine THEN UNCHANGED mishaps ELSE Mishap

\* A mapping of runs without some of them.
Without(f, rs) == [r \in DOMAIN f \ rs |-> f[r]]

-----------------------------------------------------------------------------
(* The record *)

\* Mutant: a run is believed however long it has been.
NeverStale(status) == record # None /\ record.status = status

\* _current: a run past the bound is presented as an error.
Current(status) ==
    /\ record # None
    /\ LET old == record.status = "running" /\ record.stale
       IN status = IF old THEN "error" ELSE record.status

\* _owns
Owns(r) == record # None /\ record.run = r

\* 2 * max(timeout, floor) seconds pass since a record was stamped.
GrowOld ==
    /\ record # None /\ record.status = "running" /\ ~record.stale
    /\ record' = [record EXCEPT !.stale = TRUE]
    /\ UNCHANGED <<tasks, latest, document, resume, posts, runs, writes, mishaps, drafted>>

-----------------------------------------------------------------------------
(* A run *)

\* Mutant: a new run leaves the one before it alone.
NotCancelled == {}

\* _cancel_running: the run app.state refers to; a cancelled task writes nothing more.
Cancelled == {latest} \intersect DOMAIN tasks

\* run_content_draft, up to the call of the model: the record is stamped anew.
BeginRun(r) ==
    /\ r \in DOMAIN tasks /\ tasks[r] = None
    /\ tasks' = [tasks EXCEPT ![r] = document]
    /\ drafted' = [drafted EXCEPT ![r] = document]
    /\ record' = IF Owns(r) THEN [status |-> "running", run |-> r, digest |-> document, stale |-> FALSE]
                 ELSE record
    /\ UNCHANGED <<latest, document, resume, posts, runs, writes, mishaps>>

\* Mutant: the stamp is of the document as it is when the answer comes.
StampLate(r) == document

\* The stamp a draft carries: the document when its call was made.
Stamp(r) == tasks[r]

\* run_content_draft, from the answer on: stored only if the run still owns the record.
EndRun(r) ==
    /\ r \in DOMAIN tasks /\ tasks[r] # None
    /\ \E status \in {"ok", "error"} :
          /\ MishapUnless(status = "ok")
          /\ record' = IF Owns(r) THEN [status |-> status, run |-> r, digest |-> Stamp(r), stale |-> FALSE]
                       ELSE record
    /\ tasks' = Without(tasks, {r})
    /\ UNCHANGED <<latest, document, resume, posts, runs, writes, drafted>>

-----------------------------------------------------------------------------
(* The routes: the middleware takes the snapshot, the form is awaited *)

Arrive(q) ==
    /\ posts[q] = NoPost
    /\ \E kind \in {"start", "save"}, overwrite \in BOOLEAN :
          posts' = [posts EXCEPT ![q] = [kind |-> kind, seen |-> document, resume |-> resume,
                                         overwrite |-> overwrite, record |-> None]]
    /\ UNCHANGED <<record, tasks, latest, document, resume, runs, writes, mishaps, drafted>>

Done(q) == posts' = [posts EXCEPT ![q] = NoPost]

\* content_draft_start, where it starts none: a run is shown, there is no résumé, or there is
\* a document and no leave to replace it.
Refuse(q) ==
    /\ posts[q].kind = "start"
    /\ LET p == posts[q] IN
       \/ Current("running") /\ UNCHANGED record
       \/ ~Current("running") /\ ~p.resume /\ record' = Plain("error")
       \/ ~Current("running") /\ p.resume /\ p.seen # 0 /\ ~p.overwrite /\ record' = Plain("confirm")
    /\ Done(q)
    /\ UNCHANGED <<tasks, latest, document, resume, runs, writes, mishaps, drafted>>

\* content_draft_start: claim_run makes the new run the owner before its task is scheduled.
Start(q) ==
    /\ posts[q].kind = "start" /\ ~Current("running") /\ posts[q].resume
    /\ posts[q].seen = 0 \/ posts[q].overwrite
    /\ runs < MaxRuns /\ runs' = runs + 1
    /\ record' = [status |-> "running", run |-> runs', digest |-> None, stale |-> FALSE]
    /\ LET left == DOMAIN tasks \ Cancelled
       IN tasks' = [r \in left \union {runs'} |-> IF r = runs' THEN None ELSE tasks[r]]
    /\ latest' = runs' /\ Done(q)
    /\ UNCHANGED <<document, resume, writes, mishaps, drafted>>

\* content_draft_discard
Discard ==
    /\ record # None
    /\ record' = None /\ tasks' = Without(tasks, Cancelled)
    /\ UNCHANGED <<latest, document, resume, posts, runs, writes, mishaps, drafted>>

\* content_draft_save reads the record, and refuses unless a draft is finished.
SaveRead(q) ==
    /\ posts[q].kind = "save"
    /\ posts' = [posts EXCEPT ![q] = IF Current("ok") THEN [@ EXCEPT !.kind = "form", !.record = record]
                                     ELSE NoPost]
    /\ UNCHANGED <<record, tasks, latest, document, resume, runs, writes, mishaps, drafted>>

\* would_replace: by the snapshot of the request.
WouldReplace(p) == p.seen # 0 /\ p.record.digest # p.seen

\* The save is refused: nothing is left of the draft, it would replace a document the draft
\* never saw, or the validator rejects it.  A client may hang up before its form is read.
RefuseSave(q) ==
    /\ posts[q].kind \in {"start", "form"} /\ Done(q)
    /\ UNCHANGED <<record, tasks, latest, document, resume, runs, writes, mishaps, drafted>>

\* content_draft_save, from the form on: the document is replaced and the record deleted.
Save(q) ==
    /\ posts[q].kind = "form" /\ (WouldReplace(posts[q]) => posts[q].overwrite)
    /\ writes < MaxWrites /\ writes' = writes + 1
    /\ document' = writes' /\ record' = None /\ Done(q)
    /\ UNCHANGED <<tasks, latest, resume, runs, mishaps, drafted>>

-----------------------------------------------------------------------------
(* The surroundings *)

\* "Edit as JSON instead": the document is written, or deleted, on its own page.
Edit ==
    /\ writes < MaxWrites /\ writes' = writes + 1
    /\ document' \in {writes', 0} \ {document}
    /\ UNCHANGED <<record, tasks, latest, resume, posts, runs, mishaps, drafted>>

RemoveResume ==
    /\ resume /\ resume' = FALSE /\ Mishap
    /\ UNCHANGED <<record, tasks, latest, document, posts, runs, writes, drafted>>

Restart ==
    /\ Mishap
    /\ tasks' = <<>> /\ latest' = None /\ posts' = [q \in Requests |-> NoPost]
    /\ UNCHANGED <<record, document, resume, runs, writes, drafted>>

Handle(q) == Refuse(q) \/ Start(q) \/ SaveRead(q) \/ Save(q) \/ RefuseSave(q)
Next ==
    \/ \E r \in Runs : BeginRun(r) \/ EndRun(r)
    \/ \E q \in Requests : Arrive(q) \/ Handle(q)
    \/ GrowOld \/ Discard \/ Edit \/ RemoveResume \/ Restart

Spec == Init /\ [][Next]_vars

\* Time passes.
Fairness == WF_vars(GrowOld)
FairSpec == Spec /\ Fairness

-----------------------------------------------------------------------------
(* Properties *)

\* There is one draft at a time: a start, a discard and a restart leave no second run behind
\* that spends calls of the model, even where the page took a slow run for a dead one and
\* the record changed hands meanwhile.
OneDraftAtATime == Cardinality(DOMAIN tasks) <= 1

\* A save replaces only a document the draft was made on, or one the user agreed to replace,
\* or one that was written after the save was sent: an edit by hand during the minutes of
\* a call, or while the review was open, is not lost unasked.
EditsSurvive ==
    [][\A q \in Requests :
         posts[q].kind = "form" /\ document' # document /\ posts'[q] = NoPost /\ record' = None
         => LET p == posts[q]
            IN \/ document = 0 \/ p.overwrite \/ document # p.seen
               \/ document = drafted[p.record.run]]_vars

\* The page is never stuck: whatever happens to a run, its process included, it is not shown
\* as running for ever, so a draft can be started again.
NeverBricked == Current("running") ~> ~Current("running")

(***************************************************************************)
(* Not kept by the code.  The save waits for its form after it has read    *)
(* the record, and then deletes whatever record there is: a start in       *)
(* between loses the run it was told is running.                           *)
(***************************************************************************)
RunsKeepTheirRecord ==
    [][\A r \in DOMAIN tasks : Owns(r) /\ r \in DOMAIN tasks' => record' # None]_vars
=============================================================================
