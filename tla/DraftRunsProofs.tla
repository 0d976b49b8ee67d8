--------------------------- MODULE DraftRunsProofs ---------------------------
(***************************************************************************)
(* Proofs about DraftRuns, for any number of requests, runs and writes.    *)
(*                                                                         *)
(* That one draft is alive at a time rests on OneTask: the only run there  *)
(* is, is the one app.state refers to.  That a save loses no edit rests    *)
(* on EditInv: the stamp of a finished draft, in the store or in the hands *)
(* of a save, is of the document its call was made on, and its run is      *)
(* over for good.                                                          *)
(***************************************************************************)
EXTENDS DraftRuns, FiniteSetTheorems, TLAPS

PostRow == [kind : {"start", "save", "form"}, seen : Documents, resume : BOOLEAN,
            overwrite : BOOLEAN, record : Records \union {None}]

Typed == TypeOK /\ posts \in [Requests -> PostRow \union {NoPost}]

-----------------------------------------------------------------------------
(* Types *)

LEMMA DraftStepTypes ==
    ASSUME DraftAssumption, Typed, [Next]_vars
    PROVE  Typed'
<1>0. /\ MaxRuns \in Nat /\ MaxWrites \in Nat /\ MaxMishaps \in Nat
      /\ record \in Records \union {None} /\ latest \in Runs \union {None}
      /\ document \in Documents /\ resume \in BOOLEAN
      /\ runs \in 0 .. MaxRuns /\ writes \in 0 .. MaxWrites /\ mishaps \in 0 .. MaxMishaps
      /\ drafted \in [Runs -> Documents] /\ posts \in [Requests -> PostRow \union {NoPost}]
      /\ DOMAIN tasks \subseteq Runs
      /\ \A r \in DOMAIN tasks : tasks[r] \in Documents \union {None}
  BY DEF DraftAssumption, Typed, TypeOK
<1>1. ASSUME NEW q \in Requests, Done(q) PROVE posts' \in [Requests -> PostRow \union {NoPost}]
  BY <1>0, <1>1 DEF Done
<1>2. ASSUME NEW status \in Statuses PROVE Plain(status) \in Records
  BY DEF Plain, Records
<1>3. \A m \in 0 .. MaxMishaps : m < MaxMishaps => m + 1 \in 0 .. MaxMishaps
  BY <1>0
<1>4. ASSUME NEW r \in Runs, BeginRun(r) PROVE Typed'
  <2>1. record' \in Records \union {None}
    BY <1>0, <1>4 DEF BeginRun, Records, Statuses
  <2>2. /\ DOMAIN tasks' = DOMAIN tasks /\ drafted' \in [Runs -> Documents]
        /\ \A s \in DOMAIN tasks : tasks'[s] \in Documents \union {None}
    BY <1>0, <1>4 DEF BeginRun
  <2> QED
    BY <1>0, <1>4, <2>1, <2>2 DEF BeginRun, Typed, TypeOK
<1>5. ASSUME NEW r \in Runs, EndRun(r) PROVE Typed'
  <2>1. record' \in Records \union {None}
    BY <1>0, <1>5 DEF EndRun, Records, Statuses, Stamp
  <2>2. mishaps' \in 0 .. MaxMishaps
    BY <1>0, <1>3, <1>5 DEF EndRun, MishapUnless, Mishap
  <2>3. DOMAIN tasks' \subseteq Runs /\ \A s \in DOMAIN tasks' : tasks'[s] \in Documents \union {None}
    BY <1>0, <1>5 DEF EndRun, Without
  <2> QED
    BY <1>0, <1>5, <2>1, <2>2, <2>3 DEF EndRun, Typed, TypeOK
<1>6. ASSUME NEW q \in Requests, Arrive(q) PROVE Typed'
  <2>1. PICK kind \in {"start", "save"}, overwrite \in BOOLEAN :
          posts' = [posts EXCEPT ![q] = [kind |-> kind, seen |-> document, resume |-> resume,
                                         overwrite |-> overwrite, record |-> None]]
    BY <1>6 DEF Arrive
  <2>2. [kind |-> kind, seen |-> document, resume |-> resume, overwrite |-> overwrite,
         record |-> None] \in PostRow
    BY <1>0 DEF PostRow
  <2>3. posts' \in [Requests -> PostRow \union {NoPost}]
    BY <1>0, <2>1, <2>2
  <2> QED
    BY <1>0, <1>6, <2>3 DEF Arrive, Typed, TypeOK
<1>7. ASSUME NEW q \in Requests, Refuse(q) PROVE Typed'
  <2>1. record' \in Records \union {None}
    BY <1>0, <1>2, <1>7 DEF Refuse, Statuses
  <2> QED
    BY <1>0, <1>1, <1>7, <2>1 DEF Refuse, Typed, TypeOK
<1>8. ASSUME NEW q \in Requests, Start(q) PROVE Typed'
  <2>1. runs' \in 0 .. MaxRuns /\ runs' \in Runs
    BY <1>0, <1>8 DEF Start, Runs
  <2>2. record' \in Records
    BY <1>8, <2>1 DEF Start, Records, Statuses
  <2>3. DOMAIN tasks' \subseteq Runs /\ \A s \in DOMAIN tasks' : tasks'[s] \in Documents \union {None}
    BY <1>0, <1>8, <2>1 DEF Start
  <2> QED
    BY <1>0, <1>1, <1>8, <2>1, <2>2, <2>3 DEF Start, Typed, TypeOK
<1>9. ASSUME NEW q \in Requests, SaveRead(q) PROVE Typed'
  <2>1. posts[q] \in PostRow
    BY <1>0, <1>9 DEF SaveRead, NoPost
  <2>2. [posts[q] EXCEPT !.kind = "form", !.record = record] \in PostRow
    BY <1>0, <2>1 DEF PostRow
  <2>3. posts' \in [Requests -> PostRow \union {NoPost}]
    BY <1>0, <1>9, <2>2 DEF SaveRead
  <2> QED
    BY <1>0, <1>9, <2>3 DEF SaveRead, Typed, TypeOK
<1>10. ASSUME NEW q \in Requests, Save(q) \/ RefuseSave(q) PROVE Typed'
  <2>1. \A n \in 0 .. MaxWrites : n < MaxWrites => n + 1 \in 0 .. MaxWrites
    BY <1>0
  <2>2. writes' \in 0 .. MaxWrites /\ document' \in Documents
    BY <1>0, <1>10, <2>1 DEF Save, RefuseSave, Documents
  <2>3. Done(q) /\ record' \in Records \union {None}
    BY <1>0, <1>10 DEF Save, RefuseSave
  <2> QED
    BY <1>0, <1>1, <1>10, <2>2, <2>3 DEF Save, RefuseSave, Typed, TypeOK
<1>11. CASE Edit
  <2>1. \A n \in 0 .. MaxWrites : n < MaxWrites => n + 1 \in 0 .. MaxWrites
    BY <1>0
  <2>2. writes' \in 0 .. MaxWrites /\ document' \in Documents
    BY <1>0, <1>11, <2>1 DEF Edit, Documents
  <2> QED
    BY <1>0, <1>11, <2>2 DEF Edit, Typed, TypeOK
<1>12. CASE GrowOld \/ Discard
  <2>1. record' \in Records \union {None}
    BY <1>0, <1>12 DEF GrowOld, Discard, Records
  <2>2. DOMAIN tasks' \subseteq Runs /\ \A s \in DOMAIN tasks' : tasks'[s] \in Documents \union {None}
    BY <1>0, <1>12 DEF GrowOld, Discard, Without
  <2> QED
    BY <1>0, <1>12, <2>1, <2>2 DEF GrowOld, Discard, Typed, TypeOK
<1>13. CASE RemoveResume \/ Restart
  <2>1. mishaps' \in 0 .. MaxMishaps
    BY <1>0, <1>3, <1>13 DEF RemoveResume, Restart, Mishap
  <2>2. DOMAIN tasks' \subseteq Runs /\ \A s \in DOMAIN tasks' : tasks'[s] \in Documents \union {None}
    BY <1>0, <1>13 DEF RemoveResume, Restart
  <2> QED
    BY <1>0, <1>13, <2>1, <2>2 DEF RemoveResume, Restart, Typed, TypeOK
<1>14. CASE UNCHANGED vars
  BY <1>14 DEF vars, Typed, TypeOK
<1> QED
  BY <1>4, <1>5, <1>6, <1>7, <1>8, <1>9, <1>10, <1>11, <1>12, <1>13, <1>14 DEF Next, Handle

\* Every reachable state is well typed, for any bounds.
THEOREM DraftTypeCorrect ==
    ASSUME DraftAssumption
    PROVE  Spec => []TypeOK
<1>1. Init => Typed
  BY DEF DraftAssumption, Init, Typed, TypeOK, Documents
<1>2. Typed /\ [Next]_vars => Typed'
  BY DraftStepTypes
<1>3. Typed => TypeOK
  BY DEF Typed
<1> QED
  BY <1>1, <1>2, <1>3, PTL DEF Spec

-----------------------------------------------------------------------------
(* One run at a time *)

OneTask == DOMAIN tasks \subseteq {latest}

\* Whatever a page takes for dead, and whichever of start, discard and restart comes when, no
\* second run of the model is alive.
THEOREM OneDraft == Spec => []OneDraftAtATime
<1>1. Init => OneTask
  BY DEF Init, OneTask
<1>2. OneTask /\ [Next]_vars => OneTask'
  <2> SUFFICES ASSUME OneTask, [Next]_vars PROVE OneTask'
    OBVIOUS
  <2>1. ASSUME NEW r \in Runs, BeginRun(r) \/ EndRun(r) PROVE OneTask'
    BY <2>1 DEF BeginRun, EndRun, Without, OneTask
  <2>2. ASSUME NEW q \in Requests, Start(q) PROVE OneTask'
    BY <2>2 DEF Start, Cancelled, OneTask
  <2>3. ASSUME NEW q \in Requests, Refuse(q) \/ SaveRead(q) \/ Save(q) \/ RefuseSave(q) \/ Arrive(q)
        PROVE  OneTask'
    BY <2>3 DEF Refuse, SaveRead, Save, RefuseSave, Arrive, OneTask
  <2>4. CASE Discard \/ Restart
    BY <2>4 DEF Discard, Restart, Without, OneTask
  <2>5. CASE GrowOld \/ Edit \/ RemoveResume \/ UNCHANGED vars
    BY <2>5 DEF GrowOld, Edit, RemoveResume, vars, OneTask
  <2> QED
    BY <2>1, <2>2, <2>3, <2>4, <2>5 DEF Next, Handle
<1>3. OneTask => OneDraftAtATime
  <2>1. IsFiniteSet({latest}) /\ Cardinality({latest}) = 1
    BY FS_Singleton
  <2>2. OneTask => IsFiniteSet(DOMAIN tasks) /\ Cardinality(DOMAIN tasks) <= Cardinality({latest})
    BY <2>1, FS_Subset DEF OneTask
  <2> QED
    BY <2>1, <2>2 DEF OneDraftAtATime
<1> QED
  BY <1>1, <1>2, <1>3, PTL DEF Spec

-----------------------------------------------------------------------------
(* No edit is lost *)

\* The draft of a finished run: nobody runs it again, so its stamp stays what it was.
Settled(rec) == /\ rec.run \in 1 .. runs /\ rec.run \notin DOMAIN tasks
                /\ rec.digest = drafted[rec.run]

Finished(rec) == rec # None /\ rec.status = "ok"

EditInv ==
    /\ \A r \in DOMAIN tasks : r \in 1 .. runs /\ (tasks[r] # None => tasks[r] = drafted[r])
    /\ Finished(record) => Settled(record)
    /\ \A q \in Requests : posts[q].kind = "form" => Settled(posts[q].record)

\* What is settled stays so in a step that starts no finished run, and leaves the documents
\* of the other runs.
LEMMA SettledStays ==
    ASSUME NEW rec, Settled(rec), runs \in Nat, runs' \in Nat, runs <= runs',
           \A r \in DOMAIN tasks' : r \in DOMAIN tasks \/ r \notin 1 .. runs,
           \A r \in 1 .. runs : r \notin DOMAIN tasks => drafted'[r] = drafted[r]
    PROVE  Settled(rec)'
BY DEF Settled

LEMMA EditsKept ==
    ASSUME DraftAssumption, Typed, EditInv, [Next]_vars
    PROVE  EditInv'
<1>0. /\ record \in Records \union {None} /\ runs \in Nat
      /\ posts \in [Requests -> PostRow \union {NoPost}]
      /\ drafted \in [Runs -> Documents] /\ DOMAIN tasks \subseteq Runs
  BY DEF DraftAssumption, Typed, TypeOK
<1>1. ASSUME runs' \in Nat, runs <= runs',
             \A r \in DOMAIN tasks' : r \in DOMAIN tasks \/ r \notin 1 .. runs,
             \A r \in 1 .. runs : r \notin DOMAIN tasks => drafted'[r] = drafted[r],
             \A r \in DOMAIN tasks' : r \in 1 .. runs' /\ (tasks'[r] # None => tasks'[r] = drafted'[r]),
             Finished(record)' => (record' = record \/ Settled(record)'),
             \A q \in Requests : posts'[q].kind = "form" =>
                 \/ posts'[q] = posts[q]
                 \/ Finished(record) /\ posts'[q].record = record
      PROVE  EditInv'
  <2>1. Finished(record)' => Settled(record)'
    BY <1>0, <1>1, SettledStays DEF EditInv, Finished
  <2>2. ASSUME NEW q \in Requests, posts'[q].kind = "form" PROVE Settled(posts[q].record)'
    BY <1>0, <1>1, <2>2, SettledStays DEF EditInv, Finished
  <2> QED
    BY <1>1, <2>1, <2>2 DEF EditInv
<1>2. ASSUME NEW r \in Runs, BeginRun(r) PROVE EditInv'
  <2>1. /\ r \in DOMAIN tasks /\ DOMAIN tasks' = DOMAIN tasks /\ tasks'[r] = drafted'[r]
        /\ \A s \in Runs \ {r} : drafted'[s] = drafted[s]
        /\ \A s \in DOMAIN tasks \ {r} : tasks'[s] = tasks[s]
        /\ UNCHANGED <<posts, runs>>
    BY <1>0, <1>2 DEF BeginRun
  <2>2. Finished(record)' => record' = record
    BY <1>2 DEF BeginRun, Finished
  <2>3. \A s \in 1 .. runs : s \notin DOMAIN tasks => drafted'[s] = drafted[s]
    <3>1. \A s \in 1 .. runs : s \in Runs
      BY DEF DraftAssumption, Runs, Typed, TypeOK
    <3> QED
      BY <2>1, <3>1
  <2> QED
    BY <1>0, <1>1, <2>1, <2>2, <2>3 DEF EditInv
<1>3. ASSUME NEW r \in Runs, EndRun(r) PROVE EditInv'
  <2>1. /\ r \in DOMAIN tasks /\ tasks[r] # None /\ DOMAIN tasks' = DOMAIN tasks \ {r}
        /\ \A s \in DOMAIN tasks' : tasks'[s] = tasks[s]
        /\ UNCHANGED <<posts, runs, drafted>>
    BY <1>3 DEF EndRun, Without
  <2>2. \/ record' = record
        \/ record'.run = r /\ record'.digest = tasks[r]
    BY <1>3 DEF EndRun, Stamp
  <2>3. record' = record \/ Settled(record)'
    BY <2>1, <2>2 DEF EditInv, Settled
  <2> QED
    BY <1>0, <1>1, <2>1, <2>3 DEF EditInv
<1>4. ASSUME NEW q \in Requests, Arrive(q) \/ Refuse(q) \/ SaveRead(q) \/ Save(q) \/ RefuseSave(q)
      PROVE  EditInv'
  <2>1. UNCHANGED <<tasks, runs, drafted>>
    BY <1>4 DEF Arrive, Refuse, SaveRead, Save, RefuseSave
  <2>2. Finished(record)' => record' = record
    BY <1>4 DEF Arrive, Refuse, SaveRead, Save, RefuseSave, Finished, Plain
  <2>3. ASSUME NEW p \in Requests, posts'[p].kind = "form"
        PROVE  \/ posts'[p] = posts[p]
               \/ Finished(record) /\ posts'[p].record = record
    <3>1. CASE Done(q)
      BY <1>0, <2>3, <3>1 DEF Done, NoPost
    <3>2. CASE Arrive(q)
      BY <1>0, <2>3, <3>2 DEF Arrive
    <3>3. CASE SaveRead(q)
      <4>1. posts[q] \in PostRow
        BY <1>0, <3>3 DEF SaveRead, NoPost
      <4>2. Current("ok") => Finished(record)
        BY <1>0 DEF Current, Finished
      <4> QED
        BY <1>0, <2>3, <3>3, <4>1, <4>2 DEF SaveRead, NoPost, PostRow
    <3> QED
      BY <1>4, <3>1, <3>2, <3>3 DEF Refuse, Save, RefuseSave
  <2> QED
    BY <1>0, <1>1, <2>1, <2>2, <2>3 DEF EditInv
<1>5. ASSUME NEW q \in Requests, Start(q) PROVE EditInv'
  <2>1. /\ runs' = runs + 1 /\ drafted' = drafted /\ ~Finished(record)' /\ Done(q)
        /\ DOMAIN tasks' \subseteq DOMAIN tasks \union {runs'}
        /\ tasks'[runs'] = None
        /\ \A s \in DOMAIN tasks' \ {runs'} : tasks'[s] = tasks[s]
    BY <1>5 DEF Start, Finished
  <2>2. \A p \in Requests : posts'[p].kind = "form" => posts'[p] = posts[p]
    BY <1>0, <2>1 DEF Done, NoPost
  <2>3. \A s \in DOMAIN tasks' : s \in 1 .. runs' /\ (s \in DOMAIN tasks \/ s \notin 1 .. runs)
    BY <1>0, <2>1 DEF EditInv
  <2>4. runs' \in Nat /\ runs <= runs'
    BY <1>0, <2>1
  <2> QED
    BY <1>1, <2>1, <2>2, <2>3, <2>4 DEF EditInv
<1>6. CASE GrowOld
  <2>1. ~Finished(record)' /\ UNCHANGED <<tasks, posts, runs, drafted>>
    BY <1>0, <1>6 DEF GrowOld, Finished, Records
  <2> QED
    BY <1>0, <1>1, <2>1 DEF EditInv
<1>7. CASE Discard
  <2>1. /\ ~Finished(record)' /\ UNCHANGED <<posts, runs, drafted>>
        /\ DOMAIN tasks' \subseteq DOMAIN tasks
        /\ \A s \in DOMAIN tasks' : tasks'[s] = tasks[s]
    BY <1>7 DEF Discard, Without, Finished
  <2> QED
    BY <1>0, <1>1, <2>1 DEF EditInv
<1>8. CASE Restart
  <2>1. /\ DOMAIN tasks' = {} /\ UNCHANGED <<record, runs, drafted>>
        /\ \A q \in Requests : posts'[q].kind # "form"
    BY <1>8 DEF Restart, NoPost
  <2> QED
    BY <1>0, <1>1, <2>1 DEF EditInv
<1>9. CASE Edit \/ RemoveResume \/ UNCHANGED vars
  <2>1. UNCHANGED <<record, tasks, posts, runs, drafted>>
    BY <1>9 DEF Edit, RemoveResume, vars
  <2> QED
    BY <1>0, <1>1, <2>1 DEF EditInv
<1> QED
  BY <1>2, <1>3, <1>4, <1>5, <1>6, <1>7, <1>8, <1>9 DEF Next, Handle

\* A save that goes through is of a settled draft.
LEMMA SavesAreSettled ==
    ASSUME Typed, EditInv, [Next]_vars, NEW q \in Requests, posts[q].kind = "form",
           document' # document, posts'[q] = NoPost
    PROVE  \/ document = 0 \/ posts[q].overwrite \/ document # posts[q].seen
           \/ document = drafted[posts[q].record.run]
<1>1. posts[q] # NoPost
  BY DEF NoPost
<1>2. ~Edit
  BY <1>1 DEF Edit
<1>3. PICK p \in Requests : Save(p)
  BY <1>2 DEF Next, Handle, BeginRun, EndRun, Arrive, Refuse, Start, SaveRead, RefuseSave,
              GrowOld, Discard, RemoveResume, Restart, vars
<1>4. p = q
  BY <1>1, <1>3 DEF Save, Done, Typed
<1> QED
  BY <1>3, <1>4 DEF Save, WouldReplace, EditInv, Settled

\* A draft is never saved unasked over a document its model did not see, whatever edits,
\* starts, restarts and other saves come during its call and its review.
THEOREM NoEditLost ==
    ASSUME DraftAssumption
    PROVE  Spec => EditsSurvive
<1> DEFINE Kept ==
      \A q \in Requests :
         posts[q].kind = "form" /\ document' # document /\ posts'[q] = NoPost /\ record' = None
         => LET p == posts[q]
            IN \/ document = 0 \/ p.overwrite \/ document # p.seen
               \/ document = drafted[p.record.run]
<1>1. Init => Typed /\ EditInv
  BY DEF DraftAssumption, Init, Typed, TypeOK, Documents, EditInv, Finished, NoPost
<1>2. Typed /\ EditInv /\ [Next]_vars => Typed' /\ EditInv'
  BY DraftStepTypes, EditsKept
<1>3. Typed /\ EditInv /\ [Next]_vars => [Kept]_vars
  BY SavesAreSettled
<1> QED
  BY <1>1, <1>2, <1>3, PTL DEF Spec, EditsSurvive
=============================================================================
