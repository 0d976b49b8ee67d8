----------------------------- MODULE SetupWizard -----------------------------
(***************************************************************************)
(* The setup wizard (src/src/web/wizard/): six steps whose completion is   *)
(* derived from the settings in effect, three of which it writes itself,   *)
(* a draft of the profile that a GET of the review page makes with the     *)
(* model, and a preview that runs in the background.                       *)
(*                                                                         *)
(* The routes that take a form wait for it with the snapshot of the        *)
(* settings the middleware took.  Each then makes two writes, one after    *)
(* the other: of the settings or a document, and of the keys or of the     *)
(* wizard's store.  Nothing of the event loop falls between the two; the   *)
(* routes that run in threads, another process and a restart do.  Of the   *)
(* settings, `cfg' has what the steps and the readiness checks ask: is     *)
(* scoring on, are titles, a greatest age, a company board and discovery   *)
(* set, and is a non-empty starter pack switched on.  The provider needs a *)
(* key.  A résumé is a number, 0 if there is none.                         *)
(***************************************************************************)
EXTENDS Naturals, Sequences, FiniteSets

CONSTANTS None,
          Requests,    \* what can be under way at once
          Installs,    \* the installations a run starts from: [cfg, secrets, profile, resume, skipped]
          MaxRequests, \* bound: requests that arrive
          Edited,      \* bound: the fields that the settings pages change
          MaxResumes,  \* bound: the résumés there can be
          MaxMishaps   \* bound: model answers and previews that fail, restarts, edits elsewhere

VARIABLES cfg, secrets, profile, resume,  \* in effect: settings, keys, documents
          skipped, draft, preview, topic, \* the wizard's store; draft is None or [status, of]
          previews,                       \* previews that run
          posts, arrived, topics, mishaps

store == <<skipped, draft, preview, topic>>
settings == <<cfg, secrets, profile, resume>>
vars == <<cfg, secrets, profile, resume, skipped, draft, preview, topic, previews, posts,
          arrived, topics, mishaps>>

Fields == {"scoring", "titles", "age", "boards", "discovery", "pack"}
Steps == <<"llm", "resume", "review", "companies", "notifications", "preview">>
StepNames == {Steps[i] : i \in DOMAIN Steps}
Forms == {"llm", "resume", "review", "companies", "notifications"}
Kinds == Forms \union {"draft", "suggest", "skip"}
NoPost == [kind |-> "none", read |-> None]

WizardAssumption ==
    /\ MaxRequests \in Nat /\ MaxResumes \in Nat /\ MaxMishaps \in Nat
    /\ None \notin StepNames \union {"saved", "nothing"}
    /\ Edited \subseteq Fields
    /\ Installs \subseteq [cfg : [Fields -> BOOLEAN], secrets : SUBSET {"key", "ntfy"},
                         profile : BOOLEAN, resume : 0 .. MaxResumes, skipped : SUBSET StepNames]

TypeOK ==
    /\ cfg \in [Fields -> BOOLEAN] /\ secrets \subseteq {"key", "ntfy"} /\ profile \in BOOLEAN
    /\ resume \in 0 .. MaxResumes /\ skipped \subseteq StepNames
    /\ draft \in [status : {"ok", "error"}, of : 1 .. MaxResumes] \union {None}
    /\ preview \in {None, "running", "ok", "error"} /\ previews \in Nat
    /\ topics \in Nat /\ topic \in (1 .. topics) \union {None}
    /\ arrived \in 0 .. MaxRequests /\ mishaps \in 0 .. MaxMishaps

Init ==
    /\ \E i \in Installs :
          /\ cfg = i.cfg /\ secrets = i.secrets /\ profile = i.profile /\ resume = i.resume
          /\ skipped = i.skipped
    /\ draft = None /\ preview = None /\ topic = None /\ previews = 0
    /\ posts = [q \in Requests |-> NoPost] /\ arrived = 0 /\ topics = 0 /\ mishaps = 0

Mishap == mishaps < MaxMishaps /\ mishaps' = mishaps + 1
MishapUnless(fine) == IF fine THEN UNCHANGED mishaps ELSE Mishap

-----------------------------------------------------------------------------
(* Readiness and the steps *)

Codes ==
    {c \in {"no_titles", "nothing_polled", "no_sink", "llm_no_key", "llm_no_profile", "no_max_age"} :
        \/ c = "no_titles" /\ ~cfg.titles
        \/ c = "nothing_polled" /\ ~cfg.boards /\ ~cfg.discovery /\ ~cfg.pack
        \/ c = "no_sink" /\ "ntfy" \notin secrets
        \/ c = "llm_no_key" /\ cfg.scoring /\ "key" \notin secrets
        \/ c = "llm_no_profile" /\ cfg.scoring /\ ~profile
        \/ c = "no_max_age" /\ ~cfg.age}

\* Mutant: the review is done without a bound on the age.
AgelessDone == "no_titles" \notin Codes /\ profile

\* _review_done
ReviewDone == Codes \intersect {"no_titles", "no_max_age"} = {} /\ profile

CompaniesChosen == cfg.boards \/ cfg.discovery \/ cfg.pack

Complete(step) ==
    \/ step = "llm" /\ cfg.scoring /\ "llm_no_key" \notin Codes
    \/ step = "resume" /\ resume # 0
    \/ step = "review" /\ ReviewDone
    \/ step = "companies" /\ CompaniesChosen
    \/ step = "notifications" /\ "no_sink" \notin Codes
    \/ step = "preview" /\ preview \in {"ok", "error"}

\* next_step: None when the wizard has nothing left to ask.
NextStep ==
    LET open == {i \in DOMAIN Steps : Steps[i] \notin skipped /\ ~Complete(Steps[i])}
    IN IF open = {} THEN None ELSE Steps[CHOOSE i \in open : \A j \in open : i <= j]

\* Mutant: a missing age is not among what the review page warns of.
AgeUnexplained(step) ==
    Codes \intersect (CASE step = "llm" -> {"llm_no_key"}
                        [] step = "review" -> {"no_titles"}
                        [] step = "notifications" -> {"no_sink"}
                        [] OTHER -> {})

\* step_warnings: what a page says after a save that did not finish its step.
StepWarnings(step) ==
    Codes \intersect (CASE step = "llm" -> {"llm_no_key"}
                        [] step = "review" -> {"no_titles", "no_max_age"}
                        [] step = "notifications" -> {"no_sink"}
                        [] OTHER -> {})

-----------------------------------------------------------------------------
(* Requests *)

\* The first write of a form is made, the second is due.
Due(q) == posts[q].kind \in Forms /\ posts[q].read # None
Saving == \E q \in Requests : Due(q)

Arrive(q, kind) ==
    /\ posts[q] = NoPost /\ ~Saving /\ arrived < MaxRequests /\ arrived' = arrived + 1
    /\ posts' = [posts EXCEPT ![q] = [kind |-> kind, cfg |-> cfg, profile |-> profile,
                                      resume |-> resume, read |-> None]]
    /\ UNCHANGED <<settings, store, previews, topics, mishaps>>

\* The middleware redirects, the form is refused or the client hangs up.
Refuse(q) ==
    /\ posts[q].kind \in Forms /\ ~Saving
    /\ posts' = [posts EXCEPT ![q] = NoPost]
    /\ UNCHANGED <<settings, store, previews, arrived, topics, mishaps>>

Done(q) == posts[q] # NoPost /\ posts' = [posts EXCEPT ![q] = NoPost]

\* What was chosen is `nothing', or something is saved.
First(q, kind, mark) ==
    /\ posts[q].kind = kind /\ ~Saving
    /\ posts' = [posts EXCEPT ![q].read = mark]
    /\ UNCHANGED <<store, previews, arrived, topics, mishaps>>
Second(q, kind) ==
    /\ posts[q].kind = kind /\ Due(q) /\ Done(q)
    /\ UNCHANGED <<cfg, profile, resume, preview, previews, arrived, topics, mishaps>>

\* save_step: of the submitted values only those that differ from the request's snapshot
\* are written, over the settings in effect.
Patched(q, values) ==
    [f \in Fields |-> IF f \in DOMAIN values /\ values[f] # posts[q].cfg[f] THEN values[f] ELSE cfg[f]]

\* A field for a secret sets it, clears it, or leaves it.
SecretForm(name) == secrets' \in {secrets, secrets \union {name}, secrets \ {name}}

\* wizard_llm_save, the settings and then the key.
SaveLlm(q) ==
    /\ First(q, "llm", "saved")
    /\ \E on \in BOOLEAN : cfg' = Patched(q, [scoring |-> on])
    /\ UNCHANGED <<secrets, profile, resume>>
StoreKey(q) ==
    /\ Second(q, "llm") /\ SecretForm("key")
    /\ UNCHANGED <<skipped, draft, topic>>

\* wizard_resume_save; a résumé without a text is refused.
SaveResume(q) ==
    /\ First(q, "resume", "saved")
    /\ \E r \in 1 .. MaxResumes : resume' = r
    /\ UNCHANGED <<cfg, secrets, profile>>

\* wizard_review_save: the settings of the request's snapshot with the filters of the form,
\* and the profile, in one bundle that names no version it was made from.
SaveReview(q) ==
    /\ First(q, "review", "saved")
    /\ \E titles, age \in BOOLEAN : cfg' = [posts[q].cfg EXCEPT !.titles = titles, !.age = age]
    /\ profile' = TRUE
    /\ UNCHANGED <<secrets, resume>>

\* Mutant: the draft there is stays.
DraftStays == draft

\* A new résumé and a saved review take the draft with them.
AfterSave == None

DropDraft(q) ==
    /\ Second(q, "resume") \/ Second(q, "review")
    /\ draft' = AfterSave
    /\ UNCHANGED <<secrets, skipped, topic>>

\* wizard_notifications_save: a stored topic ends the suggestion.
SaveNotifications(q) ==
    /\ First(q, "notifications", "saved") /\ SecretForm("ntfy")
    /\ UNCHANGED <<cfg, profile, resume>>
DropTopic(q) ==
    /\ Second(q, "notifications")
    /\ topic' = IF "ntfy" \in secrets THEN None ELSE topic
    /\ UNCHANGED <<secrets, skipped, draft>>

\* wizard_companies_save: nothing ticked and no board in effect is a skip of the step.
SaveCompanies(q) ==
    /\ \E discovery, pack \in BOOLEAN :
          /\ First(q, "companies", IF discovery \/ pack THEN "saved" ELSE "nothing")
          /\ cfg' = Patched(q, [discovery |-> discovery, pack |-> pack])
    /\ UNCHANGED <<secrets, profile, resume>>
SkipCompanies(q) ==
    /\ Second(q, "companies")
    /\ skipped' = IF posts[q].read = "saved" \/ cfg.boards THEN skipped
                  ELSE skipped \union {"companies"}
    /\ UNCHANGED <<secrets, draft, topic>>

\* wizard_skip: the set is read and then written, in a thread.
ReadSkipped(q) ==
    /\ posts[q].kind = "skip" /\ posts[q].read = None
    /\ posts' = [posts EXCEPT ![q].read = skipped]
    /\ UNCHANGED <<settings, store, previews, arrived, topics, mishaps>>
WriteSkipped(q) ==
    /\ posts[q].kind = "skip" /\ posts[q].read # None /\ Done(q)
    /\ \E step \in StepNames : skipped' = posts[q].read \union {step}
    /\ UNCHANGED <<settings, draft, preview, topic, previews, arrived, topics, mishaps>>

\* notifications_extra: a topic is suggested while none is stored, and remembered.
ReadTopic(q) ==
    /\ posts[q].kind = "suggest" /\ posts[q].read = None
    /\ \/ ("ntfy" \in secrets \/ topic # None) /\ Done(q) /\ UNCHANGED topics
       \/ /\ "ntfy" \notin secrets /\ topic = None
          /\ topics' = topics + 1 /\ posts' = [posts EXCEPT ![q].read = topics']
    /\ UNCHANGED <<settings, store, previews, arrived, mishaps>>
PutTopic(q) ==
    /\ posts[q].kind = "suggest" /\ posts[q].read # None /\ Done(q)
    /\ topic' = posts[q].read
    /\ UNCHANGED <<settings, skipped, draft, preview, previews, arrived, topics, mishaps>>

-----------------------------------------------------------------------------
(* The draft of the profile *)

\* _ensure_draft, up to the call: not after the profile is saved, nor without a résumé, nor
\* where a draft or a failure is remembered.
BeginDraft(q) ==
    /\ posts[q].kind = "draft" /\ posts[q].read = None /\ ~Saving
    /\ posts' = [posts EXCEPT ![q] = IF posts[q].profile \/ draft # None \/ posts[q].resume = 0
                                     THEN NoPost ELSE [@ EXCEPT !.read = "called"]]
    /\ UNCHANGED <<settings, store, previews, arrived, topics, mishaps>>

\* _ensure_draft, from the answer on: the draft is of the résumé of the snapshot.
EndDraft(q) ==
    /\ posts[q].kind = "draft" /\ posts[q].read # None /\ Done(q) /\ ~Saving
    /\ \E status \in {"ok", "error"} :
          /\ MishapUnless(status = "ok")
          /\ draft' = [status |-> status, of |-> posts[q].resume]
    /\ UNCHANGED <<settings, skipped, preview, topic, previews, arrived, topics>>

\* wizard_redraft
Redraft ==
    /\ ~Saving /\ draft # None /\ draft' = None
    /\ UNCHANGED <<settings, skipped, preview, topic, previews, posts, arrived, topics, mishaps>>

-----------------------------------------------------------------------------
(* The preview, which touches nothing that a form writes *)

\* wizard_preview_start
StartPreview ==
    /\ arrived < MaxRequests /\ arrived' = arrived + 1
    /\ preview' = "running" /\ previews' = previews + 1
    /\ UNCHANGED <<settings, skipped, draft, topic, posts, topics, mishaps>>

\* What a preview may come to: it is stopped after BUDGET_SECONDS, and it may fail.
Outcomes == {"ok", "error"}

\* run_preview
EndPreview ==
    /\ previews > 0 /\ previews' = previews - 1
    /\ preview' \in Outcomes
    /\ UNCHANGED <<settings, skipped, draft, topic, posts, arrived, topics, mishaps>>

-----------------------------------------------------------------------------
(* The surroundings *)

\* The settings pages and the command line: a field is changed, a secret is removed, the
\* profile or the résumé is replaced, or an import brings settings and documents at once.
\* None of them knows of the wizard's draft, and no document is ever taken away.
Elsewhere ==
    /\ Mishap
    /\ \/ \E f \in Edited : cfg' = [cfg EXCEPT ![f] = ~@] /\ UNCHANGED <<secrets, profile, resume>>
       \/ \E s \in secrets : secrets' = secrets \ {s} /\ UNCHANGED <<cfg, profile, resume>>
       \/ profile' = TRUE /\ UNCHANGED <<cfg, secrets, resume>>
       \/ \E r \in 1 .. MaxResumes : resume' = r /\ UNCHANGED <<cfg, secrets, profile>>
       \/ \E i \in Installs, r \in 1 .. MaxResumes :
             cfg' = i.cfg /\ profile' = (profile \/ i.profile) /\ resume' = r /\ UNCHANGED secrets
    /\ UNCHANGED <<store, previews, posts, arrived, topics>>

Restart ==
    /\ Mishap /\ previews' = 0 /\ posts' = [q \in Requests |-> NoPost]
    /\ UNCHANGED <<settings, store, arrived, topics>>

Save(q) ==
    \/ SaveLlm(q) \/ SaveResume(q) \/ SaveReview(q) \/ SaveCompanies(q) \/ SaveNotifications(q)
Finish(q) ==
    \/ StoreKey(q) \/ DropDraft(q) \/ SkipCompanies(q) \/ DropTopic(q)
Other(q) ==
    \/ ReadSkipped(q) \/ WriteSkipped(q) \/ ReadTopic(q) \/ PutTopic(q)
    \/ BeginDraft(q) \/ EndDraft(q) \/ Refuse(q)

Next ==
    \/ \E q \in Requests, kind \in Kinds : Arrive(q, kind)
    \/ \E q \in Requests : Save(q) \/ Finish(q) \/ Other(q)
    \/ Redraft \/ StartPreview \/ EndPreview \/ Elsewhere \/ Restart

Spec == Init /\ [][Next]_vars

\* wait_for stops a preview after its budget.
Fairness == WF_vars(EndPreview)
FairSpec == Spec /\ Fairness

-----------------------------------------------------------------------------
(* Properties *)

\* Two derivations agree (steps.py and readiness.py): when the wizard says it is done, every
\* warning the overview still shows belongs to a step the user skipped.
DoneIsReady ==
    LET About(step) == CASE step = "llm" -> {"llm_no_key", "llm_no_profile"}
                         [] step = "review" -> {"no_titles", "no_max_age", "llm_no_profile"}
                         [] step = "companies" -> {"nothing_polled"}
                         [] step = "notifications" -> {"no_sink"}
                         [] OTHER -> {}
    IN NextStep = None => Codes \subseteq UNION {About(step) : step \in skipped}

Stale == draft # None /\ draft.of # resume

\* A draft of a résumé that is no longer in effect is there only where a save of the wizard
\* has not come to it yet, where a restart came first, where the page was asked for before the
\* résumé was replaced and the model answered after, or where the résumé was replaced behind
\* the wizard's back; and the next save of a résumé in the wizard takes it away.
DraftIsOfTheResume ==
    [][Stale' =>
         \/ /\ Stale /\ draft' = draft
            /\ Restart \/ ~\E q \in Requests : posts[q].kind = "resume" /\ Due(q) /\ posts'[q] = NoPost
         \/ \E q \in Requests : posts'[q].kind = "resume" /\ Due(q)'
         \/ \E q \in Requests : posts[q].kind = "draft" /\ posts[q].read = "called"
                                  /\ posts[q].resume = draft'.of /\ posts'[q] = NoPost
         \/ Elsewhere /\ resume' # resume]_vars

\* A save that does not finish its step says why on the page it comes back to, for the
\* filters and for the notifications.
SavesAreExplained ==
    [][\A q \in Requests, step \in {"review", "notifications"} :
         posts[q].kind = step /\ Finish(q) /\ NextStep' = step => StepWarnings(step)' # {}]_vars

\* A preview that was started is not shown as running for ever, unless the process goes.
PreviewResolves == preview = "running" /\ previews > 0 ~> preview # "running" \/ previews = 0

(***************************************************************************)
(* Not kept by the code.  The page of a model that was saved with scoring  *)
(* off serves itself again in silence; two pages that are asked for at     *)
(* once suggest two topics; the review writes back what was in effect when *)
(* it was sent; a preview that died with its process runs for ever; a      *)
(* résumé that the settings page or a restore replaced, or whose save in   *)
(* the wizard ended between its writes, leaves the draft of the one before *)
(* on the review page; and so does a draft that was asked for before the   *)
(* save and is answered after it, although "a new résumé invalidates any   *)
(* draft made from the previous one" (routes.py:609).                      *)
(***************************************************************************)
EverySaveIsExplained ==
    [][\A q \in Requests : posts[q].kind = "llm" /\ Finish(q) /\ NextStep' = "llm"
                             => StepWarnings("llm")' # {}]_vars
OneTopic == [][topic # None /\ "ntfy" \notin secrets => topic' \in {topic, None}]_vars
ReviewKeepsTheRest ==
    [][\A q \in Requests : SaveReview(q) => cfg'.scoring = cfg.scoring /\ cfg'.discovery = cfg.discovery]_vars
DraftsAreInvalidated == [][draft' \notin {draft, None} => draft'.of = resume]_vars
DraftIsOfTheResumeInEffect == [](~Stale \/ \E q \in Requests : posts[q] # NoPost)
PreviewEnds == preview = "running" ~> preview # "running"
=============================================================================
