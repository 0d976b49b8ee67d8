------------------------------ MODULE MCServices ------------------------------
(***************************************************************************)
(* What stands behind a page, side by side: an instance each of            *)
(* SetupWizard, DraftRuns and AuditTrail, and the questions of MCLookups.  *)
(* A behaviour is one of these parts, and the others stay as they began.   *)
(***************************************************************************)
EXTENDS MCLookups

CONSTANTS Requests, Begins, MaxRequests, Edited, MaxResumes,
          WizardMishaps,                                                \* SetupWizard
          MaxRuns, MaxWrites, DraftMishaps,                             \* DraftRuns
          Cycles, Rescues, Scores, AuditMishaps,                        \* AuditTrail
          q1, q2, c1, c2    \* what Services.cfg names

VARIABLES part,
          \* SetupWizard
          cfg, secrets, profile, resume, skipped, draft, preview, topic, previews, posts,
          arrived, topics, mishaps,
          \* DraftRuns
          record, tasks, latest, document, resumeText, draftPosts, runs, writes,
          draftMishaps, drafted,
          \* AuditTrail
          row, filed, allowed, auditCycles, rescues, auditMishaps, confirming

lookupVars == <<asked, answered>>
wizardVars == <<cfg, secrets, profile, resume, skipped, draft, preview, topic, previews,
                posts, arrived, topics, mishaps>>
draftVars == <<record, tasks, latest, document, resumeText, draftPosts, runs, writes,
               draftMishaps, drafted>>
auditVars == <<row, filed, allowed, auditCycles, rescues, auditMishaps, confirming>>

\* An install with scoring, its key and the starter pack, whose user skipped the preview.
WizardFields == {"scoring", "titles", "age", "boards", "discovery", "pack"}
Begun == [cfg |-> [f \in WizardFields |-> f \in {"scoring", "pack"}], secrets |-> {"key"},
          profile |-> FALSE, resume |-> 1, skipped |-> {"preview"}]
OneInstall == {Begun}

Wizard == INSTANCE SetupWizard WITH Installs <- Begins, MaxMishaps <- WizardMishaps

Draft == INSTANCE DraftRuns WITH
    MaxMishaps <- DraftMishaps,
    resume <- resumeText, posts <- draftPosts, mishaps <- draftMishaps

Audit == INSTANCE AuditTrail WITH
    MaxMishaps <- AuditMishaps, cycles <- auditCycles, mishaps <- auditMishaps

ASSUME ServicesAssumption ==
    Wizard!WizardAssumption /\ Draft!DraftAssumption /\ Audit!AuditAssumption

\* A part that is not run has one initial state.
ServicesInit ==
    /\ part \in {"wizard", "draft", "audit", "lookup"}
    /\ Wizard!Init /\ Draft!Init /\ Audit!Init
    /\ part # "audit" => allowed
    /\ IF part = "lookup" THEN Init ELSE asked = [kind |-> "none"] /\ answered = FALSE

ServicesNext ==
    /\ UNCHANGED part
    /\ \/ part = "wizard" /\ Wizard!Next /\ UNCHANGED <<draftVars, auditVars, lookupVars>>
       \/ part = "draft" /\ Draft!Next /\ UNCHANGED <<wizardVars, auditVars, lookupVars>>
       \/ part = "audit" /\ Audit!Next /\ UNCHANGED <<wizardVars, draftVars, lookupVars>>
       \/ part = "lookup" /\ Next /\ UNCHANGED <<wizardVars, draftVars, auditVars>>

servicesVars == <<part, wizardVars, draftVars, auditVars, lookupVars>>

\* The fairness of each, of the part that is run.
ServicesSpec ==
    /\ ServicesInit /\ [][ServicesNext]_servicesVars
    /\ WF_wizardVars(part = "wizard" /\ Wizard!EndPreview)
    /\ WF_draftVars(part = "draft" /\ Draft!GrowOld)

\* What runs behind a page (content_draft.py, preview.py).  Two runs of the draft of the
\* structured résumé are never alive at a time, whatever a page took for dead; a draft saves
\* over no edit its model did not see; no record of a dead run blocks the page for good; and
\* a preview comes to an end.
RunsHold ==
    /\ [](Draft!TypeOK /\ Draft!OneDraftAtATime)
    /\ Draft!EditsSurvive
    /\ part = "draft" => Draft!NeverBricked
    /\ part = "wizard" => Wizard!PreviewResolves

\* The wizard (steps.py, routes.py): when it says it is done, no warning is left but of a
\* skipped step; a draft of an older résumé is there only for the reasons SetupWizard names,
\* and goes with the next résumé that is saved in the wizard; and a save that leaves its
\* step open says why.
WizardHolds ==
    /\ [](Wizard!TypeOK /\ Wizard!DoneIsReady)
    /\ Wizard!DraftIsOfTheResume
    /\ Wizard!SavesAreExplained

\* The audit page (audit.py): a rescue makes a card of the posting whatever a cycle does to
\* its row while the model is asked, unless a row that has expired is in the way; and what
\* the user judged stays to be learned from; with the types.
RescuesTake == []Audit!TypeOK /\ Audit!RescueTakes /\ Audit!JudgementsLast
=============================================================================
