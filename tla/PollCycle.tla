------------------------------ MODULE PollCycle ------------------------------
(***************************************************************************)
(* One poll cycle of src/src/orchestrator.py (run_once), run by any number *)
(* of cycle runners over one SQLite file: the daemon's tiers and the       *)
(* command line may overlap, and one of them may be a dry run.             *)
(*                                                                         *)
(* The database is three tables: seen_jobs (who was alerted, suppressed or *)
(* triaged), source_state (the ETag each board's next fetch sends) and     *)
(* evaluated_postings (which postings the filters already rejected, under  *)
(* which settings generation).  An ETag is the board's content itself: a   *)
(* conditional fetch answers 304 exactly when the content is unchanged.    *)
(***************************************************************************)
EXTENDS Naturals, FiniteSets

CONSTANTS Cycles,        \* cycle runners sharing the database
          Boards,        \* connectors
          CachedBoards,  \* the boards whose vendor sends an ETag
          Jobs,          \* job ids
          Home,          \* the board (posting source) of each job id
          Malformed,     \* postings normalize() raises on
          ScoreCap,      \* relevance.max_scored_per_cycle
          SinkChoices,   \* whether a settings version has sinks: TRUE, FALSE or both
          MaxGen,        \* bound: settings generations
          MaxMishaps,    \* bound: failures, crashes and expiries
          None           \* no ETag, no response, no job

ASSUME PollAssumption ==
    /\ CachedBoards \subseteq Boards
    /\ Home \in [Jobs -> Boards]
    /\ Malformed \subseteq Jobs
    /\ ScoreCap \in Nat \ {0}
    /\ SinkChoices \subseteq BOOLEAN
    /\ MaxGen \in Nat /\ MaxMishaps \in Nat
    /\ None \notin Jobs /\ \A S \in SUBSET Jobs : S # None

VARIABLES seenJobs,      \* row of each job id in seen_jobs
          sourceState,   \* ETag stored for each board, or None
          evaluated,     \* generation stamp in evaluated_postings, 0 if no row
          listing,       \* what each vendor lists now
          settings,      \* the active settings: generation, filters, sinks
          pc, snap, prior, todo, reply, matched, scored, sending, \* per cycle
          delivered,     \* history: alerts delivered since the row was created
          rejected,      \* history: job ids some live screening rejected
          lost,          \* history: how an undecided job id left the pipeline
          mishaps        \* counts what MaxMishaps bounds

store == <<seenJobs, sourceState, evaluated>>
world == <<listing, settings>>
cycle == <<pc, snap, prior, todo, reply, matched, scored, sending>>
history == <<delivered, rejected, lost>>
vars == <<store, world, cycle, history, mishaps>>

Posts(b) == {j \in Jobs : Home[j] = b}

\* A row's "kept" status is one of state._KEPT_STATUSES: its ttl is cleared.
Row == {"none", "notified", "suppressed", "kept", "expired"}
Fate == {"no", "released", "aborted", "pruned"}
Phase == {"idle", "fetch", "score", "notify"}
Generation == Nat \ {0}
Settings == [gen: Generation, allow: SUBSET Jobs, sinks: BOOLEAN]
Snapshot == [dry: BOOLEAN, cfg: Settings]

\* What a runner holds between cycles.
NoCycle == [dry |-> FALSE, cfg |-> [gen |-> 1, allow |-> {}, sinks |-> FALSE]]

TypeOK ==
    /\ seenJobs \in [Jobs -> Row]
    /\ sourceState \in [Boards -> {None} \union SUBSET Jobs]
    /\ \A b \in Boards : sourceState[b] # None => sourceState[b] \subseteq Posts(b)
    /\ evaluated \in [Jobs -> Nat]
    /\ listing \in [Boards -> SUBSET Jobs]
    /\ \A b \in Boards : listing[b] \subseteq Posts(b)
    /\ settings \in Settings
    /\ pc \in [Cycles -> Phase]
    /\ snap \in [Cycles -> Snapshot]
    /\ prior \in [Cycles -> [Boards -> {None} \union SUBSET Jobs]]
    /\ todo \in [Cycles -> SUBSET Boards]
    /\ reply \in [Cycles -> [Boards -> {None} \union SUBSET Jobs]]
    /\ \A c \in Cycles, b \in Boards :
            reply[c][b] # None => reply[c][b] \subseteq Posts(b)
    /\ matched \in [Cycles -> SUBSET Jobs]
    /\ scored \in [Cycles -> SUBSET Jobs]
    /\ sending \in [Cycles -> Jobs \union {None}]
    /\ delivered \in [Jobs -> Nat]
    /\ rejected \subseteq Jobs
    /\ lost \in [Jobs -> Fate]
    /\ mishaps \in Nat

Init ==
    /\ seenJobs = [j \in Jobs |-> "none"]
    /\ sourceState = [b \in Boards |-> None]
    /\ evaluated = [j \in Jobs |-> 0]
    /\ listing = [b \in Boards |-> {}]
    /\ settings \in [gen: {1}, allow: SUBSET Jobs, sinks: SinkChoices]
    /\ pc = [c \in Cycles |-> "idle"]
    /\ snap = [c \in Cycles |-> NoCycle]
    /\ prior = [c \in Cycles |-> [b \in Boards |-> None]]
    /\ todo = [c \in Cycles |-> {}]
    /\ reply = [c \in Cycles |-> [b \in Boards |-> None]]
    /\ matched = [c \in Cycles |-> {}]
    /\ scored = [c \in Cycles |-> {}]
    /\ sending = [c \in Cycles |-> None]
    /\ delivered = [j \in Jobs |-> 0]
    /\ rejected = {}
    /\ lost = [j \in Jobs |-> "no"]
    /\ mishaps = 0

Mishap == mishaps < MaxMishaps /\ mishaps' = mishaps + 1

\* diff_new: an expired row that prune_expired has not deleted yet counts as new.
Unseen(j) == seenJobs[j] \in {"none", "expired"}

Live(c) == ~snap[c].dry

-----------------------------------------------------------------------------
(* Fetching and screening *)

\* One settings snapshot for the whole cycle, and one read of the stored ETags
\* of the boards that are due (cadence, suppression and backoff choose them).
Start(c, dry, due) ==
    /\ pc[c] = "idle" /\ due # {}
    /\ pc' = [pc EXCEPT ![c] = "fetch"]
    /\ snap' = [snap EXCEPT ![c] = [dry |-> dry, cfg |-> settings]]
    /\ prior' = [prior EXCEPT ![c] =
                   [b \in Boards |-> IF b \in due THEN sourceState[b] ELSE None]]
    /\ todo' = [todo EXCEPT ![c] = due]
    /\ UNCHANGED <<store, world, reply, matched, scored, sending, history, mishaps>>

Awaiting(c, b) == pc[c] = "fetch" /\ b \in todo[c] /\ reply[c][b] = None

\* The vendor answers 200 with what it lists at that moment.
Receive(c, b) ==
    /\ Awaiting(c, b) /\ prior[c][b] # listing[b]
    /\ reply' = [reply EXCEPT ![c][b] = listing[b]]
    /\ prior' = [prior EXCEPT ![c][b] = None]
    /\ UNCHANGED <<store, world, pc, snap, todo, matched, scored, sending, history,
                   mishaps>>

\* The vendor answers 304: no postings and no new state, so nothing to book.
NotModified(c, b) ==
    /\ Awaiting(c, b) /\ prior[c][b] = listing[b]
    /\ todo' = [todo EXCEPT ![c] = @ \ {b}]
    /\ prior' = [prior EXCEPT ![c][b] = None]
    /\ UNCHANGED <<store, world, pc, snap, reply, matched, scored, sending,
                   history, mishaps>>

\* Any failed fetch: an exception, a throttle, a board the pacer never admitted.
FetchFails(c, b) ==
    /\ Awaiting(c, b) /\ Mishap
    /\ todo' = [todo EXCEPT ![c] = @ \ {b}]
    /\ prior' = [prior EXCEPT ![c][b] = None]
    /\ UNCHANGED <<store, world, pc, snap, reply, matched, scored, sending,
                   history>>

\* The postings of a reply _screen_board normalizes and evaluates.
Screened(c, L) ==
    {j \in L \ Malformed : Unseen(j) /\ evaluated[j] # snap[c].cfg.gen}

Matches(c, L) == Screened(c, L) \cap snap[c].cfg.allow
Rejects(c, L) == Screened(c, L) \ snap[c].cfg.allow

Stamp(c, js) ==
    evaluated' = [j \in Jobs |-> IF j \in js THEN snap[c].cfg.gen ELSE evaluated[j]]

\* evaluated_store.record_many, best effort; never in a dry run.
RecordRejected(c, L) ==
    \/ Live(c) /\ Stamp(c, Rejects(c, L))
    \/ UNCHANGED evaluated

\* source_state.put after the screening, best effort; never in a dry run.
SaveHint(c, b, L) ==
    \/ Live(c) /\ b \in CachedBoards /\ sourceState' = [sourceState EXCEPT ![b] = L]
    \/ UNCHANGED sourceState

\* _absorb: one board's postings are screened, its rejections remembered and
\* its ETag saved, in one step of the event loop.
Absorb(c, b) ==
    LET L == reply[c][b] IN
    /\ pc[c] = "fetch" /\ L # None
    /\ matched' = [matched EXCEPT ![c] = @ \union Matches(c, L)]
    /\ todo' = [todo EXCEPT ![c] = @ \ {b}]
    /\ reply' = [reply EXCEPT ![c][b] = None]
    /\ RecordRejected(c, L)
    /\ SaveHint(c, b, L)
    /\ rejected' = rejected \union IF Live(c) THEN Rejects(c, L) ELSE {}
    /\ lost' = [j \in Jobs |-> IF Live(c) /\ j \in Matches(c, L) THEN "no" ELSE lost[j]]
    /\ UNCHANGED <<seenJobs, world, pc, snap, prior, scored, sending, delivered,
                   mishaps>>

\* Mutant: the ETag is saved before the screening that fails.
ScreenFailsLate(c, b) ==
    /\ pc[c] = "fetch" /\ reply[c][b] # None /\ Mishap
    /\ SaveHint(c, b, reply[c][b])
    /\ todo' = [todo EXCEPT ![c] = @ \ {b}]
    /\ reply' = [reply EXCEPT ![c][b] = None]
    /\ UNCHANGED <<seenJobs, evaluated, world, pc, snap, prior, matched, scored,
                   sending, history>>

\* A database error while screening is this board's failure: nothing is saved.
ScreenFails(c, b) ==
    /\ pc[c] = "fetch" /\ reply[c][b] # None /\ Mishap
    /\ todo' = [todo EXCEPT ![c] = @ \ {b}]
    /\ reply' = [reply EXCEPT ![c][b] = None]
    /\ UNCHANGED <<store, world, pc, snap, prior, matched, scored, sending, history>>

\* _cap_for_scoring: the newest ScoreCap matches go on (posting dates are
\* abstracted: any choice of them). The boards of the others lose their ETag.
DeferredKeep(c, keep) == {}  \* Mutant: the deferred boards keep their ETag.

Deferred(c, keep) == {Home[j] : j \in matched[c] \ keep}

DropHints(bs) ==
    sourceState' = [b \in Boards |-> IF b \in bs THEN None ELSE sourceState[b]]

CapForScoring(c, keep) ==
    /\ pc[c] = "fetch" /\ todo[c] = {}
    /\ keep \subseteq matched[c]
    /\ keep # matched[c] => Cardinality(keep) = ScoreCap
    /\ keep = matched[c] => Cardinality(keep) <= ScoreCap
    /\ matched' = [matched EXCEPT ![c] = keep]
    /\ IF Live(c) THEN DropHints(Deferred(c, keep)) ELSE UNCHANGED sourceState
    /\ pc' = [pc EXCEPT ![c] = "score"]
    /\ UNCHANGED <<seenJobs, evaluated, world, snap, prior, todo, reply, scored,
                   sending, history, mishaps>>

-----------------------------------------------------------------------------
(* Scoring, claiming and notifying *)

\* INSERT OR IGNORE into seen_jobs. A new row ends the job id's lost state.
InsertRow(j, row) ==
    IF seenJobs[j] = "none"
    THEN /\ seenJobs' = [seenJobs EXCEPT ![j] = row]
         /\ lost' = [lost EXCEPT ![j] = "no"]
    ELSE UNCHANGED <<seenJobs, lost>>

\* Mutant: INSERT OR REPLACE, as in mark_seen.
ScoreLowReplaces(c, j) ==
    /\ pc[c] = "score" /\ j \in matched[c]
    /\ matched' = [matched EXCEPT ![c] = @ \ {j}]
    /\ seenJobs' = [seenJobs EXCEPT ![j] = IF Live(c) THEN "suppressed" ELSE @]
    /\ UNCHANGED <<sourceState, evaluated, world, pc, snap, prior, todo, reply,
                   scored, sending, history, mishaps>>

\* The LLM scored the posting at or below score_low: mark_suppressed.
ScoreLow(c, j) ==
    /\ pc[c] = "score" /\ j \in matched[c]
    /\ matched' = [matched EXCEPT ![c] = @ \ {j}]
    /\ IF Live(c) THEN InsertRow(j, "suppressed") ELSE UNCHANGED <<seenJobs, lost>>
    /\ UNCHANGED <<sourceState, evaluated, world, pc, snap, prior, todo, reply,
                   scored, sending, delivered, rejected, mishaps>>

\* Scored above score_low, or not scored at all (the scorer fails open).
ScorePass(c, j) ==
    /\ pc[c] = "score" /\ j \in matched[c]
    /\ matched' = [matched EXCEPT ![c] = @ \ {j}]
    /\ scored' = [scored EXCEPT ![c] = @ \union {j}]
    /\ UNCHANGED <<store, world, pc, snap, prior, todo, reply, sending, history,
                   mishaps>>

\* Every match is scored before the first claim. A dry run stops here.
EndScoring(c) ==
    /\ pc[c] = "score" /\ matched[c] = {}
    /\ pc' = [pc EXCEPT ![c] = IF Live(c) THEN "notify" ELSE "idle"]
    /\ scored' = [scored EXCEPT ![c] = IF Live(c) THEN @ ELSE {}]
    /\ snap' = [snap EXCEPT ![c] = IF Live(c) THEN @ ELSE NoCycle]
    /\ UNCHANGED <<store, world, prior, todo, reply, matched, sending, history,
                   mishaps>>

\* Mutant: the result of the insert is not looked at.
ClaimUnchecked(c, j) ==
    /\ pc[c] = "notify" /\ sending[c] = None /\ j \in scored[c]
    /\ scored' = [scored EXCEPT ![c] = @ \ {j}]
    /\ sending' = [sending EXCEPT ![c] = j]
    /\ InsertRow(j, "notified")
    /\ UNCHANGED <<sourceState, evaluated, world, pc, snap, prior, todo, reply,
                   matched, delivered, rejected, mishaps>>

\* claim_for_notify: the cycle whose INSERT OR IGNORE adds the row fans out;
\* for any other the posting is already claimed, and it goes on to the next.
ClaimForNotify(c, j) ==
    /\ pc[c] = "notify" /\ sending[c] = None /\ j \in scored[c]
    /\ scored' = [scored EXCEPT ![c] = @ \ {j}]
    /\ sending' = [sending EXCEPT ![c] = IF seenJobs[j] = "none" THEN j ELSE None]
    /\ InsertRow(j, "notified")
    /\ UNCHANGED <<sourceState, evaluated, world, pc, snap, prior, todo, reply,
                   matched, delivered, rejected, mishaps>>

\* At least one sink accepted the alert.
Deliver(c) ==
    /\ sending[c] # None /\ snap[c].cfg.sinks
    /\ delivered' = [delivered EXCEPT ![sending[c]] = @ + 1]
    /\ sending' = [sending EXCEPT ![c] = None]
    /\ UNCHANGED <<store, world, pc, snap, prior, todo, reply, matched, scored,
                   rejected, lost, mishaps>>

\* No sink is configured: the claim stays and the match shows in the web UI.
NothingToSend(c) ==
    /\ sending[c] # None /\ ~snap[c].cfg.sinks
    /\ sending' = [sending EXCEPT ![c] = None]
    /\ UNCHANGED <<store, world, pc, snap, prior, todo, reply, matched, scored,
                   history, mishaps>>

\* Mutant: released when any sink failed, though another delivered.
ReleaseOnAnyFailure(c) ==
    /\ sending[c] # None /\ snap[c].cfg.sinks /\ Mishap
    /\ seenJobs' = [seenJobs EXCEPT ![sending[c]] = "none"]
    /\ delivered' = [delivered EXCEPT ![sending[c]] = @ + 1]
    /\ sending' = [sending EXCEPT ![c] = None]
    /\ UNCHANGED <<sourceState, evaluated, world, pc, snap, prior, todo, reply,
                   matched, scored, rejected, lost>>

\* Every sink failed: release_claim deletes the row.
ReleaseClaim(c) ==
    /\ sending[c] # None /\ snap[c].cfg.sinks /\ Mishap
    /\ seenJobs' = [seenJobs EXCEPT ![sending[c]] = "none"]
    /\ lost' = [lost EXCEPT ![sending[c]] = "released"]
    /\ sending' = [sending EXCEPT ![c] = None]
    /\ UNCHANGED <<sourceState, evaluated, world, pc, snap, prior, todo, reply,
                   matched, scored, delivered, rejected>>

EndCycle(c) ==
    /\ pc[c] = "notify" /\ scored[c] = {} /\ sending[c] = None
    /\ pc' = [pc EXCEPT ![c] = "idle"]
    /\ snap' = [snap EXCEPT ![c] = NoCycle]
    /\ UNCHANGED <<store, world, prior, todo, reply, matched, scored, sending,
                   history, mishaps>>

\* The process dies, or an exception (a failed mark_suppressed, claim or hint
\* drop) ends the cycle: what was in memory is gone, what was written stays.
Abort(c) ==
    /\ pc[c] # "idle" /\ Mishap
    /\ pc' = [pc EXCEPT ![c] = "idle"]
    /\ snap' = [snap EXCEPT ![c] = NoCycle]
    /\ todo' = [todo EXCEPT ![c] = {}]
    /\ prior' = [prior EXCEPT ![c] = [b \in Boards |-> None]]
    /\ reply' = [reply EXCEPT ![c] = [b \in Boards |-> None]]
    /\ matched' = [matched EXCEPT ![c] = {}]
    /\ scored' = [scored EXCEPT ![c] = {}]
    /\ sending' = [sending EXCEPT ![c] = None]
    /\ lost' = [j \in Jobs |-> IF Live(c) /\ j \in matched[c] \union scored[c]
                               THEN "aborted" ELSE lost[j]]
    /\ UNCHANGED <<store, world, delivered, rejected>>

-----------------------------------------------------------------------------
(* Everything else that touches the database, and the vendors *)

BoardChanges(b, L) ==
    /\ L \subseteq Posts(b) /\ L # listing[b]
    /\ listing' = [listing EXCEPT ![b] = L]
    /\ UNCHANGED <<store, settings, cycle, history, mishaps>>

\* A settings write: a new generation, with any filters and any sinks.
ChangeSettings(allow, sinks) ==
    /\ settings.gen < MaxGen
    /\ settings' = [gen |-> settings.gen + 1, allow |-> allow, sinks |-> sinks]
    /\ UNCHANGED <<store, listing, cycle, history, mishaps>>

\* set_status with a kept status: the row's ttl is cleared.
SetStatus(j) ==
    /\ seenJobs[j] = "notified"
    /\ seenJobs' = [seenJobs EXCEPT ![j] = "kept"]
    /\ UNCHANGED <<sourceState, evaluated, world, cycle, history, mishaps>>

\* Sixty days pass. A claim in flight is minutes old, never that old.
Expire(j) ==
    /\ seenJobs[j] \in {"notified", "suppressed"} /\ Mishap
    /\ \A c \in Cycles : sending[c] # j
    /\ seenJobs' = [seenJobs EXCEPT ![j] = "expired"]
    /\ UNCHANGED <<sourceState, evaluated, world, cycle, history>>

\* The prune job: expired rows of seen_jobs, and the rows of evaluated_postings
\* that are past their age or carry another generation.
Prune(aged) ==
    /\ seenJobs' = [j \in Jobs |-> IF seenJobs[j] = "expired" THEN "none" ELSE seenJobs[j]]
    /\ delivered' = [j \in Jobs |-> IF seenJobs[j] = "expired" THEN 0 ELSE delivered[j]]
    /\ lost' = [j \in Jobs |-> IF seenJobs[j] = "expired" THEN "pruned" ELSE lost[j]]
    /\ evaluated' = [j \in Jobs |-> IF j \in aged \/ evaluated[j] # settings.gen
                                    THEN 0 ELSE evaluated[j]]
    /\ UNCHANGED <<sourceState, world, cycle, rejected, mishaps>>

-----------------------------------------------------------------------------
\* What the cycle does by itself once started, in whatever way it turns out.
Work(c) ==
    \/ \E b \in Boards : Receive(c, b) \/ NotModified(c, b) \/ Absorb(c, b)
    \/ \E keep \in SUBSET matched[c] : CapForScoring(c, keep)
    \/ \E j \in Jobs : ScoreLow(c, j) \/ ScorePass(c, j) \/ ClaimForNotify(c, j)
    \/ EndScoring(c) \/ Deliver(c) \/ NothingToSend(c) \/ EndCycle(c)

Fault(c) ==
    \/ \E b \in Boards : FetchFails(c, b) \/ ScreenFails(c, b)
    \/ ReleaseClaim(c) \/ Abort(c)

Environment ==
    \/ \E b \in Boards, L \in SUBSET Jobs : BoardChanges(b, L)
    \/ \E allow \in SUBSET Jobs, sinks \in SinkChoices : ChangeSettings(allow, sinks)
    \/ \E j \in Jobs : SetStatus(j) \/ Expire(j)
    \/ \E aged \in SUBSET Jobs : Prune(aged)

Next ==
    \/ \E c \in Cycles, dry \in BOOLEAN, due \in SUBSET Boards : Start(c, dry, due)
    \/ \E c \in Cycles : Work(c) \/ Fault(c)
    \/ Environment

Spec == Init /\ [][Next]_vars

\* The scheduler keeps starting live cycles, each board is due again after at
\* most an hour, a started cycle runs to its end, and the prune job runs daily.
PollBoard(b) ==
    \E c \in Cycles, due \in SUBSET Boards : b \in due /\ Start(c, FALSE, due)

Fairness ==
    /\ \A b \in Boards : SF_vars(PollBoard(b))
    /\ \A c \in Cycles : WF_vars(Work(c))
    /\ WF_vars(\E aged \in SUBSET Jobs : Prune(aged))

FairSpec == Spec /\ Fairness

-----------------------------------------------------------------------------
(* Properties *)

\* A fan-out in flight owns its posting: the row is there, nothing was delivered
\* for it yet, and no other cycle is sending it ("prevents two overlapping cycles
\* from double-notifying the same job_id", orchestrator.run_once).
FanoutIsExclusive ==
    \A c \in Cycles : sending[c] # None =>
        /\ seenJobs[sending[c]] \in {"notified", "kept"}
        /\ delivered[sending[c]] = 0
        /\ \A d \in Cycles \ {c} : sending[d] # sending[c]

\* No posting is alerted twice while its row lives, and an alerted posting keeps
\* its row until that expires: no cycle deletes it or finds it new.
AlertedOnce ==
    \A j \in Jobs : /\ delivered[j] <= 1
                    /\ delivered[j] = 1 => seenJobs[j] \in {"notified", "kept", "expired"}

InPipeline(j) ==
    \E c \in Cycles : pc[c] # "idle" /\ Live(c) /\ j \in matched[c] \union scored[c]

\* Why a posting covered by a stored ETag, which no fetch will return again until
\* the board changes, needs no second look: it has a row, a screening rejected
\* it, normalize cannot read it, a live cycle still carries it, or it is one of
\* the three known losses (claim released, cycle aborted, row pruned).
Accounted(j) ==
    \/ seenJobs[j] # "none"
    \/ j \in rejected \union Malformed
    \/ InPipeline(j)
    \/ lost[j] # "no"

\* An ETag is stored only for content that was screened, and the scoring cap
\* leaves no posting behind one (run_once: "Drop just those cache hints so the
\* next fetch is unconditional"), whatever cycles overlap on the board.
HintsHideNothing ==
    \A b \in Boards : sourceState[b] # None => \A j \in sourceState[b] : Accounted(j)

\* "A preview must leave no trace": a step a dry cycle takes writes no table and
\* alerts nobody.
OwnStep(c) ==
    \/ pc[c]' # pc[c] \/ todo[c]' # todo[c] \/ reply[c]' # reply[c]
    \/ matched[c]' # matched[c] \/ scored[c]' # scored[c] \/ sending[c]' # sending[c]

DryRunLeavesNoTrace ==
    [][\A c \in Cycles : pc[c] # "idle" /\ ~Live(c) /\ OwnStep(c)
            => UNCHANGED <<store, delivered>>]_vars

\* The record of each posting as the abstract ledger sees it.
Standing(j) ==
    CASE seenJobs[j] = "none"       -> "open"
      [] seenJobs[j] = "suppressed" -> "muted"
      [] seenJobs[j] = "expired"    -> "lapsed"
      [] OTHER -> IF delivered[j] = 0 THEN "claimed" ELSE "alerted"

Ledger == INSTANCE PostingLedger
            WITH phase <- [j \in Jobs |-> Standing(j)], alerts <- delivered

\* The cycles together keep the promise of PostingLedger: claim_for_notify,
\* fanout and release_claim of any overlap are its Claim, Alert and Withdraw.
KeepsLedger == Ledger!Spec

\* Listed by its board now, and passed by the filters of the active settings.
Wanted(j) == j \in listing[Home[j]] /\ j \in settings.allow /\ j \notin Malformed

\* With settings at rest, a wanted posting is decided in the end, through fetch
\* and screening failures, overlapping and dry cycles and the scoring cap.
EveryMatchIsDecided ==
    \A j \in Jobs : (Wanted(j) /\ seenJobs[j] = "none")
                        ~> (seenJobs[j] # "none" \/ ~Wanted(j) \/ lost[j] # "no")

\* Not kept by the code: "All sinks failed; release the claim so a later cycle
\* retries."
ReleasedIsRetried ==
    \A j \in Jobs : (Wanted(j) /\ lost[j] = "released")
                        ~> (lost[j] # "released" \/ ~Wanted(j))

\* Not kept by the code: "a settings change (new generation) ... re-judges everything
\* once": a posting rejected before, that the filters pass now, is taken up again.
SettingsChangeRejudges ==
    \A j \in Jobs : (Wanted(j) /\ j \in rejected /\ seenJobs[j] = "none")
                        ~> (InPipeline(j) \/ seenJobs[j] # "none" \/ ~Wanted(j))
=============================================================================
