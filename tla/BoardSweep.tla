----------------------------- MODULE BoardSweep -----------------------------
(***************************************************************************)
(* discovered_boards: the daily sweep of the seed companies                *)
(* (run_board_discovery in src/src/discovery.py), the validation of the    *)
(* boards aggregators sighted that precedes it in a run, the sightings a   *)
(* slow cycle stages meanwhile, and what the poller and the aggregators    *)
(* make of a row (connectors/base.py).                                     *)
(*                                                                         *)
(* A run lists the table once, when its sweep starts, and judges every     *)
(* company by that list, long after; a run of the command line may be      *)
(* beside the daemon's.  The domains of the seeds, of sighted boards       *)
(* (hosts of a vendor) and of the starter pack ("pack:...") are disjoint.  *)
(***************************************************************************)
EXTENDS Fingerprint

CONSTANTS Runners,    \* processes that run the discovery tier
          Seeds,      \* the domains of the seed file, in its order
          Hosts,      \* the domains of boards an aggregator may sight
          Links,      \* the addresses the pages of a domain lead to
          MaxSweeps,  \* discovery.board_max_sweeps_per_run
          Quarantine, \* discovery.board_quarantine_after_failures
          MaxFlips,   \* bound: changes of an answer
          MaxMishaps  \* bound: throttled and broken answers, and runs that die

Domains == ToSet(Seeds) \union Hosts
Families == SlugFamilies \union {"workday", "oraclecloud", "jsonld", "eightfold", "taleo"}
Statuses == {"none", "candidate", "ok", "not_found", "unsupported", "error", "quarantined"}

SweepAssumption ==
    /\ Seeds \in Seq(Domains) /\ IsInjective(Seeds) /\ ToSet(Seeds) \intersect Hosts = {}
    /\ \A d \in Hosts : Len(Links[d]) = 1 /\ Parsed(Links[d][1]) # None
    /\ MaxSweeps \in Nat \ {0} /\ Quarantine \in Nat \ {0}
    /\ MaxFlips \in Nat /\ MaxMishaps \in Nat

VARIABLES boards,   \* the row of each domain
          run,      \* the locals of each runner: what it does next, and the list it read
          verdict,  \* what each runner found of the domain it is at, not yet written
          staging,  \* hosts upsert_candidate found absent and is about to write
          answers,  \* what the board of each domain answers
          failed,   \* history: failures in a row that were written of a domain
          throttle, \* history: the last verdict written of a domain came of a 429
          flips, mishaps

vars == <<boards, run, verdict, staging, answers, failed, throttle, flips, mishaps>>

NoRow == [status |-> "none", streak |-> 0, due |-> FALSE, family |-> None]
Idle == [pc |-> "idle", queue |-> <<>>, status |-> [d \in Domains |-> "none"]]
NoVerdict == [status |-> "none", board |-> None, throttled |-> FALSE]

TypeOK ==
    /\ \A d \in Domains : /\ boards[d].status \in Statuses /\ boards[d].due \in BOOLEAN
                          /\ boards[d].streak \in 0 .. Quarantine
                          /\ boards[d].family \in Families \union {None}
    /\ \A r \in Runners : /\ run[r].pc \in {"idle", "validate", "sweep"}
                          /\ ToSet(run[r].queue) \subseteq Domains
                          /\ run[r].status \in [Domains -> Statuses]
    /\ staging \subseteq Hosts /\ answers \in [Domains -> {"postings", "empty"}]

Init ==
    /\ boards = [d \in Domains |-> NoRow] /\ run = [r \in Runners |-> Idle]
    /\ verdict = [r \in Runners |-> NoVerdict] /\ staging = {}
    /\ answers \in [Domains -> {"postings", "empty"}]
    /\ failed = [d \in Domains |-> 0] /\ throttle = [d \in Domains |-> FALSE]
    /\ flips = 0 /\ mishaps = 0

Mishap == mishaps < MaxMishaps /\ mishaps' = mishaps + 1
MishapUnless(fine) == IF fine THEN UNCHANGED mishaps ELSE Mishap

-----------------------------------------------------------------------------
(* The rows *)

Put(d, row) == boards' = [boards EXCEPT ![d] = row]
Wrote(d, bad, throttled) ==
    /\ failed' = [failed EXCEPT ![d] = IF bad THEN @ + 1 ELSE 0]
    /\ throttle' = [throttle EXCEPT ![d] = throttled]

\* upsert_ok
Matched(board) == [status |-> "ok", streak |-> 0, due |-> FALSE, family |-> board.family]

\* A failure more, and whether it is the last one allowed.
Failing(d, status) ==
    LET streak == boards[d].streak + 1
    IN [boards[d] EXCEPT !.status = IF streak >= Quarantine THEN "quarantined" ELSE status,
                         !.streak = streak, !.due = FALSE]

\* upsert_result: only an error counts towards quarantine, and the row is written anew,
\* without a family.
Missed(d, status) ==
    IF status = "error" THEN [Failing(d, status) EXCEPT !.family = None]
    ELSE [status |-> status, streak |-> 0, due |-> FALSE, family |-> None]

-----------------------------------------------------------------------------
(* A run *)

\* What the pages of a domain lead to, by what its board answers.
Fingerprinted ==
    [d \in Domains |-> [answer \in {"postings", "empty", "throttled", "broken"} |->
        LET found == FingerprintUrls(Links[d], [f \in Families |-> answer])
        IN [status |-> found.status, board |-> found.board,
            throttled |-> found.status = "error" /\ answer = "throttled"]]]

\* Phase 2c of run_discovery: the staged boards, as many as the budget is left for.
StartRun(r) ==
    /\ run[r].pc = "idle"
    /\ LET staged == SetToSeq({d \in Domains : boards[d].status = "candidate"})
       IN \E n \in 0 .. Len(staged) :
             run' = [run EXCEPT ![r] = [Idle EXCEPT !.pc = "validate",
                                                    !.queue = SubSeq(staged, 1, n)]]
    /\ UNCHANGED <<boards, verdict, staging, answers, failed, throttle, flips, mishaps>>

\* Mutant: the companies due for another look come first.
DueFirst(fresh, due) == SubSeq(due \o fresh, 1, IF Len(due \o fresh) < MaxSweeps
                                                 THEN Len(due \o fresh) ELSE MaxSweeps)

\* Companies never swept come first, then those due for another look.
Selection(fresh, due) == SubSeq(fresh \o due, 1, IF Len(fresh \o due) < MaxSweeps
                                                  THEN Len(fresh \o due) ELSE MaxSweeps)

\* run_board_discovery lists the table.
StartSweep(r) ==
    /\ run[r].pc = "validate" /\ run[r].queue = <<>>
    /\ LET fresh == SelectSeq(Seeds, LAMBDA d : boards[d].status = "none")
           due == SelectSeq(Seeds, LAMBDA d : /\ boards[d].status \notin {"none", "quarantined"}
                                              /\ boards[d].due)
       IN run' = [run EXCEPT ![r] = [pc |-> "sweep", queue |-> Selection(fresh, due),
                                     status |-> [d \in Domains |-> boards[d].status]]]
    /\ UNCHANGED <<boards, verdict, staging, answers, failed, throttle, flips, mishaps>>

\* The company at the head of the queue is located, fingerprinted and verified: an answer may
\* be throttled or broken.
Look(r) ==
    /\ run[r].queue # <<>> /\ verdict[r] = NoVerdict
    /\ LET d == Head(run[r].queue)
       IN \E answer \in {answers[d], "throttled", "broken"} :
             /\ verdict' = [verdict EXCEPT ![r] = Fingerprinted[d][answer]]
             /\ MishapUnless(answer = answers[d])
    /\ UNCHANGED <<boards, run, staging, answers, failed, throttle, flips>>

\* _validate_board_candidate: a board of a family no connector is made for fails too, and
\* upsert_candidate_failed leaves alone a row that is no candidate any more.
Validate(r, d, v) ==
    IF v.status = "matched"
    THEN Put(d, Matched(v.board)) /\ Wrote(d, FALSE, FALSE)
    ELSE IF boards[d].status = "candidate"
    THEN Put(d, Failing(d, "candidate")) /\ Wrote(d, TRUE, v.throttled)
    ELSE UNCHANGED <<boards, failed, throttle>>

\* A verdict of the sweep: a company listed as ok keeps its row, unstamped, when it is missed.
Sweep(r, d, v) ==
    CASE v.status = "matched" -> Put(d, Matched(v.board)) /\ Wrote(d, FALSE, FALSE)
      [] v.status # "matched" /\ run[r].status[d] = "ok" -> UNCHANGED <<boards, failed, throttle>>
      [] OTHER -> Put(d, Missed(d, v.status)) /\ Wrote(d, v.status = "error", v.throttled)

Judge(r) ==
    /\ verdict[r] # NoVerdict
    /\ LET d == Head(run[r].queue)
       IN IF run[r].pc = "validate" THEN Validate(r, d, verdict[r]) ELSE Sweep(r, d, verdict[r])
    /\ run' = [run EXCEPT ![r].queue = Tail(@)]
    /\ verdict' = [verdict EXCEPT ![r] = NoVerdict]
    /\ UNCHANGED <<staging, answers, flips, mishaps>>

\* The run ends, or dies of an exception of the store.
Finish(r) ==
    /\ run[r].pc # "idle"
    /\ MishapUnless(run[r].pc = "sweep" /\ run[r].queue = <<>>)
    /\ run' = [run EXCEPT ![r] = Idle] /\ verdict' = [verdict EXCEPT ![r] = NoVerdict]
    /\ UNCHANGED <<boards, staging, answers, failed, throttle, flips>>

-----------------------------------------------------------------------------
(* The others *)

\* drain_sightings: upsert_candidate looks for the row, and writes.
Sight(d) ==
    /\ d \in Hosts /\ d \notin staging /\ boards[d].status = "none"
    /\ staging' = staging \union {d}
    /\ UNCHANGED <<boards, run, verdict, answers, failed, throttle, flips, mishaps>>
Stage(d) ==
    /\ d \in staging
    /\ staging' = staging \ {d}
    /\ Put(d, [status |-> "candidate", streak |-> 0, due |-> FALSE,
               family |-> Parsed(Links[d][1]).family])
    /\ UNCHANGED <<run, verdict, answers, failed, throttle, flips, mishaps>>

\* board_revalidate_after_days pass since the last sweep of a domain.
Age(d) ==
    /\ boards[d].status # "none" /\ ~boards[d].due
    /\ boards' = [boards EXCEPT ![d].due = TRUE]
    /\ UNCHANGED <<run, verdict, staging, answers, failed, throttle, flips, mishaps>>

Flip(d) ==
    /\ flips < MaxFlips /\ flips' = flips + 1
    /\ answers' = [answers EXCEPT ![d] = IF @ = "postings" THEN "empty" ELSE "postings"]
    /\ UNCHANGED <<boards, run, verdict, staging, failed, throttle, mishaps>>

Step(r) == StartRun(r) \/ StartSweep(r) \/ Look(r) \/ Judge(r)
Next ==
    \/ \E r \in Runners : Step(r) \/ Finish(r)
    \/ \E d \in Domains : Sight(d) \/ Stage(d) \/ Age(d) \/ Flip(d)

Spec == Init /\ [][Next]_vars

\* The scheduler starts a run a day, and a run goes on and ends when it is done.
Swept(r) == run[r].pc = "sweep" /\ run[r].queue = <<>> /\ Finish(r)
Fairness == \A r \in Runners : WF_vars(Step(r)) /\ WF_vars(Swept(r))
FairSpec == Spec /\ Fairness

-----------------------------------------------------------------------------
(* Who polls a board *)

\* connector_from_identity: the families a row of the table can be polled as.
Buildable == Families \ {"workable"}

\* build_connectors polls the healthy boards that have a connector, in the ats tier.
PolledBoards == {d \in Domains : boards[d].status = "ok" /\ boards[d].family \in Buildable}

\* _board_active_pair: the postings the aggregators leave out, as those of a board that is
\* polled directly.
LeftOut == {d \in Domains : boards[d].status = "ok"}

-----------------------------------------------------------------------------
(* Properties *)

\* A company is quarantined, and so never looked at again, only after that many failures in
\* a row were written of it, whoever wrote them and whatever was written between:
\* upsert_result and upsert_candidate_failed count on a row they read.
QuarantineIsEarned ==
    \A d \in Domains : boards[d].status = "quarantined" => failed[d] >= Quarantine

\* Every seed company is swept in the end: run_board_discovery caps a run, and those never
\* swept go first, so the companies that fall due again cannot starve them.
SeedsAreSwept == <>(\A d \in ToSet(Seeds) : boards[d].status # "none")

(***************************************************************************)
(* Not kept by the code.  ProbeThrottled says of a 429 that callers "must  *)
(* neither record a miss nor count a failure", and fingerprint_company     *)
(* makes an error of it, which the sweep counts.                           *)
(***************************************************************************)
ThrottledIsNoFailure == \A d \in Domains : ~throttle[d]

\* _board_active_pair is "used to suppress double-emission once we poll it directly", and a
\* Workable board the sweep finds is stored ok, left out, and has no connector.
LeftOutIsPolled == LeftOut \subseteq PolledBoards

\* "a transient re-fingerprint miss must not demote it" goes by the list the run read: a
\* second run that matches the company meanwhile loses its board.
LiveBoardsStay == [][\A d \in Domains : boards[d].status = "ok" => boards'[d].status = "ok"]_vars

\* A company listed as ok that keeps being missed is not stamped, so it stays due and takes
\* the sweeps of the companies after it in the file.
DueIsSweptAgain ==
    \A d \in ToSet(Seeds) :
        boards[d].due /\ boards[d].status \in {"not_found", "unsupported", "error"} ~> ~boards[d].due
=============================================================================
