---------------------------- MODULE BoardPolling ----------------------------
(***************************************************************************)
(* Which boards a cycle of the ats tier polls (src/src/handler.py, _run)   *)
(* and what it books afterwards: the adaptive schedule (cadence.py,        *)
(* connector_schedule, schedule_generation) and the poll-health circuit    *)
(* breaker (poll_health.py, connector_health), with the daily re-probe of  *)
(* the suppressed boards.                                                  *)
(*                                                                         *)
(* Time is relative and counted in ticks of the tier's interval: a row     *)
(* holds the ticks left until its board is due or its backoff ends.        *)
(* DUE_SLACK_MS, shorter than a tick, is what lets a board be due on the   *)
(* tick itself.                                                            *)
(***************************************************************************)
EXTENDS Naturals

CONSTANTS Runners,      \* processes that run the tier: the daemon, the command line
          Daemons,      \* the runners started by the scheduler on every tick
          Boards,       \* the boards of the tier
          Outcomes,     \* the fetch outcomes to consider
          Threshold,    \* poll_health.DEAD_AFTER_CYCLES
          Backoff,      \* ticks of pause a 429 asks for
          Hour,         \* cadence.MAX_INTERVAL_S in ticks
          MaxLag,       \* bound: ticks a cycle lasts
          MaxGen,       \* bound: settings generations
          MaxMishaps    \* bound: failed fetches, failed writes and crashes

ASSUME PollingAssumption ==
    /\ Daemons \subseteq Runners
    /\ Outcomes \subseteq {"fresh", "quiet", "dead", "blocked", "limited", "transient",
                           "unscreened", "paced"}
    /\ Threshold \in Nat \ {0} /\ Backoff \in Nat \ {0} /\ Hour \in Nat
    /\ MaxLag \in Nat /\ MaxGen \in Nat /\ MaxMishaps \in Nat

VARIABLES schedule,    \* row of each board in connector_schedule
          storedGen,   \* schedule_generation of the tier
          health,      \* row of each board in connector_health
          gen,         \* the active settings generation
          pc, snapGen, genChanged, built, outcome, tracked, elapsed, ran, \* per runner
          pollGen,     \* history: generation of the last fetch that was screened, 0
                       \* once another answer cleared the board's health row
          lastFresh,   \* history: the last recorded poll saw a new posting
          since,       \* history: ticks since the board was last attempted
          deadRun,     \* history: polls in a row that ended in 404 or 410
          refusals,    \* history: refusals booked since the last booked answer
          hold,        \* history: ticks left of the last 429's pause, 0 once it answered
          mishaps      \* counts what MaxMishaps bounds

tables == <<schedule, storedGen, health>>
cycle == <<pc, snapGen, genChanged, built, outcome, tracked, elapsed, ran>>
history == <<pollGen, lastFresh, since, deadRun, refusals, hold>>
vars == <<tables, gen, cycle, history, mishaps>>

Larger(a, b) == IF a > b THEN a ELSE b
Smaller(a, b) == IF a < b THEN a ELSE b
Less(n) == IF n = 0 THEN 0 ELSE n - 1
Capped(n, cap) == IF n > cap THEN cap ELSE n

NoSchedule == [interval |-> 0, wait |-> 0]
NoHealth == [row |-> FALSE, streak |-> 0, suppressed |-> FALSE, wait |-> 0]

Polled == {"fresh", "quiet"}               \* result.polled
Fine == Polled \union {"unscreened"}       \* classify_outcome = "ok"
Refused == {"dead", "blocked"}

\* The longest interval, and a cap that keeps the histories finite.
MaxInterval == Larger(1, Hour)
Horizon == MaxInterval + 2 * MaxLag + MaxMishaps * (MaxLag + 1) + Backoff + 1

ScheduleRow == [interval: 0 .. MaxInterval, wait: 0 .. MaxInterval]
HealthRow == [row: BOOLEAN, streak: Nat, suppressed: BOOLEAN, wait: 0 .. Backoff]

TypeOK ==
    /\ schedule \in [Boards -> ScheduleRow]
    /\ storedGen \in Nat
    /\ health \in [Boards -> HealthRow]
    /\ gen \in Nat \ {0}
    /\ pc \in [Runners -> {"idle", "fetch", "health", "record", "stamp"}]
    /\ snapGen \in [Runners -> Nat]
    /\ genChanged \in [Runners -> BOOLEAN]
    /\ built \in [Runners -> SUBSET Boards]
    /\ outcome \in [Runners -> [Boards -> Outcomes \union {"none"}]]
    /\ tracked \in [Runners -> SUBSET Boards]
    /\ elapsed \in [Runners -> 0 .. MaxLag]
    /\ ran \in [Runners -> BOOLEAN]
    /\ pollGen \in [Boards -> Nat]
    /\ lastFresh \in [Boards -> BOOLEAN]
    /\ since \in [Boards -> Nat]
    /\ deadRun \in [Boards -> Nat]
    /\ refusals \in [Boards -> Nat]
    /\ hold \in [Boards -> 0 .. Backoff]
    /\ mishaps \in Nat

Init ==
    /\ schedule = [b \in Boards |-> NoSchedule]
    /\ storedGen = 0
    /\ health = [b \in Boards |-> NoHealth]
    /\ gen = 1
    /\ pc = [r \in Runners |-> "idle"]
    /\ snapGen = [r \in Runners |-> 0]
    /\ genChanged = [r \in Runners |-> FALSE]
    /\ built = [r \in Runners |-> {}]
    /\ outcome = [r \in Runners |-> [b \in Boards |-> "none"]]
    /\ tracked = [r \in Runners |-> {}]
    /\ elapsed = [r \in Runners |-> 0]
    /\ ran = [r \in Runners |-> FALSE]
    /\ pollGen = [b \in Boards |-> 0]
    /\ lastFresh = [b \in Boards |-> TRUE]
    /\ since = [b \in Boards |-> 0]
    /\ deadRun = [b \in Boards |-> 0]
    /\ refusals = [b \in Boards |-> 0]
    /\ hold = [b \in Boards |-> 0]
    /\ mishaps = 0

Mishap == mishaps < MaxMishaps /\ mishaps' = mishaps + 1

-----------------------------------------------------------------------------
(* A cycle *)

Suppressed == {b \in Boards : health[b].suppressed}
\* Mutant: a pause never ends.
BackoffForever == {b \in Boards : health[b].row}

BackedOff == {b \in Boards : health[b].wait > 0}
NotDue == {b \in Boards : schedule[b].wait > 0}

\* Before the cycle: the boards health and schedule hold back. A generation other
\* than the stored one makes every board due; a table that cannot be read holds no
\* board back (and forgives the pauses, as far as the history goes).
Start(r, healthRead, scheduleRead) ==
    /\ pc[r] = "idle" /\ ~ran[r]
    /\ IF healthRead /\ scheduleRead THEN UNCHANGED mishaps ELSE Mishap
    /\ pc' = [pc EXCEPT ![r] = "fetch"]
    /\ ran' = [ran EXCEPT ![r] = TRUE]
    /\ elapsed' = [elapsed EXCEPT ![r] = 0]
    /\ snapGen' = [snapGen EXCEPT ![r] = gen]
    /\ LET matches == scheduleRead /\ storedGen = gen IN
       /\ genChanged' = [genChanged EXCEPT ![r] = ~matches]
       /\ built' = [built EXCEPT ![r] =
                      Boards \ ((IF healthRead THEN Suppressed \union BackedOff ELSE {})
                                \union IF matches THEN NotDue ELSE {})]
    /\ hold' = [b \in Boards |-> IF healthRead THEN hold[b] ELSE 0]
    /\ UNCHANGED <<tables, gen, outcome, tracked, pollGen, lastFresh, since, deadRun,
                   refusals>>

\* One board's fetch and screening: 200 or 304 with or without new postings,
\* refused, throttled, failed, not screened, or never admitted by the pacer.
Fetch(r, b, o) ==
    /\ pc[r] = "fetch" /\ b \in built[r] /\ outcome[r][b] = "none"
    /\ IF o \in Polled THEN UNCHANGED mishaps ELSE Mishap
    /\ outcome' = [outcome EXCEPT ![r][b] = o]
    /\ since' = [since EXCEPT ![b] = IF o = "paced" THEN @ ELSE elapsed[r]]
    /\ deadRun' = [deadRun EXCEPT ![b] = CASE o = "dead" -> Capped(@ + 1, Threshold)
                                           [] o = "paced" -> @
                                           [] OTHER -> 0]
    /\ pollGen' = [pollGen EXCEPT ![b] = IF o \in Polled THEN snapGen[r] ELSE @]
    /\ UNCHANGED <<tables, gen, pc, snapGen, genChanged, built, tracked, elapsed, ran,
                   lastFresh, refusals, hold>>

\* tracked_names() is read once, before the outcomes are booked.
EndFetching(r) ==
    /\ pc[r] = "fetch" /\ \A b \in built[r] : outcome[r][b] # "none"
    /\ pc' = [pc EXCEPT ![r] = "health"]
    /\ tracked' = [tracked EXCEPT ![r] = {b \in Boards : health[b].row}]
    /\ UNCHANGED <<tables, gen, snapGen, genChanged, built, outcome, elapsed, ran,
                   history, mishaps>>

\* update_poll_health for one board. 'dead' and 'blocked' count on one streak.
Streak(b) == [health[b] EXCEPT !.row = TRUE, !.streak = Capped(@ + 1, Threshold)]

\* Mutant: an ok fetch does not clear the row.
BookedStale(r, b) ==
    CASE outcome[r][b] = "dead" ->
            [Streak(b) EXCEPT !.suppressed = @ \/ Streak(b).streak >= Threshold]
      [] outcome[r][b] = "blocked" -> Streak(b)
      [] outcome[r][b] = "limited" -> [health[b] EXCEPT !.row = TRUE, !.wait = Backoff]
      [] OTHER -> health[b]

Booked(r, b) ==
    CASE outcome[r][b] \in Fine /\ b \in tracked[r] -> NoHealth
      [] outcome[r][b] = "dead" ->
            [Streak(b) EXCEPT !.suppressed = @ \/ Streak(b).streak >= Threshold]
      [] outcome[r][b] = "blocked" -> Streak(b)
      [] outcome[r][b] = "limited" -> [health[b] EXCEPT !.row = TRUE, !.wait = Backoff]
      [] OTHER -> health[b]

\* A store error for one board is logged and the others are booked.
BookHealth(r, failed) ==
    /\ pc[r] = "health" /\ failed \subseteq built[r]
    /\ IF failed = {} THEN UNCHANGED mishaps ELSE Mishap
    /\ health' = [b \in Boards |-> IF b \in built[r] \ failed THEN Booked(r, b)
                                                              ELSE health[b]]
    /\ hold' = [b \in Boards |-> IF b \in built[r] \ failed /\ outcome[r][b] = "limited"
                                 THEN Backoff ELSE hold[b]]
    /\ refusals' = [b \in Boards |->
                      CASE b \in built[r] \ failed /\ outcome[r][b] \in Refused ->
                                Capped(refusals[b] + 1, Threshold)
                        [] b \in built[r] \ failed /\ outcome[r][b] \in Fine -> 0
                        [] OTHER -> refusals[b]]
    /\ pollGen' = [b \in Boards |-> IF b \in (built[r] \ failed) \intersect tracked[r]
                                        /\ outcome[r][b] \in Fine \ Polled
                                    THEN 0 ELSE pollGen[b]]
    /\ pc' = [pc EXCEPT ![r] = "record"]
    /\ UNCHANGED <<schedule, storedGen, gen, snapGen, genChanged, built, outcome, tracked,
                   elapsed, ran, lastFresh, since, deadRun>>

Done(r) == {b \in built[r] : outcome[r][b] \in Polled}

\* Mutant: only the deferred boards are made due.
ForceDeferred(r, deferred) == deferred

\* The boards made due at once: those whose matches the scoring cap deferred and,
\* after a settings change, those attempted in vain.
ForceDue(r, deferred) == deferred \union IF genChanged[r] THEN built[r] \ Done(r) ELSE {}

\* Mutant: the interval doubles without a cap.
UncappedInterval(prev, fresh, forced) ==
    IF fresh \/ forced THEN 1 ELSE Smaller((IF prev = 0 THEN 1 ELSE prev) * 2, 2 * MaxInterval)

NextInterval(prev, fresh, forced) ==
    IF fresh \/ forced THEN 1
    ELSE Larger(1, Smaller((IF prev = 0 THEN 1 ELSE prev) * 2, Hour))

\* due is counted from the start of the cycle, which elapsed ticks ago.
Row(r, b, forced) ==
    IF b \in Done(r)
    THEN LET n == NextInterval(schedule[b].interval, outcome[r][b] = "fresh", b \in forced)
         IN  [interval |-> n, wait |-> IF n > elapsed[r] THEN n - elapsed[r] ELSE 0]
    ELSE [interval |-> 1, wait |-> 0]

\* record_polls: one transaction for the polled and the forced boards.
RecordPolls(r, deferred) ==
    LET forced == ForceDue(r, deferred) IN
    /\ pc[r] = "record" /\ deferred \subseteq {b \in built[r] : outcome[r][b] = "fresh"}
    /\ schedule' = [b \in Boards |-> IF b \in Done(r) \union forced
                                     THEN Row(r, b, forced) ELSE schedule[b]]
    /\ lastFresh' = [b \in Boards |-> IF b \in Done(r) THEN outcome[r][b] = "fresh"
                                                       ELSE lastFresh[b]]
    /\ pc' = [pc EXCEPT ![r] = "stamp"]
    /\ UNCHANGED <<storedGen, health, gen, snapGen, genChanged, built, outcome, tracked,
                   elapsed, ran, pollGen, since, deadRun, refusals, hold, mishaps>>

Leave(r) ==
    /\ pc' = [pc EXCEPT ![r] = "idle"]
    /\ elapsed' = [elapsed EXCEPT ![r] = 0]
    /\ snapGen' = [snapGen EXCEPT ![r] = 0]
    /\ genChanged' = [genChanged EXCEPT ![r] = FALSE]
    /\ built' = [built EXCEPT ![r] = {}]
    /\ outcome' = [outcome EXCEPT ![r] = [b \in Boards |-> "none"]]
    /\ tracked' = [tracked EXCEPT ![r] = {}]

\* set_generation, a transaction of its own after the polls are recorded.
SetGeneration(r) ==
    /\ pc[r] = "stamp"
    /\ storedGen' = snapGen[r]
    /\ Leave(r)
    /\ UNCHANGED <<schedule, health, gen, ran, history, mishaps>>

\* The process dies, the cycle raises, or a schedule write fails ("a schedule
\* write must never fail the cycle"): the rest of the bookkeeping is skipped.
Abort(r) ==
    /\ pc[r] # "idle" /\ Mishap
    /\ Leave(r)
    /\ UNCHANGED <<tables, gen, ran, history>>

-----------------------------------------------------------------------------
(* Time, settings and the discovery tier *)

\* One tick of the tier's trigger. The scheduler starts the daemon's cycle on
\* every tick unless the last one still runs (max_instances = 1).
Tick ==
    /\ \A r \in Daemons : ran[r] \/ pc[r] # "idle"
    /\ \A r \in Runners : pc[r] # "idle" => elapsed[r] < MaxLag
    /\ schedule' = [b \in Boards |-> [schedule[b] EXCEPT !.wait = Less(@)]]
    /\ health' = [b \in Boards |-> [health[b] EXCEPT !.wait = Less(@)]]
    /\ hold' = [b \in Boards |-> Less(hold[b])]
    /\ since' = [b \in Boards |-> Capped(since[b] + 1, Horizon)]
    /\ elapsed' = [r \in Runners |-> IF pc[r] = "idle" THEN 0 ELSE elapsed[r] + 1]
    /\ ran' = [r \in Runners |-> pc[r] # "idle"]
    /\ UNCHANGED <<storedGen, gen, pc, snapGen, genChanged, built, outcome, tracked,
                   pollGen, lastFresh, deadRun, refusals, mishaps>>

ChangeSettings ==
    /\ gen < MaxGen
    /\ gen' = gen + 1
    /\ UNCHANGED <<tables, cycle, history, mishaps>>

\* recover_suppressed, daily: a suppressed board that answers, or that is no
\* longer built, loses its row.
Recover(b) ==
    /\ health[b].suppressed
    /\ health' = [health EXCEPT ![b] = NoHealth]
    /\ since' = [since EXCEPT ![b] = 0]
    /\ hold' = [hold EXCEPT ![b] = 0]
    /\ pollGen' = [pollGen EXCEPT ![b] = 0]
    /\ UNCHANGED <<schedule, storedGen, gen, cycle, lastFresh, deadRun, refusals, mishaps>>

Finish(r) ==
    \/ EndFetching(r)
    \/ \E failed \in SUBSET built[r] : BookHealth(r, failed)
    \/ \E deferred \in SUBSET built[r] : RecordPolls(r, deferred)
    \/ SetGeneration(r)

Cycle(r) ==
    \/ \E healthRead, scheduleRead \in BOOLEAN : Start(r, healthRead, scheduleRead)
    \/ \E b \in Boards, o \in Outcomes : Fetch(r, b, o)
    \/ Finish(r)

Next ==
    \/ \E r \in Runners : Cycle(r) \/ Abort(r)
    \/ Tick
    \/ ChangeSettings
    \/ \E b \in Boards : Recover(b)

Spec == Init /\ [][Next]_vars

\* The scheduler ticks and runs each cycle to its end, and the discovery tier
\* comes round every day.
Fairness ==
    /\ WF_vars(Tick)
    /\ \A r \in Daemons : WF_vars(Cycle(r))
    /\ \A b \in Boards : WF_vars(Recover(b))

FairSpec == Spec /\ Fairness

-----------------------------------------------------------------------------
(* Properties *)

\* Once the tier's schedule is stamped with the active settings, a healthy board
\* that sits out a tick was fetched under them: none rests on an interval it earned
\* under older settings ("must not stay on its old, possibly hour-long schedule once
\* the new generation is recorded", handler._run), whatever crashes in between. Excepted
\* are the boards in trouble, and those that got out of it without being screened: what
\* clears a health row leaves the schedule alone.
StampedMeansPolled ==
    storedGen = gen => \A b \in NotDue : pollGen[b] \in {0, gen} \/ health[b].row

\* A board is never left alone for longer than its interval: one tick after a new
\* posting, an hour at most, plus what the cycles themselves last and what crashes
\* and the pacer cost. Suppressed and throttled boards are exempt.
AttemptedInTime ==
    \A b \in Boards : ~health[b].suppressed =>
        since[b] <= (IF lastFresh[b] THEN 1 ELSE MaxInterval) + 2 * MaxLag
                        + mishaps * (MaxLag + 1) + IF health[b].row THEN Backoff ELSE 0

\* Only a board that refused Threshold times since its last booked answer is
\* suppressed.
SuppressionIsEarned ==
    \A b \in Boards : health[b].suppressed => refusals[b] >= Threshold

Attempted(b) ==
    \E r \in Runners : outcome[r][b] = "none" /\ outcome'[r][b] \notin {"none", "paced"}

\* Failures end, so every board is polled again and again: no board stays
\* suppressed, backed off or undue for ever.
PolledAgain == \A b \in Boards : []<><<Attempted(b)>>_vars

\* Not kept by the code: "Trip after this many consecutive permanent-dead (404/410)
\* cycles."
TrippedByDeadCycles ==
    \A b \in Boards : health[b].suppressed => deadRun[b] >= Threshold

\* Not kept by the code, for a board a 429 paused meanwhile: "A settings edit (new
\* generation) makes every board due this cycle."
EditMakesDue ==
    storedGen = gen => \A b \in NotDue : pollGen[b] = gen
=============================================================================
