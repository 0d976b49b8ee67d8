------------------------------- MODULE OpsAlerts -------------------------------
(***************************************************************************)
(* The operations alerts (src/src/ops_alerts.py): the cooldown state       *)
(* machine of each condition over the recorded cycles, evaluated by the    *)
(* cycles of the poller's tiers (handler._run) and by the watchdog of the  *)
(* web process (web/watchdog.py), and what their sends tell the operator.  *)
(*                                                                         *)
(* A tick is a pass of the watchdog. The conditions kept are the one of    *)
(* the poller evaluated across tiers (llm_degraded), pipeline_stopped, and *)
(* tier_stopped, named by its tier. The trailing window of rows is taken   *)
(* to hold the last K scored cycles.                                       *)
(***************************************************************************)
EXTENDS Naturals, Sequences, FiniteSets

CONSTANTS Tiers,        \* the watched tiers; all of them score
          Every,        \* ticks between the cycles of each tier
          Ats,          \* the tier whose interval sets the pipeline's threshold
          watchdog,     \* the evaluator that is no tier
          Stopped, Llm, \* the conditions pipeline_stopped and llm_degraded
          Cooldown,     \* ops_notify.cooldown_hours in ticks
          K,            \* ops_notify.llm_degraded_cycles
          Never,        \* the age of a tier without a row, above every threshold
          MaxFaults,    \* bound: deaths and revivals of tiers and of the model
          MaxMishaps    \* bound: sends every sink refused, and crashes

\* stale_threshold_minutes: three intervals.
Limit(t) == 3 * Every[t]

OpsAssumption ==
    /\ Every \in [Tiers -> Nat \ {0}] /\ Ats \in Tiers /\ watchdog \notin Tiers
    /\ Never \in Nat /\ \A t \in Tiers : Never > Limit(t) + 1
    /\ Stopped # Llm /\ {Stopped, Llm} \cap Tiers = {}
    /\ Cooldown \in Nat \ {0} /\ K \in Nat \ {0}
    /\ MaxFaults \in Nat /\ MaxMishaps \in Nat

VARIABLES age,      \* ticks since each tier recorded a cycle
          recent,   \* whether each of the last K scored cycles had LLM failures
          state,    \* ops_alert_state: [active, sent: ticks since last_sent_ms]
          pc, todo, held, outbox,   \* per evaluator
          passed,   \* whether the watchdog made its pass of this tick
          dead,     \* tiers that record no cycle
          llmDown,  \* whether scoring fails
          told,     \* history: what the operator last heard of each condition
          quiet,    \* history: ticks since it heard of it, Cooldown once it cleared
          faults, mishaps           \* count what the bounds bound

evaluators == <<pc, todo, held, outbox>>
world == <<dead, llmDown, faults>>
vars == <<age, recent, state, evaluators, passed, world, told, quiet, mishaps>>

Evaluators == Tiers \union {watchdog}
Conditions == {Stopped, Llm} \union Tiers

\* The ages beyond every threshold are told apart no more.
Oldest(t) == 1 + IF Limit(t) > Limit(Ats) THEN Limit(t) ELSE Limit(Ats)
Older(t) == IF age[t] >= Oldest(t) THEN age[t] ELSE age[t] + 1
Lesser(n) == IF n < Cooldown THEN n + 1 ELSE n

Alert == [condition: Conditions, recovered: BOOLEAN]

TypeOK ==
    /\ age \in [Tiers -> 0 .. Never]
    /\ recent \in Seq(BOOLEAN) /\ Len(recent) <= K
    /\ state \in [Conditions -> [active: BOOLEAN, sent: 0 .. Cooldown]]
    /\ pc \in [Evaluators -> {"idle", "recorded", "gate"}]
    /\ todo \in [Evaluators -> SUBSET [condition: Conditions, firing: BOOLEAN]]
    /\ held \in [Evaluators -> SUBSET Alert] /\ \A e \in Evaluators : Cardinality(held[e]) <= 1
    /\ outbox \in [Evaluators -> SUBSET Alert]
    /\ passed \in BOOLEAN /\ dead \subseteq Tiers /\ llmDown \in BOOLEAN
    /\ told \in [Conditions -> {"nothing", "down", "up", "lost"}]
    /\ quiet \in [Conditions -> 0 .. Cooldown]
    /\ faults \in Nat /\ mishaps \in Nat

Init ==
    /\ age = [t \in Tiers |-> Never]
    /\ recent = <<>>
    /\ state = [c \in Conditions |-> [active |-> FALSE, sent |-> Cooldown]]
    /\ pc = [e \in Evaluators |-> "idle"]
    /\ todo = [e \in Evaluators |-> {}]
    /\ held = [e \in Evaluators |-> {}]
    /\ outbox = [e \in Evaluators |-> {}]
    /\ passed = FALSE /\ dead = {} /\ llmDown = FALSE
    /\ told = [c \in Conditions |-> "nothing"]
    /\ quiet = [c \in Conditions |-> Cooldown]
    /\ faults = 0 /\ mishaps = 0

Mishap == mishaps < MaxMishaps /\ mishaps' = mishaps + 1
Fault == faults < MaxFaults /\ faults' = faults + 1

-----------------------------------------------------------------------------
(* What is evaluated *)

LastK(s) == IF Len(s) <= K THEN s ELSE SubSeq(s, Len(s) - K + 1, Len(s))

\* record_cycle, at the end of a tier's cycle.
Record(t) ==
    /\ pc[t] = "idle" /\ t \notin dead /\ age[t] > 0
    /\ age' = [age EXCEPT ![t] = 0]
    /\ recent' = LastK(Append(recent, llmDown))
    /\ pc' = [pc EXCEPT ![t] = "recorded"]
    /\ UNCHANGED <<state, todo, held, outbox, passed, world, told, quiet, mishaps>>

LlmFiring == Len(recent) = K /\ \A i \in 1 .. K : recent[i]

\* evaluate_cycle, on the rows read after the cycle is recorded.
EvaluateCycle(t) ==
    /\ pc[t] = "recorded"
    /\ todo' = [todo EXCEPT ![t] = {[condition |-> Llm, firing |-> LlmFiring]}]
    /\ pc' = [pc EXCEPT ![t] = "gate"]
    /\ UNCHANGED <<age, recent, state, held, outbox, passed, world, told, quiet, mishaps>>

Watched == {t \in Tiers : age[t] # Never}
Stale(t) == age[t] > Limit(t)

\* last_cycle_ms is the newest row of any tier.
PipelineStopped == Watched # {} /\ \A t \in Watched : age[t] > Limit(Ats)

\* Every tier is stale: pipeline_stopped's job.
WholeOutage == \A t \in Watched : Stale(t)

\* evaluate_staleness and evaluate_tier_staleness, every few minutes.
WatchdogPass ==
    /\ pc[watchdog] = "idle" /\ ~passed
    /\ passed' = TRUE
    /\ todo' = [todo EXCEPT ![watchdog] =
                  {[condition |-> Stopped, firing |-> PipelineStopped]}
                    \union IF WholeOutage THEN {}
                           ELSE {[condition |-> t, firing |-> Stale(t)] : t \in Watched}]
    /\ pc' = [pc EXCEPT ![watchdog] = "gate"]
    /\ UNCHANGED <<age, recent, state, held, outbox, world, told, quiet, mishaps>>

-----------------------------------------------------------------------------
(* The state machine, and the sends *)

\* Mutant: an active condition is never sent again.
ForEver(c) == state[c].sent <= Cooldown
\* The cooldown of an active condition is not over.
CoolingDown(c) == state[c].sent < Cooldown

\* What _gate decides on the row it reads.
Decision(j) ==
    LET c == j.condition IN
    IF j.firing
    THEN IF state[c].active /\ CoolingDown(c) THEN {}
         ELSE {[condition |-> c, recovered |-> FALSE]}
    ELSE IF state[c].active THEN {[condition |-> c, recovered |-> TRUE]} ELSE {}

GateRead(e, j) ==
    /\ pc[e] = "gate" /\ held[e] = {} /\ j \in todo[e]
    /\ todo' = [todo EXCEPT ![e] = @ \ {j}]
    /\ held' = [held EXCEPT ![e] = Decision(j)]
    /\ quiet' = [quiet EXCEPT ![j.condition] = IF j.firing THEN @ ELSE Cooldown]
    /\ UNCHANGED <<age, recent, state, pc, outbox, passed, world, told, mishaps>>

\* Mutant: the alert that is sent is not dated.
Undated(a) == [active |-> ~a.recovered, sent |-> state[a.condition].sent]

\* mark_active and mark_recovered.
After(a) == [active |-> ~a.recovered,
             sent |-> IF a.recovered THEN state[a.condition].sent ELSE 0]

\* The write that follows, in a statement of its own, before anything is sent.
GateWrite(e) ==
    \E a \in held[e] :
        /\ state' = [state EXCEPT ![a.condition] = After(a)]
        /\ held' = [held EXCEPT ![e] = {}]
        /\ outbox' = [outbox EXCEPT ![e] = @ \union {a}]
        /\ UNCHANGED <<age, recent, pc, todo, passed, world, told, quiet, mishaps>>

\* The watchdog and the cycles mark an alert no sink accepted as recovered.
Rearmed(s) == [s EXCEPT !.active = FALSE]

\* send_ops_alert, once everything is gated: some sink accepts it, or none does.
Send(e, a, ok) ==
    /\ pc[e] = "gate" /\ todo[e] = {} /\ held[e] = {} /\ a \in outbox[e]
    /\ IF ok THEN UNCHANGED mishaps ELSE Mishap
    /\ outbox' = [outbox EXCEPT ![e] = @ \ {a}]
    /\ state' = [state EXCEPT ![a.condition] = IF ok \/ a.recovered THEN @ ELSE Rearmed(@)]
    /\ told' = [told EXCEPT ![a.condition] = CASE ok /\ a.recovered -> "up"
                                               [] ok /\ ~a.recovered -> "down"
                                               [] ~ok /\ a.recovered -> "lost"
                                               [] OTHER -> @]
    /\ quiet' = [quiet EXCEPT ![a.condition] = IF ok /\ ~a.recovered THEN 0 ELSE @]
    /\ UNCHANGED <<age, recent, pc, todo, held, passed, world>>

Finish(e) ==
    /\ pc[e] = "gate" /\ todo[e] = {} /\ held[e] = {} /\ outbox[e] = {}
    /\ pc' = [pc EXCEPT ![e] = "idle"]
    /\ UNCHANGED <<age, recent, state, todo, held, outbox, passed, world, told, quiet, mishaps>>

\* The process dies, or the evaluation raises and is swallowed.
Crash(e) ==
    /\ pc[e] # "idle" /\ Mishap
    /\ pc' = [pc EXCEPT ![e] = "idle"]
    /\ todo' = [todo EXCEPT ![e] = {}]
    /\ held' = [held EXCEPT ![e] = {}]
    /\ outbox' = [outbox EXCEPT ![e] = {}]
    /\ told' = [c \in Conditions |->
                  IF [condition |-> c, recovered |-> TRUE] \in outbox[e] THEN "lost"
                  ELSE told[c]]
    /\ UNCHANGED <<age, recent, state, passed, world, quiet>>

-----------------------------------------------------------------------------
(* Time and faults *)

\* The live tiers keep their interval, the watchdog its pass, and an evaluation ends
\* within its tick.
Tick ==
    /\ passed /\ \A e \in Evaluators : pc[e] = "idle"
    /\ \A t \in Tiers \ dead : age[t] < Every[t] \/ age[t] = Never
    /\ age' = [t \in Tiers |-> Older(t)]
    /\ state' = [c \in Conditions |-> [state[c] EXCEPT !.sent = Lesser(@)]]
    /\ quiet' = [c \in Conditions |-> Lesser(quiet[c])]
    /\ passed' = FALSE
    /\ UNCHANGED <<recent, evaluators, world, told, mishaps>>

\* Tiers die and revive, one by one or with their process.
Die(ts) ==
    /\ Fault /\ ts # {} /\ ts \subseteq Tiers \ dead /\ \A t \in ts : pc[t] = "idle"
    /\ dead' = dead \union ts
    /\ UNCHANGED <<age, recent, state, evaluators, passed, llmDown, told, quiet, mishaps>>

Revive(ts) ==
    /\ Fault /\ ts # {} /\ ts \subseteq dead
    /\ dead' = dead \ ts
    /\ UNCHANGED <<age, recent, state, evaluators, passed, llmDown, told, quiet, mishaps>>

LlmFlips ==
    /\ Fault
    /\ llmDown' = ~llmDown
    /\ UNCHANGED <<age, recent, state, evaluators, passed, dead, told, quiet, mishaps>>

Evaluate(e) ==
    \/ \E j \in todo[e] : GateRead(e, j)
    \/ GateWrite(e)
    \/ \E a \in outbox[e], ok \in BOOLEAN : Send(e, a, ok)
    \/ Finish(e)

Next ==
    \/ \E t \in Tiers : Record(t) \/ EvaluateCycle(t)
    \/ WatchdogPass
    \/ \E e \in Evaluators : Evaluate(e) \/ Crash(e)
    \/ Tick \/ LlmFlips
    \/ \E ts \in SUBSET Tiers : Die(ts) \/ Revive(ts)

Spec == Init /\ [][Next]_vars

\* A step of a tier's cycle, or of the watchdog's pass.
Turn(e) ==
    \/ e \in Tiers /\ (Record(e) \/ EvaluateCycle(e))
    \/ e = watchdog /\ WatchdogPass
    \/ Evaluate(e)

\* The scheduler runs the live tiers, the web process its watchdog, and time passes.
Fairness == WF_vars(Tick) /\ \A e \in Evaluators : WF_vars(Turn(e))

FairSpec == Spec /\ Fairness

-----------------------------------------------------------------------------
(* Properties *)

Delivered(a) ==
    \E e \in Evaluators : /\ a \in outbox[e] /\ a \notin outbox'[e]
                          /\ pc'[e] = "gate" /\ mishaps' = mishaps

Down(c) == [condition |-> c, recovered |-> FALSE]

\* "fire once, stay quiet for cooldown_hours while the condition persists": the
\* operator is not told twice within the cooldown of a condition that never cleared.
\* It holds of the conditions the watchdog alone evaluates.
WatchdogIsQuiet ==
    [][\A c \in Conditions \ {Llm} : Delivered(Down(c)) => quiet[c] = Cooldown]_vars

\* The same of the condition that every tier evaluates. Not kept by the code: two
\* tiers that end together both read the row before either marks it.
PollerIsQuiet == [][Delivered(Down(Llm)) => quiet[Llm] = Cooldown]_vars

\* Whatever sends fail and whatever crashes between the mark and the send, a fault
\* that stays is told in the end: a dead tier among live ones, a dead pipeline, a
\* model that is down.
FaultsAreTold ==
    /\ \A t \in Tiers : <>[](t \in dead /\ age[t] # Never /\ dead # Tiers)
                           => <>[](told[t] = "down" \/ Watched = {t})
    /\ <>[](dead = Tiers /\ Watched # {}) => <>[](told[Stopped] = "down")
    /\ <>[](llmDown /\ dead # Tiers) => <>[](told[Llm] = "down")

Settled == \A e \in Evaluators : pc[e] = "idle"

\* Without a failed send or a crash, an operator who was told of a condition of the
\* watchdog is owed its recovery notice: the row stays active until it is sent.
RecoveryIsOwed ==
    mishaps = 0 /\ Settled =>
        \A c \in Conditions \ {Llm} : state[c].active <=> told[c] = "down"

\* Not kept by the code: "send a one-time recovery notice when it clears". A failed
\* send may repeat an alert late, but a condition the operator was told of should
\* never be dropped in silence. (The recovery notices that were sent and refused are
\* "lost", which the code accepts.)
ClearedIsTold ==
    Settled /\ passed =>
        \A t \in Tiers : told[t] = "down" /\ age[t] = 0 => state[t].active

\* Not kept by the code: "while other tiers kept running". Some tier recorded a cycle
\* after the last one of a tier that is reported stalled.
OthersKeptRunning ==
    [][\A t \in Tiers : Delivered(Down(t)) => \E u \in Tiers : age[u] < age[t]]_vars
=============================================================================
