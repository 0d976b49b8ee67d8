----------------------------- MODULE VendorPacer -----------------------------
(***************************************************************************)
(* The pacer of one vendor (src/src/pacing.py) under the boards of a tier  *)
(* that wait for it (run_once._guarded), cycle after cycle: it outlives    *)
(* them.  Times are counted in ticks from now, so that the clock goes on   *)
(* for ever: `ahead` is _next - now, and `left` what the deadline leaves.  *)
(* A board holds one of the vendor's places from its reservation to its    *)
(* answer; places are given in the order of the connectors, and no await   *)
(* lies between getting one and reserving a slot.                          *)
(***************************************************************************)
EXTENDS Integers, FiniteSets

CONSTANTS Boards,       \* how many boards the vendor has
          Places,       \* PER_VENDOR_CONCURRENCY
          Window,       \* fetch_deadline_s
          MinGap,       \* MIN_THROTTLED_GAP
          MaxGap,       \* MAX_GAP
          MaxMishaps    \* bound: cancelled cycles

\* What the constants have to be.
PacerAssumption ==
    /\ Boards \in Nat \ {0} /\ Places \in Nat \ {0} /\ Window \in Nat
    /\ MinGap \in Nat \ {0} /\ MaxGap \in Nat /\ MinGap <= MaxGap /\ MaxMishaps \in Nat

VARIABLES gap,      \* _gap of the vendor
          ahead,    \* ticks until _next; 0 when it has passed
          left,     \* ticks until the cycle's deadline; -1 when it has passed
          pc,       \* of each board's task
          wait,     \* ticks a sleeping board has still to sleep
          clear,    \* history: ticks until a board's slot and the gap then in force are over
          early,    \* history: boards that reserved before the last throttle
          burst,    \* history: those of them that began to fetch after it
          mishaps

vars == <<gap, ahead, left, pc, wait, clear, early, burst, mishaps>>

Board == 1 .. Boards
Less(n) == IF n > 0 THEN n - 1 ELSE 0
Capped(n) == IF n > MaxGap THEN MaxGap ELSE n

TypeOK ==
    /\ gap \in 0 .. MaxGap /\ ahead \in 0 .. Window + MaxGap /\ left \in -1 .. Window
    /\ pc \in [Board -> {"queued", "asleep", "ready", "fetching", "done", "out"}]
    /\ wait \in [Board -> 0 .. Window] /\ clear \in [Board -> 0 .. Window + MaxGap]
    /\ early \subseteq Board /\ burst \in Nat /\ mishaps \in Nat

\* Mutant: a board that is turned away keeps its place.
HoldsOn == {b \in Board : pc[b] \notin {"queued", "done"}}
Holders == {b \in Board : pc[b] \in {"asleep", "ready", "fetching"}}

Init ==
    /\ gap = 0 /\ ahead = 0 /\ left = Window
    /\ pc = [b \in Board |-> "queued"]
    /\ wait = [b \in Board |-> 0] /\ clear = [b \in Board |-> 0]
    /\ early = {} /\ burst = 0 /\ mishaps = 0

-----------------------------------------------------------------------------
(* wait *)

\* Mutant: a slot is reserved only when the sleep is over.
Unreserved(start) == start

Reserved(start) == start + gap

\* Mutant: the places are not counted.
AnyPlace == TRUE
FreePlace == Cardinality(Holders) < Places

\* Mutant: a board that is late sleeps all the same.
NeverLate(start) == FALSE
TooLate(start) == start > left

\* The first board in the queue gets a place and asks the pacer for a slot; it is turned
\* away if the slot lies beyond the deadline, and reserves nothing then.
Wait(b) ==
    /\ pc[b] = "queued" /\ FreePlace
    /\ \A c \in Board : c < b => pc[c] # "queued"
    /\ \/ /\ TooLate(ahead)
          /\ pc' = [pc EXCEPT ![b] = "out"]
          /\ UNCHANGED <<ahead, wait, clear>>
       \/ /\ ~TooLate(ahead)
          /\ pc' = [pc EXCEPT ![b] = "asleep"]
          /\ wait' = [wait EXCEPT ![b] = ahead]
          /\ clear' = [clear EXCEPT ![b] = ahead + gap]
          /\ ahead' = Reserved(ahead)
    /\ UNCHANGED <<gap, left, early, burst, mishaps>>

\* The sleep is over, or there was none to sleep; it may end late.
Wake(b) ==
    /\ pc[b] = "asleep" /\ wait[b] = 0
    /\ pc' = [pc EXCEPT ![b] = "ready"]
    /\ UNCHANGED <<gap, ahead, left, wait, clear, early, burst, mishaps>>

\* One of the cycle's max_concurrency fetches, of all vendors, is free for it.
Begin(b) ==
    /\ pc[b] = "ready"
    /\ pc' = [pc EXCEPT ![b] = "fetching"]
    /\ burst' = IF b \in early THEN burst + 1 ELSE burst
    /\ early' = early \ {b}
    /\ UNCHANGED <<gap, ahead, left, wait, clear, mishaps>>

-----------------------------------------------------------------------------
(* Answers *)

OnThrottle == Capped(IF 2 * gap > MinGap THEN 2 * gap ELSE MinGap)

\* 0.9 of the gap, and none below GAP_SNAP, the tick.
OnSuccess == (9 * gap) \div 10

Answered(b) == pc[b] = "fetching" /\ pc' = [pc EXCEPT ![b] = "done"]

Succeed(b) ==
    /\ Answered(b) /\ gap' = OnSuccess
    /\ UNCHANGED <<ahead, left, wait, clear, early, burst, mishaps>>

\* A 429, or a 400 of two vendors. Slots already reserved stay as they are.
Throttle(b) ==
    /\ Answered(b) /\ gap' = OnThrottle
    /\ early' = {c \in Board : pc[c] \in {"asleep", "ready"}} /\ burst' = 0
    /\ UNCHANGED <<ahead, left, wait, clear, mishaps>>

\* A timeout or another error says nothing of the vendor's rate.
Fail(b) ==
    /\ Answered(b)
    /\ UNCHANGED <<gap, ahead, left, wait, clear, early, burst, mishaps>>

-----------------------------------------------------------------------------
(* Cycles and the clock *)

Ended == \A b \in Board : pc[b] \in {"done", "out"}

Requeue ==
    /\ pc' = [b \in Board |-> "queued"] /\ left' = Window
    /\ wait' = [b \in Board |-> 0] /\ early' = {}
    /\ UNCHANGED <<gap, ahead, clear, burst>>

NextCycle == Ended /\ Requeue /\ UNCHANGED mishaps

\* A cycle is cancelled and its tasks with it; what they reserved stays reserved.
Cancel == ~Ended /\ mishaps < MaxMishaps /\ mishaps' = mishaps + 1 /\ Requeue

Tick ==
    /\ ahead' = Less(ahead) /\ left' = IF left < 0 THEN left ELSE left - 1
    /\ wait' = [b \in Board |-> Less(wait[b])]
    /\ clear' = [b \in Board |-> Less(clear[b])]
    /\ UNCHANGED <<gap, pc, early, burst, mishaps>>

-----------------------------------------------------------------------------
Fetches(b) == Wait(b) \/ Wake(b) \/ Begin(b) \/ Succeed(b) \/ Throttle(b) \/ Fail(b)

Next == (\E b \in Board : Fetches(b)) \/ NextCycle \/ Cancel \/ Tick

Spec == Init /\ [][Next]_vars

\* Time passes, the tasks run, every fetch ends (it has a timeout of its own), and the
\* scheduler starts the next cycle.
Fairness ==
    WF_vars(Tick) /\ WF_vars(NextCycle) /\ WF_vars(\E b \in Board : Fetches(b))

FairSpec == Spec /\ Fairness

-----------------------------------------------------------------------------
(* Properties *)

\* Nobody's turn comes before the turn of a board that reserved earlier is over, which lasts
\* for the gap in force when it reserved, however often the gap changed since and whatever
\* cycles were cancelled; and so it is with the next slot that will be given.
SlotsAreSpaced ==
    \A b \in Board :
        /\ clear[b] <= ahead
        /\ \A c \in Board : c > b /\ pc[c] = "asleep" => clear[b] <= wait[c]

\* A board that was given a slot gets it before the cycle's deadline, so that the boards
\* turned away are the only ones the deadline costs.
SlotsMeetTheDeadline ==
    \A b \in Board : pc[b] = "asleep" /\ wait[b] > 0 => wait[b] <= left

\* "Only the few boards holding a vendor slot reserve pacer slots, so a throttle seen by one
\* of them slows the vendor's remaining boards within this cycle": fewer boards than there
\* are places fetch at the old pace after it.
BurstIsBounded == burst < Places

\* Every cycle comes to its end, however long the gap and however many boards wait.
CyclesEnd == []<>Ended

-----------------------------------------------------------------------------
(* Not kept by the code *)

\* "Not attempted this cycle ... it is picked up next cycle". The boards ahead of it in the
\* connectors' order reserve first in every cycle: if they fail with errors that neither
\* open nor close the gap, the ones behind are turned away for ever.
TurnedAwayComesNext == \A b \in Board : pc[b] = "out" ~> pc[b] = "fetching"
=============================================================================
