------------------------------ MODULE PollerProofs ------------------------------
(***************************************************************************)
(* Proofs about what the poller keeps beside its cycles: BoardPolling, for *)
(* any boards, thresholds, pauses and bounds; VendorPacer, for any number  *)
(* of boards and places, any window and any gaps; OpsAlerts, for any       *)
(* tiers, intervals, cooldown and faults; and MCPolling, of which each is  *)
(* a part.                                                                 *)
(***************************************************************************)
EXTENDS MCPolling, FiniteSetTheorems, SequenceTheorems, TLAPS

-----------------------------------------------------------------------------
(* BoardPolling.  The types hold for any runners; what the books say of the *)
(* past holds where the cycles of a tier do not overlap, as the scheduler   *)
(* sees to (max_instances = 1) and a command run by hand does not.          *)

USE DEF tables, cycle, history

\* One runner of the tier.
Solo == \A r, s \in Runners : r = s

LEMMA Arithmetic ==
    /\ MaxInterval \in Nat \ {0} /\ Horizon \in Nat
    /\ \A n, cap \in Nat : Capped(n, cap) \in 0 .. cap /\ Less(n) \in 0 .. n
<1>1. MaxInterval \in Nat \ {0}
  BY PollingAssumption DEF MaxInterval, Larger
<1>2. Horizon \in Nat
  BY <1>1, PollingAssumption DEF Horizon
<1>3. \A n, cap \in Nat : Capped(n, cap) \in 0 .. cap /\ Less(n) \in 0 .. n
  BY DEF Capped, Less
<1> QED
  BY <1>1, <1>2, <1>3

\* NextInterval never leaves the bounds MIN_INTERVAL_S and MAX_INTERVAL_S.
LEMMA IntervalBounded ==
    ASSUME NEW prev \in Nat, NEW fresh, NEW forced
    PROVE  NextInterval(prev, fresh, forced) \in 1 .. MaxInterval
BY PollingAssumption DEF NextInterval, MaxInterval, Larger, Smaller

LEMMA LessBounded == \A k \in Nat : \A n \in 0 .. k : Less(n) \in 0 .. k
BY DEF Less

LEMMA LeaveTyped ==
    ASSUME TypeOK, NEW r \in Runners, Leave(r)
    PROVE  /\ pc' \in [Runners -> {"idle", "fetch", "health", "record", "stamp"}]
           /\ snapGen' \in [Runners -> Nat] /\ genChanged' \in [Runners -> BOOLEAN]
           /\ built' \in [Runners -> SUBSET Boards] /\ tracked' \in [Runners -> SUBSET Boards]
           /\ outcome' \in [Runners -> [Boards -> Outcomes \union {"none"}]]
           /\ elapsed' \in [Runners -> 0 .. MaxLag]
BY PollingAssumption DEF TypeOK, Leave

\* A step keeps the types.
LEMMA TypeStep ==
    ASSUME TypeOK, [Next]_vars
    PROVE  TypeOK'
<1>0. /\ MaxInterval \in Nat \ {0} /\ Horizon \in Nat
      /\ \A n, cap \in Nat : Capped(n, cap) \in 0 .. cap /\ Less(n) \in 0 .. n
      /\ Threshold \in Nat \ {0} /\ Backoff \in Nat \ {0} /\ MaxLag \in Nat /\ MaxGen \in Nat
  BY Arithmetic, PollingAssumption
<1>1. ASSUME NEW r \in Runners, NEW hr \in BOOLEAN, NEW sr \in BOOLEAN, Start(r, hr, sr)
      PROVE  TypeOK'
  <2>1. built' \in [Runners -> SUBSET Boards]
    BY <1>1 DEF Start, TypeOK
  <2>2. hold' \in [Boards -> 0 .. Backoff]
    BY <1>1, <1>0 DEF Start, TypeOK
  <2>3. mishaps' \in Nat
    BY <1>1 DEF Start, TypeOK, Mishap
  <2>4. elapsed' \in [Runners -> 0 .. MaxLag]
    BY <1>1, <1>0 DEF Start, TypeOK
  <2>5. pc' \in [Runners -> {"idle", "fetch", "health", "record", "stamp"}]
    BY <1>1 DEF Start, TypeOK
  <2>6. /\ snapGen' \in [Runners -> Nat] /\ genChanged' \in [Runners -> BOOLEAN]
        /\ ran' \in [Runners -> BOOLEAN]
    BY <1>1 DEF Start, TypeOK
  <2> QED
    BY <1>1, <2>1, <2>2, <2>3, <2>4, <2>5, <2>6 DEF Start, TypeOK
<1>2. ASSUME NEW r \in Runners, NEW b \in Boards, NEW o \in Outcomes, Fetch(r, b, o)
      PROVE  TypeOK'
  <2>1. outcome' \in [Runners -> [Boards -> Outcomes \union {"none"}]]
    BY <1>2 DEF Fetch, TypeOK
  <2>2. since' \in [Boards -> Nat]
    <3>1. elapsed[r] \in Nat
      BY <1>0 DEF TypeOK
    <3> QED
      BY <1>2, <3>1 DEF Fetch, TypeOK
  <2>3. deadRun' \in [Boards -> Nat]
    <3>1. Capped(deadRun[b] + 1, Threshold) \in Nat
      BY <1>0 DEF TypeOK, Capped
    <3> QED
      BY <1>2, <3>1 DEF Fetch, TypeOK
  <2>4. pollGen' \in [Boards -> Nat]
    BY <1>2 DEF Fetch, TypeOK
  <2>5. mishaps' \in Nat
    BY <1>2 DEF Fetch, TypeOK, Mishap
  <2> QED
    BY <1>2, <2>1, <2>2, <2>3, <2>4, <2>5 DEF Fetch, TypeOK
<1>3. ASSUME NEW r \in Runners, EndFetching(r) PROVE TypeOK'
  BY <1>3 DEF EndFetching, TypeOK
<1>4. ASSUME NEW r \in Runners, NEW failed \in SUBSET built[r], BookHealth(r, failed)
      PROVE  TypeOK'
  <2>1. ASSUME NEW b \in Boards PROVE Booked(r, b) \in HealthRow
    <3>1. health[b] \in HealthRow
      BY DEF TypeOK
    <3>2. NoHealth \in HealthRow
      BY <1>0 DEF NoHealth, HealthRow
    <3>3. Capped(health[b].streak + 1, Threshold) \in Nat
      BY <1>0, <3>1 DEF HealthRow, Capped
    <3>4. Streak(b) \in HealthRow
      BY <3>1, <3>3 DEF Streak, HealthRow
    <3>5. [Streak(b) EXCEPT !.suppressed = @ \/ Streak(b).streak >= Threshold] \in HealthRow
      BY <3>4 DEF HealthRow
    <3>6. [health[b] EXCEPT !.row = TRUE, !.wait = Backoff] \in HealthRow
      <4>1. Backoff \in 0 .. Backoff
        BY <1>0
      <4> QED
        BY <3>1, <4>1 DEF HealthRow
    <3> QED
      BY <3>1, <3>2, <3>4, <3>5, <3>6 DEF Booked
  <2>2. health' \in [Boards -> HealthRow]
    BY <1>4, <2>1 DEF BookHealth, TypeOK
  <2>3. hold' \in [Boards -> 0 .. Backoff]
    BY <1>4, <1>0 DEF BookHealth, TypeOK
  <2>4. refusals' \in [Boards -> Nat]
    <3>1. \A b \in Boards : Capped(refusals[b] + 1, Threshold) \in Nat
      BY <1>0 DEF TypeOK, Capped
    <3> QED
      BY <1>4, <3>1 DEF BookHealth, TypeOK
  <2>5. pollGen' \in [Boards -> Nat]
    BY <1>4 DEF BookHealth, TypeOK
  <2>6. pc' \in [Runners -> {"idle", "fetch", "health", "record", "stamp"}]
    BY <1>4 DEF BookHealth, TypeOK
  <2>7. mishaps' \in Nat
    BY <1>4 DEF BookHealth, TypeOK, Mishap
  <2> QED
    BY <1>4, <2>2, <2>3, <2>4, <2>5, <2>6, <2>7 DEF BookHealth, TypeOK
<1>5. ASSUME NEW r \in Runners, NEW deferred \in SUBSET built[r], RecordPolls(r, deferred)
      PROVE  TypeOK'
  <2>1. ASSUME NEW b \in Boards, NEW F PROVE Row(r, b, F) \in ScheduleRow
    <3> DEFINE n == NextInterval(schedule[b].interval, outcome[r][b] = "fresh", b \in F)
    <3>1. n \in 1 .. MaxInterval
      <4>1. schedule[b].interval \in Nat
        BY <1>0 DEF TypeOK, ScheduleRow
      <4> QED
        BY <4>1, IntervalBounded
    <3>2. elapsed[r] \in Nat
      BY <1>0 DEF TypeOK
    <3>5. n \in 0 .. MaxInterval
      BY <1>0, <3>1
    <3> HIDE DEF n
    <3>3. [interval |-> n, wait |-> IF n > elapsed[r] THEN n - elapsed[r] ELSE 0] \in ScheduleRow
      <4> DEFINE e == elapsed[r]
      <4>1. e \in Nat
        BY <3>2
      <4> HIDE DEF e
      <4>2. (IF n > e THEN n - e ELSE 0) \in 0 .. MaxInterval
        BY <1>0, <3>5, <4>1
      <4>3. [interval |-> n, wait |-> IF n > e THEN n - e ELSE 0] \in ScheduleRow
        BY <3>5, <4>2 DEF ScheduleRow
      <4> QED
        BY <4>3 DEF e
    <3>4. [interval |-> 1, wait |-> 0] \in ScheduleRow
      BY <1>0 DEF ScheduleRow
    <3> QED
      BY <3>3, <3>4 DEF Row, n
  <2>2. schedule' \in [Boards -> ScheduleRow]
    BY <1>5, <2>1 DEF RecordPolls, TypeOK
  <2>3. lastFresh' \in [Boards -> BOOLEAN]
    BY <1>5 DEF RecordPolls, TypeOK
  <2>4. pc' \in [Runners -> {"idle", "fetch", "health", "record", "stamp"}]
    BY <1>5 DEF RecordPolls, TypeOK
  <2> QED
    BY <1>5, <2>2, <2>3, <2>4 DEF RecordPolls, TypeOK
<1>6. ASSUME NEW r \in Runners, SetGeneration(r) PROVE TypeOK'
  <2>1. Leave(r)
    BY <1>6 DEF SetGeneration
  <2>2. storedGen' \in Nat
    BY <1>6 DEF SetGeneration, TypeOK
  <2> QED
    BY <1>6, <2>1, <2>2, LeaveTyped DEF SetGeneration, TypeOK
<1>7. ASSUME NEW r \in Runners, Abort(r) PROVE TypeOK'
  <2>1. Leave(r)
    BY <1>7 DEF Abort
  <2>2. mishaps' \in Nat
    BY <1>7 DEF Abort, TypeOK, Mishap
  <2> QED
    BY <1>7, <2>1, <2>2, LeaveTyped DEF Abort, TypeOK
<1>8. CASE Tick
  <2>1. schedule' \in [Boards -> ScheduleRow]
    <3>1. ASSUME NEW b \in Boards PROVE [schedule[b] EXCEPT !.wait = Less(@)] \in ScheduleRow
      <4>1. schedule[b] \in ScheduleRow
        BY DEF TypeOK
      <4>2. Less(schedule[b].wait) \in 0 .. MaxInterval
        BY <1>0, <4>1, LessBounded DEF ScheduleRow
      <4> QED
        BY <4>1, <4>2 DEF ScheduleRow
    <3> QED
      BY <1>8, <3>1 DEF Tick
  <2>2. health' \in [Boards -> HealthRow]
    <3>1. ASSUME NEW b \in Boards PROVE [health[b] EXCEPT !.wait = Less(@)] \in HealthRow
      <4>1. health[b] \in HealthRow
        BY DEF TypeOK
      <4>2. Less(health[b].wait) \in 0 .. Backoff
        BY <1>0, <4>1, LessBounded DEF HealthRow
      <4> QED
        BY <4>1, <4>2 DEF HealthRow
    <3> QED
      BY <1>8, <3>1 DEF Tick
  <2>3. hold' \in [Boards -> 0 .. Backoff]
    BY <1>8, <1>0, LessBounded DEF Tick, TypeOK
  <2>4. since' \in [Boards -> Nat]
    BY <1>8, <1>0 DEF Tick, TypeOK, Capped
  <2>5. elapsed' \in [Runners -> 0 .. MaxLag]
    BY <1>8, <1>0 DEF Tick, TypeOK
  <2>6. ran' \in [Runners -> BOOLEAN]
    BY <1>8 DEF Tick, TypeOK
  <2> QED
    BY <1>8, <2>1, <2>2, <2>3, <2>4, <2>5, <2>6 DEF Tick, TypeOK
<1>9. CASE ChangeSettings
  BY <1>9 DEF ChangeSettings, TypeOK
<1>10. ASSUME NEW b \in Boards, Recover(b) PROVE TypeOK'
  <2>1. health' \in [Boards -> HealthRow]
    BY <1>10, <1>0 DEF Recover, TypeOK, NoHealth, HealthRow
  <2>2. hold' \in [Boards -> 0 .. Backoff]
    BY <1>10, <1>0 DEF Recover, TypeOK
  <2> QED
    BY <1>10, <2>1, <2>2 DEF Recover, TypeOK
<1>11. CASE UNCHANGED vars
  BY <1>11 DEF vars, TypeOK
<1> QED
  BY <1>1, <1>2, <1>3, <1>4, <1>5, <1>6, <1>7, <1>8, <1>9, <1>10, <1>11
     DEF Next, Cycle, Finish

LEMMA TypeInit == Init => TypeOK
<1>1. MaxInterval \in Nat \ {0} /\ Backoff \in Nat /\ MaxLag \in Nat
  BY Arithmetic, PollingAssumption
<1>2. NoSchedule \in ScheduleRow /\ NoHealth \in HealthRow
  BY <1>1 DEF NoSchedule, NoHealth, ScheduleRow, HealthRow
<1> QED
  BY <1>1, <1>2 DEF Init, TypeOK

\* An interval stays within its bounds, and no board waits longer than was asked for, whatever
\* the runners of the tier do at the same time.
THEOREM TierTypeCorrect == Spec => []TypeOK
<1>1. TypeOK /\ [Next]_vars => TypeOK'
  BY TypeStep
<1> QED
  BY <1>1, TypeInit, PTL DEF Spec
-----------------------------------------------------------------------------
(* The circuit breaker *)

\* The bookkeeping the breaker rests on: a board without a row is in no trouble, the list
\* of tracked boards a cycle books by is not short of one, and a streak counts refusals.
HealthInv ==
    /\ \A b \in Boards : ~health[b].row =>
          health[b].streak = 0 /\ ~health[b].suppressed /\ health[b].wait = 0
    /\ \A r \in Runners : pc[r] = "health" => \A b \in Boards \ tracked[r] : ~health[b].row
    /\ \A b \in Boards : health[b].streak <= refusals[b]
    /\ SuppressionIsEarned

LEMMA HealthStep ==
    ASSUME Solo, TypeOK, HealthInv, [Next]_vars
    PROVE  HealthInv'
<1>0. /\ Threshold \in Nat \ {0}
      /\ \A b \in Boards : health[b] \in HealthRow /\ refusals[b] \in Nat
  BY PollingAssumption DEF TypeOK
<1>1. ASSUME NEW r \in Runners, NEW hr \in BOOLEAN, NEW sr \in BOOLEAN, Start(r, hr, sr)
      PROVE  HealthInv'
  BY <1>1 DEF Start, HealthInv, SuppressionIsEarned, TypeOK
<1>2. ASSUME NEW r \in Runners, NEW b \in Boards, NEW o \in Outcomes, Fetch(r, b, o)
      PROVE  HealthInv'
  BY <1>2 DEF Fetch, HealthInv, SuppressionIsEarned
<1>3. ASSUME NEW r \in Runners, EndFetching(r) PROVE HealthInv'
  BY <1>3 DEF EndFetching, HealthInv, SuppressionIsEarned, TypeOK
<1>4. ASSUME NEW r \in Runners, NEW failed \in SUBSET built[r], BookHealth(r, failed)
      PROVE  HealthInv'
  <2> DEFINE Told(b) == b \in built[r] \ failed
  <2>1. ASSUME NEW b \in Boards
        PROVE  /\ ~health'[b].row =>
                      health'[b].streak = 0 /\ ~health'[b].suppressed /\ health'[b].wait = 0
               /\ health'[b].streak <= refusals'[b]
               /\ health'[b].suppressed => refusals'[b] >= Threshold
    <3>0. /\ health[b] \in HealthRow /\ refusals[b] \in Nat
          /\ ~health[b].row => health[b].streak = 0 /\ ~health[b].suppressed /\ health[b].wait = 0
          /\ health[b].streak <= refusals[b]
          /\ health[b].suppressed => refusals[b] >= Threshold
          /\ b \notin tracked[r] => ~health[b].row
      BY <1>0, <1>4 DEF BookHealth, HealthInv, SuppressionIsEarned
    <3>1. /\ health'[b] = IF Told(b) THEN Booked(r, b) ELSE health[b]
          /\ Told(b) /\ outcome[r][b] \in Refused =>
             refusals'[b] = Capped(refusals[b] + 1, Threshold)
          /\ Told(b) /\ outcome[r][b] \in Fine => refusals'[b] = 0
          /\ ~Told(b) \/ outcome[r][b] \notin Refused \union Fine => refusals'[b] = refusals[b]
      BY <1>4 DEF BookHealth, Refused, Fine, Polled
    <3>2. CASE ~Told(b)
      BY <3>0, <3>1, <3>2
    <3>3. CASE Told(b) /\ outcome[r][b] \in Fine
      <4>1. CASE b \in tracked[r]
        <5>1. health'[b] = NoHealth
          BY <3>1, <3>3, <4>1 DEF Booked, Fine, Polled
        <5> QED
          BY <3>1, <3>3, <5>1, <1>0 DEF NoHealth
      <4>2. CASE b \notin tracked[r]
        <5>1. health'[b] = health[b]
          BY <3>1, <3>3, <4>2 DEF Booked, Fine, Polled
        <5> QED
          BY <3>0, <3>1, <3>3, <4>2, <5>1
      <4> QED
        BY <4>1, <4>2
    <3>4. CASE Told(b) /\ outcome[r][b] \in Refused
      <4>1. /\ Streak(b).streak = Capped(health[b].streak + 1, Threshold)
            /\ Streak(b).row /\ Streak(b).suppressed = health[b].suppressed
        BY <3>0 DEF Streak, HealthRow
      <4>2. /\ health'[b].streak = Streak(b).streak /\ health'[b].row
            /\ health'[b].suppressed => health[b].suppressed \/ Streak(b).streak >= Threshold
        BY <3>0, <3>1, <3>4, <4>1 DEF Booked, Refused, Fine, Polled, Streak, HealthRow
      <4>3. Capped(health[b].streak + 1, Threshold) <= Capped(refusals[b] + 1, Threshold)
        BY <1>0, <3>0 DEF Capped, HealthRow
      <4>4. health'[b].suppressed => Capped(refusals[b] + 1, Threshold) >= Threshold
        <5>1. CASE health[b].suppressed
          BY <1>0, <3>0, <5>1 DEF Capped
        <5>2. CASE Streak(b).streak >= Threshold
          BY <1>0, <3>0, <4>1, <5>2 DEF Capped, HealthRow
        <5> QED
          BY <4>2, <5>1, <5>2
      <4> QED
        BY <3>1, <3>4, <4>1, <4>2, <4>3, <4>4
    <3>5. CASE Told(b) /\ outcome[r][b] \notin Refused \union Fine
      <4>1. /\ health'[b].streak = health[b].streak /\ health'[b].suppressed = health[b].suppressed
            /\ health'[b].row \/ health'[b] = health[b]
        BY <3>0, <3>1, <3>5 DEF Booked, Refused, Fine, Polled, HealthRow
      <4> QED
        BY <3>0, <3>1, <3>5, <4>1
    <3> QED
      BY <3>2, <3>3, <3>4, <3>5
  <2>2. \A s \in Runners : pc'[s] # "health"
    BY <1>4 DEF BookHealth, TypeOK, Solo
  <2> QED
    BY <2>1, <2>2 DEF HealthInv, SuppressionIsEarned
<1>5. ASSUME NEW r \in Runners, NEW deferred \in SUBSET built[r], RecordPolls(r, deferred)
      PROVE  HealthInv'
  BY <1>5 DEF RecordPolls, HealthInv, SuppressionIsEarned, TypeOK
<1>6. ASSUME NEW r \in Runners, SetGeneration(r) PROVE HealthInv'
  BY <1>6 DEF SetGeneration, Leave, HealthInv, SuppressionIsEarned, TypeOK
<1>7. ASSUME NEW r \in Runners, Abort(r) PROVE HealthInv'
  BY <1>7 DEF Abort, Leave, HealthInv, SuppressionIsEarned, TypeOK
<1>8. CASE Tick
  <2>1. \A b \in Boards : /\ health'[b].row = health[b].row /\ health'[b].streak = health[b].streak
                          /\ health'[b].suppressed = health[b].suppressed
                          /\ health'[b].wait = Less(health[b].wait)
    BY <1>0, <1>8 DEF Tick, HealthRow
  <2> QED
    BY <1>8, <2>1 DEF Tick, HealthInv, SuppressionIsEarned, Less
<1>9. CASE ChangeSettings
  BY <1>9 DEF ChangeSettings, HealthInv, SuppressionIsEarned
<1>10. ASSUME NEW b \in Boards, Recover(b) PROVE HealthInv'
  <2>1. health' = [health EXCEPT ![b] = NoHealth] /\ refusals' = refusals
        /\ pc' = pc /\ tracked' = tracked
    BY <1>10 DEF Recover
  <2>2. \A c \in Boards : health'[c] = IF c = b THEN NoHealth ELSE health[c]
    BY <2>1 DEF TypeOK
  <2>3. 0 <= refusals[b]
    BY <1>0
  <2> QED
    BY <2>1, <2>2, <2>3 DEF HealthInv, SuppressionIsEarned, NoHealth
<1>11. CASE UNCHANGED vars
  BY <1>11 DEF vars, HealthInv, SuppressionIsEarned
<1> QED
  BY <1>1, <1>2, <1>3, <1>4, <1>5, <1>6, <1>7, <1>8, <1>9, <1>10, <1>11
     DEF Next, Cycle, Finish

\* A board is suppressed only on Threshold refusals since its last booked answer, for any
\* threshold, any boards, and whatever fails or crashes in between, where the cycles of the
\* tier do not overlap.
THEOREM SuppressedForCause == ASSUME Solo PROVE Spec => []SuppressionIsEarned
<1>1. Init => HealthInv
  BY DEF Init, HealthInv, SuppressionIsEarned, NoHealth
<1>2. TypeOK /\ HealthInv /\ [Next]_vars => HealthInv'
  BY HealthStep
<1>3. HealthInv => SuppressionIsEarned
  BY DEF HealthInv
<1> QED
  BY <1>1, <1>2, <1>3, TierTypeCorrect, PTL DEF Spec
-----------------------------------------------------------------------------
(* The stamp of a generation *)

\* What StampedMeansPolled asks of a board that is not due.
Excused(b) == pollGen[b] \in {0, gen} \/ health[b].row

\* Generations only age, a cycle that found its own generation stored still does, a screened
\* fetch is one of the cycle's generation, and a cycle that found another leaves out no
\* healthy board: the last two conjuncts are what the stamp is given on.
StampInv ==
    /\ storedGen <= gen /\ \A b \in Boards : pollGen[b] <= gen
    /\ \A r \in Runners : snapGen[r] <= gen
    /\ \A r \in Runners : pc[r] = "idle" => \A b \in Boards : outcome[r][b] \notin Polled
    /\ \A r \in Runners : pc[r] # "idle" =>
          storedGen <= snapGen[r] /\ (~genChanged[r] => storedGen = snapGen[r])
    /\ \A r \in Runners, b \in Boards :
          outcome[r][b] \in Polled => pollGen[b] \in {0, snapGen[r]}
    /\ StampedMeansPolled
    /\ \A r \in Runners : pc[r] \in {"fetch", "health", "record"} /\ genChanged[r]
          /\ snapGen[r] = gen => \A b \in NotDue \ built[r] : Excused(b)
    /\ \A r \in Runners : pc[r] = "stamp" /\ snapGen[r] = gen => \A b \in NotDue : Excused(b)

\* Every board that is not due is excused, once a generation is recorded.
LEMMA Recorded ==
    ASSUME TypeOK, StampInv,
           NEW r \in Runners, NEW deferred \in SUBSET built[r], RecordPolls(r, deferred),
           snapGen[r] = gen, NEW b \in Boards, schedule'[b].wait > 0
    PROVE  Excused(b)
<1> DEFINE forced == ForceDue(r, deferred)
<1>1. schedule'[b] = IF b \in Done(r) \union forced THEN Row(r, b, forced) ELSE schedule[b]
  BY DEF RecordPolls
<1>2. pc[r] = "record"
  BY DEF RecordPolls
<1>3. CASE b \in Done(r)
  BY <1>3 DEF Done, StampInv, Excused
<1>4. CASE b \in forced \ Done(r)
  <2>1. schedule'[b].wait = 0
    BY <1>1, <1>4 DEF Row
  <2> QED
    BY <2>1
<1>5. CASE b \notin forced \union Done(r)
  <2>1. b \in NotDue
    BY <1>1, <1>5 DEF NotDue
  <2>2. CASE genChanged[r]
    <3>1. b \notin built[r]
      BY <1>5, <2>2 DEF ForceDue
    <3> QED
      BY <1>2, <2>1, <2>2, <3>1 DEF StampInv
  <2>3. CASE ~genChanged[r]
    BY <1>2, <2>1, <2>3 DEF StampInv, StampedMeansPolled, Excused
  <2> QED
    BY <2>2, <2>3
<1> QED
  BY <1>3, <1>4, <1>5

LEMMA StampStep ==
    ASSUME Solo, TypeOK, HealthInv, StampInv, [Next]_vars
    PROVE  StampInv'
<1>0. /\ gen \in Nat /\ storedGen \in Nat /\ snapGen \in [Runners -> Nat]
      /\ pollGen \in [Boards -> Nat] /\ pc \in [Runners ->
                                    {"idle", "fetch", "health", "record", "stamp"}]
      /\ outcome \in [Runners -> [Boards -> Outcomes \union {"none"}]]
      /\ health \in [Boards -> HealthRow] /\ schedule \in [Boards -> ScheduleRow]
  BY DEF TypeOK
<1>1. ASSUME NEW r \in Runners, NEW hr \in BOOLEAN, NEW sr \in BOOLEAN, Start(r, hr, sr)
      PROVE  StampInv'
  <2>1. /\ UNCHANGED <<schedule, storedGen, health, gen, outcome, pollGen>>
        /\ pc[r] = "idle" /\ pc' = [pc EXCEPT ![r] = "fetch"]
        /\ snapGen' = [snapGen EXCEPT ![r] = gen]
        /\ genChanged'[r] = ~(sr /\ storedGen = gen)
        /\ genChanged'[r] => built'[r] = Boards \ (IF hr THEN Suppressed \union BackedOff ELSE {})
    BY <1>1 DEF Start, TypeOK
  <2>2. \A b \in Suppressed \union BackedOff : health[b].row
    <3>1. \A b \in Boards : health[b].wait > 0 => health[b].row
      BY DEF HealthInv
    <3> QED
      BY <3>1 DEF HealthInv, Suppressed, BackedOff
  <2>3. \A s \in Runners : s = r
    BY DEF Solo
  <2>4. ASSUME NEW b \in NotDue \ built'[r], genChanged'[r] PROVE Excused(b)
    BY <2>1, <2>2, <2>4 DEF Excused, NotDue
  <2>5. pc'[r] = "fetch" /\ snapGen'[r] = gen
    BY <1>0, <2>1
  <2>6. \A b \in Boards : Excused(b)' = Excused(b)
    BY <2>1 DEF Excused
  <2>7. NotDue' = NotDue /\ (StampedMeansPolled => StampedMeansPolled')
    BY <2>1 DEF NotDue, StampedMeansPolled
  <2>8. \A s \in Runners : snapGen'[s] <= gen'
    BY <1>0, <2>1, <2>3, <2>5
  <2>9. \A s \in Runners : pc'[s] # "idle" =>
            storedGen' <= snapGen'[s] /\ (~genChanged'[s] => storedGen' = snapGen'[s])
    BY <1>0, <2>1, <2>3, <2>5 DEF StampInv
  <2>10. \A s \in Runners, b \in Boards : outcome'[s][b] \notin Polled
    BY <2>1, <2>3 DEF StampInv
  <2>11. \A s \in Runners : genChanged'[s] => \A b \in NotDue' \ built'[s] : Excused(b)'
    BY <2>3, <2>4, <2>6, <2>7 DEF NotDue
  <2>12. \A s \in Runners : pc'[s] # "stamp"
    BY <2>3, <2>5
  <2> QED
    BY <2>1, <2>7, <2>8, <2>9, <2>10, <2>11, <2>12 DEF StampInv
<1>2. ASSUME NEW r \in Runners, NEW b \in Boards, NEW o \in Outcomes, Fetch(r, b, o)
      PROVE  StampInv'
  <2>1. /\ UNCHANGED <<schedule, storedGen, health, gen, pc, snapGen, genChanged, built>>
        /\ pc[r] = "fetch" /\ b \in built[r]
        /\ outcome' = [outcome EXCEPT ![r][b] = o]
        /\ pollGen' = [pollGen EXCEPT ![b] = IF o \in Polled THEN snapGen[r] ELSE @]
    BY <1>2 DEF Fetch
  <2>2. \A s \in Runners : s = r
    BY DEF Solo
  <2>3. \A c \in Boards : /\ outcome'[r][c] = IF c = b THEN o ELSE outcome[r][c]
                         /\ pollGen'[c] = IF c = b /\ o \in Polled THEN snapGen[r] ELSE pollGen[c]
    BY <1>0, <2>1
  <2>4. NotDue' = NotDue
    BY <2>1 DEF NotDue
  <2>5. StampedMeansPolled'
    BY <1>0, <2>1, <2>3, <2>4 DEF StampInv, StampedMeansPolled, NotDue
  <2>6. \A c \in NotDue \ built[r] : Excused(c)' = Excused(c)
    BY <2>1, <2>3 DEF Excused, NotDue
  <2> QED
    BY <1>0, <2>1, <2>2, <2>3, <2>4, <2>5, <2>6 DEF StampInv
<1>3. ASSUME NEW r \in Runners, EndFetching(r) PROVE StampInv'
  <2>1. /\ UNCHANGED <<schedule, storedGen, health, gen, snapGen, genChanged, built, outcome,
           pollGen>>
        /\ pc[r] = "fetch" /\ pc' = [pc EXCEPT ![r] = "health"]
    BY <1>3 DEF EndFetching
  <2>2. pc'[r] = "health" /\ \A s \in Runners : s = r
    BY <1>0, <2>1 DEF Solo
  <2> QED
    BY <2>1, <2>2 DEF StampInv, StampedMeansPolled, NotDue, Excused
<1>4. ASSUME NEW r \in Runners, NEW failed \in SUBSET built[r], BookHealth(r, failed)
      PROVE  StampInv'
  <2>1. /\ UNCHANGED <<schedule, storedGen, gen, snapGen, genChanged, built, outcome>>
        /\ pc[r] = "health" /\ pc' = [pc EXCEPT ![r] = "record"]
    BY <1>4 DEF BookHealth
  <2>2. pc'[r] = "record" /\ \A s \in Runners : s = r
    BY <1>0, <2>1 DEF Solo
  <2>3. \A b \in Boards : pollGen'[b] \in {0, pollGen[b]}
    BY <1>4 DEF BookHealth
  <2>4. ASSUME NEW b \in Boards, Excused(b), snapGen[r] = gen PROVE Excused(b)'
    <3>1. CASE b \notin built[r] \ failed
      <4>1. health'[b] = health[b] /\ pollGen'[b] = pollGen[b]
        BY <1>4, <3>1 DEF BookHealth
      <4> QED
        BY <2>1, <2>4, <4>1 DEF Excused
    <3>2. CASE b \in built[r] \ failed
      <4>1. health'[b] = Booked(r, b)
        BY <1>4, <3>2 DEF BookHealth
      <4>2. CASE outcome[r][b] \in Polled
        <5>1. pollGen[b] \in {0, gen}
          BY <2>4, <4>2 DEF StampInv
        <5> QED
          BY <2>1, <2>3, <5>1 DEF Excused
      <4>3. CASE outcome[r][b] \in Fine \ Polled /\ b \in tracked[r]
        <5>1. pollGen'[b] = 0
          BY <1>4, <3>2, <4>3 DEF BookHealth
        <5> QED
          BY <5>1 DEF Excused
      <4>4. CASE outcome[r][b] \notin Fine \/ (outcome[r][b] \in Fine /\ b \notin tracked[r])
        <5>1. Booked(r, b).row \/ Booked(r, b) = health[b]
          BY <1>0, <4>4 DEF Booked, Streak, Fine, Polled, HealthRow
        <5> QED
          BY <2>1, <2>3, <2>4, <4>1, <5>1 DEF Excused
      <4> QED
        BY <4>2, <4>3, <4>4
    <3> QED
      BY <3>1, <3>2
  <2>5. NotDue' = NotDue
    BY <2>1 DEF NotDue
  <2>6. storedGen = gen => snapGen[r] = gen
    <3>0. pc[r] # "idle"
      BY <2>1
    <3>1. storedGen <= snapGen[r] /\ snapGen[r] <= gen
      BY <3>0 DEF StampInv
    <3>2. storedGen \in Nat /\ gen \in Nat /\ snapGen[r] \in Nat
      BY <1>0
    <3> QED
      BY <3>1, <3>2
  <2>7. StampedMeansPolled'
    <3> SUFFICES ASSUME storedGen = gen, NEW b \in NotDue PROVE Excused(b)'
      BY <2>1, <2>5 DEF StampedMeansPolled, Excused
    <3>1. Excused(b)
      BY DEF StampInv, StampedMeansPolled, Excused
    <3> QED
      BY <2>4, <2>6, <3>1 DEF NotDue
  <2>8. \A b \in Boards : pollGen'[b] <= gen
    BY <1>0, <2>3 DEF StampInv
  <2>9. \A b \in Boards : outcome[r][b] \in Polled => pollGen'[b] \in {0, snapGen[r]}
    BY <2>3 DEF StampInv
  <2>10. genChanged[r] /\ snapGen[r] = gen => \A b \in NotDue \ built[r] : Excused(b)'
    BY <2>1, <2>4 DEF StampInv, NotDue
  <2> QED
    BY <2>1, <2>2, <2>5, <2>7, <2>8, <2>9, <2>10 DEF StampInv
<1>5. ASSUME NEW r \in Runners, NEW deferred \in SUBSET built[r], RecordPolls(r, deferred)
      PROVE  StampInv'
  <2>1. /\ UNCHANGED <<storedGen, health, gen, snapGen, genChanged, built, outcome, pollGen>>
        /\ pc[r] = "record" /\ pc' = [pc EXCEPT ![r] = "stamp"]
    BY <1>5 DEF RecordPolls
  <2>2. pc'[r] = "stamp" /\ \A s \in Runners : s = r
    BY <1>0, <2>1 DEF Solo
  <2>3. ASSUME snapGen[r] = gen, NEW b \in NotDue' PROVE Excused(b)
    <3>1. b \in Boards /\ schedule'[b].wait > 0
      BY <2>3 DEF NotDue
    <3> QED
      BY <1>5, <2>3, <3>1, Recorded
  <2>4. \A b \in Boards : Excused(b)' = Excused(b)
    BY <2>1 DEF Excused
  <2>5. storedGen = gen => snapGen[r] = gen
    <3>0. pc[r] # "idle"
      BY <2>1
    <3>1. storedGen <= snapGen[r] /\ snapGen[r] <= gen
      BY <3>0 DEF StampInv
    <3>2. storedGen \in Nat /\ gen \in Nat /\ snapGen[r] \in Nat
      BY <1>0
    <3> QED
      BY <3>1, <3>2
  <2>6. StampedMeansPolled'
    BY <2>1, <2>3, <2>5 DEF StampedMeansPolled, Excused
  <2>7. \A b \in NotDue' : b \in Boards
    BY DEF NotDue
  <2> QED
    BY <2>1, <2>2, <2>3, <2>4, <2>6, <2>7 DEF StampInv
<1>6. ASSUME NEW r \in Runners, SetGeneration(r) PROVE StampInv'
  <2>1. /\ UNCHANGED <<schedule, health, gen, pollGen>>
        /\ pc[r] = "stamp" /\ storedGen' = snapGen[r] /\ Leave(r)
    BY <1>6 DEF SetGeneration
  <2>2. /\ pc'[r] = "idle" /\ snapGen'[r] = 0 /\ \A b \in Boards : outcome'[r][b] = "none"
        /\ \A s \in Runners : s = r
    BY <1>0, <2>1 DEF Leave, Solo
  <2>3. StampedMeansPolled'
    BY <2>1 DEF StampInv, StampedMeansPolled, NotDue, Excused
  <2> QED
    BY <1>0, <2>1, <2>2, <2>3 DEF StampInv, Polled
<1>7. ASSUME NEW r \in Runners, Abort(r) PROVE StampInv'
  <2>1. UNCHANGED <<schedule, storedGen, health, gen, pollGen>> /\ Leave(r)
    BY <1>7 DEF Abort
  <2>2. /\ pc'[r] = "idle" /\ snapGen'[r] = 0 /\ \A b \in Boards : outcome'[r][b] = "none"
        /\ \A s \in Runners : s = r
    BY <1>0, <2>1 DEF Leave, Solo
  <2>3. StampedMeansPolled'
    BY <2>1 DEF StampInv, StampedMeansPolled, NotDue
  <2> QED
    BY <1>0, <2>1, <2>2, <2>3 DEF StampInv, Polled
<1>8. CASE Tick
  <2>1. /\ UNCHANGED <<storedGen, gen, pc, snapGen, genChanged, built, outcome, pollGen>>
        /\ schedule' = [b \in Boards |-> [schedule[b] EXCEPT !.wait = Less(@)]]
        /\ health' = [b \in Boards |-> [health[b] EXCEPT !.wait = Less(@)]]
    BY <1>8 DEF Tick
  <2>2. NotDue' \subseteq NotDue
    <3>1. \A b \in Boards : schedule'[b].wait = Less(schedule[b].wait)
      BY <1>0, <2>1 DEF ScheduleRow
    <3>2. \A b \in Boards : schedule[b].wait \in Nat
      BY <1>0, Arithmetic DEF ScheduleRow
    <3> QED
      BY <3>1, <3>2 DEF NotDue, Less
  <2>3. \A b \in Boards : Excused(b)' = Excused(b)
    BY <1>0, <2>1 DEF Excused, HealthRow
  <2>4. NotDue \subseteq Boards
    BY DEF NotDue
  <2>5. StampedMeansPolled'
    BY <2>1, <2>2, <2>3, <2>4 DEF StampInv, StampedMeansPolled, Excused
  <2> QED
    BY <2>1, <2>2, <2>3, <2>4, <2>5 DEF StampInv
<1>9. CASE ChangeSettings
  <2>1. /\ gen' = gen + 1
        /\ UNCHANGED <<schedule, storedGen, health, pc, snapGen, genChanged, built, outcome,
           pollGen>>
    BY <1>9 DEF ChangeSettings
  <2> QED
    BY <1>0, <2>1 DEF StampInv, StampedMeansPolled
<1>10. ASSUME NEW b \in Boards, Recover(b) PROVE StampInv'
  <2>1. /\ UNCHANGED <<schedule, storedGen, gen, pc, snapGen, genChanged, built, outcome>>
        /\ health' = [health EXCEPT ![b] = NoHealth] /\ pollGen' = [pollGen EXCEPT ![b] = 0]
    BY <1>10 DEF Recover
  <2>2. \A c \in Boards : pollGen'[c] \in {0, pollGen[c]} /\ (Excused(c) => Excused(c)')
    BY <1>0, <2>1 DEF Excused
  <2>3. NotDue' = NotDue /\ NotDue \subseteq Boards
    BY <2>1 DEF NotDue
  <2>4. StampedMeansPolled'
    BY <2>1, <2>2, <2>3 DEF StampInv, StampedMeansPolled, Excused
  <2> QED
    BY <1>0, <2>1, <2>2, <2>3, <2>4 DEF StampInv
<1>11. CASE UNCHANGED vars
  BY <1>11 DEF vars, StampInv, StampedMeansPolled, NotDue, Excused
<1> QED
  BY <1>1, <1>2, <1>3, <1>4, <1>5, <1>6, <1>7, <1>8, <1>9, <1>10, <1>11
     DEF Next, Cycle, Finish

\* Once a generation is stamped, no healthy board that sits out rests on an interval it
\* earned under older settings: for any boards and however many crashes, failed writes,
\* deferrals, pauses and settings changes, where the cycles of the tier do not overlap.
THEOREM StampIsHonest == ASSUME Solo PROVE Spec => []StampedMeansPolled
<1>1. Init => HealthInv /\ StampInv
  BY DEF Init, HealthInv, SuppressionIsEarned, NoHealth, StampInv, StampedMeansPolled, Polled
<1>2. TypeOK /\ HealthInv /\ StampInv /\ [Next]_vars => HealthInv' /\ StampInv'
  BY HealthStep, StampStep
<1>3. StampInv => StampedMeansPolled
  BY DEF StampInv
<1> QED
  BY <1>1, <1>2, <1>3, TierTypeCorrect, PTL DEF Spec
-----------------------------------------------------------------------------
(* The hour at most *)

\* What the mishaps so far may have cost, what a board may be left alone for when every cycle
\* is instantaneous, and the longest interval its last recorded poll earned it.
Lost == mishaps * (MaxLag + 1)
Interval(b) == IF lastFresh[b] THEN 1 ELSE MaxInterval
Slack(b) == Interval(b) + Lost + IF health[b].row THEN Backoff ELSE 0

\* The cycle has yet to fetch the board, or has and has not recorded it yet.
Unreached(r, b) == pc[r] = "fetch" /\ b \in built[r] /\ outcome[r][b] = "none"
Fetched(r, b) ==
    pc[r] \in {"fetch", "health", "record"} /\ b \in built[r] /\
    outcome[r][b] \notin {"none", "paced"}

\* A board that is held back is due within its slack.  One that is due was left out of the
\* cycle under way because it was not due when that cycle began, or it waits for the next
\* tick, or for its turn in a cycle that includes it.
OnTime(r, b) ==
    /\ Fetched(r, b) => since[b] <= elapsed[r]
    /\ ~health[b].suppressed /\ ~Fetched(r, b) =>
          /\ schedule[b].wait > 0 => since[b] + schedule[b].wait <= Slack(b)
          /\ health[b].wait > 0 => since[b] + health[b].wait <= Slack(b)
          /\ Unreached(r, b) => since[b] <= Slack(b) + MaxLag + elapsed[r]
          /\ ~Unreached(r, b) /\ schedule[b].wait = 0 /\ health[b].wait = 0 =>
                IF pc[r] = "idle" THEN since[b] + (IF ran[r] THEN 1 ELSE 0) <= Slack(b) + MaxLag
                                  ELSE since[b] + 1 <= Slack(b) + elapsed[r]

AttemptInv ==
    /\ \A b \in Boards : /\ schedule[b].wait <= Interval(b)
                         /\ health[b].wait > 0 => health[b].row /\ mishaps >= 1
    /\ \A r \in Runners :
          /\ pc[r] = "idle" => elapsed[r] = 0
          /\ pc[r] # "idle" => ran[r]
    /\ \A r \in Runners, b \in Boards :
          /\ outcome[r][b] \notin Polled \union {"none"} => mishaps >= 1
          /\ pc[r] = "idle" => outcome[r][b] = "none"
          /\ pc[r] \in {"health", "record"} /\ b \in built[r] => outcome[r][b] # "none"
          /\ OnTime(r, b)

\* The numbers OnTime compares.
Numbers ==
    /\ Lost \in Nat /\ (mishaps >= 1 => Lost >= MaxLag + 1)
    /\ MaxLag \in Nat /\ Backoff \in Nat /\ MaxInterval \in Nat \ {0}
    /\ \A r \in Runners : elapsed[r] \in 0 .. MaxLag
    /\ \A b \in Boards : /\ since[b] \in Nat /\ Interval(b) \in 1 .. MaxInterval
                         /\ schedule[b].wait \in Nat /\ health[b].wait \in 0 .. Backoff
                         /\ Slack(b) \in Nat /\ Slack(b) >= Interval(b) + Lost
                         /\ health[b].row => Slack(b) = Interval(b) + Lost + Backoff
                         /\ ~health[b].row => Slack(b) = Interval(b) + Lost

LEMMA NumbersTyped == TypeOK => Numbers
<1> SUFFICES ASSUME TypeOK PROVE Numbers
  OBVIOUS
<1>0. MaxLag \in Nat /\ Backoff \in Nat /\ MaxInterval \in Nat \ {0} /\ mishaps \in Nat
  BY PollingAssumption, Arithmetic DEF TypeOK
<1>1. Lost \in Nat /\ (mishaps >= 1 => Lost >= MaxLag + 1)
  <2>1. mishaps * (MaxLag + 1) \in Nat
    BY <1>0
  <2>2. mishaps >= 1 => mishaps * (MaxLag + 1) >= 1 * (MaxLag + 1)
    BY <1>0
  <2> QED
    BY <1>0, <2>1, <2>2 DEF Lost
<1>2. ASSUME NEW b \in Boards
      PROVE  /\ since[b] \in Nat /\ Interval(b) \in 1 .. MaxInterval
             /\ schedule[b].wait \in Nat /\ health[b].wait \in 0 .. Backoff
  <2>1. schedule[b] \in ScheduleRow /\ health[b] \in HealthRow /\ since[b] \in Nat
    BY DEF TypeOK
  <2>2. schedule[b].wait \in 0 .. MaxInterval /\ health[b].wait \in 0 .. Backoff
    BY <2>1 DEF ScheduleRow, HealthRow
  <2> QED
    BY <1>0, <2>1, <2>2 DEF Interval
<1>3. \A b \in Boards : Slack(b) = Interval(b) + Lost + IF health[b].row THEN Backoff ELSE 0
  BY DEF Slack
<1>4. \A r \in Runners : elapsed[r] \in 0 .. MaxLag
  BY DEF TypeOK
<1> QED
  BY <1>0, <1>1, <1>2, <1>3, <1>4 DEF Numbers

\* The same of the next state.
LEMMA NumbersTypedNext == TypeOK' => Numbers'
BY NumbersTyped, PTL

LEMMA MishapCosts ==
    ASSUME TypeOK
    PROVE  /\ UNCHANGED mishaps => Lost' = Lost
           /\ Mishap => Lost' = Lost + MaxLag + 1 /\ mishaps' >= 1
<1>0. MaxLag \in Nat /\ mishaps \in Nat
  BY PollingAssumption DEF TypeOK
<1>1. (mishaps + 1) * (MaxLag + 1) = mishaps * (MaxLag + 1) + MaxLag + 1
  BY <1>0
<1>2. Lost = mishaps * (MaxLag + 1) /\ Lost' = mishaps' * (MaxLag + 1)
  BY DEF Lost
<1>3. Mishap => mishaps' = mishaps + 1 /\ mishaps' >= 1
  BY <1>0 DEF Mishap
<1> QED
  BY <1>1, <1>2, <1>3

\* A step that leaves a board alone keeps it on time.
LEMMA LeftAlone ==
    ASSUME TypeOK, TypeOK', NEW r \in Runners, NEW b \in Boards, OnTime(r, b),
           Lost' >= Lost, elapsed'[r] = elapsed[r], (pc'[r] = "idle") = (pc[r] = "idle"),
           ran'[r] = ran[r], Fetched(r, b)' = Fetched(r, b), Unreached(r, b)' = Unreached(r, b),
           since'[b] = since[b], schedule'[b] = schedule[b], health'[b] = health[b],
           lastFresh'[b] = lastFresh[b]
    PROVE  OnTime(r, b)'
<1>1. Slack(b)' >= Slack(b) /\ Slack(b) \in Nat /\ Slack(b)' \in Nat
  <2>1. Interval(b)' = Interval(b)
    BY DEF Interval
  <2> QED
    BY <2>1, NumbersTyped, NumbersTypedNext DEF Numbers
<1> QED
  BY <1>1, NumbersTyped, NumbersTypedNext DEF OnTime, Numbers

LEMMA AttemptStep ==
    ASSUME Solo, Daemons # {}, TypeOK, HealthInv, AttemptInv, [Next]_vars
    PROVE  AttemptInv'
<1>0. /\ TypeOK' /\ Numbers /\ Numbers'
      /\ \A r, s \in Runners : r = s
      /\ mishaps \in Nat /\ pc \in [Runners -> {"idle", "fetch", "health", "record", "stamp"}]
      /\ outcome \in [Runners -> [Boards -> Outcomes \union {"none"}]]
      /\ elapsed \in [Runners -> 0 .. MaxLag] /\ ran \in [Runners -> BOOLEAN]
      /\ built \in [Runners -> SUBSET Boards]
      /\ health \in [Boards -> HealthRow] /\ schedule \in [Boards -> ScheduleRow]
      /\ since \in [Boards -> Nat] /\ lastFresh \in [Boards -> BOOLEAN]
  BY TypeStep, NumbersTyped, NumbersTypedNext DEF TypeOK, Solo
<1>m. /\ UNCHANGED mishaps => Lost' = Lost
      /\ Mishap => Lost' = Lost + MaxLag + 1 /\ mishaps' >= 1
      /\ Mishap \/ UNCHANGED mishaps => Lost' >= Lost /\ mishaps' >= mishaps
  BY <1>0, MishapCosts DEF Numbers, Mishap
<1>1. ASSUME NEW r \in Runners, NEW hr \in BOOLEAN, NEW sr \in BOOLEAN, Start(r, hr, sr)
      PROVE  AttemptInv'
  <2>1. /\ UNCHANGED <<schedule, health, outcome, lastFresh, since>>
        /\ pc[r] = "idle" /\ pc'[r] = "fetch" /\ ~ran[r] /\ ran'[r] /\ elapsed'[r] = 0
        /\ Mishap \/ UNCHANGED mishaps
        /\ \A b \in Boards : b \notin built'[r] => health[b].suppressed \/ health[b].wait > 0
                                                   \/ schedule[b].wait > 0
    BY <1>0, <1>1 DEF Start, Suppressed, BackedOff, NotDue
  <2>2. ASSUME NEW b \in Boards PROVE OnTime(r, b)'
    <3>0. ~Fetched(r, b) /\ ~Unreached(r, b)
      BY <2>1 DEF Fetched, Unreached
    <3>a. Interval(b)' = Interval(b) /\ health'[b] = health[b] /\ Lost' >= Lost
      BY <1>m, <2>1 DEF Interval
    <3>1. Slack(b)' >= Slack(b)
      BY <1>0, <3>a DEF Numbers
    <3>2. ~Fetched(r, b)'
      BY <2>1 DEF Fetched, AttemptInv
    <3>3. health[b].suppressed \/ health[b].wait > 0 \/ schedule[b].wait > 0 \/ Unreached(r, b)'
      BY <2>1 DEF Unreached, AttemptInv
    <3>4. OnTime(r, b)
      BY DEF AttemptInv
    <3> QED
      BY <1>0, <2>1, <3>0, <3>1, <3>2, <3>3, <3>4 DEF OnTime, Numbers
  <2> QED
    BY <1>0, <1>m, <2>1, <2>2 DEF AttemptInv, Interval
<1>2. ASSUME NEW r \in Runners, NEW c \in Boards, NEW o \in Outcomes, Fetch(r, c, o)
      PROVE  AttemptInv'
  <2>1. /\ UNCHANGED <<schedule, health, pc, built, elapsed, ran, lastFresh>>
        /\ pc[r] = "fetch" /\ c \in built[r] /\ outcome[r][c] = "none"
        /\ o \in Polled \/ Mishap
        /\ Mishap \/ UNCHANGED mishaps
        /\ \A b \in Boards : /\ outcome'[r][b] = IF b = c THEN o ELSE outcome[r][b]
                             /\ since'[b] = IF b = c /\ o # "paced" THEN elapsed[r] ELSE since[b]
    BY <1>0, <1>2 DEF Fetch
  <2>2. ASSUME NEW b \in Boards, b # c PROVE OnTime(r, b)'
    <3>1. Fetched(r, b)' = Fetched(r, b) /\ Unreached(r, b)' = Unreached(r, b) /\ OnTime(r, b)
      BY <2>1, <2>2 DEF Fetched, Unreached, AttemptInv
    <3> QED
      BY <1>0, <1>m, <2>1, <2>2, <3>1, LeftAlone
  <2>3. OnTime(r, c)'
    <3>0. o # "none"
      BY PollingAssumption
    <3>1. CASE o # "paced"
      BY <1>0, <2>1, <3>0, <3>1 DEF OnTime, Fetched, Numbers
    <3>2. CASE o = "paced"
      <4>1. /\ Unreached(r, c) /\ ~Fetched(r, c) /\ ~Unreached(r, c)' /\ ~Fetched(r, c)'
            /\ OnTime(r, c)
        BY <2>1, <3>2 DEF Unreached, Fetched, AttemptInv
      <4>2. Slack(c)' = Slack(c) + MaxLag + 1
        BY <1>0, <1>m, <2>1, <3>2 DEF Polled, Slack, Interval, Numbers
      <4> QED
        BY <1>0, <2>1, <3>2, <4>1, <4>2 DEF OnTime, Numbers
    <3> QED
      BY <3>1, <3>2
  <2> QED
    BY <1>0, <1>m, <2>1, <2>2, <2>3 DEF AttemptInv, Interval
<1>3. ASSUME NEW r \in Runners, EndFetching(r) PROVE AttemptInv'
  <2>1. /\ UNCHANGED <<schedule, health, outcome, built, elapsed, ran, lastFresh, since, mishaps>>
        /\ pc[r] = "fetch" /\ pc'[r] = "health" /\ \A b \in built[r] : outcome[r][b] # "none"
    BY <1>0, <1>3 DEF EndFetching
  <2>2. ASSUME NEW b \in Boards PROVE OnTime(r, b)'
    <3>1. Fetched(r, b)' = Fetched(r, b) /\ Unreached(r, b)' = Unreached(r, b) /\ OnTime(r, b)
      BY <2>1 DEF Fetched, Unreached, AttemptInv
    <3> QED
      BY <1>0, <1>m, <2>1, <3>1, LeftAlone DEF Numbers
  <2> QED
    BY <1>0, <1>m, <2>1, <2>2 DEF AttemptInv, Interval
<1>4. ASSUME NEW r \in Runners, NEW failed \in SUBSET built[r], BookHealth(r, failed)
      PROVE  AttemptInv'
  <2>1. /\ UNCHANGED <<schedule, outcome, built, elapsed, ran, lastFresh, since>>
        /\ pc[r] = "health" /\ pc'[r] = "record"
        /\ Mishap \/ UNCHANGED mishaps
        /\ \A b \in Boards : health'[b] =
                IF b \in built[r] \ failed THEN Booked(r, b) ELSE health[b]
    BY <1>0, <1>4 DEF BookHealth
  <2>2. ASSUME NEW b \in Boards
        PROVE  /\ OnTime(r, b)'
               /\ health'[b].wait > 0 => health'[b].row /\ mishaps' >= 1
    <3>0. ~Unreached(r, b)' /\ ~Unreached(r, b) /\ OnTime(r, b)
      BY <2>1 DEF Unreached, AttemptInv
    <3>1. Fetched(r, b)' = Fetched(r, b)
      BY <2>1 DEF Fetched
    <3>2. CASE health'[b] = health[b]
      <4>0. /\ Lost' >= Lost /\ elapsed'[r] = elapsed[r] /\ ran'[r] = ran[r]
            /\ since'[b] = since[b] /\ schedule'[b] = schedule[b] /\ lastFresh'[b] = lastFresh[b]
        BY <1>m, <2>1
      <4>a. (pc'[r] = "idle") = (pc[r] = "idle") /\ Unreached(r, b)' = Unreached(r, b)
        BY <2>1 DEF Unreached
      <4>1. OnTime(r, b)'
        BY <1>0, <3>0, <3>1, <3>2, <4>0, <4>a, LeftAlone
      <4>2. health[b].wait > 0 => health[b].row /\ mishaps >= 1
        BY DEF AttemptInv
      <4> QED
        BY <1>0, <1>m, <2>1, <3>2, <4>1, <4>2
    <3>3. CASE health'[b] # health[b]
      <4>1. b \in built[r] /\ Booked(r, b) # health[b] /\ health'[b] = Booked(r, b)
        BY <2>1, <3>3
      <4>0. outcome[r][b] # "none" /\ outcome[r][b] # "paced"
        <5>1. outcome[r][b] # "none"
          BY <2>1, <4>1 DEF AttemptInv
        <5>2. outcome[r][b] = "paced" => Booked(r, b) = health[b]
          BY DEF Booked, Fine, Polled
        <5> QED
          BY <4>1, <5>1, <5>2
      <4>2. Fetched(r, b)
        BY <2>1, <4>0, <4>1 DEF Fetched
      <4>3. OnTime(r, b)'
        BY <2>1, <3>0, <3>1, <4>2 DEF OnTime
      <4>4. Booked(r, b).wait > 0 => Booked(r, b).row /\ mishaps >= 1
        <5>1. CASE outcome[r][b] \in Fine
          BY <4>1, <5>1 DEF Booked, Fine, Polled, NoHealth
        <5>2. CASE outcome[r][b] \notin Fine
          <6>1. mishaps >= 1
            BY <4>2, <5>2 DEF AttemptInv, Fetched, Fine
          <6>2. Booked(r, b).row
            BY <1>0, <4>1, <5>2 DEF Booked, Streak, HealthRow
          <6> QED
            BY <6>1, <6>2
        <5> QED
          BY <5>1, <5>2
      <4>5. mishaps' >= mishaps /\ mishaps' \in Nat
        BY <1>0, <1>m, <2>1 DEF TypeOK
      <4>6. health'[b].wait > 0 => health'[b].row /\ mishaps' >= 1
        BY <1>0, <4>1, <4>4, <4>5
      <4> QED
        BY <4>3, <4>6
    <3> QED
      BY <3>2, <3>3
  <2>3. mishaps' >= mishaps /\ mishaps' \in Nat
    BY <1>0, <1>m, <2>1 DEF TypeOK
  <2>4. \A b \in Boards : schedule'[b].wait <= Interval(b)'
    BY <2>1 DEF AttemptInv, Interval
  <2>5. \A b \in Boards : /\ outcome'[r][b] \notin Polled \union {"none"} => mishaps' >= 1
                          /\ b \in built'[r] => outcome'[r][b] # "none"
    BY <1>0, <2>1, <2>3 DEF AttemptInv
  <2>6. ran'[r]
    BY <2>1 DEF AttemptInv
  <2> QED
    BY <1>0, <2>1, <2>2, <2>4, <2>5, <2>6 DEF AttemptInv
<1>5. ASSUME NEW r \in Runners, NEW deferred \in SUBSET built[r], RecordPolls(r, deferred)
      PROVE  AttemptInv'
  <2> DEFINE forced == ForceDue(r, deferred)
  <2>1. /\ UNCHANGED <<health, outcome, built, elapsed, ran, since, mishaps>>
        /\ pc[r] = "record" /\ pc'[r] = "stamp"
        /\ \A b \in Boards : /\ b \in Done(r) \union forced => schedule'[b] = Row(r, b, forced)
                             /\ b \notin Done(r) \union forced => schedule'[b] = schedule[b]
                             /\ b \in Done(r) => lastFresh'[b] = (outcome[r][b] = "fresh")
                             /\ b \notin Done(r) => lastFresh'[b] = lastFresh[b]
    BY <1>0, <1>5 DEF RecordPolls
  <2>2. Done(r) \subseteq built[r] /\ forced \subseteq built[r]
    BY DEF Done, ForceDue
  <2> HIDE DEF forced
  <2>3. ASSUME NEW b \in Boards
        PROVE  OnTime(r, b)' /\ schedule'[b].wait <= Interval(b)'
    <3>1. /\ ~Fetched(r, b)' /\ ~Unreached(r, b)' /\ ~Unreached(r, b) /\ Lost' = Lost
          /\ OnTime(r, b) /\ schedule[b].wait <= Interval(b)
      BY <1>m, <2>1 DEF Fetched, Unreached, AttemptInv
    <3>2. b \in Done(r) => Fetched(r, b)
      BY <2>1, <2>2 DEF Done, Fetched, Polled
    <3>3. health[b].wait > 0 => health[b].row /\ mishaps >= 1
      BY DEF AttemptInv
    <3>4. CASE b \in Done(r)
      <4> DEFINE n == NextInterval(schedule[b].interval, outcome[r][b] = "fresh", b \in forced)
      <4>1. n \in 1 .. MaxInterval /\ (outcome[r][b] = "fresh" => n = 1)
        <5>1. schedule[b].interval \in Nat
          BY <1>0 DEF ScheduleRow, Numbers
        <5> QED
          BY <5>1, IntervalBounded DEF NextInterval
      <4>2. n <= Interval(b)'
        <5>1. CASE outcome[r][b] = "fresh"
          BY <2>1, <3>4, <4>1, <5>1 DEF Interval
        <5>2. CASE outcome[r][b] # "fresh"
          <6>1. Interval(b)' = MaxInterval
            BY <2>1, <3>4, <5>2 DEF Interval
          <6> QED
            BY <1>0, <4>1, <6>1 DEF Numbers
        <5> QED
          BY <5>1, <5>2
      <4>r. Row(r, b, forced) = [interval |-> n,
            wait |-> IF n > elapsed[r] THEN n - elapsed[r] ELSE 0]
        BY <3>4, Zenon DEF Row
      <4>3. schedule'[b].wait = IF n > elapsed[r] THEN n - elapsed[r] ELSE 0
        <5> HIDE DEF n
        <5>1. schedule'[b] = [interval |-> n, wait |-> IF n > elapsed[r] THEN n - elapsed[r] ELSE 0]
          BY <2>1, <3>4, <4>r
        <5> QED
          BY <5>1
      <4> HIDE DEF n
      <4>4. since[b] <= elapsed[r]
        BY <3>1, <3>2, <3>4 DEF OnTime
      <4>5. since[b] \in Nat /\ elapsed[r] \in 0 .. MaxLag /\ Slack(b)' \in Nat
            /\ Interval(b)' \in 1 .. MaxInterval /\ Lost \in Nat /\ MaxLag \in Nat
            /\ MaxInterval \in Nat /\ health[b].wait \in 0 .. Backoff /\ Backoff \in Nat
            /\ Slack(b)' >= Interval(b)' + Lost
            /\ (health[b].wait > 0 => Slack(b)' = Interval(b)' + Lost + Backoff /\
               Lost >= MaxLag + 1)
        BY <1>0, <2>1, <3>1, <3>3 DEF Numbers
      <4>6. schedule'[b].wait <= Interval(b)'
            /\ (schedule'[b].wait > 0 => since[b] + schedule'[b].wait <= Slack(b)')
        BY <4>1, <4>2, <4>3, <4>4, <4>5
      <4>7. health[b].wait > 0 => since[b] + health[b].wait <= Slack(b)'
        BY <4>4, <4>5
      <4>8. since[b] + 1 <= Slack(b)' + elapsed[r]
        BY <4>4, <4>5
      <4> QED
        BY <2>1, <3>1, <4>6, <4>7, <4>8 DEF OnTime
    <3>5. CASE b \notin Done(r)
      <4>1. Interval(b)' = Interval(b) /\ Slack(b)' = Slack(b)
        BY <2>1, <3>1, <3>5 DEF Interval, Slack
      <4>2. schedule'[b] = schedule[b] \/ schedule'[b].wait = 0
        <5>1. Row(r, b, forced) = [interval |-> 1, wait |-> 0]
          BY <3>5, Zenon DEF Row
        <5> QED
          BY <2>1, <3>5, <5>1
      <4>3. ASSUME Fetched(r, b) PROVE OnTime(r, b)'
        <5>1. mishaps >= 1 /\ since[b] <= elapsed[r]
          BY <3>1, <3>5, <4>3 DEF Fetched, Done, OnTime, AttemptInv
        <5> QED
          BY <1>0, <2>1, <3>1, <3>3, <4>1, <4>2, <5>1 DEF OnTime, Numbers
      <4>4. ASSUME ~Fetched(r, b) PROVE OnTime(r, b)'
        <5>1. /\ since[b] \in Nat /\ schedule[b].wait \in Nat /\ Slack(b) \in Nat
              /\ elapsed[r] \in Nat /\ health[b].wait \in Nat
          BY <1>0 DEF Numbers
        <5>2. ~health[b].suppressed =>
                /\ schedule[b].wait > 0 => since[b] + schedule[b].wait <= Slack(b)
                /\ health[b].wait > 0 => since[b] + health[b].wait <= Slack(b)
                /\ schedule[b].wait = 0 /\ health[b].wait = 0 =>
                   since[b] + 1 <= Slack(b) + elapsed[r]
          BY <2>1, <3>1, <4>4 DEF OnTime
        <5>3. ~health[b].suppressed =>
                /\ schedule'[b].wait > 0 => since[b] + schedule'[b].wait <= Slack(b)
                /\ schedule'[b].wait = 0 /\ health[b].wait = 0 =>
                   since[b] + 1 <= Slack(b) + elapsed[r]
          BY <4>2, <5>1, <5>2
        <5>4. /\ health'[b] = health[b] /\ since'[b] = since[b] /\ elapsed'[r] = elapsed[r]
              /\ pc'[r] = "stamp" /\ Slack(b)' = Slack(b)
              /\ ~Fetched(r, b)' /\ ~Unreached(r, b)'
          BY <2>1, <3>1, <4>1
        <5> QED
          BY <5>2, <5>3, <5>4 DEF OnTime
      <4>5. schedule'[b].wait <= Interval(b)'
        <5>1. Interval(b) \in Nat /\ schedule[b].wait <= Interval(b)
          BY <1>0, <3>1 DEF Numbers
        <5> QED
          BY <4>1, <4>2, <5>1
      <4> QED
        BY <4>3, <4>4, <4>5
    <3> QED
      BY <3>4, <3>5
  <2> QED
    BY <1>0, <2>1, <2>3 DEF AttemptInv
<1>l. ASSUME NEW r \in Runners, pc[r] # "idle", Leave(r), UNCHANGED <<schedule, health, ran,
             history>>,
             (pc[r] = "stamp" /\ UNCHANGED mishaps) \/ Mishap
      PROVE  AttemptInv'
  <2>1. /\ UNCHANGED <<schedule, health, ran, since, lastFresh>>
        /\ pc'[r] = "idle" /\ elapsed'[r] = 0 /\ ran[r]
        /\ \A b \in Boards : outcome'[r][b] = "none"
    BY <1>0, <1>l DEF Leave, AttemptInv
  <2>2. ASSUME NEW b \in Boards PROVE OnTime(r, b)'
    <3>1. /\ ~Fetched(r, b)' /\ ~Unreached(r, b)' /\ OnTime(r, b)
          /\ health[b].wait > 0 => health[b].row /\ mishaps >= 1
          /\ schedule[b].wait <= Interval(b) /\ Interval(b)' = Interval(b)
      BY <2>1 DEF Fetched, Unreached, AttemptInv, Interval
    <3>2. CASE pc[r] = "stamp" /\ UNCHANGED mishaps
      <4>1. ~Fetched(r, b) /\ ~Unreached(r, b) /\ Slack(b)' = Slack(b)
        BY <1>m, <2>1, <3>2 DEF Fetched, Unreached, Slack, Interval
      <4> QED
        BY <1>0, <1>l, <2>1, <3>1, <3>2, <4>1 DEF OnTime, Numbers
    <3>3. CASE Mishap
      <4>1. Slack(b)' = Slack(b) + MaxLag + 1
        <5>1. Lost' = Lost + MaxLag + 1 /\ Lost \in Nat /\ MaxLag \in Nat /\ Backoff \in Nat
          BY <1>0, <1>m, <3>3 DEF Numbers
        <5>2. Interval(b)' = Interval(b) /\ Interval(b) \in Nat /\ health'[b] = health[b]
          BY <1>0, <2>1, <3>1 DEF Numbers
        <5> QED
          BY <5>1, <5>2 DEF Slack
      <4>2. CASE Fetched(r, b)
        BY <1>0, <1>m, <2>1, <3>1, <3>3, <4>1, <4>2 DEF OnTime, Numbers
      <4>3. CASE ~Fetched(r, b)
        BY <1>0, <1>l, <2>1, <3>1, <3>3, <4>1, <4>3 DEF OnTime, Numbers
      <4> QED
        BY <4>2, <4>3
    <3> QED
      BY <1>l, <3>2, <3>3
  <2> QED
    BY <1>0, <1>m, <1>l, <2>1, <2>2 DEF AttemptInv, Interval
<1>6. ASSUME NEW r \in Runners, SetGeneration(r) PROVE AttemptInv'
  BY <1>6, <1>l DEF SetGeneration
<1>7. ASSUME NEW r \in Runners, Abort(r) PROVE AttemptInv'
  BY <1>7, <1>l DEF Abort
<1>8. CASE Tick
  <2>1. /\ UNCHANGED <<built, outcome, pc, lastFresh, mishaps>>
        /\ \A r \in Runners : /\ ran[r] \/ pc[r] # "idle"
                              /\ ran'[r] = (pc[r] # "idle")
                              /\ elapsed'[r] = IF pc[r] = "idle" THEN 0 ELSE elapsed[r] + 1
        /\ \A b \in Boards : /\ schedule'[b].wait = Less(schedule[b].wait)
                             /\ health'[b].wait = Less(health[b].wait)
                             /\ health'[b].row = health[b].row
                             /\ health'[b].suppressed = health[b].suppressed
                             /\ since'[b] <= since[b] + 1
    <3>1. \A b \in Boards : since'[b] = Capped(since[b] + 1, Horizon)
      BY <1>8 DEF Tick
    <3>2. \A b \in Boards : Capped(since[b] + 1, Horizon) <= since[b] + 1
      BY <1>0, Arithmetic DEF Capped, Numbers
    <3>3. Runners = Daemons
      BY <1>0, PollingAssumption
    <3> QED
      BY <1>0, <1>8, <3>1, <3>2, <3>3 DEF Tick, HealthRow, ScheduleRow
  <2>2. ASSUME NEW r \in Runners, NEW b \in Boards PROVE OnTime(r, b)'
    <3>1. /\ Fetched(r, b)' = Fetched(r, b) /\ Unreached(r, b)' = Unreached(r, b)
          /\ Slack(b)' = Slack(b) /\ OnTime(r, b)
          /\ Unreached(r, b) => pc[r] # "idle"
          /\ Fetched(r, b) => pc[r] # "idle"
      BY <1>m, <2>1 DEF Fetched, Unreached, AttemptInv, Slack, Interval
    <3>2. schedule[b].wait \in Nat /\ health[b].wait \in Nat
      BY <1>0 DEF Numbers
    <3>3. /\ schedule'[b].wait = IF schedule[b].wait = 0 THEN 0 ELSE schedule[b].wait - 1
          /\ health'[b].wait = IF health[b].wait = 0 THEN 0 ELSE health[b].wait - 1
      BY <2>1 DEF Less
    <3>4. CASE Fetched(r, b)
      BY <1>0, <2>1, <3>1, <3>4 DEF OnTime, Numbers
    <3>5. CASE ~Fetched(r, b)
      <4>1. /\ since[b] \in Nat /\ since'[b] \in Nat /\ Slack(b) \in Nat /\ MaxLag \in Nat
            /\ elapsed[r] \in Nat /\ since'[b] <= since[b] + 1
            /\ health'[b].suppressed = health[b].suppressed
            /\ elapsed'[r] = IF pc[r] = "idle" THEN 0 ELSE elapsed[r] + 1
        BY <1>0, <2>1 DEF Numbers
      <4>p. pc' = pc /\ (pc[r] = "idle" => ran[r] /\ ~ran'[r])
        BY <2>1
      <4>2. CASE schedule[b].wait = 0 /\ health[b].wait = 0
        BY <3>1, <3>2, <3>3, <3>5, <4>1, <4>p, <4>2 DEF OnTime
      <4>3. CASE schedule[b].wait > 0 \/ health[b].wait > 0
        <5>1. ~health[b].suppressed => since[b] + 1 <= Slack(b)
          BY <3>1, <3>2, <3>5, <4>1, <4>3 DEF OnTime
        <5> QED
          BY <3>1, <3>2, <3>3, <3>5, <4>1, <4>p, <5>1 DEF OnTime
      <4> QED
        BY <3>2, <4>2, <4>3
    <3> QED
      BY <3>4, <3>5
  <2>3. \A b \in Boards : schedule'[b].wait <= schedule[b].wait /\ Interval(b)' = Interval(b)
                          /\ (health'[b].wait > 0 => health[b].wait > 0)
    BY <1>0, <2>1 DEF Interval, Less, Numbers
  <2> QED
    BY <1>0, <2>1, <2>2, <2>3 DEF AttemptInv, Numbers
<1>9. CASE ChangeSettings
  <2>1. UNCHANGED <<schedule, health, outcome, built, pc, elapsed, ran, lastFresh, since, mishaps>>
    BY <1>9 DEF ChangeSettings
  <2> QED
    BY <2>1 DEF AttemptInv, OnTime, Fetched, Unreached, Slack, Interval, Lost
<1>10. ASSUME NEW c \in Boards, Recover(c) PROVE AttemptInv'
  <2>1. /\ UNCHANGED <<schedule, outcome, built, pc, elapsed, ran, lastFresh, mishaps>>
        /\ \A b \in Boards \ {c} : health'[b] = health[b] /\ since'[b] = since[b]
        /\ health'[c] = NoHealth /\ since'[c] = 0
    BY <1>0, <1>10 DEF Recover
  <2>2. ASSUME NEW r \in Runners, NEW b \in Boards PROVE OnTime(r, b)'
    <3>1. Fetched(r, b)' = Fetched(r, b) /\ Unreached(r, b)' = Unreached(r, b) /\ OnTime(r, b)
          /\ schedule[b].wait <= Interval(b) /\ Interval(b)' = Interval(b)
      BY <2>1 DEF Fetched, Unreached, AttemptInv, Interval
    <3>2. CASE b # c
      BY <1>0, <1>m, <2>1, <3>1, <3>2, LeftAlone DEF Numbers
    <3>3. CASE b = c
      BY <1>0, <2>1, <3>1, <3>3 DEF OnTime, NoHealth, Numbers
    <3> QED
      BY <3>2, <3>3
  <2>3. \A b \in Boards : /\ schedule'[b].wait <= Interval(b)'
                          /\ health'[b].wait > 0 => health'[b].row /\ mishaps' >= 1
    BY <1>0, <2>1 DEF AttemptInv, Interval, NoHealth
  <2> QED
    BY <1>0, <2>1, <2>2, <2>3 DEF AttemptInv
<1>11. CASE UNCHANGED vars
  BY <1>11 DEF vars, AttemptInv, OnTime, Fetched, Unreached, Slack, Interval, Lost
<1> QED
  BY <1>1, <1>2, <1>3, <1>4, <1>5, <1>6, <1>7, <1>8, <1>9, <1>10, <1>11
     DEF Next, Cycle, Finish

\* No board is left alone for longer than its interval allows, an hour at most, and what the
\* cycles last and the mishaps cost, for any boards, intervals, pauses, lags and mishaps,
\* where the daemon alone runs the tier.
THEOREM HourAtMost == ASSUME Solo, Daemons # {} PROVE Spec => []AttemptedInTime
<1>1. Init => HealthInv /\ AttemptInv
  <2> SUFFICES ASSUME Init PROVE HealthInv /\ AttemptInv
    OBVIOUS
  <2>1. HealthInv
    BY DEF Init, HealthInv, SuppressionIsEarned, NoHealth
  <2>2. Numbers
    BY TypeInit, NumbersTyped
  <2>3. \A b \in Boards : since[b] = 0 /\ schedule[b].wait = 0 /\ health[b].wait = 0
    BY DEF Init, NoSchedule, NoHealth
  <2>4. \A r \in Runners : pc[r] = "idle" /\ elapsed[r] = 0 /\ ~ran[r]
                           /\ \A b \in Boards : outcome[r][b] = "none"
    BY DEF Init
  <2>5. \A r \in Runners, b \in Boards : OnTime(r, b)
    BY <2>2, <2>3, <2>4 DEF OnTime, Fetched, Unreached, Numbers
  <2> QED
    BY <2>1, <2>2, <2>3, <2>4, <2>5 DEF AttemptInv, Numbers
<1>2. TypeOK /\ HealthInv /\ AttemptInv /\ [Next]_vars => HealthInv' /\ AttemptInv'
  BY HealthStep, AttemptStep
<1>3. TypeOK /\ AttemptInv => AttemptedInTime
  <2> SUFFICES ASSUME TypeOK, AttemptInv, NEW b \in Boards, ~health[b].suppressed
               PROVE  since[b] <= Slack(b) + 2 * MaxLag
    BY NumbersTyped DEF AttemptedInTime, Slack, Interval, Lost, Numbers
  <2>1. Numbers
    BY NumbersTyped
  <2>2. PICK r \in Runners : OnTime(r, b)
    BY PollingAssumption DEF AttemptInv
  <2> QED
    BY <2>1, <2>2 DEF OnTime, Numbers
<1> QED
  BY <1>1, <1>2, <1>3, TierTypeCorrect, PTL DEF Spec

-----------------------------------------------------------------------------
(* VendorPacer *)

\* The gap stays within MAX_GAP, no slot is reserved further ahead than the deadline allows,
\* and so _next never runs away from the clock, whatever is throttled or cancelled.
THEOREM PacerTypeCorrect == ASSUME Pacer!PacerAssumption PROVE Pacer!Spec => []Pacer!TypeOK
<1>1. Pacer!Init => Pacer!TypeOK
  BY DEF Pacer!PacerAssumption, Pacer!Init, Pacer!TypeOK
<1>2. Pacer!TypeOK /\ [Pacer!Next]_(Pacer!vars) => Pacer!TypeOK'
  <2> SUFFICES ASSUME Pacer!TypeOK, [Pacer!Next]_(Pacer!vars) PROVE Pacer!TypeOK'
    OBVIOUS
  <2> USE DEF Pacer!PacerAssumption, Pacer!TypeOK
  <2>1. ASSUME NEW b \in Pacer!Board, Pacer!Wait(b) PROVE Pacer!TypeOK'
    <3>1. CASE Pacer!TooLate(ahead)
      BY <2>1, <3>1 DEF Pacer!Wait
    <3>2. CASE ~Pacer!TooLate(ahead)
      <4>1. ahead \in 0 .. Window /\ ahead + gap \in 0 .. Window + MaxGap
        BY <3>2 DEF Pacer!TooLate
      <4> QED
        BY <2>1, <3>2, <4>1 DEF Pacer!Wait, Pacer!Reserved
    <3> QED
      BY <3>1, <3>2
  <2>2. ASSUME NEW b \in Pacer!Board, Pacer!Wake(b) PROVE Pacer!TypeOK'
    BY <2>2 DEF Pacer!Wake
  <2>3. ASSUME NEW b \in Pacer!Board, Pacer!Begin(b) PROVE Pacer!TypeOK'
    BY <2>3 DEF Pacer!Begin
  <2>4. ASSUME NEW b \in Pacer!Board, Pacer!Succeed(b) PROVE Pacer!TypeOK'
    <3>1. Pacer!OnSuccess \in 0 .. MaxGap
      BY DEF Pacer!OnSuccess
    <3> QED
      BY <2>4, <3>1 DEF Pacer!Succeed, Pacer!Answered
  <2>5. ASSUME NEW b \in Pacer!Board, Pacer!Throttle(b) PROVE Pacer!TypeOK'
    <3>1. Pacer!OnThrottle \in 0 .. MaxGap
      BY DEF Pacer!OnThrottle, Pacer!Capped
    <3> QED
      BY <2>5, <3>1 DEF Pacer!Throttle, Pacer!Answered
  <2>6. ASSUME NEW b \in Pacer!Board, Pacer!Fail(b) PROVE Pacer!TypeOK'
    BY <2>6 DEF Pacer!Fail, Pacer!Answered
  <2>7. CASE Pacer!NextCycle
    BY <2>7 DEF Pacer!NextCycle, Pacer!Requeue
  <2>8. CASE Pacer!Cancel
    BY <2>8 DEF Pacer!Cancel, Pacer!Requeue
  <2>9. CASE Pacer!Tick
    BY <2>9 DEF Pacer!Tick, Pacer!Less
  <2>10. CASE UNCHANGED Pacer!vars
    BY <2>10 DEF Pacer!vars
  <2> QED
    BY <2>1, <2>2, <2>3, <2>4, <2>5, <2>6, <2>7, <2>8, <2>9, <2>10 DEF Pacer!Next, Pacer!Fetches
<1> QED
  BY <1>1, <1>2, PTL DEF Pacer!Spec

-----------------------------------------------------------------------------
(* Spacing and the deadline *)

\* The queue is left in the order of the connectors, so a board that reserved later in a
\* cycle comes later in it.
InOrder == \A b, c \in Pacer!Board : b < c /\ taskPc[b] = "queued" => taskPc[c] = "queued"

Spacing == InOrder /\ Pacer!SlotsAreSpaced /\ Pacer!SlotsMeetTheDeadline

LEMMA SpacingKept == ASSUME Pacer!PacerAssumption
    PROVE Pacer!TypeOK /\ Spacing /\ [Pacer!Next]_(Pacer!vars) => Spacing'
<1> SUFFICES ASSUME Pacer!TypeOK, Spacing, [Pacer!Next]_(Pacer!vars) PROVE Spacing'
  OBVIOUS
<1> USE DEF Pacer!PacerAssumption, Pacer!TypeOK, Spacing, InOrder, Pacer!SlotsAreSpaced,
            Pacer!SlotsMeetTheDeadline
<1>1. ASSUME NEW b \in Pacer!Board, Pacer!Wait(b) PROVE Spacing'
  <2>1. CASE Pacer!TooLate(ahead)
    BY <1>1, <2>1 DEF Pacer!Wait, Pacer!Board
  <2>2. CASE ~Pacer!TooLate(ahead)
    <3>1. /\ taskPc[b] = "queued" /\ \A c \in Pacer!Board : c < b => taskPc[c] # "queued"
          /\ \A c \in Pacer!Board : c > b => taskPc[c] = "queued"
          /\ taskPc' = [taskPc EXCEPT ![b] = "asleep"] /\ wait' = [wait EXCEPT ![b] = ahead]
          /\ clear' = [clear EXCEPT ![b] = ahead + gap] /\ ahead' = ahead + gap
          /\ left' = left /\ ahead <= left
      BY <1>1, <2>2 DEF Pacer!Wait, Pacer!Reserved, Pacer!TooLate, Pacer!Board
    <3>2. InOrder'
      BY <3>1 DEF Pacer!Board
    <3>3. Pacer!SlotsAreSpaced'
      <4> SUFFICES ASSUME NEW d \in Pacer!Board
                   PROVE  /\ clear'[d] <= ahead'
                          /\ \A c \in Pacer!Board : c > d /\ taskPc'[c] = "asleep" =>
                             clear'[d] <= wait'[c]
        OBVIOUS
      <4>1. CASE d = b
        BY <3>1, <4>1 DEF Pacer!Board
      <4>2. CASE d # b
        BY <3>1, <4>2 DEF Pacer!Board
      <4> QED
        BY <4>1, <4>2
    <3>4. Pacer!SlotsMeetTheDeadline'
      BY <3>1
    <3> QED
      BY <3>2, <3>3, <3>4
  <2> QED
    BY <2>1, <2>2
<1>2. ASSUME NEW b \in Pacer!Board, Pacer!Wake(b) PROVE Spacing'
  BY <1>2 DEF Pacer!Wake
<1>3. ASSUME NEW b \in Pacer!Board, Pacer!Begin(b) PROVE Spacing'
  BY <1>3 DEF Pacer!Begin
<1>4. ASSUME NEW b \in Pacer!Board, Pacer!Succeed(b) \/ Pacer!Throttle(b) \/ Pacer!Fail(b)
      PROVE Spacing'
  BY <1>4 DEF Pacer!Succeed, Pacer!Throttle, Pacer!Fail, Pacer!Answered
<1>5. CASE Pacer!NextCycle \/ Pacer!Cancel
  BY <1>5 DEF Pacer!NextCycle, Pacer!Cancel, Pacer!Requeue
<1>6. CASE Pacer!Tick
  <2>1. /\ ahead' = Pacer!Less(ahead) /\ taskPc' = taskPc
        /\ left' = IF left < 0 THEN left ELSE left - 1
        /\ \A b \in Pacer!Board : wait'[b] = Pacer!Less(wait[b]) /\ clear'[b] = Pacer!Less(clear[b])
    BY <1>6 DEF Pacer!Tick
  <2>2. \A b \in Pacer!Board : wait[b] \in Nat /\ clear[b] \in Nat
    OBVIOUS
  <2>3. \A m, n \in Nat : m <= n => Pacer!Less(m) <= Pacer!Less(n)
    BY DEF Pacer!Less
  <2>4. Pacer!SlotsAreSpaced'
    <3>1. ahead \in Nat
      OBVIOUS
    <3> QED
      BY <2>1, <2>2, <2>3, <3>1
  <2>5. Pacer!SlotsMeetTheDeadline'
    BY <2>1, <2>2 DEF Pacer!Less
  <2>6. InOrder'
    BY <2>1
  <2> QED
    BY <2>4, <2>5, <2>6
<1>7. CASE UNCHANGED Pacer!vars
  BY <1>7 DEF Pacer!vars
<1> QED
  BY <1>1, <1>2, <1>3, <1>4, <1>5, <1>6, <1>7 DEF Pacer!Next, Pacer!Fetches

LEMMA Spaced == ASSUME Pacer!PacerAssumption PROVE Pacer!Spec => []Spacing
<1>1. Pacer!Init => Spacing
  BY DEF Pacer!PacerAssumption, Pacer!Init, Spacing, InOrder, Pacer!SlotsAreSpaced,
     Pacer!SlotsMeetTheDeadline, Pacer!Board
<1> QED
  BY <1>1, SpacingKept, PacerTypeCorrect, PTL DEF Pacer!Spec

\* Requests to a vendor that wait for their slot are spaced by the gap in force when the
\* earlier of two was reserved (VendorPacer.wait reserves before it sleeps).
THEOREM Spacious == ASSUME Pacer!PacerAssumption PROVE Pacer!Spec => []Pacer!SlotsAreSpaced
  BY Spaced, PTL DEF Spacing

\* A board that was not turned away sleeps no longer than until the cycle's deadline.
THEOREM Punctual == ASSUME Pacer!PacerAssumption PROVE Pacer!Spec => []Pacer!SlotsMeetTheDeadline
  BY Spaced, PTL DEF Spacing

-----------------------------------------------------------------------------
(* The burst after a throttle *)

\* The boards that reserved before the last throttle hold a place each, and the board that
\* was throttled had one more: with those that have begun since they are fewer than the
\* places.
Burst ==
    /\ Cardinality(Pacer!Holders) <= Places
    /\ early \subseteq {b \in Pacer!Board : taskPc[b] \in {"asleep", "ready"}}
    /\ burst + Cardinality(early) < Places

LEMMA SameCount == \A S : Pacer!Cardinality(S) = Cardinality(S)
BY DEF Pacer!Cardinality, Cardinality

LEMMA Finite ==
    ASSUME Pacer!PacerAssumption, NEW S \in SUBSET Pacer!Board
    PROVE  IsFiniteSet(S) /\ Cardinality(S) \in Nat
<1>1. IsFiniteSet(Pacer!Board)
  BY FS_Interval DEF Pacer!PacerAssumption, Pacer!Board
<1>2. IsFiniteSet(S)
  BY <1>1, FS_Subset
<1> QED
  BY <1>2, FS_CardinalityType

LEMMA Fewer ==
    ASSUME Pacer!PacerAssumption, NEW S \in SUBSET Pacer!Board, NEW b \in S
    PROVE  Cardinality(S \ {b}) = Cardinality(S) - 1
  BY Finite, FS_RemoveElement

LEMMA BurstKept == ASSUME Pacer!PacerAssumption
    PROVE Pacer!TypeOK /\ Burst /\ [Pacer!Next]_(Pacer!vars) => Burst'
<1> SUFFICES ASSUME Pacer!TypeOK, Burst, [Pacer!Next]_(Pacer!vars) PROVE Burst'
  OBVIOUS
<1> USE DEF Pacer!PacerAssumption, Pacer!TypeOK, Burst
<1>1. Pacer!Holders \in SUBSET Pacer!Board /\ Pacer!Holders' \in SUBSET Pacer!Board /\
      early \in SUBSET Pacer!Board
  BY DEF Pacer!Holders
<1>2. Cardinality(Pacer!Holders) \in Nat /\ Cardinality(Pacer!Holders') \in Nat /\
      Cardinality(early) \in Nat
  BY <1>1, Finite
<1>3. ASSUME NEW b \in Pacer!Board, Pacer!Wait(b) PROVE Burst'
  <2>1. early' = early /\ burst' = burst
        /\ early \subseteq {c \in Pacer!Board : taskPc'[c] \in {"asleep", "ready"}}
    BY <1>3 DEF Pacer!Wait
  <2>2. Cardinality(Pacer!Holders) < Places
    BY <1>3, SameCount DEF Pacer!Wait, Pacer!FreePlace
  <2>3. Pacer!Holders' \subseteq Pacer!Holders \union {b}
    BY <1>3 DEF Pacer!Wait, Pacer!Holders
  <2>4. Cardinality(Pacer!Holders \union {b}) <= Cardinality(Pacer!Holders) + 1
        /\ IsFiniteSet(Pacer!Holders \union {b})
    <3>1. IsFiniteSet(Pacer!Holders)
      BY <1>1, Finite
    <3> QED
      BY <1>2, <3>1, FS_AddElement
  <2>5. Cardinality(Pacer!Holders') <= Cardinality(Pacer!Holders \union {b})
    BY <2>3, <2>4, FS_Subset
  <2>6. Cardinality(Pacer!Holders \union {b}) \in Nat
    BY <2>4, FS_CardinalityType
  <2> QED
    BY <1>2, <2>1, <2>2, <2>4, <2>5, <2>6
<1>4. ASSUME NEW b \in Pacer!Board, Pacer!Wake(b) PROVE Burst'
  <2>1. Pacer!Holders' = Pacer!Holders /\ early' = early /\ burst' = burst
    BY <1>4 DEF Pacer!Wake, Pacer!Holders
  <2>2. early \subseteq {c \in Pacer!Board : taskPc'[c] \in {"asleep", "ready"}}
    BY <1>4 DEF Pacer!Wake
  <2> QED
    BY <2>1, <2>2
<1>5. ASSUME NEW b \in Pacer!Board, Pacer!Begin(b) PROVE Burst'
  <2>1. Pacer!Holders' = Pacer!Holders
    BY <1>5 DEF Pacer!Begin, Pacer!Holders
  <2>2. early' \subseteq {c \in Pacer!Board : taskPc'[c] \in {"asleep", "ready"}}
    BY <1>5 DEF Pacer!Begin
  <2>3. burst' + Cardinality(early') < Places
    <3>1. CASE b \in early
      <4>1. Cardinality(early') = Cardinality(early) - 1 /\ burst' = burst + 1
        BY <1>1, <1>5, <3>1, Fewer DEF Pacer!Begin
      <4> QED
        BY <1>2, <4>1
    <3>2. CASE b \notin early
      <4>1. early' = early /\ burst' = burst
        BY <1>5, <3>2 DEF Pacer!Begin
      <4> QED
        BY <4>1
    <3> QED
      BY <3>1, <3>2
  <2> QED
    BY <2>1, <2>2, <2>3
<1>6. ASSUME NEW b \in Pacer!Board, Pacer!Answered(b) PROVE Cardinality(Pacer!Holders') < Places
  <2>1. Pacer!Holders' = Pacer!Holders \ {b} /\ b \in Pacer!Holders
    BY <1>6 DEF Pacer!Answered, Pacer!Holders
  <2> QED
    BY <1>1, <1>2, <2>1, Fewer
<1>7. ASSUME NEW b \in Pacer!Board, Pacer!Succeed(b) \/ Pacer!Fail(b) PROVE Burst'
  <2>1. Pacer!Answered(b) /\ early' = early /\ burst' = burst
    BY <1>7 DEF Pacer!Succeed, Pacer!Fail
  <2>2. early \subseteq {c \in Pacer!Board : taskPc'[c] \in {"asleep", "ready"}}
    BY <2>1 DEF Pacer!Answered
  <2> QED
    BY <1>2, <1>6, <2>1, <2>2
<1>8. ASSUME NEW b \in Pacer!Board, Pacer!Throttle(b) PROVE Burst'
  <2>1. Pacer!Answered(b) /\ burst' = 0
        /\ early' = {c \in Pacer!Board : taskPc[c] \in {"asleep", "ready"}}
    BY <1>8 DEF Pacer!Throttle
  <2>2. early' \subseteq {c \in Pacer!Board : taskPc'[c] \in {"asleep", "ready"}}
    BY <2>1 DEF Pacer!Answered
  <2>3. early' \in SUBSET Pacer!Holders' /\ IsFiniteSet(Pacer!Holders')
    BY <1>1, <2>2, Finite DEF Pacer!Holders
  <2>4. Cardinality(early') <= Cardinality(Pacer!Holders')
    BY <2>3, FS_Subset
  <2>5. early' \in SUBSET Pacer!Board
    BY <2>1
  <2>6. Cardinality(early') \in Nat
    BY <2>5, Finite
  <2> QED
    BY <1>2, <1>6, <2>1, <2>2, <2>4, <2>6
<1>9. CASE Pacer!NextCycle \/ Pacer!Cancel
  <2>1. Pacer!Holders' = {} /\ early' = {} /\ burst' = burst
    BY <1>9 DEF Pacer!NextCycle, Pacer!Cancel, Pacer!Requeue, Pacer!Holders
  <2> QED
    BY <1>2, <2>1, FS_EmptySet
<1>10. CASE Pacer!Tick
  BY <1>10 DEF Pacer!Tick, Pacer!Holders
<1>11. CASE UNCHANGED Pacer!vars
  BY <1>11 DEF Pacer!vars, Pacer!Holders
<1> QED
  BY <1>3, <1>4, <1>5, <1>7, <1>8, <1>9, <1>10, <1>11 DEF Pacer!Next, Pacer!Fetches

\* A throttle slows the rest of the cycle: of the boards that reserved before it, fewer than
\* PER_VENDOR_CONCURRENCY still fetch at the old pace.
THEOREM BoundedBurst == ASSUME Pacer!PacerAssumption PROVE Pacer!Spec => []Pacer!BurstIsBounded
<1>1. Pacer!Init => Burst
  BY FS_EmptySet DEF Pacer!PacerAssumption, Pacer!Init, Burst, Pacer!Holders
<1>2. Pacer!TypeOK /\ Burst => Pacer!BurstIsBounded
  <2> SUFFICES ASSUME Pacer!TypeOK, Burst PROVE Pacer!BurstIsBounded
    OBVIOUS
  <2>1. Cardinality(early) \in Nat
    BY Finite DEF Pacer!TypeOK
  <2> QED
    BY <2>1 DEF Pacer!PacerAssumption, Burst, Pacer!BurstIsBounded, Pacer!TypeOK
<1> QED
  BY <1>1, <1>2, BurstKept, PacerTypeCorrect, PTL DEF Pacer!Spec

-----------------------------------------------------------------------------
(* OpsAlerts: of the conditions it alone evaluates, the watchdog repeats no alert *)
(* within the cooldown, and tells of every recovery.                              *)
(*                                                                                *)
(* QuietInv says why.  The operator heard of a condition less than a cooldown ago *)
(* only where its row is active and was marked no earlier; an alert on its way is *)
(* of a condition he did not hear of lately; and a pass treats each condition     *)
(* once, so that no second alert is decided on while the first is under way.      *)

Job == [condition : Ops!Conditions, firing : BOOLEAN]
StateRow == [active : BOOLEAN, sent : 0 .. Cooldown]

\* The part of TypeOK the argument needs.
AlertShape ==
    /\ state \in [Ops!Conditions -> StateRow] /\ quiet \in [Ops!Conditions -> 0 .. Cooldown]
    /\ opsPc \in [Ops!Evaluators -> {"idle", "recorded", "gate"}]
    /\ todo \in [Ops!Evaluators -> SUBSET Job]
    /\ held \in [Ops!Evaluators -> SUBSET Ops!Alert]
    /\ outbox \in [Ops!Evaluators -> SUBSET Ops!Alert]

UnderWay == held[watchdog] \union outbox[watchdog]

\* The tiers evaluate llm_degraded and nothing else.
TiersMind ==
    \A t \in Tiers : /\ \A j \in todo[t] : j.condition = Llm
                     /\ \A a \in held[t] \union outbox[t] : a.condition = Llm

\* The watchdog starts clean and treats each condition once in a pass.
OncePerPass ==
    /\ opsPc[watchdog] = "idle" => todo[watchdog] = {} /\ UnderWay = {}
    /\ \A j, k \in todo[watchdog] : j.condition = k.condition => j = k
    /\ \A a \in UnderWay, j \in todo[watchdog] : a.condition # j.condition
    /\ \A a \in held[watchdog], b \in outbox[watchdog] : a.condition # b.condition
    /\ \A a, b \in outbox[watchdog] : a.condition = b.condition => a = b

QuietInv ==
    \A c \in Ops!Conditions \ {Llm} :
        /\ quiet[c] < Cooldown => state[c].active /\ state[c].sent <= quiet[c]
        /\ \A a \in UnderWay : a.condition = c => quiet[c] = Cooldown
        /\ Ops!Down(c) \in outbox[watchdog] => state[c].active /\ state[c].sent = 0

AlertInv == AlertShape /\ TiersMind /\ OncePerPass /\ QuietInv

-----------------------------------------------------------------------------
(* The steps of an evaluation *)

LEMMA AlertSets ==
    ASSUME Ops!OpsAssumption
    PROVE  /\ watchdog \in Ops!Evaluators /\ watchdog \notin Tiers
           /\ Ops!Evaluators = Tiers \union {watchdog}
           /\ Cooldown \in Nat /\ Cooldown # 0 /\ Tiers \subseteq Ops!Conditions
           /\ Llm \in Ops!Conditions /\ Stopped \in Ops!Conditions /\ Stopped # Llm
           /\ Stopped \notin Tiers /\ Llm \notin Tiers
BY DEF Ops!OpsAssumption, Ops!Evaluators, Ops!Conditions

LEMMA DecisionTyped ==
    ASSUME NEW j \in Job
    PROVE  Ops!Decision(j) \subseteq Ops!Alert /\
           \A a \in Ops!Decision(j) : a.condition = j.condition
<1>1. j.condition \in Ops!Conditions
  BY DEF Job
<1>2. \A r \in BOOLEAN : [condition |-> j.condition, recovered |-> r] \in Ops!Alert
  BY <1>1 DEF Ops!Alert
<1>3. Ops!Decision(j) \subseteq {[condition |-> j.condition, recovered |-> r] : r \in BOOLEAN}
  BY DEF Ops!Decision
<1> QED
  BY <1>2, <1>3

LEMMA GateReadKeeps ==
    ASSUME Ops!OpsAssumption, AlertInv, NEW e \in Ops!Evaluators, NEW j \in todo[e],
           Ops!GateRead(e, j)
    PROVE  AlertInv'
<1>0. /\ j \in Job /\ j.condition \in Ops!Conditions /\ quiet \in [Ops!Conditions -> 0 .. Cooldown]
      /\ todo \in [Ops!Evaluators -> SUBSET Job] /\ held \in [Ops!Evaluators -> SUBSET Ops!Alert]
      /\ outbox \in [Ops!Evaluators -> SUBSET Ops!Alert]
  BY DEF AlertInv, AlertShape, Job
<1>1. /\ UNCHANGED <<state, opsPc, outbox>> /\ opsPc[e] = "gate" /\ held[e] = {}
      /\ todo' = [todo EXCEPT ![e] = @ \ {j}] /\ held' = [held EXCEPT ![e] = Ops!Decision(j)]
      /\ quiet' = [quiet EXCEPT ![j.condition] = IF j.firing THEN @ ELSE Cooldown]
  BY DEF Ops!GateRead
<1>2. Ops!Decision(j) \subseteq Ops!Alert /\ \A a \in Ops!Decision(j) : a.condition = j.condition
  BY <1>0, DecisionTyped
<1>3. AlertShape'
  <2>1. quiet' \in [Ops!Conditions -> 0 .. Cooldown]
    BY <1>0, <1>1, AlertSets
  <2>2. todo' \in [Ops!Evaluators -> SUBSET Job] /\ held' \in [Ops!Evaluators -> SUBSET Ops!Alert]
    BY <1>0, <1>1, <1>2
  <2> QED
    BY <1>1, <2>1, <2>2 DEF AlertInv, AlertShape
<1>4. TiersMind'
  BY <1>0, <1>1, <1>2, AlertSets DEF AlertInv, TiersMind
<1>5. CASE e = watchdog
  <2>1. /\ todo'[watchdog] = todo[watchdog] \ {j} /\ held'[watchdog] = Ops!Decision(j)
        /\ outbox'[watchdog] = outbox[watchdog]
        /\ opsPc'[watchdog] = "gate" /\ held[watchdog] = {}
    BY <1>0, <1>1, <1>5
  <2>2. OncePerPass'
    BY <1>2, <1>5, <2>1 DEF AlertInv, OncePerPass, UnderWay
  <2>3. ASSUME NEW c \in Ops!Conditions \ {Llm}
        PROVE  /\ quiet'[c] < Cooldown => state'[c].active /\ state'[c].sent <= quiet'[c]
               /\ \A a \in UnderWay' : a.condition = c => quiet'[c] = Cooldown
               /\ Ops!Down(c) \in outbox'[watchdog] => state'[c].active /\ state'[c].sent = 0
    <3>1. \/ quiet'[c] = quiet[c]
          \/ quiet'[c] = Cooldown /\ ~j.firing /\ j.condition = c
      BY <1>0, <1>1
    <3>2. quiet[c] \in 0 .. Cooldown /\ quiet'[c] \in 0 .. Cooldown /\ Cooldown \in Nat
      BY <1>3, <1>0, AlertSets DEF AlertShape
    <3>3. quiet'[c] < Cooldown => state'[c].active /\ state'[c].sent <= quiet'[c]
      BY <1>1, <3>1, <3>2 DEF AlertInv, QuietInv
    <3>4. ASSUME NEW a \in outbox[watchdog], a.condition = c PROVE quiet'[c] = Cooldown
      BY <3>1, <3>4 DEF AlertInv, QuietInv, UnderWay
    <3>5. ASSUME NEW a \in Ops!Decision(j), a.condition = c PROVE quiet'[c] = Cooldown
      <4>1. j.condition = c
        BY <1>2, <3>5
      <4>2. CASE j.firing
        <5>1. ~(state[c].active /\ state[c].sent < Cooldown)
          BY <3>5, <4>1, <4>2 DEF Ops!Decision, Ops!CoolingDown
        <5>2. quiet[c] < Cooldown => state[c].active /\ state[c].sent <= quiet[c]
          BY DEF AlertInv, QuietInv
        <5>3. state[c].sent \in Nat
          BY AlertSets DEF AlertInv, AlertShape, StateRow
        <5>4. quiet[c] = Cooldown
          BY <3>2, <5>1, <5>2, <5>3
        <5> QED
          BY <3>1, <5>4
      <4>3. CASE ~j.firing
        BY <1>0, <1>1, <4>1, <4>3
      <4> QED
        BY <4>2, <4>3
    <3> QED
      BY <1>1, <2>1, <3>3, <3>4, <3>5 DEF AlertInv, QuietInv, UnderWay
  <2> QED
    BY <1>3, <1>4, <2>2, <2>3 DEF AlertInv, QuietInv, Ops!Down
<1>6. CASE e # watchdog
  <2>1. j.condition = Llm
    BY <1>6, AlertSets DEF AlertInv, TiersMind
  <2>2. /\ UNCHANGED <<todo[watchdog], held[watchdog], outbox[watchdog], opsPc[watchdog], state>>
        /\ \A c \in Ops!Conditions \ {Llm} : quiet'[c] = quiet[c]
    BY <1>0, <1>1, <1>6, <2>1
  <2> QED
    BY <1>3, <1>4, <2>2 DEF AlertInv, OncePerPass, QuietInv, UnderWay, Ops!Down
<1> QED
  BY <1>5, <1>6

LEMMA GateWriteKeeps ==
    ASSUME Ops!OpsAssumption, AlertInv, NEW e \in Ops!Evaluators, Ops!GateWrite(e)
    PROVE  AlertInv'
<1>1. PICK a \in held[e] :
        /\ state' = [state EXCEPT ![a.condition] = Ops!After(a)]
        /\ held' = [held EXCEPT ![e] = {}]
        /\ outbox' = [outbox EXCEPT ![e] = @ \union {a}]
        /\ UNCHANGED <<opsPc, todo, quiet>>
  BY DEF Ops!GateWrite
<1>2. /\ a \in Ops!Alert /\ a.condition \in Ops!Conditions /\ state \in [Ops!Conditions -> StateRow]
      /\ held \in [Ops!Evaluators -> SUBSET Ops!Alert]
      /\ outbox \in [Ops!Evaluators -> SUBSET Ops!Alert]
  BY DEF AlertInv, AlertShape, Ops!Alert
<1>3. Ops!After(a) \in StateRow /\ Ops!After(a).active = ~a.recovered /\
      (~a.recovered => Ops!After(a).sent = 0)
  BY <1>2, AlertSets DEF Ops!After, StateRow, Ops!Alert
<1>4. AlertShape'
  BY <1>1, <1>2, <1>3 DEF AlertInv, AlertShape
<1>5. TiersMind'
  BY <1>1, <1>2, AlertSets DEF AlertInv, TiersMind
<1>6. CASE e = watchdog
  <2>1. held'[watchdog] = {} /\ outbox'[watchdog] = outbox[watchdog] \union {a} /\
        todo'[watchdog] = todo[watchdog] /\ opsPc'[watchdog] = opsPc[watchdog]
    BY <1>1, <1>2, <1>6, AlertSets
  <2>2. OncePerPass'
    BY <1>1, <1>6, <2>1 DEF AlertInv, OncePerPass, UnderWay
  <2>3. ASSUME NEW c \in Ops!Conditions \ {Llm}
        PROVE  /\ quiet'[c] < Cooldown => state'[c].active /\ state'[c].sent <= quiet'[c]
               /\ \A b \in UnderWay' : b.condition = c => quiet'[c] = Cooldown
               /\ Ops!Down(c) \in outbox'[watchdog] => state'[c].active /\ state'[c].sent = 0
    <3>1. CASE a.condition = c
      <4>1. quiet[c] = Cooldown /\ Cooldown \in Nat
        BY <1>6, <3>1, AlertSets DEF AlertInv, QuietInv, UnderWay
      <4>2. Ops!Down(c) \notin outbox[watchdog]
        BY <1>6, <3>1 DEF AlertInv, OncePerPass, Ops!Down
      <4>3. state'[c] = Ops!After(a)
        BY <1>1, <1>2, <3>1
      <4>4. Ops!Down(c) = a => ~a.recovered
        BY DEF Ops!Down
      <4>5. quiet'[c] = Cooldown
        BY <1>1, <4>1
      <4>6. Ops!Down(c) \in outbox'[watchdog] => state'[c].active /\ state'[c].sent = 0
        BY <1>3, <2>1, <4>2, <4>3, <4>4
      <4> QED
        BY <4>1, <4>5, <4>6
    <3>2. CASE a.condition # c
      <4>1. state'[c] = state[c] /\ a # Ops!Down(c)
        BY <1>1, <1>2, <3>2 DEF Ops!Down
      <4> QED
        BY <1>1, <2>1, <3>2, <4>1 DEF AlertInv, QuietInv, UnderWay
    <3> QED
      BY <3>1, <3>2
  <2> QED
    BY <1>4, <1>5, <2>2, <2>3 DEF AlertInv, QuietInv, Ops!Down
<1>7. CASE e # watchdog
  <2>1. a.condition = Llm
    BY <1>7, AlertSets DEF AlertInv, TiersMind
  <2>2. /\ UNCHANGED <<todo[watchdog], held[watchdog], outbox[watchdog], opsPc[watchdog], quiet>>
        /\ \A c \in Ops!Conditions \ {Llm} : state'[c] = state[c]
    BY <1>1, <1>2, <1>7, <2>1
  <2> QED
    BY <1>4, <1>5, <2>2 DEF AlertInv, OncePerPass, QuietInv, UnderWay, Ops!Down
<1> QED
  BY <1>6, <1>7

LEMMA SendKeeps ==
    ASSUME Ops!OpsAssumption, AlertInv, NEW e \in Ops!Evaluators, NEW a \in outbox[e],
           NEW ok \in BOOLEAN,
           Ops!Send(e, a, ok)
    PROVE  AlertInv'
<1>1. /\ outbox' = [outbox EXCEPT ![e] = @ \ {a}]
      /\ state' = [state EXCEPT ![a.condition] = IF ok \/ a.recovered THEN @ ELSE Ops!Rearmed(@)]
      /\ quiet' = [quiet EXCEPT ![a.condition] = IF ok /\ ~a.recovered THEN 0 ELSE @]
      /\ UNCHANGED <<opsPc, todo, held>> /\ opsPc[e] = "gate"
  BY DEF Ops!Send
<1>2. /\ a \in Ops!Alert /\ a.condition \in Ops!Conditions /\ state \in [Ops!Conditions -> StateRow]
      /\ quiet \in [Ops!Conditions -> 0 .. Cooldown]
      /\ outbox \in [Ops!Evaluators -> SUBSET Ops!Alert]
  BY DEF AlertInv, AlertShape, Ops!Alert
<1>3. AlertShape'
  <2>1. state' \in [Ops!Conditions -> StateRow]
    BY <1>1, <1>2 DEF Ops!Rearmed, StateRow
  <2>2. quiet' \in [Ops!Conditions -> 0 .. Cooldown]
    BY <1>1, <1>2, AlertSets
  <2> QED
    BY <1>1, <1>2, <2>1, <2>2 DEF AlertInv, AlertShape
<1>4. TiersMind'
  BY <1>1, <1>2, AlertSets DEF AlertInv, TiersMind
<1>5. CASE e = watchdog
  <2>1. held'[watchdog] = held[watchdog] /\ outbox'[watchdog] = outbox[watchdog] \ {a} /\
        todo'[watchdog] = todo[watchdog] /\ opsPc'[watchdog] = opsPc[watchdog]
    BY <1>1, <1>2, <1>5, AlertSets
  <2>2. OncePerPass'
    BY <1>1, <1>5, <2>1 DEF AlertInv, OncePerPass, UnderWay
  <2>3. ASSUME NEW c \in Ops!Conditions \ {Llm}
        PROVE  /\ quiet'[c] < Cooldown => state'[c].active /\ state'[c].sent <= quiet'[c]
               /\ \A b \in UnderWay' : b.condition = c => quiet'[c] = Cooldown
               /\ Ops!Down(c) \in outbox'[watchdog] => state'[c].active /\ state'[c].sent = 0
    <3>1. CASE a.condition = c
      <4>1. quiet[c] = Cooldown /\ Cooldown \in Nat
        BY <1>5, <3>1, AlertSets DEF AlertInv, QuietInv, UnderWay
      <4>2. \A b \in UnderWay' : b.condition # c
        BY <1>5, <2>1, <3>1 DEF AlertInv, OncePerPass, UnderWay
      <4>3. CASE ok /\ ~a.recovered
        <5>1. a = Ops!Down(c)
          BY <1>2, <3>1, <4>3 DEF Ops!Alert, Ops!Down
        <5>2. state[c].active /\ state[c].sent = 0
          BY <1>5, <5>1 DEF AlertInv, QuietInv
        <5>3. state'[c] = state[c] /\ quiet'[c] = 0
          BY <1>1, <1>2, <3>1, <4>3
        <5> QED
          BY <4>2, <5>2, <5>3 DEF Ops!Down, UnderWay
      <4>4. CASE ~(ok /\ ~a.recovered)
        <5>1. quiet'[c] = quiet[c]
          BY <1>1, <1>2, <3>1, <4>4
        <5> QED
          BY <4>1, <4>2, <5>1 DEF Ops!Down, UnderWay
      <4> QED
        BY <4>3, <4>4
    <3>2. CASE a.condition # c
      <4>1. state'[c] = state[c] /\ quiet'[c] = quiet[c]
        BY <1>1, <1>2, <3>2
      <4> QED
        BY <2>1, <4>1 DEF AlertInv, QuietInv, UnderWay
    <3> QED
      BY <3>1, <3>2
  <2> QED
    BY <1>3, <1>4, <2>2, <2>3 DEF AlertInv, QuietInv, Ops!Down
<1>6. CASE e # watchdog
  <2>1. a.condition = Llm
    BY <1>6, AlertSets DEF AlertInv, TiersMind
  <2>2. /\ UNCHANGED <<todo[watchdog], held[watchdog], outbox[watchdog], opsPc[watchdog]>>
        /\ \A c \in Ops!Conditions \ {Llm} : state'[c] = state[c] /\ quiet'[c] = quiet[c]
    BY <1>1, <1>2, <1>6, <2>1
  <2> QED
    BY <1>3, <1>4, <2>2 DEF AlertInv, OncePerPass, QuietInv, UnderWay, Ops!Down
<1> QED
  BY <1>5, <1>6

-----------------------------------------------------------------------------
(* The other steps *)

LEMMA EvaluationsBegin ==
    ASSUME Ops!OpsAssumption, AlertInv, \/ \E t \in Tiers : Ops!Record(t) \/ Ops!EvaluateCycle(t)
                               \/ Ops!WatchdogPass
    PROVE  AlertInv'
<1>0. /\ todo \in [Ops!Evaluators -> SUBSET Job] /\ Tiers \subseteq Ops!Evaluators
      /\ opsPc \in [Ops!Evaluators -> {"idle", "recorded", "gate"}]
  BY AlertSets DEF AlertInv, AlertShape
<1>1. ASSUME NEW t \in Tiers, Ops!Record(t) PROVE AlertInv'
  <2>1. /\ UNCHANGED <<todo, held, outbox, state, quiet>> /\ opsPc'[watchdog] = opsPc[watchdog]
        /\ opsPc' \in [Ops!Evaluators -> {"idle", "recorded", "gate"}]
    BY <1>0, <1>1, AlertSets DEF Ops!Record
  <2> QED
    BY <2>1 DEF AlertInv, AlertShape, TiersMind, OncePerPass, QuietInv, UnderWay, Ops!Down
<1>2. ASSUME NEW t \in Tiers, Ops!EvaluateCycle(t) PROVE AlertInv'
  <2> DEFINE job == [condition |-> Llm, firing |-> Ops!LlmFiring]
  <2>1. job \in Job
    BY AlertSets DEF Ops!LlmFiring, Job
  <2>2. /\ UNCHANGED <<held, outbox, state, quiet>> /\ todo' = [todo EXCEPT ![t] = {job}]
        /\ opsPc' = [opsPc EXCEPT ![t] = "gate"] /\ job.condition = Llm
    BY <1>2 DEF Ops!EvaluateCycle
  <2> HIDE DEF job
  <2>3. /\ todo' \in [Ops!Evaluators -> SUBSET Job]
        /\ opsPc' \in [Ops!Evaluators -> {"idle", "recorded", "gate"}]
        /\ todo'[watchdog] = todo[watchdog] /\ opsPc'[watchdog] = opsPc[watchdog]
    BY <1>0, <2>1, <2>2, AlertSets
  <2>4. \A u \in Tiers : \A j \in todo'[u] : j.condition = Llm
    BY <1>0, <2>2 DEF AlertInv, TiersMind
  <2> QED
    BY <2>2, <2>3, <2>4
       DEF AlertInv, AlertShape, TiersMind, OncePerPass, QuietInv, UnderWay, Ops!Down
<1>3. CASE Ops!WatchdogPass
  <2> DEFINE jobs == {[condition |-> Stopped, firing |-> Ops!PipelineStopped]}
                        \union IF Ops!WholeOutage THEN {}
                               ELSE {[condition |-> t, firing |-> Ops!Stale(t)] : t \in Ops!Watched}
  <2>1. jobs \subseteq Job /\ \A j, k \in jobs : j.condition = k.condition => j = k
    <3>1. Ops!PipelineStopped \in BOOLEAN /\ \A t \in Ops!Watched : Ops!Stale(t) \in BOOLEAN
      BY DEF Ops!PipelineStopped, Ops!Stale
    <3>2. \A t \in Ops!Watched : t \in Ops!Conditions /\ t # Stopped
      BY AlertSets DEF Ops!Watched
    <3> QED
      BY <3>1, <3>2, AlertSets DEF Job
  <2>2. /\ UNCHANGED <<held, outbox, state, quiet>> /\ todo' = [todo EXCEPT ![watchdog] = jobs]
        /\ opsPc' = [opsPc EXCEPT ![watchdog] = "gate"] /\ opsPc[watchdog] = "idle"
    BY <1>3 DEF Ops!WatchdogPass
  <2> HIDE DEF jobs
  <2>3. /\ todo' \in [Ops!Evaluators -> SUBSET Job]
        /\ opsPc' \in [Ops!Evaluators -> {"idle", "recorded", "gate"}]
        /\ todo'[watchdog] = jobs /\ opsPc'[watchdog] = "gate"
        /\ \A t \in Tiers : todo'[t] = todo[t]
    BY <1>0, <2>1, <2>2, AlertSets
  <2>4. held[watchdog] = {} /\ outbox[watchdog] = {}
    BY <2>2 DEF AlertInv, OncePerPass, UnderWay
  <2>5. OncePerPass'
    BY <2>1, <2>2, <2>3, <2>4 DEF OncePerPass, UnderWay
  <2> QED
    BY <2>2, <2>3, <2>5 DEF AlertInv, AlertShape, TiersMind, QuietInv, UnderWay, Ops!Down
<1> QED
  BY <1>1, <1>2, <1>3

LEMMA EvaluationsEnd ==
    ASSUME Ops!OpsAssumption, AlertInv, NEW e \in Ops!Evaluators, Ops!Finish(e) \/ Ops!Crash(e)
    PROVE  AlertInv'
<1>1. /\ UNCHANGED <<state, quiet>> /\ opsPc' = [opsPc EXCEPT ![e] = "idle"]
      /\ \A f \in Ops!Evaluators : /\ todo'[f] \subseteq todo[f] /\ held'[f] \subseteq held[f]
                                /\ outbox'[f] \subseteq outbox[f]
      /\ todo'[e] = {} /\ held'[e] = {} /\ outbox'[e] = {}
  BY DEF Ops!Finish, Ops!Crash, AlertInv, AlertShape
<1>2. AlertShape'
  BY <1>1 DEF Ops!Finish, Ops!Crash, AlertInv, AlertShape
<1>3. TiersMind'
  BY <1>1, AlertSets DEF AlertInv, TiersMind
<1>4. OncePerPass'
  BY <1>1, AlertSets DEF AlertInv, AlertShape, OncePerPass, UnderWay
<1>5. QuietInv'
  BY <1>1, AlertSets DEF AlertInv, QuietInv, UnderWay, Ops!Down
<1> QED
  BY <1>2, <1>3, <1>4, <1>5 DEF AlertInv

LEMMA AlertTick ==
    ASSUME Ops!OpsAssumption, AlertInv, Ops!Tick
    PROVE  AlertInv'
<1>1. /\ UNCHANGED <<opsPc, todo, held, outbox>> /\ opsPc[watchdog] = "idle"
      /\ state' = [c \in Ops!Conditions |-> [state[c] EXCEPT !.sent = Ops!Lesser(@)]]
      /\ quiet' = [c \in Ops!Conditions |-> Ops!Lesser(quiet[c])]
  BY AlertSets DEF Ops!Tick, Ops!evaluators
<1>2. \A n \in 0 .. Cooldown : Ops!Lesser(n) \in 0 .. Cooldown /\ n <= Ops!Lesser(n)
  BY AlertSets DEF Ops!Lesser
<1>3. \A m, n \in 0 .. Cooldown : m <= n => Ops!Lesser(m) <= Ops!Lesser(n)
  BY AlertSets DEF Ops!Lesser
<1>4. \A n \in 0 .. Cooldown : Ops!Lesser(n) < Cooldown => n < Cooldown
  BY AlertSets DEF Ops!Lesser
<1>5. ASSUME NEW c \in Ops!Conditions
      PROVE  /\ state[c] \in StateRow /\ state[c].sent \in 0 .. Cooldown
             /\ quiet[c] \in 0 .. Cooldown
             /\ state'[c] \in StateRow /\ state'[c].active = state[c].active
             /\ state'[c].sent = Ops!Lesser(state[c].sent) /\ quiet'[c] = Ops!Lesser(quiet[c])
  <2>1. state[c] \in StateRow /\ quiet[c] \in 0 .. Cooldown
    BY DEF AlertInv, AlertShape
  <2>2. state[c].sent \in 0 .. Cooldown
    BY <2>1 DEF StateRow
  <2> QED
    BY <1>1, <1>2, <2>1, <2>2 DEF StateRow
<1>6. AlertShape'
  <2>1. state' \in [Ops!Conditions -> StateRow] /\ quiet' \in [Ops!Conditions -> 0 .. Cooldown]
    BY <1>1, <1>2, <1>5
  <2> QED
    BY <1>1, <2>1 DEF AlertInv, AlertShape
<1>7. UnderWay = {}
  BY <1>1 DEF AlertInv, OncePerPass
<1>8. ASSUME NEW c \in Ops!Conditions \ {Llm}, quiet'[c] < Cooldown
      PROVE  state'[c].active /\ state'[c].sent <= quiet'[c]
  BY <1>3, <1>4, <1>5, <1>8 DEF AlertInv, QuietInv
<1>9. QuietInv'
  BY <1>1, <1>7, <1>8 DEF QuietInv, UnderWay
<1> QED
  BY <1>1, <1>6, <1>9 DEF AlertInv, TiersMind, OncePerPass, UnderWay

LEMMA AlertStep ==
    ASSUME Ops!OpsAssumption, AlertInv, [Ops!Next]_(Ops!vars)
    PROVE  AlertInv'
<1>1. CASE \/ \E ts \in SUBSET Tiers : Ops!Die(ts) \/ Ops!Revive(ts)
           \/ Ops!LlmFlips \/ UNCHANGED Ops!vars
  <2>1. UNCHANGED <<opsPc, todo, held, outbox, state, quiet>>
    BY <1>1 DEF Ops!Die, Ops!Revive, Ops!LlmFlips, Ops!vars, Ops!evaluators
  <2> QED
    BY <2>1 DEF AlertInv, AlertShape, TiersMind, OncePerPass, QuietInv, UnderWay, Ops!Down
<1> QED
  BY <1>1, GateReadKeeps, GateWriteKeeps, SendKeeps, EvaluationsBegin, EvaluationsEnd, AlertTick
  DEF Ops!Next, Ops!Evaluate

\* Of a condition that never cleared, the watchdog tells the operator once in a cooldown,
\* whatever sends are refused, whatever crashes, and whenever tiers die and revive.
THEOREM QuietWatchdog ==
    ASSUME Ops!OpsAssumption
    PROVE  Ops!Spec => Ops!WatchdogIsQuiet
<1>1. Ops!Init => AlertInv
  <2>1. [active |-> FALSE, sent |-> Cooldown] \in StateRow
    BY AlertSets DEF StateRow
  <2> QED
    BY <2>1, AlertSets
       DEF Ops!Init, AlertInv, AlertShape, TiersMind, OncePerPass, QuietInv, UnderWay
<1>2. AlertInv /\ [Ops!Next]_(Ops!vars) => AlertInv'
  BY AlertStep
<1>3. AlertInv => \A c \in Ops!Conditions \ {Llm} : Ops!Delivered(Ops!Down(c)) =>
      quiet[c] = Cooldown
  <2> SUFFICES ASSUME AlertInv, NEW c \in Ops!Conditions \ {Llm}, NEW e \in Ops!Evaluators,
                      Ops!Down(c) \in outbox[e]
               PROVE  quiet[c] = Cooldown
    BY DEF Ops!Delivered
  <2>1. Ops!Down(c).condition = c
    BY DEF Ops!Down
  <2>2. e = watchdog
    BY <2>1, AlertSets DEF AlertInv, TiersMind
  <2> QED
    BY <2>1, <2>2 DEF AlertInv, QuietInv, UnderWay
<1> QED
  BY <1>1, <1>2, <1>3, PTL DEF Ops!Spec, Ops!WatchdogIsQuiet

-----------------------------------------------------------------------------
(* The types *)

LEMMA NeverIsNumber == ASSUME Ops!OpsAssumption PROVE Never \in Nat /\ Never >= 1
<1>1. Ops!Limit(Ats) \in Nat /\ Never > Ops!Limit(Ats) + 1 /\ Never \in Nat
  BY DEF Ops!OpsAssumption, Ops!Limit
<1> QED
  BY <1>1

\* What TypeOK says beside Shape.
AlertRest ==
    /\ age \in [Tiers -> 0 .. Never]
    /\ recent \in Seq(BOOLEAN) /\ Len(recent) <= K
    /\ \A e \in Ops!Evaluators : Cardinality(held[e]) <= 1
    /\ passed \in BOOLEAN /\ dead \subseteq Tiers /\ llmDown \in BOOLEAN
    /\ told \in [Ops!Conditions -> {"nothing", "down", "up", "lost"}]
    /\ faults \in Nat /\ opsMishaps \in Nat

LEMMA FewHeld == \A S : S = {} \/ (\E a : S = {a}) => Cardinality(S) <= 1
BY FS_EmptySet, FS_Singleton

LEMMA LastKTyped ==
    ASSUME Ops!OpsAssumption, recent \in Seq(BOOLEAN), Len(recent) <= K, llmDown \in BOOLEAN
    PROVE  Ops!LastK(Append(recent, llmDown)) \in Seq(BOOLEAN) /\
           Len(Ops!LastK(Append(recent, llmDown))) <= K
<1> DEFINE s == Append(recent, llmDown)
<1>1. s \in Seq(BOOLEAN) /\ Len(s) = Len(recent) + 1 /\ Len(recent) \in Nat /\ K \in Nat \ {0}
  BY AppendProperties, LenProperties DEF Ops!OpsAssumption
<1> HIDE DEF s
<1>2. ASSUME Len(s) <= K
      PROVE  Ops!LastK(s) \in Seq(BOOLEAN) /\ Len(Ops!LastK(s)) <= K
  BY <1>1, <1>2 DEF Ops!LastK
<1>3. ASSUME Len(s) > K
      PROVE  Ops!LastK(s) \in Seq(BOOLEAN) /\ Len(Ops!LastK(s)) <= K
  <2>1. /\ SubSeq(s, Len(s) - K + 1, Len(s)) \in Seq(BOOLEAN)
        /\ Len(SubSeq(s, Len(s) - K + 1, Len(s))) = K
    <3>1. Len(s) - K + 1 \in 1 .. Len(s) + 1 /\ Len(s) \in Len(s) - K .. Len(s)
      BY <1>1, <1>3
    <3> QED
      BY <1>1, <1>3, <3>1, SubSeqProperties
  <2>2. ~(Len(s) <= K)
    BY <1>1, <1>3
  <2>3. Ops!LastK(s) = SubSeq(s, Len(s) - K + 1, Len(s))
    BY <2>2 DEF Ops!LastK
  <2>4. Ops!LastK(s) \in Seq(BOOLEAN) /\ Len(Ops!LastK(s)) = K
    BY <2>1, <2>3
  <2> QED
    BY <1>1, <2>4
<1>4. Ops!LastK(s) \in Seq(BOOLEAN) /\ Len(Ops!LastK(s)) <= K
  <2>1. Len(s) <= K \/ Len(s) > K
    BY <1>1
  <2> QED
    BY <1>2, <1>3, <2>1
<1> QED
  BY <1>4 DEF s

LEMMA RestKept ==
    ASSUME Ops!OpsAssumption, AlertInv, AlertRest, [Ops!Next]_(Ops!vars)
    PROVE  AlertRest'
<1>0. /\ held \in [Ops!Evaluators -> SUBSET Ops!Alert]
      /\ outbox \in [Ops!Evaluators -> SUBSET Ops!Alert]
      /\ todo \in [Ops!Evaluators -> SUBSET Job]
  BY DEF AlertInv, AlertShape
<1>c. Cardinality({}) = 0
  BY FS_EmptySet
<1>1. ASSUME NEW t \in Tiers, Ops!Record(t) PROVE AlertRest'
  <2>1. age' \in [Tiers -> 0 .. Never]
    BY <1>1, NeverIsNumber DEF Ops!Record, AlertRest
  <2>2. recent' \in Seq(BOOLEAN) /\ Len(recent') <= K
    BY <1>1, LastKTyped DEF Ops!Record, AlertRest
  <2> QED
    BY <1>1, <2>1, <2>2 DEF Ops!Record, AlertRest, Ops!world
<1>2. CASE (\E t \in Tiers : Ops!EvaluateCycle(t)) \/ Ops!WatchdogPass \/
           \E e \in Ops!Evaluators : Ops!Finish(e)
  BY <1>2 DEF Ops!EvaluateCycle, Ops!WatchdogPass, Ops!Finish, AlertRest, Ops!world
<1>3. ASSUME NEW e \in Ops!Evaluators, NEW j \in todo[e], Ops!GateRead(e, j) PROVE AlertRest'
  <2>1. Cardinality(Ops!Decision(j)) <= 1
    <3>1. Ops!Decision(j) = {} \/ \E a : Ops!Decision(j) = {a}
      BY DEF Ops!Decision
    <3> QED
      BY <3>1, FewHeld
  <2>2. \A f \in Ops!Evaluators : Cardinality(held'[f]) <= 1
    BY <1>0, <1>3, <2>1 DEF Ops!GateRead, AlertRest
  <2> QED
    BY <1>3, <2>2 DEF Ops!GateRead, AlertRest, Ops!world
<1>4. ASSUME NEW e \in Ops!Evaluators, Ops!GateWrite(e) PROVE AlertRest'
  <2>1. held' = [held EXCEPT ![e] = {}]
    BY <1>4 DEF Ops!GateWrite
  <2>2. \A f \in Ops!Evaluators : Cardinality(held'[f]) <= 1
    BY <1>0, <1>c, <2>1 DEF AlertRest
  <2> QED
    BY <1>4, <2>2 DEF Ops!GateWrite, AlertRest, Ops!world
<1>5. ASSUME NEW e \in Ops!Evaluators, NEW a \in outbox[e], NEW ok \in BOOLEAN, Ops!Send(e, a, ok)
      PROVE  AlertRest'
  <2>1. told' \in [Ops!Conditions -> {"nothing", "down", "up", "lost"}]
    <3>1. told' = [told EXCEPT ![a.condition] = CASE ok /\ a.recovered -> "up"
                                                 [] ok /\ ~a.recovered -> "down"
                                                 [] ~ok /\ a.recovered -> "lost"
                                                 [] OTHER -> @]
      BY <1>5 DEF Ops!Send
    <3> QED
      BY <3>1 DEF AlertRest
  <2>2. opsMishaps' \in Nat
    BY <1>5 DEF Ops!Send, Ops!Mishap, AlertRest
  <2> QED
    BY <1>5, <2>1, <2>2 DEF Ops!Send, AlertRest, Ops!world
<1>6. ASSUME NEW e \in Ops!Evaluators, Ops!Crash(e) PROVE AlertRest'
  <2>1. told' \in [Ops!Conditions -> {"nothing", "down", "up", "lost"}] /\ opsMishaps' \in Nat
    BY <1>6 DEF Ops!Crash, Ops!Mishap, AlertRest
  <2>2. \A f \in Ops!Evaluators : Cardinality(held'[f]) <= 1
    BY <1>0, <1>6, <1>c DEF Ops!Crash, AlertRest
  <2> QED
    BY <1>6, <2>1, <2>2 DEF Ops!Crash, AlertRest, Ops!world
<1>7. CASE Ops!Tick
  <2>1. ASSUME NEW t \in Tiers
        PROVE  Ops!Older(t) \in 0 .. Never
    <3>1. age[t] \in 0 .. Never
      BY DEF AlertRest
    <3>2. Ops!Oldest(t) \in Nat /\ Ops!Oldest(t) < Never
      BY NeverIsNumber DEF Ops!OpsAssumption, Ops!Limit, Ops!Oldest
    <3> QED
      BY <3>1, <3>2, NeverIsNumber DEF Ops!Older
  <2>2. age' \in [Tiers -> 0 .. Never]
    BY <1>7, <2>1 DEF Ops!Tick, AlertRest
  <2> QED
    BY <1>7, <2>2 DEF Ops!Tick, AlertRest, Ops!world, Ops!evaluators
<1>8. CASE (\E ts \in SUBSET Tiers : Ops!Die(ts) \/ Ops!Revive(ts)) \/ Ops!LlmFlips
  <2>1. UNCHANGED <<age, recent, held, passed, told, opsMishaps>> /\ faults' = faults + 1
    BY <1>8 DEF Ops!Die, Ops!Revive, Ops!LlmFlips, Ops!Fault, Ops!evaluators
  <2>2. dead' \subseteq Tiers
    BY <1>8 DEF Ops!Die, Ops!Revive, Ops!LlmFlips, AlertRest
  <2>3. llmDown' \in BOOLEAN
    BY <1>8 DEF Ops!Die, Ops!Revive, Ops!LlmFlips, AlertRest
  <2> QED
    BY <2>1, <2>2, <2>3 DEF AlertRest
<1>9. CASE UNCHANGED Ops!vars
  BY <1>9 DEF Ops!vars, AlertRest, Ops!world, Ops!evaluators
<1> QED
  BY <1>1, <1>2, <1>3, <1>4, <1>5, <1>6, <1>7, <1>8, <1>9 DEF Ops!Next, Ops!Evaluate

-----------------------------------------------------------------------------
(* The recoveries *)

\* Of a condition of the watchdog, without a mishap: what is about to be told is what its
\* row says, and if nothing is, the operator knows it.
Owed ==
    opsMishaps = 0 =>
        \A c \in Ops!Conditions \ {Llm} :
            /\ \A a \in outbox[watchdog] : a.condition = c => (state[c].active <=> ~a.recovered)
            /\ (\A a \in outbox[watchdog] : a.condition # c) =>
               (state[c].active <=> told[c] = "down")

\* A step that leaves the watchdog's outbox, the activity of the rows and what was told of
\* the watchdog's conditions alone.
LEMMA OwedStays ==
    ASSUME Owed, outbox'[watchdog] = outbox[watchdog], opsMishaps' = opsMishaps,
           \A c \in Ops!Conditions \ {Llm} : (state'[c].active <=> state[c].active) /\
           told'[c] = told[c]
    PROVE  Owed'
BY DEF Owed

LEMMA OwedKept ==
    ASSUME Ops!OpsAssumption, AlertInv, AlertRest, Owed, [Ops!Next]_(Ops!vars)
    PROVE  Owed'
<1>0. /\ held \in [Ops!Evaluators -> SUBSET Ops!Alert]
      /\ outbox \in [Ops!Evaluators -> SUBSET Ops!Alert]
      /\ state \in [Ops!Conditions -> StateRow] /\ opsMishaps \in Nat
      /\ told \in [Ops!Conditions -> {"nothing", "down", "up", "lost"}]
  BY DEF AlertInv, AlertShape, AlertRest
<1>m. opsMishaps + 1 # 0
  BY <1>0
<1>1. CASE \/ \E t \in Tiers : Ops!Record(t) \/ Ops!EvaluateCycle(t)
           \/ Ops!WatchdogPass \/ Ops!LlmFlips \/ UNCHANGED Ops!vars
           \/ \E ts \in SUBSET Tiers : Ops!Die(ts) \/ Ops!Revive(ts)
           \/ \E e \in Ops!Evaluators : Ops!Finish(e) \/ \E j \in todo[e] : Ops!GateRead(e, j)
  <2>1. UNCHANGED <<outbox, state, told, opsMishaps>>
    BY <1>1
       DEF Ops!Record, Ops!EvaluateCycle, Ops!WatchdogPass, Ops!LlmFlips, Ops!Die, Ops!Revive,
       Ops!Finish, Ops!GateRead,
                Ops!vars, Ops!evaluators
  <2> QED
    BY <2>1, OwedStays
<1>2. ASSUME NEW e \in Ops!Evaluators, Ops!GateWrite(e) PROVE Owed'
  <2>1. PICK a \in held[e] :
          /\ state' = [state EXCEPT ![a.condition] = Ops!After(a)]
          /\ outbox' = [outbox EXCEPT ![e] = @ \union {a}]
          /\ UNCHANGED <<told, opsMishaps>>
    BY <1>2 DEF Ops!GateWrite
  <2>2. a \in Ops!Alert /\ a.condition \in Ops!Conditions /\ (Ops!After(a).active <=> ~a.recovered)
    <3>1. Ops!After(a).active = ~a.recovered
      BY DEF Ops!After
    <3>2. Ops!After(a).active <=> ~a.recovered
      BY <3>1, Zenon
    <3> QED
      BY <1>0, <3>2 DEF Ops!Alert
  <2>3. CASE e # watchdog
    <3>1. a.condition = Llm
      BY <2>3, AlertSets DEF AlertInv, TiersMind
    <3>2. outbox'[watchdog] = outbox[watchdog] /\
          \A c \in Ops!Conditions \ {Llm} : state'[c] = state[c]
      BY <1>0, <2>1, <2>3, <3>1, AlertSets
    <3> QED
      BY <2>1, <3>2, OwedStays
  <2>4. CASE e = watchdog
    <3>1. outbox'[watchdog] = outbox[watchdog] \union {a} /\
          \A b \in outbox[watchdog] : b.condition # a.condition
      BY <1>0, <2>1, <2>4, AlertSets DEF AlertInv, OncePerPass
    <3>2. SUFFICES ASSUME opsMishaps = 0, NEW c \in Ops!Conditions \ {Llm}
                   PROVE  /\ \A b \in outbox'[watchdog] : b.condition = c =>
                             (state'[c].active <=> ~b.recovered)
                          /\ (\A b \in outbox'[watchdog] : b.condition # c)
                                => (state'[c].active <=> told'[c] = "down")
      BY <2>1 DEF Owed
    <3>3. CASE c = a.condition
      <4>1. state'[c] = Ops!After(a)
        BY <1>0, <2>1, <2>2, <3>3
      <4>2. \A b \in outbox'[watchdog] : b.condition = c => b = a
        BY <3>1, <3>3
      <4> QED
        BY <2>2, <3>1, <3>3, <4>1, <4>2
    <3>4. CASE c # a.condition
      <4>1. state'[c] = state[c] /\ told' = told
        BY <1>0, <2>1, <2>2, <3>4
      <4> QED
        BY <3>1, <3>2, <3>4, <4>1 DEF Owed
    <3> QED
      BY <3>3, <3>4
  <2> QED
    BY <2>3, <2>4
<1>3. ASSUME NEW e \in Ops!Evaluators, NEW a \in outbox[e], NEW ok \in BOOLEAN, Ops!Send(e, a, ok)
      PROVE  Owed'
  <2>1. CASE ~ok
    <3>1. opsMishaps' = opsMishaps + 1
      BY <1>3, <2>1 DEF Ops!Send, Ops!Mishap
    <3> QED
      BY <1>m, <3>1 DEF Owed
  <2>2. CASE ok
    <3>1. /\ outbox' = [outbox EXCEPT ![e] = @ \ {a}] /\ UNCHANGED opsMishaps
          /\ told' = [told EXCEPT ![a.condition] = IF a.recovered THEN "up" ELSE "down"]
      BY <1>0, <1>3, <2>2 DEF Ops!Send, Ops!Alert
    <3>2. a \in Ops!Alert /\ a.condition \in Ops!Conditions
      BY <1>0 DEF Ops!Alert
    <3>3. state' = state
      BY <1>0, <1>3, <2>2, <3>2 DEF Ops!Send
    <3>4. CASE e # watchdog
      <4>1. a.condition = Llm
        BY <3>4, AlertSets DEF AlertInv, TiersMind
      <4>2. outbox'[watchdog] = outbox[watchdog] /\
            \A c \in Ops!Conditions \ {Llm} : told'[c] = told[c]
        BY <1>0, <3>1, <3>4, <4>1, AlertSets
      <4> QED
        BY <3>1, <3>3, <4>2, OwedStays
    <3>5. CASE e = watchdog
      <4>1. outbox'[watchdog] = outbox[watchdog] \ {a} /\
            \A b \in outbox'[watchdog] : b.condition # a.condition
        BY <1>0, <3>1, <3>5, AlertSets DEF AlertInv, OncePerPass
      <4>2. SUFFICES ASSUME opsMishaps = 0, NEW c \in Ops!Conditions \ {Llm}
                     PROVE  /\ \A b \in outbox'[watchdog] : b.condition = c =>
                               (state'[c].active <=> ~b.recovered)
                            /\ (\A b \in outbox'[watchdog] : b.condition # c)
                                  => (state'[c].active <=> told'[c] = "down")
        BY <3>1 DEF Owed
      <4>3. CASE c = a.condition
        <5>1. state[c].active <=> ~a.recovered
          BY <3>5, <4>2, <4>3 DEF Owed
        <5>2. told'[c] = IF a.recovered THEN "up" ELSE "down"
          BY <1>0, <3>1, <3>2, <4>3
        <5>3. told'[c] = "down" <=> ~a.recovered
          BY <5>2
        <5> QED
          BY <3>3, <4>1, <4>3, <5>1, <5>3
      <4>4. CASE c # a.condition
        <5>1. told'[c] = told[c]
          BY <1>0, <3>1, <3>2, <4>4
        <5>2. (\A b \in outbox'[watchdog] : b.condition # c) =>
              (\A b \in outbox[watchdog] : b.condition # c)
          BY <4>1, <4>4
        <5> QED
          BY <3>3, <4>1, <4>2, <5>1, <5>2 DEF Owed
      <4> QED
        BY <4>3, <4>4
    <3> QED
      BY <3>4, <3>5
  <2> QED
    BY <2>1, <2>2
<1>4. ASSUME NEW e \in Ops!Evaluators, Ops!Crash(e) PROVE Owed'
  <2>1. opsMishaps' = opsMishaps + 1
    BY <1>4 DEF Ops!Crash, Ops!Mishap
  <2> QED
    BY <1>m, <2>1 DEF Owed
<1>5. CASE Ops!Tick
  <2>1. /\ UNCHANGED <<outbox, told, opsMishaps>>
        /\ \A c \in Ops!Conditions : state'[c].active = state[c].active
    BY <1>0, <1>5 DEF Ops!Tick, Ops!evaluators, StateRow
  <2> QED
    BY <2>1, OwedStays
<1> QED
  BY <1>1, <1>2, <1>3, <1>4, <1>5 DEF Ops!Next, Ops!Evaluate

LEMMA AlertsBegin == ASSUME Ops!OpsAssumption PROVE Ops!Init => AlertInv /\ AlertRest /\ Owed
<1> SUFFICES ASSUME Ops!Init PROVE AlertInv /\ AlertRest /\ Owed
  OBVIOUS
<1>1. [active |-> FALSE, sent |-> Cooldown] \in StateRow
  BY AlertSets DEF StateRow
<1>2. AlertInv
  BY <1>1, AlertSets DEF Ops!Init, AlertInv, AlertShape, TiersMind, OncePerPass, QuietInv, UnderWay
<1>3. AlertRest
  <2>1. age \in [Tiers -> 0 .. Never]
    BY NeverIsNumber DEF Ops!Init
  <2>2. recent \in Seq(BOOLEAN) /\ Len(recent) <= K
    BY DEF Ops!Init, Ops!OpsAssumption
  <2>3. \A e \in Ops!Evaluators : Cardinality(held[e]) <= 1
    BY FewHeld DEF Ops!Init
  <2> QED
    BY <2>1, <2>2, <2>3 DEF Ops!Init, AlertRest
<1>4. Owed
  <2>1. outbox[watchdog] = {} /\ \A c \in Ops!Conditions : ~state[c].active /\ told[c] # "down"
    BY AlertSets DEF Ops!Init
  <2> QED
    BY <2>1 DEF Owed
<1> QED
  BY <1>2, <1>3, <1>4

\* Every reachable state of the rows, the evaluations and the sends is well typed.
THEOREM AlertsTypeCorrect ==
    ASSUME Ops!OpsAssumption
    PROVE  Ops!Spec => []Ops!TypeOK
<1>1. AlertInv /\ AlertRest => Ops!TypeOK
  <2>1. \A S : Ops!Cardinality(S) = Cardinality(S)
    BY DEF Ops!Cardinality, Cardinality
  <2> QED
    BY <2>1 DEF AlertInv, AlertShape, AlertRest, Ops!TypeOK, StateRow, Job
<1>2. AlertInv /\ AlertRest /\ [Ops!Next]_(Ops!vars) => (AlertInv /\ AlertRest)'
  BY AlertStep, RestKept
<1> QED
  BY <1>1, <1>2, AlertsBegin, PTL DEF Ops!Spec

\* While no send is refused and nothing crashes, a row of the watchdog's conditions is
\* active between its passes just when the operator last heard that it is down: the recovery
\* is sent in the end, and to nobody who was told of no failure.
THEOREM RecoveriesAreOwed ==
    ASSUME Ops!OpsAssumption
    PROVE  Ops!Spec => []Ops!RecoveryIsOwed
<1>1. AlertInv /\ Owed => Ops!RecoveryIsOwed
  <2> SUFFICES ASSUME AlertInv, Owed, opsMishaps = 0, opsPc[watchdog] = "idle",
                      NEW c \in Ops!Conditions \ {Llm}
               PROVE  state[c].active <=> told[c] = "down"
    BY AlertSets DEF Ops!RecoveryIsOwed, Ops!Settled
  <2>1. outbox[watchdog] = {}
    BY DEF AlertInv, OncePerPass, UnderWay
  <2> QED
    BY <2>1 DEF Owed
<1>2. AlertInv /\ AlertRest /\ Owed /\ [Ops!Next]_(Ops!vars) => (AlertInv /\ AlertRest /\ Owed)'
  BY AlertStep, RestKept, OwedKept
<1> QED
  BY <1>1, <1>2, AlertsBegin, PTL DEF Ops!Spec

-----------------------------------------------------------------------------
(* MCPolling: the poller implements each of its parts, and keeps what they keep. *)

LEMMA PollerRunsPacer == PollerSpec => Pacer!Spec
<1>1. PollerInit => Pacer!Init
  BY DEF PollerInit
<1>2. [PollerNext]_pollerVars => [Pacer!Next]_(Pacer!vars)
  BY DEF PollerNext, pollerVars, pacerVars, Pacer!vars
<1> QED
  BY <1>1, <1>2, PTL DEF PollerSpec, Pacer!Spec

LEMMA PollerRunsTier == PollerSpec => Spec
<1>1. PollerInit => Init
  BY DEF PollerInit
<1>2. [PollerNext]_pollerVars => [Next]_vars
  BY DEF PollerNext, pollerVars
<1> QED
  BY <1>1, <1>2, PTL DEF PollerSpec, Spec

LEMMA PollerRunsAlerts == PollerSpec => Ops!Spec
<1>1. PollerInit => Ops!Init
  BY DEF PollerInit
<1>2. [PollerNext]_pollerVars => [Ops!Next]_(Ops!vars)
  BY DEF PollerNext, pollerVars, opsVars, Ops!vars, Ops!evaluators, Ops!world
<1> QED
  BY <1>1, <1>2, PTL DEF PollerSpec, Ops!Spec

\* Whatever else the poller does, the boards of a vendor keep their distance.
THEOREM PollerKeepsSpacing == PollerSpec => []SlotsAreSpaced
<1>1. Pacer!Spec => []Pacer!SlotsAreSpaced
  BY PollerAssumption, Spacious
<1> QED
  BY <1>1, PollerRunsPacer, PTL DEF SlotsAreSpaced

\* Whatever else the poller does, its alerts are typed, quiet and followed by recoveries.
THEOREM PollerIsHonest == PollerSpec => AlertsAreHonest
<1>1. Ops!Spec => []Ops!TypeOK
  BY PollerAssumption, AlertsTypeCorrect
<1>2. Ops!Spec => []Ops!RecoveryIsOwed
  BY PollerAssumption, RecoveriesAreOwed
<1>3. Ops!Spec => Ops!WatchdogIsQuiet
  BY PollerAssumption, QuietWatchdog
<1> QED
  BY <1>1, <1>2, <1>3, PollerRunsAlerts, PTL DEF AlertsAreHonest

\* Of the poller whose only runner is the daemon, what its books say of the past holds.
THEOREM PollerKeepsItsBooks ==
    ASSUME Solo, Daemons # {}
    PROVE  PollerSpec => [](SuppressionIsEarned /\ StampedMeansPolled /\ AttemptedInTime)
<1> QED
  BY SuppressedForCause, StampIsHonest, HourAtMost, PollerRunsTier, PTL
=============================================================================
