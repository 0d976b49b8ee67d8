--------------------------- MODULE PollCycleProofs ---------------------------
(***************************************************************************)
(* Proofs about PollCycle, for any cycles, boards, jobs and bounds.        *)
(***************************************************************************)
EXTENDS PollCycle, TLAPS

USE DEF store, world, cycle, history

\* The tables, the cycles' local state and the histories keep their types, and a
\* stored or received listing holds postings of its own board only.
THEOREM TypeCorrect == Spec => []TypeOK
<1>1. Init => TypeOK
  BY PollAssumption DEF Init, TypeOK, Row, Fate, Phase, Settings, Snapshot, NoCycle,
     Generation, Posts
<1>2. TypeOK /\ [Next]_vars => TypeOK'
  <2> SUFFICES ASSUME TypeOK, [Next]_vars PROVE TypeOK'
    OBVIOUS
  <2> USE PollAssumption DEF TypeOK
  <2>1. ASSUME NEW c \in Cycles, NEW dry \in BOOLEAN, NEW due \in SUBSET Boards,
               Start(c, dry, due)
        PROVE  TypeOK'
    BY <2>1 DEF Start, Phase, Snapshot
  <2>2. ASSUME NEW c \in Cycles, NEW b \in Boards, Receive(c, b)
        PROVE  TypeOK'
    BY <2>2 DEF Receive, Posts
  <2>3. ASSUME NEW c \in Cycles, NEW b \in Boards, NotModified(c, b)
        PROVE  TypeOK'
    BY <2>3 DEF NotModified
  <2>4. ASSUME NEW c \in Cycles, NEW b \in Boards, Absorb(c, b)
        PROVE  TypeOK'
    <3> DEFINE L == reply[c][b]
    <3>1. /\ L \in SUBSET Jobs /\ L \subseteq Posts(b)
          /\ snap[c].cfg.gen \in Nat
      BY <2>4 DEF Absorb, Settings, Snapshot, Generation
    <3>2. Matches(c, L) \subseteq Jobs /\ Rejects(c, L) \subseteq Jobs
      BY <3>1 DEF Matches, Rejects, Screened
    <3>3. evaluated' \in [Jobs -> Nat]
      BY <2>4, <3>1 DEF Absorb, RecordRejected, Stamp
    <3>4. /\ sourceState' \in [Boards -> {None} \union SUBSET Jobs]
          /\ \A d \in Boards : sourceState'[d] # None => sourceState'[d] \subseteq Posts(d)
      BY <2>4, <3>1 DEF Absorb, SaveHint
    <3>5. lost' \in [Jobs -> Fate] /\ rejected' \subseteq Jobs
      BY <2>4, <3>2 DEF Absorb, Fate
    <3>6. matched' \in [Cycles -> SUBSET Jobs]
      BY <2>4, <3>2 DEF Absorb
    <3>7. /\ reply' \in [Cycles -> [Boards -> {None} \union SUBSET Jobs]]
          /\ \A d \in Cycles, e \in Boards :
                reply'[d][e] # None => reply'[d][e] \subseteq Posts(e)
      BY <2>4 DEF Absorb
    <3>8. todo' \in [Cycles -> SUBSET Boards]
      BY <2>4 DEF Absorb
    <3> QED
      BY <2>4, <3>3, <3>4, <3>5, <3>6, <3>7, <3>8 DEF Absorb, Posts
  <2>5. ASSUME NEW c \in Cycles, NEW keep \in SUBSET matched[c], CapForScoring(c, keep)
        PROVE  TypeOK'
    BY <2>5 DEF CapForScoring, DropHints, Phase
  <2>6. ASSUME NEW c \in Cycles, NEW j \in Jobs, ScoreLow(c, j)
        PROVE  TypeOK'
    BY <2>6 DEF ScoreLow, InsertRow, Row, Fate
  <2>7. ASSUME NEW c \in Cycles, NEW j \in Jobs, ScorePass(c, j)
        PROVE  TypeOK'
    BY <2>7 DEF ScorePass
  <2>8. ASSUME NEW c \in Cycles, NEW j \in Jobs, ClaimForNotify(c, j)
        PROVE  TypeOK'
    BY <2>8 DEF ClaimForNotify, InsertRow, Row, Fate
  <2>9. ASSUME NEW c \in Cycles, EndScoring(c)
        PROVE  TypeOK'
    BY <2>9 DEF EndScoring, Phase, NoCycle, Snapshot, Settings, Generation
  <2>10. ASSUME NEW c \in Cycles, Deliver(c)
        PROVE  TypeOK'
    BY <2>10 DEF Deliver
  <2>11. ASSUME NEW c \in Cycles, NothingToSend(c)
        PROVE  TypeOK'
    BY <2>11 DEF NothingToSend
  <2>12. ASSUME NEW c \in Cycles, EndCycle(c)
        PROVE  TypeOK'
    BY <2>12 DEF EndCycle, Phase, NoCycle, Snapshot, Settings, Generation
  <2>13. ASSUME NEW c \in Cycles, NEW b \in Boards, FetchFails(c, b)
        PROVE  TypeOK'
    BY <2>13 DEF FetchFails, Mishap
  <2>14. ASSUME NEW c \in Cycles, NEW b \in Boards, ScreenFails(c, b)
        PROVE  TypeOK'
    BY <2>14 DEF ScreenFails, Mishap
  <2>15. ASSUME NEW c \in Cycles, ReleaseClaim(c)
        PROVE  TypeOK'
    <3>1. mishaps' \in Nat
      BY <2>15 DEF ReleaseClaim, Mishap
    <3>2. /\ seenJobs' \in [Jobs -> Row] /\ lost' \in [Jobs -> Fate]
          /\ sending' \in [Cycles -> Jobs \union {None}]
      BY <2>15 DEF ReleaseClaim, Row, Fate
    <3> QED
      BY <2>15, <3>1, <3>2 DEF ReleaseClaim, Posts
  <2>16. ASSUME NEW c \in Cycles, Abort(c)
        PROVE  TypeOK'
    <3>1. NoCycle \in Snapshot
      BY DEF NoCycle, Snapshot, Settings, Generation
    <3>2. lost' \in [Jobs -> Fate]
      BY <2>16 DEF Abort, Fate
    <3>3. mishaps' \in Nat
      BY <2>16 DEF Abort, Mishap
    <3>4. /\ reply' \in [Cycles -> [Boards -> {None} \union SUBSET Jobs]]
          /\ prior' \in [Cycles -> [Boards -> {None} \union SUBSET Jobs]]
          /\ \A d \in Cycles, e \in Boards :
                reply'[d][e] # None => reply'[d][e] \subseteq Posts(e)
      BY <2>16 DEF Abort
    <3>5. /\ pc' \in [Cycles -> Phase] /\ snap' \in [Cycles -> Snapshot]
          /\ todo' \in [Cycles -> SUBSET Boards] /\ matched' \in [Cycles -> SUBSET Jobs]
          /\ scored' \in [Cycles -> SUBSET Jobs]
          /\ sending' \in [Cycles -> Jobs \union {None}]
      BY <2>16, <3>1 DEF Abort, Phase
    <3> QED
      BY <2>16, <3>2, <3>3, <3>4, <3>5 DEF Abort, Posts
  <2>17. ASSUME NEW b \in Boards, NEW L \in SUBSET Jobs, BoardChanges(b, L)
        PROVE  TypeOK'
    BY <2>17 DEF BoardChanges
  <2>18. ASSUME NEW allow \in SUBSET Jobs, NEW sinks \in SinkChoices,
                ChangeSettings(allow, sinks)
        PROVE  TypeOK'
    BY <2>18 DEF ChangeSettings, Settings, Generation
  <2>19. ASSUME NEW j \in Jobs, SetStatus(j)
        PROVE  TypeOK'
    BY <2>19 DEF SetStatus, Row
  <2>20. ASSUME NEW j \in Jobs, Expire(j)
        PROVE  TypeOK'
    BY <2>20 DEF Expire, Mishap, Row
  <2>21. ASSUME NEW aged \in SUBSET Jobs, Prune(aged)
        PROVE  TypeOK'
    <3>1. settings.gen \in Nat
      BY DEF Settings, Generation
    <3>2. /\ seenJobs' \in [Jobs -> Row] /\ delivered' \in [Jobs -> Nat]
          /\ lost' \in [Jobs -> Fate] /\ evaluated' \in [Jobs -> Nat]
      BY <2>21, <3>1 DEF Prune, Row, Fate
    <3> QED
      BY <2>21, <3>2 DEF Prune, Posts
  <2>22. CASE UNCHANGED vars
    BY <2>22 DEF vars
  <2> HIDE DEF TypeOK
  <2>23. ASSUME NEW c \in Cycles, Work(c) PROVE TypeOK'
    BY <2>23, <2>2, <2>3, <2>4, <2>5, <2>6, <2>7, <2>8, <2>9, <2>10, <2>11, <2>12
       DEF Work
  <2>24. ASSUME NEW c \in Cycles, Fault(c) PROVE TypeOK'
    BY <2>24, <2>13, <2>14, <2>15, <2>16 DEF Fault
  <2>25. CASE Environment
    BY <2>25, <2>17, <2>18, <2>19, <2>20, <2>21 DEF Environment
  <2> QED
    BY <2>1, <2>22, <2>23, <2>24, <2>25 DEF Next
<1> QED
  BY <1>1, <1>2, PTL DEF Spec

-----------------------------------------------------------------------------
(* Claims *)

ClaimInv == TypeOK /\ FanoutIsExclusive /\ AlertedOnce

\* Steps that touch no row, no fan-out and no delivery keep the claims as they are.
LEMMA QuietKeepsClaims ==
    ASSUME FanoutIsExclusive, AlertedOnce, UNCHANGED <<seenJobs, sending, delivered>>
    PROVE  FanoutIsExclusive' /\ AlertedOnce'
BY DEF FanoutIsExclusive, AlertedOnce

\* Claims are exclusive and nothing is alerted twice, with any number of cycles,
\* boards and postings: together with the types the two are inductive.
LEMMA ClaimStep == ClaimInv /\ TypeOK' /\ [Next]_vars => FanoutIsExclusive' /\ AlertedOnce'
<1> SUFFICES ASSUME TypeOK, FanoutIsExclusive, AlertedOnce, TypeOK', [Next]_vars
             PROVE  FanoutIsExclusive' /\ AlertedOnce'
  BY DEF ClaimInv
<1>0. /\ seenJobs \in [Jobs -> Row] /\ sending \in [Cycles -> Jobs \union {None}]
      /\ delivered \in [Jobs -> Nat] /\ None \notin Jobs
  BY PollAssumption DEF TypeOK
<1>1. ASSUME NEW c \in Cycles, NEW dry \in BOOLEAN, NEW due \in SUBSET Boards,
             Start(c, dry, due)
      PROVE  FanoutIsExclusive' /\ AlertedOnce'
  BY <1>1, QuietKeepsClaims DEF Start
<1>2. ASSUME NEW c \in Cycles, NEW b \in Boards,
             Receive(c, b) \/ NotModified(c, b) \/ Absorb(c, b)
      PROVE  FanoutIsExclusive' /\ AlertedOnce'
  BY <1>2, QuietKeepsClaims DEF Receive, NotModified, Absorb
<1>3. ASSUME NEW c \in Cycles, NEW keep \in SUBSET matched[c], CapForScoring(c, keep)
      PROVE  FanoutIsExclusive' /\ AlertedOnce'
  BY <1>3, QuietKeepsClaims DEF CapForScoring
<1>4. ASSUME NEW c \in Cycles, NEW j \in Jobs, ScorePass(c, j)
      PROVE  FanoutIsExclusive' /\ AlertedOnce'
  BY <1>4, QuietKeepsClaims DEF ScorePass
<1>5. ASSUME NEW c \in Cycles, EndScoring(c) \/ EndCycle(c)
      PROVE  FanoutIsExclusive' /\ AlertedOnce'
  BY <1>5, QuietKeepsClaims DEF EndScoring, EndCycle
<1>6. ASSUME NEW c \in Cycles, NEW j \in Jobs, ScoreLow(c, j)
      PROVE  FanoutIsExclusive' /\ AlertedOnce'
  BY <1>0, <1>6 DEF ScoreLow, InsertRow, FanoutIsExclusive, AlertedOnce
<1>7. ASSUME NEW c \in Cycles, NEW j \in Jobs, ClaimForNotify(c, j)
      PROVE  FanoutIsExclusive' /\ AlertedOnce'
  <2>1. CASE seenJobs[j] = "none"
    BY <1>0, <1>7, <2>1 DEF ClaimForNotify, InsertRow, FanoutIsExclusive, AlertedOnce
  <2>2. CASE seenJobs[j] # "none"
    BY <1>0, <1>7, <2>2 DEF ClaimForNotify, InsertRow, FanoutIsExclusive, AlertedOnce
  <2> QED
    BY <2>1, <2>2
<1>8. ASSUME NEW c \in Cycles, Deliver(c)
      PROVE  FanoutIsExclusive' /\ AlertedOnce'
  BY <1>0, <1>8 DEF Deliver, FanoutIsExclusive, AlertedOnce
<1>9. ASSUME NEW c \in Cycles, NothingToSend(c)
      PROVE  FanoutIsExclusive' /\ AlertedOnce'
  BY <1>0, <1>9 DEF NothingToSend, FanoutIsExclusive, AlertedOnce
<1>10. ASSUME NEW c \in Cycles, ReleaseClaim(c)
      PROVE  FanoutIsExclusive' /\ AlertedOnce'
  BY <1>0, <1>10 DEF ReleaseClaim, FanoutIsExclusive, AlertedOnce
<1>11. ASSUME NEW c \in Cycles, Abort(c)
      PROVE  FanoutIsExclusive' /\ AlertedOnce'
  BY <1>0, <1>11 DEF Abort, FanoutIsExclusive, AlertedOnce
<1>12. ASSUME NEW c \in Cycles, NEW b \in Boards, FetchFails(c, b) \/ ScreenFails(c, b)
      PROVE  FanoutIsExclusive' /\ AlertedOnce'
  BY <1>12, QuietKeepsClaims DEF FetchFails, ScreenFails
<1>13. ASSUME NEW b \in Boards, NEW L \in SUBSET Jobs, BoardChanges(b, L)
      PROVE  FanoutIsExclusive' /\ AlertedOnce'
  BY <1>13, QuietKeepsClaims DEF BoardChanges
<1>14. ASSUME NEW allow \in SUBSET Jobs, NEW sinks \in SinkChoices,
              ChangeSettings(allow, sinks)
      PROVE  FanoutIsExclusive' /\ AlertedOnce'
  BY <1>14, QuietKeepsClaims DEF ChangeSettings
<1>15. ASSUME NEW j \in Jobs, SetStatus(j)
      PROVE  FanoutIsExclusive' /\ AlertedOnce'
  BY <1>0, <1>15 DEF SetStatus, FanoutIsExclusive, AlertedOnce
<1>16. ASSUME NEW j \in Jobs, Expire(j)
      PROVE  FanoutIsExclusive' /\ AlertedOnce'
  BY <1>0, <1>16 DEF Expire, FanoutIsExclusive, AlertedOnce
<1>17. ASSUME NEW aged \in SUBSET Jobs, Prune(aged)
      PROVE  FanoutIsExclusive' /\ AlertedOnce'
  BY <1>0, <1>17 DEF Prune, FanoutIsExclusive, AlertedOnce
<1>18. CASE UNCHANGED vars
  BY <1>18, QuietKeepsClaims DEF vars
<1>19. ASSUME NEW c \in Cycles, Work(c) PROVE FanoutIsExclusive' /\ AlertedOnce'
  BY <1>19, <1>2, <1>3, <1>4, <1>5, <1>6, <1>7, <1>8, <1>9 DEF Work
<1>20. ASSUME NEW c \in Cycles, Fault(c) PROVE FanoutIsExclusive' /\ AlertedOnce'
  BY <1>20, <1>10, <1>11, <1>12 DEF Fault
<1>21. CASE Environment
  BY <1>21, <1>13, <1>14, <1>15, <1>16, <1>17 DEF Environment
<1> QED
  BY <1>1, <1>18, <1>19, <1>20, <1>21 DEF Next

LEMMA ClaimsHold == Spec => []ClaimInv
<1>1. Init => FanoutIsExclusive /\ AlertedOnce
  BY DEF Init, FanoutIsExclusive, AlertedOnce
<1> QED
  BY <1>1, TypeCorrect, ClaimStep, PTL DEF Spec, ClaimInv

\* claim_for_notify gives each posting to one cycle: whatever cycles overlap, crash
\* or time out, a fan-out in flight owns a row nobody else sends.
THEOREM ExclusiveFanout == Spec => []FanoutIsExclusive
BY ClaimsHold, PTL DEF ClaimInv

\* No posting is alerted twice in the life of its row, and an alerted posting keeps
\* its row: no release, suppression or prune takes it away early.
THEOREM SingleAlert == Spec => []AlertedOnce
BY ClaimsHold, PTL DEF ClaimInv

-----------------------------------------------------------------------------
(* Refinement of the ledger *)

LedgerMoves == [Ledger!Next]_(Ledger!ledger)

\* Steps that touch no row and no delivery are stutters of the ledger.
LEMMA QuietLedger ==
    ASSUME UNCHANGED <<seenJobs, delivered>>
    PROVE  UNCHANGED Ledger!ledger
BY DEF Ledger!ledger, Standing

\* Under the claim invariant every step of the cycles, the sinks, the user and the
\* prune job maps to a step of the ledger or to a stutter.
LEMMA LedgerStep == ClaimInv /\ [Next]_vars => LedgerMoves
<1> SUFFICES ASSUME TypeOK, FanoutIsExclusive, AlertedOnce, [Next]_vars
             PROVE  LedgerMoves
  BY DEF ClaimInv
<1>0. /\ seenJobs \in [Jobs -> Row] /\ sending \in [Cycles -> Jobs \union {None}]
      /\ delivered \in [Jobs -> Nat] /\ None \notin Jobs
  BY PollAssumption DEF TypeOK
<1>1. ASSUME UNCHANGED <<seenJobs, delivered>> PROVE LedgerMoves
  BY <1>1, QuietLedger DEF LedgerMoves
<1>2. ASSUME NEW c \in Cycles, NEW dry \in BOOLEAN, NEW due \in SUBSET Boards,
             Start(c, dry, due)
      PROVE  LedgerMoves
  BY <1>1, <1>2 DEF Start
<1>3. ASSUME NEW c \in Cycles, NEW b \in Boards,
             Receive(c, b) \/ NotModified(c, b) \/ Absorb(c, b)
      PROVE  LedgerMoves
  BY <1>1, <1>3 DEF Receive, NotModified, Absorb
<1>4. ASSUME NEW c \in Cycles, NEW keep \in SUBSET matched[c], CapForScoring(c, keep)
      PROVE  LedgerMoves
  BY <1>1, <1>4 DEF CapForScoring
<1>5. ASSUME NEW c \in Cycles, NEW j \in Jobs, ScorePass(c, j) PROVE LedgerMoves
  BY <1>1, <1>5 DEF ScorePass
<1>6. ASSUME NEW c \in Cycles, EndScoring(c) \/ EndCycle(c) \/ NothingToSend(c)
      PROVE  LedgerMoves
  BY <1>1, <1>6 DEF EndScoring, EndCycle, NothingToSend
<1>7. ASSUME NEW c \in Cycles, NEW j \in Jobs, ScoreLow(c, j) PROVE LedgerMoves
  <2>1. CASE Live(c) /\ seenJobs[j] = "none"
    <3>1. seenJobs' = [seenJobs EXCEPT ![j] = "suppressed"] /\ delivered' = delivered
      BY <1>7, <2>1 DEF ScoreLow, InsertRow
    <3>2. Ledger!Mute(j)
      BY <1>0, <2>1, <3>1 DEF Ledger!Mute, Ledger!Move, Standing, Row
    <3> QED
      BY <3>2 DEF Ledger!Next, LedgerMoves
  <2>2. CASE ~(Live(c) /\ seenJobs[j] = "none")
    BY <1>1, <1>7, <2>2 DEF ScoreLow, InsertRow
  <2> QED
    BY <2>1, <2>2
<1>8. ASSUME NEW c \in Cycles, NEW j \in Jobs, ClaimForNotify(c, j) PROVE LedgerMoves
  <2>1. CASE seenJobs[j] = "none"
    <3>1. /\ seenJobs' = [seenJobs EXCEPT ![j] = "notified"] /\ delivered' = delivered
          /\ delivered[j] = 0
      BY <1>0, <1>8, <2>1 DEF ClaimForNotify, InsertRow, AlertedOnce
    <3>2. Ledger!Claim(j)
      BY <1>0, <2>1, <3>1 DEF Ledger!Claim, Ledger!Move, Standing, Row
    <3> QED
      BY <3>2 DEF Ledger!Next, LedgerMoves
  <2>2. CASE seenJobs[j] # "none"
    BY <1>1, <1>8, <2>2 DEF ClaimForNotify, InsertRow
  <2> QED
    BY <2>1, <2>2
<1>9. ASSUME NEW c \in Cycles, Deliver(c) PROVE LedgerMoves
  <2>0. PICK j \in Jobs : j = sending[c]
    BY <1>0, <1>9 DEF Deliver
  <2>1. /\ seenJobs[j] \in {"notified", "kept"} /\ delivered[j] = 0
        /\ delivered' = [delivered EXCEPT ![j] = @ + 1] /\ seenJobs' = seenJobs
    BY <1>0, <1>9, <2>0 DEF Deliver, FanoutIsExclusive
  <2>2. /\ Standing(j) = "claimed" /\ Standing(j)' = "alerted"
        /\ \A i \in Jobs \ {j} : Standing(i)' = Standing(i)
    BY <1>0, <2>1 DEF Standing
  <2>3. Ledger!Alert(j)
    BY <2>1, <2>2 DEF Ledger!Alert, Ledger!Move
  <2> QED
    BY <2>1, <2>3 DEF Ledger!Next, LedgerMoves
<1>10. ASSUME NEW c \in Cycles, ReleaseClaim(c) PROVE LedgerMoves
  <2> DEFINE j == sending[c]
  <2>1. /\ j \in Jobs /\ seenJobs[j] \in {"notified", "kept"} /\ delivered[j] = 0
        /\ seenJobs' = [seenJobs EXCEPT ![j] = "none"] /\ delivered' = delivered
    BY <1>0, <1>10 DEF ReleaseClaim, FanoutIsExclusive
  <2>2. Ledger!Withdraw(j)
    BY <1>0, <2>1 DEF Ledger!Withdraw, Ledger!Move, Standing
  <2> QED
    BY <2>1, <2>2 DEF Ledger!Next, LedgerMoves
<1>11. ASSUME NEW c \in Cycles, Abort(c) PROVE LedgerMoves
  BY <1>1, <1>11 DEF Abort
<1>12. ASSUME NEW c \in Cycles, NEW b \in Boards, FetchFails(c, b) \/ ScreenFails(c, b)
       PROVE  LedgerMoves
  BY <1>1, <1>12 DEF FetchFails, ScreenFails
<1>13. ASSUME NEW b \in Boards, NEW L \in SUBSET Jobs, BoardChanges(b, L) PROVE LedgerMoves
  BY <1>1, <1>13 DEF BoardChanges
<1>14. ASSUME NEW allow \in SUBSET Jobs, NEW sinks \in SinkChoices,
              ChangeSettings(allow, sinks)
       PROVE  LedgerMoves
  BY <1>1, <1>14 DEF ChangeSettings
<1>15. ASSUME NEW j \in Jobs, SetStatus(j) PROVE LedgerMoves
  <2>1. UNCHANGED Ledger!ledger
    BY <1>0, <1>15 DEF SetStatus, Ledger!ledger, Standing
  <2> QED
    BY <2>1 DEF LedgerMoves
<1>16. ASSUME NEW j \in Jobs, Expire(j) PROVE LedgerMoves
  <2>1. /\ seenJobs[j] \in {"notified", "suppressed"} /\ delivered' = delivered
        /\ seenJobs' = [seenJobs EXCEPT ![j] = "expired"]
    BY <1>16 DEF Expire
  <2>2. Ledger!Lapse(j)
    BY <1>0, <2>1 DEF Ledger!Lapse, Ledger!Move, Standing
  <2> QED
    BY <2>2 DEF Ledger!Next, LedgerMoves
<1>17. ASSUME NEW aged \in SUBSET Jobs, Prune(aged) PROVE LedgerMoves
  <2>1. Ledger!Forget
    BY <1>0, <1>17 DEF Prune, Ledger!Forget, Standing, Row
  <2> QED
    BY <2>1 DEF Ledger!Next, LedgerMoves
<1>18. CASE UNCHANGED vars
  BY <1>1, <1>18 DEF vars
<1>19. ASSUME NEW c \in Cycles, Work(c) PROVE LedgerMoves
  BY <1>19, <1>3, <1>4, <1>5, <1>6, <1>7, <1>8, <1>9 DEF Work
<1>20. ASSUME NEW c \in Cycles, Fault(c) PROVE LedgerMoves
  BY <1>20, <1>10, <1>11, <1>12 DEF Fault
<1>21. CASE Environment
  BY <1>21, <1>13, <1>14, <1>15, <1>16, <1>17 DEF Environment
<1> QED
  BY <1>2, <1>18, <1>19, <1>20, <1>21 DEF Next

\* Any number of overlapping cycles implement the ledger of PostingLedger: a posting
\* is alerted at most once per record, only while claimed, and an alert is final.
THEOREM LedgerRefined == Spec => KeepsLedger
<1>1. Init => Ledger!Init
  BY DEF Init, Ledger!Init, Standing
<1> QED
  BY <1>1, ClaimsHold, LedgerStep, PTL DEF Spec, KeepsLedger, Ledger!Spec, LedgerMoves

-----------------------------------------------------------------------------
(* Cache hints *)

\* What HintsHideNothing rests on: a row of evaluated_postings is some live cycle's
\* rejection, and no match is left unscored when the claims begin.
HintSupport ==
    /\ \A j \in Jobs : evaluated[j] # 0 => j \in rejected
    /\ \A c \in Cycles : pc[c] = "notify" => matched[c] = {}

HintInv == TypeOK /\ HintSupport

LEMMA SupportStep == HintInv /\ TypeOK' /\ [Next]_vars => HintSupport'
<1> SUFFICES ASSUME TypeOK, HintSupport, TypeOK', [Next]_vars PROVE HintSupport'
  BY DEF HintInv
<1>0. /\ evaluated \in [Jobs -> Nat] /\ pc \in [Cycles -> Phase]
      /\ matched \in [Cycles -> SUBSET Jobs]
  BY DEF TypeOK
<1>1. ASSUME UNCHANGED <<evaluated, rejected, pc, matched>> PROVE HintSupport'
  BY <1>1 DEF HintSupport
<1>2. ASSUME NEW c \in Cycles, NEW dry \in BOOLEAN, NEW due \in SUBSET Boards,
             Start(c, dry, due)
      PROVE  HintSupport'
  BY <1>0, <1>2 DEF Start, HintSupport
<1>3. ASSUME NEW c \in Cycles, NEW b \in Boards,
             Receive(c, b) \/ NotModified(c, b) \/ FetchFails(c, b) \/ ScreenFails(c, b)
      PROVE  HintSupport'
  BY <1>1, <1>3 DEF Receive, NotModified, FetchFails, ScreenFails
<1>4. ASSUME NEW c \in Cycles, NEW b \in Boards, Absorb(c, b) PROVE HintSupport'
  BY <1>0, <1>4 DEF Absorb, RecordRejected, Stamp, HintSupport
<1>5. ASSUME NEW c \in Cycles, NEW keep \in SUBSET matched[c], CapForScoring(c, keep)
      PROVE  HintSupport'
  BY <1>0, <1>5 DEF CapForScoring, HintSupport
<1>6. ASSUME NEW c \in Cycles, NEW j \in Jobs, ScoreLow(c, j) PROVE HintSupport'
  BY <1>0, <1>6 DEF ScoreLow, HintSupport
<1>7. ASSUME NEW c \in Cycles, NEW j \in Jobs, ScorePass(c, j) PROVE HintSupport'
  BY <1>0, <1>7 DEF ScorePass, HintSupport
<1>8. ASSUME NEW c \in Cycles, NEW j \in Jobs, ClaimForNotify(c, j) PROVE HintSupport'
  BY <1>1, <1>8 DEF ClaimForNotify
<1>9. ASSUME NEW c \in Cycles, EndScoring(c) PROVE HintSupport'
  BY <1>0, <1>9 DEF EndScoring, HintSupport
<1>10. ASSUME NEW c \in Cycles, EndCycle(c) PROVE HintSupport'
  BY <1>0, <1>10 DEF EndCycle, HintSupport
<1>11. ASSUME NEW c \in Cycles, Deliver(c) \/ NothingToSend(c) \/ ReleaseClaim(c)
       PROVE  HintSupport'
  BY <1>1, <1>11 DEF Deliver, NothingToSend, ReleaseClaim
<1>12. ASSUME NEW c \in Cycles, Abort(c) PROVE HintSupport'
  BY <1>0, <1>12 DEF Abort, HintSupport
<1>13. ASSUME NEW b \in Boards, NEW L \in SUBSET Jobs, BoardChanges(b, L)
       PROVE  HintSupport'
  BY <1>1, <1>13 DEF BoardChanges
<1>14. ASSUME NEW allow \in SUBSET Jobs, NEW sinks \in SinkChoices,
              ChangeSettings(allow, sinks)
       PROVE  HintSupport'
  BY <1>1, <1>14 DEF ChangeSettings
<1>15. ASSUME NEW j \in Jobs, SetStatus(j) \/ Expire(j) PROVE HintSupport'
  BY <1>1, <1>15 DEF SetStatus, Expire
<1>16. ASSUME NEW aged \in SUBSET Jobs, Prune(aged) PROVE HintSupport'
  BY <1>0, <1>16 DEF Prune, HintSupport
<1>17. CASE UNCHANGED vars
  BY <1>1, <1>17 DEF vars
<1>18. ASSUME NEW c \in Cycles, Work(c) PROVE HintSupport'
  BY <1>18, <1>3, <1>4, <1>5, <1>6, <1>7, <1>8, <1>9, <1>10, <1>11 DEF Work
<1>19. ASSUME NEW c \in Cycles, Fault(c) PROVE HintSupport'
  BY <1>19, <1>3, <1>11, <1>12 DEF Fault
<1>20. CASE Environment
  BY <1>20, <1>13, <1>14, <1>15, <1>16 DEF Environment
<1> QED
  BY <1>2, <1>17, <1>18, <1>19, <1>20 DEF Next

LEMMA SupportHolds == Spec => []HintInv
<1>1. Init => HintSupport
  BY DEF Init, HintSupport
<1> QED
  BY <1>1, TypeCorrect, SupportStep, PTL DEF Spec, HintInv

\* A step that stores no ETag and loses no posting hides nothing.
LEMMA NothingHidden ==
    ASSUME HintsHideNothing, TypeOK,
           \A b \in Boards : sourceState'[b] # None => sourceState'[b] = sourceState[b],
           \A j \in Jobs : sourceState'[Home[j]] # None /\ Accounted(j) => Accounted(j)'
    PROVE  HintsHideNothing'
<1> SUFFICES ASSUME NEW b \in Boards, sourceState'[b] # None, NEW j \in sourceState'[b]
             PROVE  Accounted(j)'
  BY DEF HintsHideNothing
<1>1. sourceState[b] # None /\ j \in sourceState[b] /\ sourceState[b] \subseteq Posts(b)
  BY DEF TypeOK
<1>2. j \in Jobs /\ Home[j] = b
  BY <1>1 DEF Posts
<1> QED
  BY <1>1, <1>2 DEF HintsHideNothing

\* Steps of a cycle that only fetch or fail, and the world's own steps, change
\* nothing a posting's account is made of.
LEMMA QuietAccount ==
    ASSUME UNCHANGED <<seenJobs, rejected, lost, pc, snap, matched, scored>>
    PROVE  \A j \in Jobs : Accounted(j) => Accounted(j)'
BY DEF Accounted, InPipeline, Live

\* An ETag hides no undecided posting, in any overlap of cycles.
LEMMA HintStep ==
    HintInv /\ HintsHideNothing /\ TypeOK' /\ [Next]_vars => HintsHideNothing'
<1> SUFFICES ASSUME TypeOK, HintSupport, HintsHideNothing, TypeOK', [Next]_vars
             PROVE  HintsHideNothing'
  BY DEF HintInv
<1>0. /\ pc \in [Cycles -> Phase] /\ snap \in [Cycles -> Snapshot]
      /\ matched \in [Cycles -> SUBSET Jobs] /\ scored \in [Cycles -> SUBSET Jobs]
      /\ seenJobs \in [Jobs -> Row] /\ lost \in [Jobs -> Fate]
      /\ sending \in [Cycles -> Jobs \union {None}] /\ None \notin Jobs
      /\ sourceState \in [Boards -> {None} \union SUBSET Jobs]
  BY PollAssumption DEF TypeOK
<1>1. ASSUME UNCHANGED <<sourceState, seenJobs, rejected, lost, pc, snap, matched, scored>>
      PROVE  HintsHideNothing'
  BY <1>1, QuietAccount, NothingHidden
<1>2. ASSUME NEW c \in Cycles, NEW dry \in BOOLEAN, NEW due \in SUBSET Boards,
             Start(c, dry, due)
      PROVE  HintsHideNothing'
  <2>1. \A j \in Jobs : InPipeline(j) => InPipeline(j)'
    BY <1>0, <1>2 DEF Start, InPipeline, Live
  <2> QED
    BY <1>2, <2>1, NothingHidden DEF Start, Accounted
<1>3. ASSUME NEW c \in Cycles, NEW b \in Boards, Absorb(c, b)
      PROVE  HintsHideNothing'
  <2> DEFINE L == reply[c][b]
  <2>1. \A j \in Jobs : InPipeline(j) => InPipeline(j)'
    BY <1>0, <1>3 DEF Absorb, InPipeline, Live
  <2>2. \A j \in Jobs : lost[j] # "no" => lost'[j] # "no" \/ InPipeline(j)'
    <3> SUFFICES ASSUME NEW j \in Jobs, lost[j] # "no", lost'[j] = "no"
                 PROVE  InPipeline(j)'
      OBVIOUS
    <3>1. Live(c) /\ j \in Matches(c, L)
      BY <1>3 DEF Absorb
    <3>2. pc'[c] # "idle" /\ snap'[c] = snap[c] /\ j \in matched'[c]
      BY <1>0, <1>3, <3>1 DEF Absorb
    <3> QED
      BY <3>1, <3>2 DEF InPipeline, Live
  <2>3. \A j \in Jobs : Accounted(j) => Accounted(j)'
    BY <1>3, <2>1, <2>2 DEF Absorb, Accounted
  <2>4. CASE sourceState' = sourceState
    BY <2>3, <2>4, NothingHidden
  <2>5. CASE Live(c) /\ sourceState' = [sourceState EXCEPT ![b] = L]
    <3>1. L # None /\ L \subseteq Posts(b)
      BY <1>3 DEF Absorb, TypeOK
    <3>2. \A j \in L : Accounted(j)'
      <4> SUFFICES ASSUME NEW j \in L PROVE Accounted(j)'
        OBVIOUS
      <4>1. j \in Jobs
        BY <3>1 DEF Posts
      <4>2. CASE j \in Malformed \/ ~Unseen(j) \/ evaluated[j] = snap[c].cfg.gen
        <5>1. snap[c].cfg.gen # 0
          BY <1>0 DEF Snapshot, Settings, Generation
        <5>2. Accounted(j)
          BY <4>1, <4>2, <5>1 DEF Unseen, Accounted, HintSupport
        <5> QED
          BY <2>3, <4>1, <5>2
      <4>3. CASE j \in Rejects(c, L)
        BY <1>3, <2>5, <4>3 DEF Absorb, Accounted
      <4>4. CASE j \in Matches(c, L)
        <5>1. pc'[c] # "idle" /\ snap'[c] = snap[c] /\ j \in matched'[c]
          BY <1>0, <1>3, <4>4 DEF Absorb
        <5> QED
          BY <2>5, <5>1 DEF Accounted, InPipeline, Live
      <4> QED
        BY <4>1, <4>2, <4>3, <4>4 DEF Rejects, Matches, Screened
    <3>3. ASSUME NEW d \in Boards \ {b}, sourceState'[d] # None, NEW j \in sourceState'[d]
          PROVE  Accounted(j)'
      <4>1. sourceState[d] # None /\ j \in sourceState[d] /\ j \in Jobs
        BY <1>0, <2>5, <3>3 DEF TypeOK, Posts
      <4> QED
        BY <2>3, <4>1 DEF HintsHideNothing
    <3> QED
      BY <1>0, <2>5, <3>2, <3>3 DEF HintsHideNothing
  <2> QED
    BY <1>3, <2>4, <2>5 DEF Absorb, SaveHint
<1>4. ASSUME NEW c \in Cycles, NEW keep \in SUBSET matched[c], CapForScoring(c, keep)
      PROVE  HintsHideNothing'
  <2>1. \A j \in Jobs : InPipeline(j) =>
            InPipeline(j)' \/ (Live(c) /\ j \in matched[c] \ keep)
    <3> SUFFICES ASSUME NEW j \in Jobs, NEW d \in Cycles, pc[d] # "idle", Live(d),
                        j \in matched[d] \union scored[d],
                        ~(Live(c) /\ j \in matched[c] \ keep)
                 PROVE  InPipeline(j)'
      BY DEF InPipeline
    <3>1. pc'[d] # "idle" /\ Live(d)'
      BY <1>0, <1>4 DEF CapForScoring, Live
    <3>2. j \in matched'[d] \union scored'[d]
      BY <1>0, <1>4 DEF CapForScoring
    <3> QED
      BY <3>1, <3>2 DEF InPipeline
  <2>2. \A j \in Jobs : Live(c) /\ j \in matched[c] \ keep => sourceState'[Home[j]] = None
    BY <1>4, PollAssumption DEF CapForScoring, DropHints, Deferred
  <2>3. \A b \in Boards : sourceState'[b] # None => sourceState'[b] = sourceState[b]
    BY <1>4 DEF CapForScoring, DropHints
  <2>4. UNCHANGED <<seenJobs, rejected, lost>>
    BY <1>4 DEF CapForScoring
  <2> QED
    BY <2>1, <2>2, <2>3, <2>4, NothingHidden DEF Accounted
<1>5. ASSUME NEW c \in Cycles, NEW j \in Jobs, ScoreLow(c, j) PROVE HintsHideNothing'
  <2>1. \A i \in Jobs : InPipeline(i) => InPipeline(i)' \/ (i = j /\ seenJobs'[j] # "none")
    <3> SUFFICES ASSUME NEW i \in Jobs, NEW d \in Cycles, pc[d] # "idle", Live(d),
                        i \in matched[d] \union scored[d],
                        ~(i = j /\ seenJobs'[j] # "none")
                 PROVE  InPipeline(i)'
      BY DEF InPipeline
    <3>1. pc'[d] # "idle" /\ Live(d)'
      BY <1>5 DEF ScoreLow, Live
    <3>2. i \in matched'[d] \union scored'[d]
      BY <1>0, <1>5 DEF ScoreLow, InsertRow
    <3> QED
      BY <3>1, <3>2 DEF InPipeline
  <2>2. \A i \in Jobs : seenJobs[i] # "none" => seenJobs'[i] # "none"
    BY <1>0, <1>5 DEF ScoreLow, InsertRow
  <2>3. \A i \in Jobs : lost[i] # "no" => lost'[i] # "no" \/ seenJobs'[i] # "none"
    BY <1>0, <1>5 DEF ScoreLow, InsertRow
  <2> QED
    BY <1>5, <2>1, <2>2, <2>3, NothingHidden DEF ScoreLow, Accounted
<1>6. ASSUME NEW c \in Cycles, NEW j \in Jobs, ScorePass(c, j) PROVE HintsHideNothing'
  <2>1. \A i \in Jobs : InPipeline(i) => InPipeline(i)'
    BY <1>0, <1>6 DEF ScorePass, InPipeline, Live
  <2> QED
    BY <1>6, <2>1, NothingHidden DEF ScorePass, Accounted
<1>7. ASSUME NEW c \in Cycles, NEW j \in Jobs, ClaimForNotify(c, j)
      PROVE  HintsHideNothing'
  <2>1. \A i \in Jobs : InPipeline(i) => InPipeline(i)' \/ (i = j /\ seenJobs'[j] # "none")
    BY <1>0, <1>7 DEF ClaimForNotify, InsertRow, InPipeline, Live
  <2>2. \A i \in Jobs : seenJobs[i] # "none" => seenJobs'[i] # "none"
    BY <1>0, <1>7 DEF ClaimForNotify, InsertRow
  <2>3. \A i \in Jobs : lost[i] # "no" => lost'[i] # "no" \/ seenJobs'[i] # "none"
    BY <1>0, <1>7 DEF ClaimForNotify, InsertRow
  <2> QED
    BY <1>7, <2>1, <2>2, <2>3, NothingHidden DEF ClaimForNotify, Accounted
<1>8. ASSUME NEW c \in Cycles, EndScoring(c) PROVE HintsHideNothing'
  <2>1. \A i \in Jobs : InPipeline(i) => InPipeline(i)'
    BY <1>0, <1>8 DEF EndScoring, InPipeline, Live
  <2> QED
    BY <1>8, <2>1, NothingHidden DEF EndScoring, Accounted
<1>9. ASSUME NEW c \in Cycles, EndCycle(c) PROVE HintsHideNothing'
  <2>1. \A i \in Jobs : InPipeline(i) => InPipeline(i)'
    BY <1>0, <1>9 DEF EndCycle, InPipeline, Live, HintSupport
  <2> QED
    BY <1>9, <2>1, NothingHidden DEF EndCycle, Accounted
<1>10. ASSUME NEW c \in Cycles, ReleaseClaim(c) PROVE HintsHideNothing'
  <2>1. \A i \in Jobs : /\ lost[i] # "no" => lost'[i] # "no"
                        /\ seenJobs[i] # "none" => seenJobs'[i] # "none" \/ lost'[i] # "no"
    BY <1>0, <1>10 DEF ReleaseClaim
  <2>2. \A i \in Jobs : InPipeline(i) => InPipeline(i)'
    BY <1>10 DEF ReleaseClaim, InPipeline, Live
  <2> QED
    BY <1>10, <2>1, <2>2, NothingHidden DEF ReleaseClaim, Accounted
<1>11. ASSUME NEW c \in Cycles, Abort(c) PROVE HintsHideNothing'
  <2>1. \A i \in Jobs : InPipeline(i) => InPipeline(i)' \/ lost'[i] # "no"
    BY <1>0, <1>11 DEF Abort, InPipeline, Live
  <2>2. \A i \in Jobs : lost[i] # "no" => lost'[i] # "no"
    BY <1>11 DEF Abort
  <2> QED
    BY <1>11, <2>1, <2>2, NothingHidden DEF Abort, Accounted
<1>12. ASSUME NEW j \in Jobs, SetStatus(j) \/ Expire(j) PROVE HintsHideNothing'
  <2>1. \A i \in Jobs : seenJobs[i] # "none" => seenJobs'[i] # "none"
    BY <1>0, <1>12 DEF SetStatus, Expire
  <2>2. UNCHANGED <<sourceState, rejected, lost, pc, snap, matched, scored>>
    BY <1>12 DEF SetStatus, Expire
  <2> QED
    BY <2>1, <2>2, NothingHidden DEF Accounted, InPipeline, Live
<1>13. ASSUME NEW aged \in SUBSET Jobs, Prune(aged) PROVE HintsHideNothing'
  <2>1. \A i \in Jobs : /\ lost[i] # "no" => lost'[i] # "no"
                        /\ seenJobs[i] # "none" => seenJobs'[i] # "none" \/ lost'[i] # "no"
    BY <1>13 DEF Prune
  <2>2. UNCHANGED <<sourceState, rejected, pc, snap, matched, scored>>
    BY <1>13 DEF Prune
  <2>3. \A i \in Jobs : InPipeline(i) => InPipeline(i)'
    BY <2>2 DEF InPipeline, Live
  <2>4. \A i \in Jobs : Accounted(i) => Accounted(i)'
    <3> SUFFICES ASSUME NEW i \in Jobs, Accounted(i) PROVE Accounted(i)'
      OBVIOUS
    <3>1. CASE seenJobs[i] # "none" \/ lost[i] # "no"
      BY <2>1, <3>1 DEF Accounted
    <3>2. CASE InPipeline(i)
      BY <2>3, <3>2 DEF Accounted
    <3>3. CASE i \in rejected \union Malformed
      BY <2>2, <3>3 DEF Accounted
    <3> QED
      BY <3>1, <3>2, <3>3 DEF Accounted
  <2> QED
    BY <2>2, <2>4, NothingHidden
<1>14. ASSUME NEW c \in Cycles, NEW b \in Boards,
              Receive(c, b) \/ NotModified(c, b) \/ FetchFails(c, b) \/ ScreenFails(c, b)
       PROVE  HintsHideNothing'
  BY <1>1, <1>14 DEF Receive, NotModified, FetchFails, ScreenFails
<1>15. ASSUME NEW c \in Cycles, Deliver(c) \/ NothingToSend(c) PROVE HintsHideNothing'
  BY <1>1, <1>15 DEF Deliver, NothingToSend
<1>16. ASSUME NEW b \in Boards, NEW L \in SUBSET Jobs, BoardChanges(b, L)
       PROVE  HintsHideNothing'
  BY <1>1, <1>16 DEF BoardChanges
<1>17. ASSUME NEW allow \in SUBSET Jobs, NEW sinks \in SinkChoices,
              ChangeSettings(allow, sinks)
       PROVE  HintsHideNothing'
  BY <1>1, <1>17 DEF ChangeSettings
<1>18. CASE UNCHANGED vars
  BY <1>1, <1>18 DEF vars
<1>19. ASSUME NEW c \in Cycles, Work(c) PROVE HintsHideNothing'
  BY <1>19, <1>3, <1>4, <1>5, <1>6, <1>7, <1>8, <1>9, <1>14, <1>15 DEF Work
<1>20. ASSUME NEW c \in Cycles, Fault(c) PROVE HintsHideNothing'
  BY <1>20, <1>10, <1>11, <1>14 DEF Fault
<1>21. CASE Environment
  BY <1>21, <1>12, <1>13, <1>16, <1>17 DEF Environment
<1> QED
  BY <1>2, <1>18, <1>19, <1>20, <1>21 DEF Next

\* A stored ETag, behind which no fetch returns the board's postings again, covers
\* only postings with a row, a live rejection, a live cycle carrying them, or one of
\* the three known losses; the scoring cap is not a fourth.
THEOREM HintsSound == Spec => []HintsHideNothing
<1>1. Init => HintsHideNothing
  BY DEF Init, HintsHideNothing
<1> QED
  BY <1>1, SupportHolds, HintStep, PTL DEF Spec, HintInv

-----------------------------------------------------------------------------
(* Dry runs *)

\* A dry cycle never reaches the claims, and a fan-out belongs to them.
DryInv ==
    \A c \in Cycles : /\ pc[c] = "notify" => Live(c)
                      /\ sending[c] # None => pc[c] = "notify"

LEMMA DryStep == TypeOK /\ DryInv /\ [Next]_vars => DryInv'
<1> SUFFICES ASSUME TypeOK, DryInv, [Next]_vars PROVE DryInv'
  OBVIOUS
<1>0. /\ pc \in [Cycles -> Phase] /\ snap \in [Cycles -> Snapshot]
      /\ sending \in [Cycles -> Jobs \union {None}]
  BY DEF TypeOK
<1>1. ASSUME UNCHANGED <<pc, snap, sending>> PROVE DryInv'
  BY <1>1 DEF DryInv, Live
<1>2. ASSUME NEW c \in Cycles, NEW dry \in BOOLEAN, NEW due \in SUBSET Boards,
             Start(c, dry, due)
      PROVE  DryInv'
  BY <1>0, <1>2 DEF Start, DryInv, Live
<1>3. ASSUME NEW c \in Cycles, NEW b \in Boards,
             \/ Receive(c, b) \/ NotModified(c, b) \/ Absorb(c, b)
             \/ FetchFails(c, b) \/ ScreenFails(c, b)
      PROVE  DryInv'
  BY <1>1, <1>3 DEF Receive, NotModified, Absorb, FetchFails, ScreenFails
<1>4. ASSUME NEW c \in Cycles, NEW keep \in SUBSET matched[c], CapForScoring(c, keep)
      PROVE  DryInv'
  BY <1>0, <1>4 DEF CapForScoring, DryInv, Live
<1>5. ASSUME NEW c \in Cycles, NEW j \in Jobs, ScoreLow(c, j) \/ ScorePass(c, j)
      PROVE  DryInv'
  BY <1>1, <1>5 DEF ScoreLow, ScorePass
<1>6. ASSUME NEW c \in Cycles, EndScoring(c) PROVE DryInv'
  BY <1>0, <1>6 DEF EndScoring, DryInv, Live
<1>7. ASSUME NEW c \in Cycles, NEW j \in Jobs, ClaimForNotify(c, j) PROVE DryInv'
  BY <1>0, <1>7 DEF ClaimForNotify, DryInv, Live
<1>8. ASSUME NEW c \in Cycles, Deliver(c) PROVE DryInv'
  BY <1>0, <1>8 DEF Deliver, DryInv, Live
<1>9. ASSUME NEW c \in Cycles, NothingToSend(c) PROVE DryInv'
  BY <1>0, <1>9 DEF NothingToSend, DryInv, Live
<1>10. ASSUME NEW c \in Cycles, ReleaseClaim(c) PROVE DryInv'
  BY <1>0, <1>10 DEF ReleaseClaim, DryInv, Live
<1>11. ASSUME NEW c \in Cycles, EndCycle(c) PROVE DryInv'
  BY <1>0, <1>11 DEF EndCycle, DryInv, Live
<1>12. ASSUME NEW c \in Cycles, Abort(c) PROVE DryInv'
  BY <1>0, <1>12 DEF Abort, DryInv, Live
<1>13. CASE Environment
  BY <1>1, <1>13 DEF Environment, BoardChanges, ChangeSettings, SetStatus, Expire, Prune
<1>14. CASE UNCHANGED vars
  BY <1>1, <1>14 DEF vars
<1>15. ASSUME NEW c \in Cycles, Work(c) PROVE DryInv'
  BY <1>15, <1>3, <1>4, <1>5, <1>6, <1>7, <1>8, <1>9, <1>11 DEF Work
<1>16. ASSUME NEW c \in Cycles, Fault(c) PROVE DryInv'
  BY <1>16, <1>3, <1>10, <1>12 DEF Fault
<1> QED
  BY <1>2, <1>13, <1>14, <1>15, <1>16 DEF Next

\* What a dry cycle's own step may do: nothing to the tables or the sinks.
Untraced == \A c \in Cycles : pc[c] # "idle" /\ ~Live(c) /\ OwnStep(c)
                                => UNCHANGED <<store, delivered>>

LEMMA UntracedStep == TypeOK /\ DryInv /\ [Next]_vars => Untraced
<1> SUFFICES ASSUME TypeOK, DryInv, [Next]_vars,
                    NEW c \in Cycles, pc[c] # "idle", ~Live(c), OwnStep(c)
             PROVE  UNCHANGED <<store, delivered>>
  BY DEF Untraced
<1>0. /\ pc \in [Cycles -> Phase] /\ todo \in [Cycles -> SUBSET Boards]
      /\ reply \in [Cycles -> [Boards -> {None} \union SUBSET Jobs]]
      /\ matched \in [Cycles -> SUBSET Jobs] /\ scored \in [Cycles -> SUBSET Jobs]
      /\ sending \in [Cycles -> Jobs \union {None}]
      /\ pc[c] # "notify" /\ sending[c] = None
  BY DEF TypeOK, DryInv
<1> USE DEF OwnStep
<1>1. ASSUME NEW d \in Cycles, NEW b \in Boards, Absorb(d, b)
      PROVE  UNCHANGED <<store, delivered>>
  <2>1. c = d
    BY <1>0, <1>1 DEF Absorb
  <2> QED
    BY <1>1, <2>1 DEF Absorb, RecordRejected, SaveHint
<1>2. ASSUME NEW d \in Cycles, NEW keep \in SUBSET matched[d], CapForScoring(d, keep)
      PROVE  UNCHANGED <<store, delivered>>
  <2>1. c = d
    BY <1>0, <1>2 DEF CapForScoring
  <2> QED
    BY <1>2, <2>1 DEF CapForScoring
<1>3. ASSUME NEW d \in Cycles, NEW j \in Jobs, ScoreLow(d, j)
      PROVE  UNCHANGED <<store, delivered>>
  <2>1. c = d
    BY <1>0, <1>3 DEF ScoreLow
  <2> QED
    BY <1>3, <2>1 DEF ScoreLow
<1>4. ASSUME NEW d \in Cycles, NEW j \in Jobs, ClaimForNotify(d, j)
      PROVE  UNCHANGED <<store, delivered>>
  BY <1>0, <1>4 DEF ClaimForNotify
<1>5. ASSUME NEW d \in Cycles, Deliver(d) PROVE UNCHANGED <<store, delivered>>
  BY <1>0, <1>5 DEF Deliver
<1>6. ASSUME NEW d \in Cycles, ReleaseClaim(d) PROVE UNCHANGED <<store, delivered>>
  BY <1>0, <1>6 DEF ReleaseClaim
<1>7. ASSUME NEW d \in Cycles, NEW b \in Boards,
             \/ Receive(d, b) \/ NotModified(d, b)
             \/ FetchFails(d, b) \/ ScreenFails(d, b)
      PROVE  UNCHANGED <<store, delivered>>
  BY <1>7 DEF Receive, NotModified, FetchFails, ScreenFails
<1>8. ASSUME NEW d \in Cycles, NEW j \in Jobs, ScorePass(d, j)
      PROVE  UNCHANGED <<store, delivered>>
  BY <1>8 DEF ScorePass
<1>9. ASSUME NEW d \in Cycles,
             EndScoring(d) \/ NothingToSend(d) \/ EndCycle(d) \/ Abort(d)
      PROVE  UNCHANGED <<store, delivered>>
  BY <1>9 DEF EndScoring, NothingToSend, EndCycle, Abort
<1>10. ASSUME NEW d \in Cycles, NEW dry \in BOOLEAN, NEW due \in SUBSET Boards,
              Start(d, dry, due)
       PROVE  UNCHANGED <<store, delivered>>
  BY <1>10 DEF Start
<1>11. CASE Environment
  BY <1>11 DEF Environment, BoardChanges, ChangeSettings, SetStatus, Expire, Prune
<1>12. CASE UNCHANGED vars
  BY <1>12 DEF vars
<1>13. ASSUME NEW d \in Cycles, Work(d) PROVE UNCHANGED <<store, delivered>>
  BY <1>13, <1>1, <1>2, <1>3, <1>4, <1>5, <1>7, <1>8, <1>9 DEF Work
<1>14. ASSUME NEW d \in Cycles, Fault(d) PROVE UNCHANGED <<store, delivered>>
  BY <1>14, <1>6, <1>7, <1>9 DEF Fault
<1> QED
  BY <1>10, <1>11, <1>12, <1>13, <1>14 DEF Next

\* A preview leaves no trace: no step a dry cycle takes, whatever live cycles run
\* beside it, writes a table or alerts anybody.
THEOREM PreviewIsPure == Spec => DryRunLeavesNoTrace
<1>1. Init => DryInv
  BY DEF Init, DryInv
<1>2. TypeOK /\ DryInv /\ [Next]_vars
        => [\A c \in Cycles : pc[c] # "idle" /\ ~Live(c) /\ OwnStep(c)
                => UNCHANGED <<store, delivered>>]_vars
  BY UntracedStep DEF Untraced
<1> QED
  BY <1>1, <1>2, TypeCorrect, DryStep, PTL DEF Spec, DryRunLeavesNoTrace
=============================================================================
