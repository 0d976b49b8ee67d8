-------------------------- MODULE DiscoveryProofs --------------------------
(***************************************************************************)
(* Proofs about Discovery, for any families, slugs, companies, budgets and *)
(* bounds: no slug is recorded as a miss while a board under it answered   *)
(* all through the run, and no staged candidate loses its place without a  *)
(* verdict.                                                                *)
(*                                                                         *)
(* A verdict rests on probes that were made earlier in the run, between    *)
(* which boards open and close and other writers move rows.  EarnedInv     *)
(* says what is left of them: while a candidate's later methods are tried, *)
(* no board its earlier ones asked has answered since the run began; and   *)
(* what the second statement of a verdict is about to write is earned.     *)
(***************************************************************************)
EXTENDS Discovery, FiniteSetTheorems, SequenceTheorems, WellFoundedInduction, TLAPS

\* The locals of the run; one counts the methods tried of an item.
Locals == {"pc", "queue", "at", "budget", "spent", "active", "packOn", "owes"}
RunShape == DOMAIN run = Locals /\ run.at \in Nat

MissRow == [age : {"none", "fresh", "expired"}, tried : {"nothing", "slugs", "all"},
            site : BOOLEAN]

\* No board under the slug answered during the whole run.
Silent(s) == \A f \in Families : <<f, s>> \notin steady

\* What the run owes of a verdict, between its two statements.
Debt ==
    /\ run.queue = <<>> => run.owes = Settled
    /\ run.owes.kind = "miss" => run.owes.of \in Slugs /\ Silent(run.owes.of)
    /\ run.owes.kind = "confirm" => /\ run.owes.of \in Keys /\ Current \in Keys
                                    /\ run.owes.of[2] = Current[2]
    /\ run.owes.kind = "unstage" => \E c \in Companies : Spoken(c)

EarnedInv ==
    /\ RunShape /\ Debt
    /\ misses \in [Slugs -> MissRow]
    /\ steady \subseteq live
    /\ run.at > 0 => /\ run.queue # <<>>
                     /\ Current \in Keys => Current \notin steady
                     /\ Current \in Companies => Silent(Primary(Current))

LEMMA PrimaryIsSlug == \A c \in Companies : Primary(c) \in Slugs /\ Len(Variants[c]) \in Nat \ {0}
<1>1. ASSUME NEW c \in Companies
      PROVE  Primary(c) \in Slugs /\ Len(Variants[c]) \in Nat \ {0}
  <2>1. Variants[c] \in Seq(Slugs) /\ Variants[c] # <<>>
    BY DiscoveryAssumption
  <2> QED
    BY <2>1 DEF Primary
<1> QED
  BY <1>1

LEMMA VariantIsSlug ==
    ASSUME EarnedInv, NEW c \in Companies, run.at < Len(Variants[c])
    PROVE  run.at + 1 \in DOMAIN Variants[c] /\ Variants[c][run.at + 1] \in Slugs
<1>1. Variants[c] \in Seq(Slugs) /\ run.at \in Nat
  BY DiscoveryAssumption DEF EarnedInv, RunShape
<1> QED
  BY <1>1

LEMMA AnsweringIsKey ==
    ASSUME NEW families \in SUBSET Families, NEW s \in Slugs, NEW k \in Answering(families, s)
    PROVE  k \in Keys /\ k[2] = s
<1>1. PICK f \in Families : k = <<f, s>>
  BY DEF Answering
<1> QED
  BY <1>1 DEF Keys

\* A run that goes on to the next item, or ends, has probed nothing of it yet.
LEMMA Moved ==
    ASSUME EarnedInv, RunShape', run'.at = 0, run'.owes = Settled, steady' \subseteq live',
           misses' \in [Slugs -> MissRow]
    PROVE  EarnedInv'
<1>1. Debt'
  BY DEF Debt, Settled
<1> QED
  BY <1>1 DEF EarnedInv

-----------------------------------------------------------------------------
LEMMA EarnedInit == Init => EarnedInv
<1> SUFFICES ASSUME Init PROVE EarnedInv
  OBVIOUS
<1>1. RunShape /\ run.at = 0
  BY DEF Init, RunShape, Locals, Idle
<1>2. misses \in [Slugs -> MissRow]
  BY DEF Init, NoMiss, MissRow
<1>3. Debt
  BY DEF Init, Idle, Debt, Settled
<1> QED
  BY <1>1, <1>2, <1>3 DEF Init, EarnedInv

LEMMA EarnedStep == ASSUME EarnedInv, [Next]_vars PROVE EarnedInv'
<1> USE DEF EarnedInv
<1>0. RunShape /\ Debt /\ misses \in [Slugs -> MissRow] /\ steady \subseteq live
  OBVIOUS
\* Rows that are judged stay typed.
<1>m. /\ \A s \in Slugs : MissedAgain(s) => misses' \in [Slugs -> MissRow]
      /\ \A s \in Slugs, tried \in {"slugs", "all"}, site \in BOOLEAN :
            Missed(s, tried, site) => misses' \in [Slugs -> MissRow]
  BY <1>0 DEF MissedAgain, Missed, MissRow
\* Going on to the next item, or to the next phase.
<1>r. \A r : DOMAIN r = Locals =>
        /\ DOMAIN NextItem(r) = Locals /\ NextItem(r).at = 0 /\ NextItem(r).owes = r.owes
        /\ DOMAIN EndPhase(r) = Locals /\ EndPhase(r).at = 0 /\ EndPhase(r).owes = r.owes
  BY DEF NextItem, EndPhase, Locals
<1>s. \A n : /\ DOMAIN Spend(n) = Locals /\ Spend(n).owes = run.owes
             /\ Spend(n).at = run.at /\ Spend(n).queue = run.queue
  BY <1>0 DEF RunShape, Locals, Spend
\* A step that ends with the next item or phase, and leaves the world alone.
<1>n. ASSUME NEW r, DOMAIN r = Locals, r.owes = Settled, run' = NextItem(r) \/ run' = EndPhase(r),
             UNCHANGED <<live, steady>>, misses' \in [Slugs -> MissRow]
      PROVE  EarnedInv'
  BY <1>0, <1>r, <1>n, Moved DEF RunShape
\* A step that leaves the run alone, and makes no board steady.
<1>u. ASSUME UNCHANGED run, steady' \subseteq steady, steady' \subseteq live',
             misses' \in [Slugs -> MissRow]
      PROVE  EarnedInv'
  <2>1. Current' = Current /\ run' = run
    BY <1>u DEF Current
  <2>2. \A s : Silent(s) => Silent(s)'
    BY <1>u DEF Silent
  <2>3. RunShape'
    BY <1>0, <2>1 DEF RunShape
  <2>4. Debt'
    BY <1>0, <2>1, <2>2 DEF Debt, Spoken
  <2> QED
    BY <1>0, <1>u, <2>1, <2>2, <2>3, <2>4
\* The first statement of a verdict: the item stays, and so does what is known of it.
<1>o. ASSUME NEW n, NEW kind, NEW of, run' = Owing(n, kind, of), run.queue # <<>>,
             UNCHANGED <<live, steady, misses>> \/ misses' \in [Slugs -> MissRow],
             UNCHANGED <<live, steady>>,
             kind = "miss" => of \in Slugs /\ Silent(of),
             kind = "confirm" => of \in Keys /\ Current \in Keys /\ of[2] = Current[2],
             kind = "unstage" => of \in Companies
      PROVE  EarnedInv'
  <2>1. /\ DOMAIN run' = Locals /\ run'.at = run.at /\ run'.queue = run.queue
        /\ run'.owes = [kind |-> kind, of |-> of]
    BY <1>s, <1>o DEF Owing, Locals
  <2>2. RunShape' /\ Current' = Current
    BY <1>0, <2>1 DEF RunShape, Current
  <2>3. \A s : Silent(s) => Silent(s)'
    BY <1>o DEF Silent
  <2>4. kind = "unstage" => Spoken(of)'
    BY <2>1 DEF Spoken
  <2>5. Debt'
    BY <1>o, <2>1, <2>2, <2>3, <2>4 DEF Debt
  <2> QED
    BY <1>0, <1>o, <2>1, <2>2, <2>3, <2>5
<1>1. CASE Start
  <2>1. RunShape' /\ run'.at = 0 /\ run'.owes = Settled
    BY <1>1 DEF Start, RunShape, Locals
  <2>2. UNCHANGED <<live, misses>> /\ steady' \subseteq live'
    BY <1>1 DEF Start, table, world
  <2> QED
    BY <1>0, <2>1, <2>2, Moved
<1>2. CASE DrainCut
  BY <1>0, <1>2, <1>n DEF DrainCut, At, RunShape, table, world
<1>3. ASSUME NEW k \in Keys, NEW throttled \in BOOLEAN, ProbeClaimed(k, throttled)
      PROVE  EarnedInv'
  <2>1. UNCHANGED <<live, steady, misses>> /\ run.owes = Settled
    BY <1>3 DEF ProbeClaimed, At, world
  <2>2. CASE run' = NextItem(Spend(1))
    BY <1>0, <1>s, <1>n, <2>1, <2>2
  <2>3. CASE run' # NextItem(Spend(1))
    <3>1. run' = [Spend(1) EXCEPT !.at = 1] /\ k \notin live /\ run.queue # <<>> /\ Current = k
      BY <1>3, <2>3 DEF ProbeClaimed, Answers, At
    <3>2. /\ DOMAIN run' = Locals /\ run'.at = 1 /\ run'.queue = run.queue
          /\ run'.owes = Settled
      BY <1>0, <1>s, <2>1, <3>1 DEF Locals
    <3>3. k \notin Companies
      BY DiscoveryAssumption
    <3>4. Current' = k
      BY <3>1, <3>2 DEF Current
    <3>5. RunShape' /\ Debt'
      BY <3>2 DEF RunShape, Debt, Settled
    <3> QED
      BY <1>0, <2>1, <3>1, <3>2, <3>3, <3>4, <3>5
  <2> QED
    BY <2>2, <2>3
<1>4. ASSUME NEW k \in Keys, NEW throttled \in SUBSET Families, ProbeOthers(k, throttled)
      PROVE  EarnedInv'
  <2>1. k[1] \in Families /\ k[2] \in Slugs /\ k = <<k[1], k[2]>>
    BY DEF Keys
  <2>2. /\ UNCHANGED <<misses, live, steady>> /\ run.owes = Settled
        /\ run.queue # <<>> /\ Current = k /\ run.at = 1
    BY <1>4 DEF ProbeOthers, At, world
  <2>3. ASSUME NEW found \in Answering(Families \ (throttled \union {k[1]}), k[2]),
               run' = Owing(Cost - 1, "confirm", found)
        PROVE  EarnedInv'
    <3>1. found \in Keys /\ found[2] = k[2]
      BY <2>1, <2>3, AnsweringIsKey
    <3> QED
      BY <1>0, <1>o, <2>2, <2>3, <3>1
  <2>4. CASE run' = NextItem(Spend(Cost - 1))
    BY <1>0, <1>s, <1>n, <2>2, <2>4
  <2>5. ASSUME run' = Owing(Cost - 1, "miss", k[2]), Answering(Families \ {k[1]}, k[2]) = {}
        PROVE  EarnedInv'
    <3>1. k \notin steady
      BY <1>0, <2>2
    <3>2. \A f \in Families \ {k[1]} : <<f, k[2]>> \notin steady
      BY <1>0, <2>5 DEF Answering, Answers
    <3>3. Silent(k[2])
      BY <2>1, <3>1, <3>2 DEF Silent
    <3> QED
      BY <1>0, <1>o, <2>1, <2>2, <2>5, <3>3
  <2> QED
    BY <1>4, <2>3, <2>4, <2>5 DEF ProbeOthers
<1>15. CASE Settle
  <2>1. misses' \in [Slugs -> MissRow]
    BY <1>0, <1>15, <1>m DEF Settle, Debt
  <2>2. run' = NextItem([run EXCEPT !.owes = Settled]) /\ UNCHANGED <<live, steady>>
    BY <1>15 DEF Settle, world
  <2>3. LET r == [run EXCEPT !.owes = Settled] IN DOMAIN r = Locals /\ r.owes = Settled
    BY <1>0 DEF RunShape, Locals
  <2> QED
    BY <1>n, <2>1, <2>2, <2>3
<1>5. ASSUME NEW c \in Companies, Moot(c) \/ Skip(c)
      PROVE  EarnedInv'
  <2>1. misses' \in [Slugs -> MissRow]
    BY <1>0, <1>5, <1>m, PrimaryIsSlug DEF Moot, Skip, table
  <2> QED
    BY <1>0, <1>5, <1>n, <2>1 DEF Moot, Skip, Chained, At, world, RunShape
\* The chain has concluded: the row of the company is still to be deleted, or there is none.
<1>c. ASSUME NEW c \in Companies, Chained(c), run' = Concluded(c), UNCHANGED <<live, steady>>,
             misses' \in [Slugs -> MissRow]
      PROVE  EarnedInv'
  <2>1. run.owes = Settled /\ run.queue # <<>>
    BY <1>c DEF Chained, At
  <2>2. CASE run' = NextItem(Spend(Cost))
    BY <1>s, <1>c, <1>n, <2>1, <2>2
  <2>3. CASE run' = Owing(Cost, "unstage", c)
    BY <1>c, <1>o, <2>1, <2>3
  <2> QED
    BY <1>c, <2>2, <2>3 DEF Concluded
<1>6. ASSUME NEW c \in Companies, NEW throttled \in SUBSET Families, ProbeVariant(c, throttled)
      PROVE  EarnedInv'
  <2>1. misses' \in [Slugs -> MissRow]
    BY <1>0, <1>6, <1>m, PrimaryIsSlug DEF ProbeVariant, ChainMissed, HasSite, table
  <2>0. Chained(c) /\ run.owes = Settled /\ UNCHANGED <<live, steady>>
    BY <1>6 DEF ProbeVariant, Chained, At, world
  <2>2. CASE run' = NextItem(Spend(Cost)) \/ run' = Concluded(c)
    BY <1>6, <1>s, <1>n, <1>c, <2>0, <2>1, <2>2
  <2>3. CASE run' # NextItem(Spend(Cost)) /\ run' # Concluded(c)
    <3> DEFINE s == Variants[c][run.at + 1]
    <3>1. /\ run' = [Spend(Cost) EXCEPT !.at = @ + 1] /\ UNCHANGED <<live, steady, misses>>
          /\ run.queue # <<>> /\ Current = c
          /\ Answering(Families, s) = {}
      BY <1>6, <2>3 DEF ProbeVariant, Chained, At, table, world, Unproven
    <3>2. /\ DOMAIN run' = Locals /\ run'.at = run.at + 1 /\ run'.queue = run.queue
          /\ run'.owes = Settled
      BY <1>0, <1>s, <2>0, <3>1 DEF Locals
    <3>3. Current' = c /\ c \notin Keys
      BY <3>1, <3>2, DiscoveryAssumption DEF Current
    <3>4. Silent(s)
      BY <1>0, <3>1 DEF Answering, Answers, Silent
    <3>5. Silent(Primary(c))
      <4>1. CASE run.at = 0
        BY <3>4, <4>1 DEF Primary
      <4>2. CASE run.at > 0
        BY <3>1, <4>2
      <4> QED
        BY <1>0, <4>1, <4>2 DEF RunShape
    <3>6. Silent(Primary(c))'
      BY <3>1, <3>5 DEF Silent
    <3>7. RunShape' /\ Debt'
      BY <1>0, <3>1, <3>2 DEF RunShape, Debt, Settled
    <3> QED
      BY <1>0, <3>1, <3>2, <3>3, <3>6, <3>7
  <2> QED
    BY <2>2, <2>3
<1>7. ASSUME NEW c \in Companies, NEW ok \in BOOLEAN, Fingerprint(c, ok)
      PROVE  EarnedInv'
  <2>1. misses' \in [Slugs -> MissRow]
    BY <1>0, <1>7, <1>m, PrimaryIsSlug DEF Fingerprint, ChainMissed, HasSite
  <2> QED
    BY <1>7, <1>c, <2>1 DEF Fingerprint, world
<1>8. ASSUME NEW k \in Keys, NEW throttled \in BOOLEAN, Revalidate(k, throttled)
      PROVE  EarnedInv'
  <2>1. DOMAIN run' = Locals /\ run'.at = 0 /\ run'.owes = Settled
    BY <1>0, <1>8, <1>r DEF Revalidate, At, RunShape, Locals
  <2> QED
    BY <1>0, <1>8, <2>1, Moved DEF Revalidate, RunShape, world
<1>9. CASE Cut
  BY <1>0, <1>9, <1>n DEF Cut, At, RunShape, table, world
<1>10. CASE EndCrawl \/ EndRevalidation \/ \E n \in 0 .. MaxValidations : DrainBoards(n)
  <2>1. run.at = 0 /\ run.owes = Settled
    <3>1. run.queue = <<>>
      BY <1>10 DEF EndCrawl, EndRevalidation, DrainBoards
    <3> QED
      BY <1>0, <3>1 DEF RunShape, Debt
  <2>2. DOMAIN run' = Locals /\ run'.at = 0 /\ run'.owes = Settled
    <3>1. CASE EndCrawl
      BY <1>0, <2>1, <3>1 DEF EndCrawl, RunShape, Locals
    <3>2. CASE EndRevalidation
      BY <1>0, <2>1, <3>2 DEF EndRevalidation, RunShape, Locals
    <3>3. CASE \E n \in 0 .. MaxValidations : DrainBoards(n)
      BY <1>0, <1>s, <2>1, <3>3 DEF DrainBoards, RunShape, Locals
    <3> QED
      BY <1>10, <3>1, <3>2, <3>3
  <2>3. UNCHANGED <<misses, live, steady>>
    BY <1>10 DEF EndCrawl, EndRevalidation, DrainBoards, table, world
  <2> QED
    BY <1>0, <2>2, <2>3, Moved DEF RunShape
<1>11. CASE Crash \/ \E fetched \in BOOLEAN : Capture(fetched)
  <2>1. UNCHANGED <<misses, live>> /\ steady' \subseteq steady
    BY <1>11 DEF Crash, Capture, table, world
  <2>a. run' = Idle
    BY <1>11 DEF Crash, Capture
  <2>b. DOMAIN Idle = Locals /\ Idle.at = 0 /\ Idle.owes = Settled
    BY DEF Idle, Locals
  <2>2. DOMAIN run' = Locals /\ run'.at = 0 /\ run'.owes = Settled
    BY <2>a, <2>b
  <2> QED
    BY <1>0, <2>1, <2>2, Moved DEF RunShape
<1>12. CASE (\E k \in Keys : Sight(k) \/ Stage(k)) \/ Reconcile \/ Seed \/ Age \/ SwitchPack
            \/ UNCHANGED vars
  BY <1>0, <1>12, <1>u DEF Sight, Stage, Reconcile, Seed, Age, SwitchPack, table, world, vars
<1>13. ASSUME NEW k \in Keys, Flip(k)
       PROVE  EarnedInv'
  BY <1>0, <1>13, <1>u DEF Flip, table
<1>14. ASSUME NEW s \in Slugs, Expire(s)
       PROVE  EarnedInv'
  <2>1. misses' \in [Slugs -> MissRow]
    BY <1>0, <1>14 DEF Expire, MissRow
  <2> QED
    BY <1>0, <1>14, <1>u, <2>1 DEF Expire, world
<1> QED
  BY <1>1, <1>2, <1>3, <1>4, <1>5, <1>6, <1>7, <1>8, <1>9, <1>10, <1>11, <1>12, <1>13, <1>14, <1>15
     DEF Next, RunStep, EndOfPhase, Probe, Others

\* A new miss is of a slug whose boards were silent all through the run, or of a company
\* that is polled already.
Earned(s) == (\E c \in Companies : Primary(c) = s /\ AlreadyPolled(c)) \/ Silent(s)

LEMMA MissIsEarned ==
    ASSUME EarnedInv, [Next]_vars, NEW s \in Slugs, NewMiss(s)
    PROVE  Earned(s)
<1>0. /\ run.at \in Nat /\ Debt /\ misses \in [Slugs -> MissRow]
      /\ steady \subseteq live
      /\ run.at > 0 => /\ Current \in Keys => Current \notin steady
                       /\ Current \in Companies => Silent(Primary(Current))
  BY DEF EarnedInv, RunShape
<1>m. /\ misses' # misses
      /\ \A t \in Slugs : MissedAgain(t) => t = s
      /\ \A t \in Slugs : \A tried, site : Missed(t, tried, site) => t = s
  BY <1>0 DEF NewMiss, MissedAgain, Missed
<1>1. CASE Settle
  BY <1>0, <1>m, <1>1 DEF Settle, Debt, Earned
<1>2. ASSUME NEW c \in Companies, Moot(c)
      PROVE  Earned(s)
  BY <1>m, <1>2, PrimaryIsSlug DEF Moot, Earned
<1>3. ASSUME NEW c \in Companies, NEW throttled \in SUBSET Families, ProbeVariant(c, throttled)
      PROVE  Earned(s)
  <2>1. /\ Answering(Families, Variants[c][run.at + 1]) = {}
        /\ Primary(c) = s /\ Current = c
    BY <1>m, <1>3, PrimaryIsSlug DEF ProbeVariant, Unproven, Chained, ChainMissed, table
  <2>2. Silent(Variants[c][run.at + 1])
    BY <1>0, <2>1 DEF Answering, Answers, Silent
  <2>3. CASE run.at = 0
    BY <2>1, <2>2, <2>3 DEF Primary, Earned
  <2>4. CASE run.at > 0
    BY <1>0, <2>1, <2>4 DEF Earned
  <2> QED
    BY <1>0, <2>3, <2>4
<1>4. ASSUME NEW c \in Companies, NEW ok \in BOOLEAN, Fingerprint(c, ok)
      PROVE  Earned(s)
  <2>0. Primary(c) \in Slugs /\ Len(Variants[c]) \in Nat \ {0}
    BY PrimaryIsSlug
  <2>a. Current = c /\ run.at = Len(Variants[c])
    BY <1>4 DEF Fingerprint, Chained
  <2>b. \E tried : ChainMissed(c, tried)
    BY <1>m, <1>4 DEF Fingerprint
  <2>c. Primary(c) = s
    <3>1. PICK tried : Missed(Primary(c), tried, HasSite(c))
      BY <2>b DEF ChainMissed
    <3> QED
      BY <1>m, <2>0, <3>1
  <2>1. Primary(c) = s /\ Current = c /\ run.at > 0
    BY <2>0, <2>a, <2>c
  <2> QED
    BY <1>0, <2>1 DEF Earned
<1>5. ASSUME NEW t \in Slugs, Expire(t)
      PROVE  FALSE
  BY <1>0, <1>5 DEF Expire, NewMiss, MissRow
<1>6. ASSUME Others
      PROVE  FALSE
  BY <1>m, <1>5, <1>6 DEF Others, Sight, Stage, Flip, Reconcile, Seed, Age, SwitchPack, Crash, table
<1>7. ASSUME Start \/ EndOfPhase
      PROVE  FALSE
  BY <1>m, <1>7 DEF Start, EndOfPhase, DrainCut, Cut, EndCrawl, EndRevalidation, DrainBoards,
                    Capture, table
<1>8. CASE Probe
  BY <1>m, <1>1, <1>2, <1>3, <1>4, <1>8 DEF Probe, ProbeClaimed, ProbeOthers, Skip, Revalidate, table
<1> QED
  BY <1>m, <1>6, <1>7, <1>8 DEF Next, RunStep, vars, table

\* No company or slug is taken for one without a board, for 90 days, while a board under it
\* answered all through the run, whatever was throttled, cut off, opened, closed or written
\* beside it: VerdictsAreEarned of run_discovery.
THEOREM VerdictsEarned == Spec => VerdictsAreEarned
<1>1. EarnedInv /\ [Next]_vars => EarnedInv'
  BY EarnedStep
<1>2. EarnedInv /\ [Next]_vars =>
        [\A s \in Slugs : NewMiss(s) =>
              \/ \E c \in Companies : Primary(c) = s /\ AlreadyPolled(c)
              \/ \A f \in Families : <<f, s>> \notin steady]_vars
  BY MissIsEarned DEF Earned, Silent
<1> QED
  BY EarnedInit, <1>1, <1>2, PTL DEF Spec, VerdictsAreEarned

-----------------------------------------------------------------------------
(* The line.  Sequences are defined by recursion here, and by a choice: the *)
(* lemmas say what they hold.                                               *)

\* What Without keeps of the first i elements.
Keeps(f, s, out, i) ==
    /\ f[0] = <<>>
    /\ \A j \in 1 .. i : f[j] = IF s[j] \in out THEN f[j - 1] ELSE Append(f[j - 1], s[j])

LEMMA LeastNumber ==
    ASSUME NEW T \in SUBSET Nat, T # {}
    PROVE  \E x \in T : \A y \in T : x <= y
<1>1. PICK x \in T : \A y \in T : ~(<<y, x>> \in OpToRel(<, Nat))
  BY NatLessThanWellFounded, WFMin
<1>2. ASSUME NEW y \in T, ~(x <= y) PROVE FALSE
  <2>1. x \in Nat /\ y \in Nat /\ y < x
    BY <1>2
  <2> QED
    BY <1>1, <2>1 DEF OpToRel
<1> QED
  BY <1>2

\* A recursion over a sequence has a solution, and what it keeps of it is as it should be.
LEMMA Solvable ==
    ASSUME NEW S, NEW s \in Seq(S), NEW out, NEW n \in 0 .. Len(s)
    PROVE  \E f : Keeps(f, s, out, n) /\ DOMAIN f = 0 .. n
<1> DEFINE T == {m \in 0 .. Len(s) : ~ \E f : Keeps(f, s, out, m) /\ DOMAIN f = 0 .. m}
<1> SUFFICES ASSUME T # {} PROVE FALSE
  OBVIOUS
<1>1. PICK m \in T : \A y \in T : m <= y
  <2>1. T \in SUBSET Nat /\ T # {}
    OBVIOUS
  <2> HIDE DEF T
  <2> QED
    BY <2>1, LeastNumber
<1>2. Len(s) \in Nat /\ m \in 0 .. Len(s)
  BY <1>1
<1>3. m # 0
  <2>1. Keeps([j \in 0 .. 0 |-> <<>>], s, out, 0)
    BY DEF Keeps
  <2> QED
    BY <1>1, <2>1
<1>4. PICK f : Keeps(f, s, out, m - 1) /\ DOMAIN f = 0 .. m - 1
  <2>1. m - 1 \notin T /\ m - 1 \in 0 .. Len(s)
    BY <1>1, <1>2, <1>3
  <2> QED
    BY <2>1
<1> DEFINE g == [j \in 0 .. m |-> IF j < m THEN f[j]
                                  ELSE IF s[m] \in out THEN f[m - 1] ELSE Append(f[m - 1], s[m])]
<1>5. Keeps(g, s, out, m) /\ DOMAIN g = 0 .. m
  <2>1. m \in Nat /\ m > 0 /\ \A j \in 0 .. m : j < m => g[j] = f[j]
    BY <1>2, <1>3
  <2>2. g[0] = <<>>
    BY <2>1, <1>4 DEF Keeps
  <2>3. g[m] = IF s[m] \in out THEN g[m - 1] ELSE Append(g[m - 1], s[m])
    BY <2>1
  <2>4. ASSUME NEW j \in 1 .. m - 1
        PROVE  g[j] = IF s[j] \in out THEN g[j - 1] ELSE Append(g[j - 1], s[j])
    <3>1. g[j] = f[j] /\ g[j - 1] = f[j - 1]
      BY <2>1
    <3> QED
      BY <1>4, <3>1 DEF Keeps
  <2>6. DOMAIN g = 0 .. m
    OBVIOUS
  <2> HIDE DEF g
  <2>5. \A j \in 1 .. m : j = m \/ j \in 1 .. m - 1
    BY <2>1
  <2> QED
    BY <2>2, <2>3, <2>4, <2>5, <2>6 DEF Keeps
<1> QED
  BY <1>1, <1>5

Firsts(s, n) == {s[i] : i \in 1 .. n}

LEMMA KeptIs ==
    ASSUME NEW S, NEW s \in Seq(S), NEW out, NEW f, NEW n \in 0 .. Len(s), Keeps(f, s, out, n)
    PROVE  f[n] \in Seq(S) /\ ToSet(f[n]) = Firsts(s, n) \ out
<1> DEFINE Good(m) == f[m] \in Seq(S) /\ ToSet(f[m]) = Firsts(s, m) \ out
           T == {m \in 0 .. n : ~Good(m)}
<1>n. n \in Nat /\ n <= Len(s) /\ Len(s) \in Nat
  OBVIOUS
<1> SUFFICES ASSUME T # {} PROVE FALSE
  <2>1. T = {} => Good(n)
    <3>1. n \in 0 .. n
      BY <1>n
    <3> HIDE DEF Good
    <3> QED
      BY <3>1
  <2> QED
    BY <2>1
<1>1. PICK m \in T : \A y \in T : m <= y
  <2>1. T \in SUBSET Nat /\ T # {}
    <3> HIDE DEF Good
    <3> QED
      BY <1>n
  <2> HIDE DEF T
  <2> QED
    BY <2>1, LeastNumber
<1>2. n \in Nat /\ m \in 0 .. n /\ n <= Len(s) /\ Len(s) \in Nat
  BY <1>1
<1>3. m # 0
  <2>1. f[0] = <<>> /\ Firsts(s, 0) = {}
    BY DEF Keeps, Firsts
  <2>2. <<>> \in Seq(S) /\ ToSet(<<>>) = {}
    BY DEF ToSet
  <2> QED
    BY <1>1, <2>1, <2>2
<1>4. Good(m - 1)
  <2>1. m - 1 \in 0 .. n /\ ~(m <= m - 1)
    BY <1>2, <1>3
  <2>2. m - 1 \notin T
    <3> HIDE DEF T
    <3> QED
      BY <1>1, <2>1
  <2> QED
    BY <2>1, <2>2
<1>5. f[m] = IF s[m] \in out THEN f[m - 1] ELSE Append(f[m - 1], s[m])
  BY <1>2, <1>3 DEF Keeps
<1>6. s[m] \in S
  BY <1>2, <1>3
<1>7. Firsts(s, m) = Firsts(s, m - 1) \union {s[m]}
  BY <1>2, <1>3 DEF Firsts
<1>8. CASE s[m] \in out
  BY <1>1, <1>4, <1>5, <1>7, <1>8
<1>9. CASE s[m] \notin out
  <2> DEFINE r == f[m - 1]
  <2>1. ToSet(Append(r, s[m])) = ToSet(r) \union {s[m]}
    <3>1. r \in Seq(S) /\ Len(r) \in Nat
      BY <1>4
    <3> HIDE DEF r
    <3>2. /\ Len(Append(r, s[m])) = Len(r) + 1
          /\ \A i \in 1 .. Len(r) : Append(r, s[m])[i] = r[i]
          /\ Append(r, s[m])[Len(r) + 1] = s[m]
          /\ DOMAIN Append(r, s[m]) = 1 .. Len(r) + 1 /\ DOMAIN r = 1 .. Len(r)
      BY <1>6, <3>1
    <3> QED
      BY <3>1, <3>2 DEF ToSet
  <2>2. Append(r, s[m]) \in Seq(S)
    BY <1>4, <1>6
  <2> QED
    BY <1>1, <1>4, <1>5, <1>7, <1>9, <2>1, <2>2
<1> QED
  BY <1>8, <1>9

LEMMA WithoutIs ==
    ASSUME NEW S, NEW s \in Seq(S), NEW out
    PROVE  Without(s, out) \in Seq(S) /\ ToSet(Without(s, out)) = ToSet(s) \ out
<1> DEFINE left == CHOOSE left : left = [i \in 0 .. Len(s) |->
                     IF i = 0 THEN <<>>
                     ELSE IF s[i] \in out THEN left[i - 1] ELSE Append(left[i - 1], s[i])]
<1>0. Len(s) \in Nat
  OBVIOUS
<1>1. PICK f : Keeps(f, s, out, Len(s)) /\ DOMAIN f = 0 .. Len(s)
  <2>1. Len(s) \in 0 .. Len(s)
    BY <1>0
  <2> QED
    BY <2>1, Solvable
<1> DEFINE g == [i \in 0 .. Len(s) |-> f[i]]
<1>g. \A i \in 0 .. Len(s) : g[i] = f[i]
  OBVIOUS
<1>2. g = [i \in 0 .. Len(s) |-> IF i = 0 THEN <<>>
                     ELSE IF s[i] \in out THEN g[i - 1] ELSE Append(g[i - 1], s[i])]
  <2>1. ASSUME NEW i \in 0 .. Len(s)
        PROVE  f[i] = IF i = 0 THEN <<>>
                      ELSE IF s[i] \in out THEN g[i - 1] ELSE Append(g[i - 1], s[i])
    <3>1. i = 0 \/ (i \in 1 .. Len(s) /\ i - 1 \in 0 .. Len(s))
      BY <1>0
    <3> QED
      BY <1>1, <1>g, <3>1 DEF Keeps
  <2> QED
    BY <2>1
<1>3. left = [i \in 0 .. Len(s) |-> IF i = 0 THEN <<>>
                     ELSE IF s[i] \in out THEN left[i - 1] ELSE Append(left[i - 1], s[i])]
  <2> HIDE DEF g
  <2> QED
    BY <1>2, Zenon
<1>4. Without(s, out) = left[Len(s)]
  BY DEF Without
<1> HIDE DEF left
<1>5. Keeps(left, s, out, Len(s))
  <2>1. \A i \in 0 .. Len(s) : left[i] =
           IF i = 0 THEN <<>>
           ELSE IF s[i] \in out THEN left[i - 1] ELSE Append(left[i - 1], s[i])
    BY <1>3
  <2>2. 0 \in 0 .. Len(s) /\ \A i \in 1 .. Len(s) : i \in 0 .. Len(s) /\ i # 0
    BY <1>0
  <2> QED
    BY <2>1, <2>2 DEF Keeps
<1>6. ToSet(s) = Firsts(s, Len(s))
  BY DEF ToSet, Firsts
<1>7. Len(s) \in 0 .. Len(s)
  BY <1>0
<1>8. left[Len(s)] \in Seq(S) /\ ToSet(left[Len(s)]) = Firsts(s, Len(s)) \ out
  BY <1>5, <1>7, KeptIs
<1> QED
  BY <1>4, <1>6, <1>8

\* The elements of a finite set stand in a sequence, each of them once.
LEMMA Listed ==
    ASSUME NEW S, IsFiniteSet(S)
    PROVE  /\ SetToSeq(S) \in Seq(S) /\ ToSet(SetToSeq(S)) = S
           /\ IsInjective(SetToSeq(S)) /\ Len(SetToSeq(S)) = Cardinality(S)
<1> DEFINE n == Cardinality(S)
           s == SetToSeq(S)
<1>1. n \in Nat /\ ExistsBijection(1 .. n, S)
  BY FS_CardinalityType
<1>2. \E f \in [1 .. n -> S] : IsInjective(f)
  BY <1>1 DEF ExistsBijection, Bijection, Injection
<1>3. s \in [1 .. n -> S] /\ IsInjective(s)
  BY <1>2 DEF SetToSeq
<1> HIDE DEF n, s
<1>4. s \in Seq(S) /\ Len(s) = n /\ DOMAIN s = 1 .. n
  BY <1>1, <1>3
<1>5. ASSUME NEW x \in S, \A i \in 1 .. n : s[i] # x
      PROVE  FALSE
  <2>1. s \in [1 .. n -> S \ {x}]
    BY <1>3, <1>5
  <2>2. IsFiniteSet(1 .. n) /\ Cardinality(1 .. n) = n
    BY <1>1, FS_Interval
  <2>3. IsFiniteSet(S \ {x}) /\ Cardinality(S \ {x}) = n - 1
    BY <1>5, FS_RemoveElement DEF n
  <2>4. \E i, j \in 1 .. n : i # j /\ s[i] = s[j]
    BY <1>1, <2>1, <2>2, <2>3, FS_PigeonHole
  <2> QED
    BY <1>3, <1>4, <2>4 DEF IsInjective
<1>6. ToSet(s) = S
  BY <1>3, <1>4, <1>5 DEF ToSet
<1> QED
  BY <1>3, <1>4, <1>6 DEF n, s

-----------------------------------------------------------------------------
(* A staged row is nobody's but the candidate's: neither the pack's, which   *)
(* would make its promotion invisible when the pack is off, nor one with a   *)
(* verdict, which would lose it its place.                                   *)

SlugRow == [status : {"none", "candidate", "ok", "failed", "quarantined", "no_match"},
            pack : BOOLEAN, fails : Nat]

StagedInv ==
    /\ slugs \in [Keys -> SlugRow]
    /\ line \in Seq(Keys \union Companies)
    /\ \A k \in Keys \intersect Staged : slugs[k].status = "candidate" /\ ~slugs[k].pack

LEMMA RowsTyped ==
    /\ NoRow \in SlugRow /\ Candidate \in SlugRow /\ \A k : Confirmed(k) \in SlugRow
    /\ ~Candidate.pack /\ Candidate.status = "candidate"
    /\ \A k : Confirmed(k).status = "ok" /\ ~Confirmed(k).pack /\ Confirmed(k).fails = 0
BY DEF NoRow, Candidate, Confirmed, SlugRow

LEMMA Appended ==
    ASSUME NEW S, NEW s \in Seq(S), NEW e \in S
    PROVE  Append(s, e) \in Seq(S) /\ ToSet(Append(s, e)) = ToSet(s) \union {e}
<1>1. /\ Append(s, e) \in Seq(S) /\ Len(s) \in Nat
      /\ DOMAIN Append(s, e) = 1 .. Len(s) + 1 /\ DOMAIN s = 1 .. Len(s)
      /\ \A i \in 1 .. Len(s) : Append(s, e)[i] = s[i]
      /\ Append(s, e)[Len(s) + 1] = e
  OBVIOUS
<1> QED
  BY <1>1 DEF ToSet

LEMMA Joined ==
    ASSUME NEW S, NEW s \in Seq(S), NEW t \in Seq(S)
    PROVE  s \o t \in Seq(S) /\ ToSet(s \o t) = ToSet(s) \union ToSet(t)
<1>1. /\ s \o t \in Seq(S) /\ Len(s) \in Nat /\ Len(t) \in Nat
      /\ DOMAIN (s \o t) = 1 .. Len(s) + Len(t) /\ DOMAIN s = 1 .. Len(s) /\ DOMAIN t = 1 .. Len(t)
      /\ \A i \in 1 .. Len(s) : (s \o t)[i] = s[i]
      /\ \A i \in 1 .. Len(t) : (s \o t)[Len(s) + i] = t[i]
  OBVIOUS
<1>2. \A i \in 1 .. Len(s) + Len(t) : i \in 1 .. Len(s) \/ \E j \in 1 .. Len(t) : i = Len(s) + j
  <2>1. ASSUME NEW i \in 1 .. Len(s) + Len(t), i \notin 1 .. Len(s)
        PROVE  i - Len(s) \in 1 .. Len(t) /\ i = Len(s) + (i - Len(s))
    BY <1>1, <2>1
  <2> QED
    BY <2>1
<1>3. ASSUME NEW e \in ToSet(s \o t) PROVE e \in ToSet(s) \union ToSet(t)
  <2>1. PICK i \in 1 .. Len(s) + Len(t) : e = (s \o t)[i]
    BY <1>1 DEF ToSet
  <2>2. CASE i \in 1 .. Len(s)
    BY <1>1, <2>1, <2>2 DEF ToSet
  <2>3. CASE \E j \in 1 .. Len(t) : i = Len(s) + j
    BY <1>1, <2>1, <2>3 DEF ToSet
  <2> QED
    BY <1>2, <2>2, <2>3
<1>4. ASSUME NEW e \in ToSet(s) PROVE e \in ToSet(s \o t)
  <2>1. PICK i \in 1 .. Len(s) : e = s[i]
    BY <1>1 DEF ToSet
  <2>2. i \in 1 .. Len(s) + Len(t)
    BY <1>1
  <2> QED
    BY <1>1, <2>1, <2>2 DEF ToSet
<1>5. ASSUME NEW e \in ToSet(t) PROVE e \in ToSet(s \o t)
  <2>1. PICK i \in 1 .. Len(t) : e = t[i]
    BY <1>1 DEF ToSet
  <2>2. Len(s) + i \in 1 .. Len(s) + Len(t)
    BY <1>1
  <2> QED
    BY <1>1, <2>1, <2>2 DEF ToSet
<1> QED
  BY <1>1, <1>3, <1>4, <1>5

\* A row written anew: what becomes of the line, and that the rows stay in order.
LEMMA PutKeeps ==
    ASSUME StagedInv, NEW k \in Keys, NEW row \in SlugRow, Put(k, row),
           row.status = "candidate" => ~row.pack
    PROVE  /\ StagedInv'
           /\ slugs'[k] = row
           /\ \A e \in Staged : e \in Staged' \/ e = k
<1> DEFINE out == {k}
           E == Keys \union Companies
           rest == Without(line, out)
<1>1. slugs' \in [Keys -> SlugRow] /\ slugs'[k] = row
      /\ \A x \in Keys : x \notin out => slugs'[x] = slugs[x]
  BY DEF Put, StagedInv
<1>2. rest \in Seq(E) /\ ToSet(rest) = Staged \ out
  BY WithoutIs DEF StagedInv, Staged
<1> HIDE DEF rest
<1>3. Append(rest, k) \in Seq(E) /\ ToSet(Append(rest, k)) = (Staged \ out) \union {k}
  <2>1. k \in E
    OBVIOUS
  <2> QED
    BY <1>2, <2>1, Appended
<1>4. line' = IF row.status = "candidate" THEN Append(rest, k) ELSE rest
  BY DEF Put, rest
<1>5. /\ line' \in Seq(E)
      /\ Staged' = IF row.status = "candidate" THEN (Staged \ out) \union {k} ELSE Staged \ out
  BY <1>2, <1>3, <1>4 DEF Staged
<1>6. \A x \in Keys \intersect Staged' : slugs'[x].status = "candidate" /\ ~slugs'[x].pack
  BY <1>1, <1>5 DEF StagedInv
<1> QED
  BY <1>1, <1>5, <1>6 DEF StagedInv

\* A company that leaves the line alone.
LEMMA UnstageKeeps ==
    ASSUME StagedInv, NEW c \in Companies, NEW gone \in SUBSET {c}, line' = Without(line, gone),
           UNCHANGED slugs
    PROVE  StagedInv' /\ \A e \in Staged : e \in Staged' \/ e = c
<1>1. line' \in Seq(Keys \union Companies) /\ Staged' = Staged \ gone
  BY WithoutIs DEF StagedInv, Staged
<1> QED
  BY <1>1 DEF StagedInv

\* A step that leaves rows and line alone.
LEMMA AloneKeeps ==
    ASSUME StagedInv, UNCHANGED <<slugs, line>>
    PROVE  StagedInv' /\ \A e \in Staged : e \in Staged'
BY DEF StagedInv, Staged

-----------------------------------------------------------------------------
LEMMA StagedInit == Init => StagedInv
<1> SUFFICES ASSUME Init PROVE StagedInv
  OBVIOUS
<1>1. slugs \in [Keys -> SlugRow]
  BY RowsTyped DEF Init
<1>2. line = <<>> /\ Staged = {} /\ line \in Seq(Keys \union Companies)
  BY DEF Init, Staged, ToSet
<1> QED
  BY <1>1, <1>2 DEF StagedInv

\* What becomes of the staged rows in a step.
Kept == /\ StagedInv'
        /\ \A e \in Staged : e \in Staged' \/ InHand(e)' \/ Judged(e)' \/ Spoken(e)

\* A key that gets a row of its own, and so do all that are judged by it.
LEMMA OwnRowJudges ==
    ASSUME NEW k \in Keys, slugs'[k] = Confirmed(k)
    PROVE  /\ OwnRow(k)' /\ Judged(k)'
           /\ \A e \in Keys : e[2] = k[2] => Judged(e)'
           /\ \A c \in Companies : k \in Linked[c] => Judged(c)'
           /\ \A c \in Companies : \A i \in DOMAIN Variants[c] : k[2] = Variants[c][i] => Judged(c)'
<1>1. k = <<k[1], k[2]>> /\ k[1] \in Families /\ k[2] \in Slugs
  BY DEF Keys
<1>2. OwnRow(k)'
  BY RowsTyped DEF OwnRow
<1>3. \A e \in Keys : e[2] = k[2] => Judged(e)'
  BY <1>1, <1>2 DEF Judged
<1>4. \A c \in Companies : c \notin Keys
  BY DiscoveryAssumption
<1> QED
  BY <1>1, <1>2, <1>3, <1>4 DEF Judged

\* What reconcile is about to insert are keys.
LEMMA SeedingStep == seeding \subseteq Keys /\ [Next]_vars => seeding' \subseteq Keys
<1> SUFFICES ASSUME seeding \subseteq Keys, [Next]_vars PROVE seeding' \subseteq Keys
  OBVIOUS
<1>1. CASE Reconcile
  BY <1>1, DiscoveryAssumption DEF Reconcile
<1>2. CASE Seed
  BY SMTT(30), <1>2 DEF Seed
<1>3. CASE RunStep \/ UNCHANGED vars
  BY <1>3 DEF RunStep, Start, EndOfPhase, DrainCut, Cut, EndCrawl, EndRevalidation, DrainBoards,
              Capture, Probe, ProbeClaimed, ProbeOthers, Moot, Skip, ProbeVariant, Fingerprint,
              Revalidate, Settle, vars
<1>4. CASE Others /\ ~Reconcile /\ ~Seed
  BY <1>4 DEF Others, Sight, Stage, Flip, Expire, Age, SwitchPack, Crash
<1> QED
  BY <1>1, <1>2, <1>3, <1>4 DEF Next

LEMMA StagedStep == ASSUME EarnedInv, StagedInv, seeding \subseteq Keys, [Next]_vars PROVE Kept
<1>0. /\ RunShape /\ Debt /\ misses \in [Slugs -> MissRow] /\ slugs \in [Keys -> SlugRow]
      /\ line \in Seq(Keys \union Companies)
      /\ \A k \in Keys \intersect Staged : slugs[k].status = "candidate" /\ ~slugs[k].pack
  BY DEF StagedInv, EarnedInv
<1>c. \A c \in Companies : c \notin Keys
  BY DiscoveryAssumption
\* A miss just recorded is fresh.
<1>m. /\ \A s \in Slugs : MissedAgain(s) => misses'[s].age = "fresh"
      /\ \A s \in Slugs : \A tried, site : Missed(s, tried, site) => misses'[s].age = "fresh"
  BY <1>0 DEF MissedAgain, Missed, MissRow
<1>u. ASSUME UNCHANGED <<slugs, line>> PROVE Kept
  BY <1>u, AloneKeeps DEF Kept
\* A board found by a probe.
<1>p. ASSUME NEW k \in Keys, Put(k, Confirmed(k)) PROVE Kept
  <2>1. /\ StagedInv' /\ slugs'[k] = Confirmed(k)
        /\ \A e \in Staged : e \in Staged' \/ e = k
    BY <1>p, PutKeeps, RowsTyped
  <2> QED
    BY <2>1, OwnRowJudges DEF Kept
<1>1. ASSUME NEW k \in Keys, NEW throttled \in BOOLEAN, ProbeClaimed(k, throttled)
      PROVE  Kept
  BY <1>1, <1>p, <1>u DEF ProbeClaimed
<1>2. ASSUME NEW k \in Keys, NEW throttled \in SUBSET Families, ProbeOthers(k, throttled)
      PROVE  Kept
  <2>0. /\ run.pc = "drain" /\ run.queue # <<>> /\ Current = k
        /\ slugs[k] \in SlugRow
    BY <1>0, <1>2 DEF ProbeOthers, At
  \* The first statement of a move takes the row, and the run has it in hand.
  <2>1. ASSUME NEW found, run' = Owing(Cost - 1, "confirm", found), Put(k, NoRow)
        PROVE  Kept
    <3>1. StagedInv' /\ \A e \in Staged : e \in Staged' \/ e = k
      BY <2>1, PutKeeps, RowsTyped DEF NoRow
    <3>2. /\ run'.pc = run.pc /\ run'.queue = run.queue
          /\ run'.owes = [kind |-> "confirm", of |-> found]
      BY <1>0, <2>1 DEF Owing, Spend, RunShape, Locals
    <3>3. InHand(k)'
      BY <2>0, <3>2 DEF InHand, Current
    <3> QED
      BY <3>1, <3>3 DEF Kept
  <2>2. ASSUME Put(k, [slugs[k] EXCEPT !.status = "no_match"])
        PROVE  Kept
    <3> DEFINE row == [slugs[k] EXCEPT !.status = "no_match"]
    <3>1. row \in SlugRow /\ row.status = "no_match"
      BY <2>0 DEF SlugRow
    <3> HIDE DEF row
    <3>2. StagedInv' /\ slugs'[k] = row /\ \A e \in Staged : e \in Staged' \/ e = k
      BY <2>2, <3>1, PutKeeps DEF row
    <3>3. Judged(k)'
      BY <3>1, <3>2 DEF Judged
    <3> QED
      BY <3>2, <3>3 DEF Kept
  <2> QED
    BY <1>2, <1>u, <2>1, <2>2 DEF ProbeOthers
<1>12. CASE Settle
  <2>1. CASE run.owes.kind = "confirm"
    BY <1>0, <1>12, <1>p, <2>1 DEF Settle, Debt
  <2>2. CASE run.owes.kind = "unstage"
    <3>1. PICK c \in Companies : Spoken(c)
      BY <1>0, <2>2 DEF Debt
    <3>2. line' = Without(line, {c}) /\ UNCHANGED slugs
      BY <1>12, <3>1 DEF Settle, Spoken
    <3>3. StagedInv' /\ \A e \in Staged : e \in Staged' \/ e = c
      BY <3>2, UnstageKeeps
    <3> QED
      BY <3>1, <3>3 DEF Kept
  <2> QED
    BY <1>12, <1>u, <2>1, <2>2 DEF Settle
<1>3. ASSUME NEW c \in Companies, Moot(c)
      PROVE  Kept
  <2>1. /\ run'.active = run.active /\ UNCHANGED <<slugs, boards>> /\ AlreadyPolled(c)
        /\ line' = Without(line, Resolved(c))
    BY <1>0, <1>3 DEF Moot, NextItem, RunShape, Locals
  <2>2. Judged(c)'
    BY <1>c, <2>1 DEF Judged, AlreadyPolled, Active
  <2>3. StagedInv' /\ \A e \in Staged : e \in Staged' \/ e = c
    <3>1. Resolved(c) \in SUBSET {c}
      BY DEF Resolved
    <3> QED
      BY <2>1, <3>1, UnstageKeeps
  <2> QED
    BY <2>2, <2>3 DEF Kept
<1>4. ASSUME NEW c \in Companies, NEW throttled \in SUBSET Families, ProbeVariant(c, throttled)
      PROVE  Kept
  <2>1. \A k \in Answering(Families \ throttled, Variants[c][run.at + 1]) : k \in Keys
    <3>1. Variants[c][run.at + 1] \in Slugs
      BY <1>4, VariantIsSlug DEF ProbeVariant
    <3> QED
      BY <3>1, AnsweringIsKey
  <2> QED
    BY <1>4, <1>p, <1>u, <2>1 DEF ProbeVariant, ChainMissed, table
<1>5. ASSUME NEW c \in Companies, NEW ok \in BOOLEAN, Fingerprint(c, ok)
      PROVE  Kept
  <2>1. \A k \in Linked[c] \intersect live : k \in Keys
    BY DiscoveryAssumption
  <2> QED
    BY <1>5, <1>p, <1>u, <2>1 DEF Fingerprint, ChainMissed
<1>6. ASSUME NEW k \in Keys, NEW throttled \in BOOLEAN, Revalidate(k, throttled)
      PROVE  Kept
  <2> DEFINE row == IF k \in live THEN Revalidated(k) ELSE Failed(k)
  <2>2. /\ row \in SlugRow /\ row.status # "candidate"
        /\ row.status = "ok" => row.pack = slugs[k].pack
        /\ row.status # "ok" => row.fails > 0
    <3>1. slugs[k] \in SlugRow
      BY <1>0
    <3>2. Revalidated(k) \in SlugRow /\ Revalidated(k).status = "ok"
          /\ Revalidated(k).pack = slugs[k].pack
      BY <3>1 DEF Revalidated, SlugRow
    <3>3. Failed(k) \in SlugRow /\ Failed(k).status \in {"quarantined", "failed"}
          /\ Failed(k).fails > 0
      <4> DEFINE n == slugs[k].fails + 1
                 status == IF n >= Quarantine THEN "quarantined" ELSE "failed"
      <4>1. n \in Nat /\ n > 0 /\ status \in {"quarantined", "failed"}
        BY <3>1 DEF SlugRow
      <4>2. Failed(k) = [slugs[k] EXCEPT !.fails = n, !.status = status]
        BY DEF Failed
      <4> HIDE DEF n, status
      <4> QED
        BY <3>1, <4>1, <4>2 DEF SlugRow
    <3> QED
      BY <3>2, <3>3
  <2>3. CASE ~throttled
    <3> HIDE DEF row
    <3>0. Put(k, row)
      BY <1>6, <2>3 DEF Revalidate, row
    <3>1. /\ StagedInv' /\ slugs'[k] = row
          /\ \A e \in Staged : e \in Staged' \/ e = k
      BY <2>2, <3>0, PutKeeps
    <3>2. k \in Staged => Judged(k)'
      <4>1. k = <<k[1], k[2]>> /\ k[1] \in Families
        BY DEF Keys
      <4>2. k \in Staged => ~slugs[k].pack
        BY <1>0
      <4> QED
        BY <2>2, <3>1, <4>1, <4>2 DEF Judged, OwnRow
    <3> QED
      BY <3>1, <3>2 DEF Kept
  <2> QED
    BY <1>6, <1>u, <2>3 DEF Revalidate
<1>7. CASE Start \/ DrainCut \/ Cut \/ EndCrawl \/ EndRevalidation
           \/ (\E n \in 0 .. MaxValidations : DrainBoards(n)) \/ Crash
           \/ \E c \in Companies : Skip(c)
  <2>1. UNCHANGED <<slugs, line>>
    BY <1>7 DEF Start, DrainCut, Cut, EndCrawl, EndRevalidation, DrainBoards, Crash, Skip, table
  <2> QED
    BY <1>u, <2>1
<1>8. ASSUME NEW fetched \in BOOLEAN, Capture(fetched)
      PROVE  Kept
  <2>1. UNCHANGED slugs
    BY <1>8 DEF Capture
  <2>2. CASE ~fetched
    BY <1>8, <1>u, <2>1, <2>2 DEF Capture
  <2>3. CASE fetched
    <3> DEFINE new == {c \in Portfolio : New(c)}
    <3>1. new \in SUBSET Companies /\ IsFiniteSet(new)
      BY DiscoveryAssumption, FS_Subset
    <3>2. SetToSeq(new) \in Seq(new) /\ ToSet(SetToSeq(new)) = new
      <4> HIDE DEF new
      <4> QED
        BY <3>1, Listed
    <3>3. line' = line \o SetToSeq(new)
      BY <1>8, <2>3 DEF Capture
    <3> HIDE DEF new
    <3>4. SetToSeq(new) \in Seq(Keys \union Companies)
      BY <3>1, <3>2
    <3>5. line' \in Seq(Keys \union Companies) /\ Staged' = Staged \union new
      BY <1>0, <3>2, <3>3, <3>4, Joined DEF Staged
    <3> QED
      BY <1>0, <1>c, <2>1, <3>1, <3>5 DEF Kept, StagedInv
  <2> QED
    BY <2>2, <2>3
<1>9. ASSUME NEW k \in Keys, Stage(k)
      PROVE  Kept
  <2>2. /\ StagedInv' /\ slugs'[k] = Candidate
        /\ \A e \in Staged : e \in Staged' \/ e = k
    BY <1>9, PutKeeps, RowsTyped DEF Stage
  <2>3. k \in Staged'
    <3>1. Without(line, {k}) \in Seq(Keys \union Companies)
      BY <1>0, WithoutIs
    <3>2. line' = Append(Without(line, {k}), k)
      BY <1>9, RowsTyped DEF Stage, Put
    <3> QED
      BY <3>1, <3>2, Appended DEF Staged
  <2> QED
    BY <2>2, <2>3 DEF Kept
<1>10. CASE Seed
  <2> DEFINE new == {k \in seeding : Insertable(k)}
  <2>1. line' = Without(line, new)
    BY <1>10 DEF Seed
  <2>2. \A k \in Keys : slugs'[k] = IF k \in new THEN [status |-> "ok", pack |-> TRUE, fails |-> 0]
                                    ELSE slugs[k]
    BY <1>10 DEF Seed
  <2>3. [status |-> "ok", pack |-> TRUE, fails |-> 0] \in SlugRow
    BY DEF SlugRow
  <2>4. slugs' \in [Keys -> SlugRow]
    <3>1. DOMAIN slugs' = Keys /\ slugs' = [k \in Keys |-> slugs'[k]]
      BY <1>10 DEF Seed
    <3> HIDE DEF new
    <3> QED
      BY <1>0, <2>2, <2>3, <3>1
  <2>5. \A e \in Staged : e \notin new
    <3>1. \A e \in Keys \intersect Staged : e \notin new
      BY <1>0 DEF Insertable
    <3>2. \A e \in new : e \in Keys
      OBVIOUS
    <3> QED
      BY <3>1, <3>2
  <2> HIDE DEF new
  <2>6. line' \in Seq(Keys \union Companies) /\ Staged' = Staged
    <3>1. line' \in Seq(Keys \union Companies) /\ Staged' = Staged \ new
      BY <1>0, <2>1, WithoutIs DEF Staged
    <3> QED
      BY <2>5, <3>1
  <2> QED
    BY <1>0, <2>1, <2>2, <2>4, <2>5, <2>6 DEF Kept, StagedInv
<1>11. CASE (\E k \in Keys : Sight(k) \/ Flip(k)) \/ (\E s \in Slugs : Expire(s)) \/ Reconcile
            \/ Age \/ SwitchPack \/ UNCHANGED vars
  <2>1. UNCHANGED <<slugs, line, run>>
    BY <1>11 DEF Sight, Flip, Expire, Reconcile, Age, SwitchPack, table, vars
  <2> QED
    BY <1>0, <1>u, <2>1
<1> QED
  BY <1>1, <1>2, <1>3, <1>4, <1>5, <1>6, <1>7, <1>8, <1>9, <1>10, <1>11, <1>12
     DEF Next, RunStep, EndOfPhase, Probe, Others

\* What the run has in hand gets its verdict, whatever is written beside it.
LEMMA HandStep ==
    ASSUME EarnedInv, StagedInv, [Next]_vars, NEW e \in Keys, InHand(e)
    PROVE  InHand(e)' \/ Judged(e)' \/ run' = Idle
<1>0. /\ run.pc = "drain" /\ run.queue # <<>> /\ Current = e /\ run.owes.kind = "confirm"
      /\ run.owes # Settled /\ run.owes.of \in Keys /\ run.owes.of[2] = e[2]
      /\ slugs \in [Keys -> SlugRow]
  <2>1. Debt /\ slugs \in [Keys -> SlugRow]
    BY DEF EarnedInv, StagedInv
  <2>2. run.pc = "drain" /\ run.queue # <<>> /\ Current = e /\ run.owes.kind = "confirm"
    BY DEF InHand
  <2>3. run.owes # Settled
    <3>1. Settled.kind = "none"
      BY DEF Settled
    <3> QED
      BY <2>2, <3>1
  <2> QED
    BY <2>1, <2>2, <2>3 DEF Debt
<1>1. CASE Settle
  <2>1. slugs'[run.owes.of] = Confirmed(run.owes.of)
    BY <1>0, <1>1 DEF Settle, Put
  <2> QED
    BY <1>0, <2>1, OwnRowJudges
<1>2. ASSUME RunStep, ~Settle PROVE FALSE
  BY <1>0, <1>2 DEF RunStep, Start, EndOfPhase, DrainCut, Cut, EndCrawl, EndRevalidation,
       DrainBoards, Capture, Probe, ProbeClaimed, ProbeOthers, Moot, Skip, ProbeVariant,
       Fingerprint, Chained, Revalidate, At
<1>3. CASE (Others /\ ~Crash) \/ UNCHANGED vars
  <2>1. UNCHANGED run
    BY <1>3 DEF Others, Sight, Stage, Flip, Expire, Reconcile, Seed, Age, SwitchPack, vars
  <2> QED
    BY <2>1 DEF InHand, Current
<1> QED
  BY <1>1, <1>2, <1>3 DEF Next, Others, Crash

\* The row of a company is about to be deleted: its verdict has just been written.
LEMMA SpokenStep ==
    ASSUME EarnedInv, StagedInv, [Next]_vars, NEW e \in Companies, Spoken(e)'
    PROVE  Spoken(e) \/ Judged(e)'
<1>0. /\ RunShape /\ Debt /\ misses \in [Slugs -> MissRow] /\ slugs \in [Keys -> SlugRow]
      /\ e \notin Keys
  BY DiscoveryAssumption DEF EarnedInv, StagedInv
<1> SUFFICES ASSUME run'.owes # run.owes
             PROVE  Judged(e)'
  BY DEF Spoken
<1>s. /\ run'.owes # Settled
      /\ \A r : DOMAIN r = Locals =>
            NextItem(r).owes = r.owes /\ EndPhase(r).owes = r.owes
      /\ \A n : DOMAIN Spend(n) = Locals /\ Spend(n).owes = run.owes
  BY <1>0 DEF Spoken, Settled, NextItem, EndPhase, Spend, RunShape, Locals
<1>o. ASSUME NEW n, NEW kind, NEW of, run' = Owing(n, kind, of)
      PROVE  kind = "unstage" /\ of = e
  <2>1. run'.owes = [kind |-> kind, of |-> of]
    BY <1>0, <1>o DEF Owing, Spend, RunShape, Locals
  <2>2. run'.owes = [kind |-> "unstage", of |-> e]
    BY DEF Spoken
  <2> QED
    BY <2>1, <2>2
<1>n. \A n : run' # NextItem(Spend(n))
  BY <1>s
<1>c. ASSUME NEW c \in Companies, run' = Concluded(c) PROVE c = e
  <2>1. run' = Owing(Cost, "unstage", c)
    BY <1>n, <1>c DEF Concluded
  <2> QED
    BY <1>o, <2>1
<1>m. \A c \in Companies : \A tried : ChainMissed(c, tried) => misses'[Primary(c)].age = "fresh"
  BY <1>0, PrimaryIsSlug DEF ChainMissed, Missed, MissRow
<1>p. ASSUME NEW k \in Keys, Put(k, Confirmed(k)) PROVE slugs'[k] = Confirmed(k)
  BY <1>0, <1>p DEF Put
<1>1. ASSUME NEW c \in Companies, NEW throttled \in SUBSET Families, ProbeVariant(c, throttled)
      PROVE  Judged(e)'
  <2> DEFINE s == Variants[c][run.at + 1]
  <2>0. run' # [Spend(Cost) EXCEPT !.at = @ + 1]
    BY <1>s DEF Locals
  <2>1. run' = Concluded(c) /\ c = e
    BY <1>1, <1>n, <1>c, <2>0 DEF ProbeVariant
  <2>2. /\ run.at + 1 \in DOMAIN Variants[c] /\ s \in Slugs
    BY <1>1, VariantIsSlug DEF ProbeVariant
  <2>3. ASSUME NEW k \in Answering(Families \ throttled, s), Put(k, Confirmed(k))
        PROVE  Judged(e)'
    <3>1. k \in Keys /\ k[2] = s
      BY <2>2, <2>3, AnsweringIsKey
    <3> QED
      BY <1>p, <2>1, <2>2, <2>3, <3>1, OwnRowJudges
  <2>4. ASSUME ChainMissed(c, "slugs") PROVE Judged(e)'
    BY <1>0, <1>m, <2>1, <2>4 DEF Judged, Primary
  <2> QED
    BY <1>1, <1>n, <2>0, <2>3, <2>4 DEF ProbeVariant
<1>2. ASSUME NEW c \in Companies, NEW ok \in BOOLEAN, Fingerprint(c, ok)
      PROVE  Judged(e)'
  <2>1. c = e
    BY <1>2, <1>c DEF Fingerprint
  <2>2. ASSUME NEW k \in Linked[c] \intersect live, Put(k, Confirmed(k))
        PROVE  Judged(e)'
    <3>1. k \in Keys
      BY DiscoveryAssumption
    <3> QED
      BY <1>p, <2>1, <2>2, <3>1, OwnRowJudges
  <2>3. ASSUME boards' = boards \union {c} PROVE Judged(e)'
    BY <1>0, <2>1, <2>3 DEF Judged
  <2>4. ASSUME NEW tried, ChainMissed(c, tried) PROVE Judged(e)'
    BY <1>0, <1>m, <2>1, <2>4 DEF Judged, Primary
  <2> QED
    BY <1>2, <2>2, <2>3, <2>4 DEF Fingerprint
<1>3. ASSUME Start \/ EndOfPhase PROVE FALSE
  <2>1. ASSUME Start \/ \E fetched \in BOOLEAN : Capture(fetched) PROVE FALSE
    <3>1. CASE Start
      BY <1>s, <3>1 DEF Start
    <3>2. CASE \E fetched \in BOOLEAN : Capture(fetched)
      <4>1. run' = Idle
        BY <3>2 DEF Capture
      <4> QED
        BY <1>s, <4>1 DEF Idle
    <3> QED
      BY <2>1, <3>1, <3>2
  <2>2. ASSUME DrainCut \/ Cut PROVE FALSE
    BY <1>0, <1>s, <2>2 DEF DrainCut, Cut, RunShape
  <2>3. ASSUME EndCrawl \/ EndRevalidation PROVE FALSE
    BY <1>0, <2>3 DEF EndCrawl, EndRevalidation, RunShape, Locals
  <2>4. ASSUME NEW n \in 0 .. MaxValidations, DrainBoards(n) PROVE FALSE
    BY <1>s, <2>4 DEF DrainBoards, Locals
  <2> QED
    BY <1>3, <2>1, <2>2, <2>3, <2>4 DEF EndOfPhase
<1>4. ASSUME Others \/ UNCHANGED vars PROVE FALSE
  BY <1>s, <1>4 DEF Others, Sight, Stage, Flip, Expire, Reconcile, Seed, Age, SwitchPack, Crash,
                    Idle, vars
<1>5. ASSUME NEW k \in Keys, NEW throttled \in BOOLEAN,
             ProbeClaimed(k, throttled) \/ Revalidate(k, throttled)
      PROVE  FALSE
  <2>1. CASE ProbeClaimed(k, throttled)
    BY <1>s, <2>1 DEF ProbeClaimed, Locals
  <2>2. CASE Revalidate(k, throttled)
    BY <1>0, <1>s, <2>2 DEF Revalidate, NextItem, RunShape, Locals
  <2> QED
    BY <1>5, <2>1, <2>2
<1>6. ASSUME NEW k \in Keys, NEW throttled \in SUBSET Families, ProbeOthers(k, throttled)
      PROVE  FALSE
  BY <1>6, <1>n, <1>o DEF ProbeOthers
<1>7. ASSUME NEW c \in Companies, Moot(c) \/ Skip(c) PROVE FALSE
  BY <1>0, <1>s, <1>7 DEF Moot, Skip, RunShape
<1>8. ASSUME Settle PROVE FALSE
  BY <1>0, <1>s, <1>8 DEF Settle, NextItem, RunShape, Locals
<1> QED
  BY <1>1, <1>2, <1>3, <1>4, <1>5, <1>6, <1>7, <1>8 DEF Next, RunStep, Probe

\* No staged candidate, sighted or captured, leaves its place in the line without a verdict,
\* whatever the run, the pack and the sightings write meanwhile; a company's verdict is in
\* the table before its row is deleted, a key's comes after, and only a crash between those
\* two statements loses it: NothingIsDropped of discovered_slugs.
THEOREM CandidatesKeepTheirPlace == Spec => NothingIsDropped
<1>1. Init => seeding \subseteq Keys
  BY DEF Init
<1>2. EarnedInv /\ StagedInv /\ seeding \subseteq Keys /\ [Next]_vars
        => (EarnedInv /\ StagedInv /\ seeding \subseteq Keys)'
  BY EarnedStep, StagedStep, SeedingStep DEF Kept
<1>3. EarnedInv /\ StagedInv /\ seeding \subseteq Keys /\ [Next]_vars
        => [\A e \in Keys \union Companies :
              /\ e \in Staged \/ InHand(e) =>
                    \/ e \in Staged' \/ InHand(e)' \/ Judged(e)' \/ Spoken(e)
                    \/ InHand(e) /\ run' = Idle
              /\ Spoken(e)' => Spoken(e) \/ Judged(e)']_vars
  <2> SUFFICES ASSUME EarnedInv, StagedInv, seeding \subseteq Keys, [Next]_vars,
                      NEW e \in Keys \union Companies
               PROVE  /\ e \in Staged \/ InHand(e) =>
                            \/ e \in Staged' \/ InHand(e)' \/ Judged(e)' \/ Spoken(e)
                            \/ InHand(e) /\ run' = Idle
                      /\ Spoken(e)' => Spoken(e) \/ Judged(e)'
    OBVIOUS
  <2>1. e \in Staged => e \in Staged' \/ InHand(e)' \/ Judged(e)' \/ Spoken(e)
    BY StagedStep DEF Kept
  <2>2. InHand(e) => InHand(e)' \/ Judged(e)' \/ run' = Idle
    <3>1. InHand(e) => e \in Keys
      BY DEF InHand, EarnedInv, Debt
    <3> QED
      BY <3>1, HandStep
  <2>3. Spoken(e)' => Spoken(e) \/ Judged(e)'
    <3>1. Spoken(e)' => e \in Companies
      <4>1. EarnedInv'
        BY EarnedStep
      <4> QED
        <5>1. ASSUME Spoken(e)' PROVE e \in Companies
          <6>1. run'.owes.kind = "unstage" /\ run'.owes.of = e
            BY <5>1 DEF Spoken
          <6>2. \E c \in Companies : run'.owes = [kind |-> "unstage", of |-> c]
            BY <4>1, <6>1 DEF EarnedInv, Debt, Spoken
          <6> QED
            BY <6>1, <6>2
        <5> QED
          BY <5>1
    <3> QED
      BY <3>1, SpokenStep
  <2> QED
    BY <2>1, <2>2, <2>3
<1> QED
  BY EarnedInit, StagedInit, <1>1, <1>2, <1>3, PTL DEF Spec, NothingIsDropped

=============================================================================
