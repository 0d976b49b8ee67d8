---------------------------- MODULE ServicesProofs ----------------------------
(***************************************************************************)
(* Proofs about what stands behind a page, for any number of requests,     *)
(* rescues and cycles, any installations and any scores: the parts of      *)
(* MCServices that keep a state, AuditTrail and SetupWizard.  DraftRuns    *)
(* has proofs of its own.                                                  *)
(*                                                                         *)
(* That a rescue takes rests on AuditInv: a rescue that is about to claim  *)
(* its posting finds no row of it, a card, or a row the property names.    *)
(* Where a draft of an earlier résumé may be, and that the steps and the   *)
(* readiness checks agree, rest on WizardInv: what a request holds is what *)
(* it read, of its kind, and where the review was saved is a profile.      *)
(*                                                                         *)
(* And about four of the questions of MCLookups, for inputs of any size:   *)
(* the hard filters, what is made of the model's answers, which boards are *)
(* polled, and what a backup leaves and brings back.                       *)
(***************************************************************************)
EXTENDS MCServices, WellFoundedInduction, FiniteSetTheorems, SequenceTheorems, TLAPS

-----------------------------------------------------------------------------
(* The audit page *)

RescueRow == [phase : {"asking", "dropping", "claiming", "marking"}, overtaken : BOOLEAN,
              origin : {"filter", "score_low"}, score : Scores \union {None}]

\* What a rescue that claims finds: no row, a card, a row that has expired, or one that a cycle
\* wrote after the rescue looked again.
Cleared(q) ==
    rescues[q] # Audit!NoRescue /\ rescues[q].phase = "claiming"
        => row = None \/ row.kind = "card" \/ row.expired \/ rescues[q].overtaken

AuditInv ==
    /\ Audit!TypeOK
    /\ rescues \in [Rescues -> RescueRow \union {Audit!NoRescue}]
    /\ \A q \in Rescues : Cleared(q)

LEMMA RescueKinds == Audit!NoRescue \notin RescueRow
BY DEF RescueRow, Audit!NoRescue

\* What is written is a row, and a judgement is of a row of the same kind.
LEMMA AuditRows ==
    ASSUME AuditInv
    PROVE  /\ Audit!Card \in Audit!Rows /\ Audit!Card.kind = "card"
           /\ \A s \in Scores : Audit!Low(s) \in Audit!Rows
           /\ \A r \in Audit!Rows : [r EXCEPT !.expired = TRUE] \in Audit!Rows
           /\ \A r \in Audit!Rows, v \in Audit!Verdicts :
                 /\ [r EXCEPT !.verdict = v] \in Audit!Rows
                 /\ [r EXCEPT !.verdict = v].kind = r.kind
                 /\ [r EXCEPT !.verdict = v].expired = r.expired
           /\ \A r \in Audit!Rows, v \in Audit!Verdicts, s \in Scores :
                 /\ [r EXCEPT !.verdict = v, !.signal = s] \in Audit!Rows
                 /\ [r EXCEPT !.verdict = v, !.signal = s].kind = r.kind
                 /\ [r EXCEPT !.verdict = v, !.signal = s].expired = r.expired
<1>1. Audit!Card \in Audit!Rows /\ Audit!Card.kind = "card"
  BY DEF Audit!Card, Audit!Rows, Audit!Verdicts
<1>2. \A s \in Scores : Audit!Low(s) \in Audit!Rows
  BY <1>1 DEF Audit!Low, Audit!Rows
<1>3. \A r \in Audit!Rows : [r EXCEPT !.expired = TRUE] \in Audit!Rows
  BY DEF Audit!Rows
<1>4. \A r \in Audit!Rows, v \in Audit!Verdicts :
         /\ [r EXCEPT !.verdict = v] \in Audit!Rows
         /\ [r EXCEPT !.verdict = v].kind = r.kind
         /\ [r EXCEPT !.verdict = v].expired = r.expired
  BY DEF Audit!Rows
<1>5. \A r \in Audit!Rows, v \in Audit!Verdicts, s \in Scores :
         /\ [r EXCEPT !.verdict = v, !.signal = s] \in Audit!Rows
         /\ [r EXCEPT !.verdict = v, !.signal = s].kind = r.kind
         /\ [r EXCEPT !.verdict = v, !.signal = s].expired = r.expired
  BY DEF Audit!Rows
<1> QED
  BY <1>1, <1>2, <1>3, <1>4, <1>5

LEMMA AuditStarts ==
    ASSUME ServicesAssumption, Audit!Init
    PROVE  AuditInv
<1>1. \A q \in Rescues : rescues[q] = Audit!NoRescue
  BY DEF Audit!Init
<1>2. rescues \in [Rescues -> RescueRow \union {Audit!NoRescue}]
  BY DEF Audit!Init
<1>3. AuditMishaps \in Nat
  BY DEF ServicesAssumption, Audit!AuditAssumption
<1>4. auditCycles \in [Cycles -> {"idle", "scoring", "claimed"}]
  BY DEF Audit!Init
<1>5. auditMishaps \in 0 .. AuditMishaps
  <2>1. auditMishaps = 0
    BY DEF Audit!Init
  <2> QED
    BY <1>3, <2>1
<1>6. row = None /\ filed = None /\ allowed \in BOOLEAN /\ confirming \in BOOLEAN
  BY DEF Audit!Init
<1>7. Audit!TypeOK
  BY <1>4, <1>5, <1>6 DEF Audit!TypeOK
<1> QED
  BY <1>1, <1>2, <1>7 DEF AuditInv, Cleared

LEMMA AuditStep ==
    ASSUME ServicesAssumption, AuditInv, [Audit!Next]_auditVars
    PROVE  AuditInv'
<1>0. /\ AuditMishaps \in Nat /\ auditMishaps \in 0 .. AuditMishaps
      /\ row \in Audit!Rows \union {None} /\ filed \in Audit!Verdicts \union {None}
      /\ None \notin Audit!Rows
      /\ allowed \in BOOLEAN /\ auditCycles \in [Cycles -> {"idle", "scoring", "claimed"}]
      /\ confirming \in BOOLEAN
      /\ rescues \in [Rescues -> RescueRow \union {Audit!NoRescue}]
      /\ \A q \in Rescues : Cleared(q)
      /\ {"none", "rescued", "confirmed"} = Audit!Verdicts
  BY DEF ServicesAssumption, Audit!AuditAssumption, AuditInv, Audit!TypeOK, Audit!Verdicts
<1>1. \A m \in 0 .. AuditMishaps : m < AuditMishaps => m + 1 \in 0 .. AuditMishaps
  BY <1>0
<1>2. ASSUME Audit!Mishap PROVE auditMishaps' \in 0 .. AuditMishaps
  BY <1>0, <1>1, <1>2 DEF Audit!Mishap
\* What a step that leaves the rescues alone may do to the row.
<1>3. ASSUME UNCHANGED rescues,
             row' = row \/ row' = None
               \/ (row' \in Audit!Rows /\ (row'.kind = "card" \/ row'.expired))
               \/ (row \in Audit!Rows /\ row' \in Audit!Rows /\ row'.kind = row.kind
                     /\ row'.expired = row.expired)
      PROVE \A q \in Rescues : Cleared(q)'
  <2>1. SUFFICES ASSUME NEW q \in Rescues, rescues[q] # Audit!NoRescue,
                        rescues[q].phase = "claiming"
                 PROVE  row' = None \/ row'.kind = "card" \/ row'.expired \/ rescues[q].overtaken
    BY <1>3 DEF Cleared
  <2>2. row = None \/ row.kind = "card" \/ row.expired \/ rescues[q].overtaken
    BY <1>0, <2>1 DEF Cleared
  <2> QED
    BY <1>0, <1>3, <2>2
<1>4. ASSUME NEW c \in Cycles, Audit!Screen(c) PROVE AuditInv'
  BY <1>0, <1>3, <1>4 DEF Audit!Screen, AuditInv, Audit!TypeOK
<1>5. ASSUME NEW c \in Cycles, Audit!MarkSuppressed(c) PROVE AuditInv'
  <2>1. row' \in Audit!Rows \union {None}
    BY <1>0, <1>5, AuditRows DEF Audit!MarkSuppressed
  <2>2. CASE UNCHANGED <<row, rescues>>
    BY <1>0, <1>3, <1>5, <2>1, <2>2 DEF Audit!MarkSuppressed, AuditInv, Audit!TypeOK
  <2>3. CASE rescues' = [q \in Rescues |-> IF rescues[q].phase = "claiming"
                                           THEN [rescues[q] EXCEPT !.overtaken = TRUE]
                                           ELSE rescues[q]]
    <3>1. ASSUME NEW q \in Rescues
          PROVE  /\ rescues'[q] \in RescueRow \union {Audit!NoRescue}
                 /\ rescues'[q].phase = "claiming" => rescues'[q].overtaken
      <4>1. CASE rescues[q].phase = "claiming"
        <5>1. rescues[q] \in RescueRow
          BY <1>0, <4>1 DEF Audit!NoRescue
        <5> QED
          BY <2>3, <4>1, <5>1 DEF RescueRow
      <4>2. CASE rescues[q].phase # "claiming"
        BY <1>0, <2>3, <4>2
      <4> QED
        BY <4>1, <4>2
    <3>2. rescues' \in [Rescues -> RescueRow \union {Audit!NoRescue}]
      BY <2>3, <3>1
    <3>3. \A q \in Rescues : Cleared(q)'
      BY <3>1 DEF Cleared
    <3> QED
      BY <1>0, <1>5, <2>1, <3>2, <3>3 DEF Audit!MarkSuppressed, AuditInv, Audit!TypeOK
  <2> QED
    BY <1>5, <2>2, <2>3 DEF Audit!MarkSuppressed
<1>6. ASSUME NEW c \in Cycles, Audit!ClaimForNotify(c) PROVE AuditInv'
  <2>1. row' = row \/ (row' \in Audit!Rows /\ row'.kind = "card")
    BY <1>6, AuditRows DEF Audit!ClaimForNotify
  <2> QED
    BY <1>0, <1>3, <1>6, <2>1 DEF Audit!ClaimForNotify, AuditInv, Audit!TypeOK
<1>7. ASSUME NEW c \in Cycles, Audit!Delivered(c) \/ Audit!ReleaseClaim(c) PROVE AuditInv'
  BY <1>0, <1>2, <1>3, <1>7 DEF Audit!Delivered, Audit!ReleaseClaim, AuditInv, Audit!TypeOK
\* A rescue moves on, with the row as it is, gone, or a card.
<1>8. ASSUME NEW q \in Rescues, NEW r \in RescueRow, rescues' = [rescues EXCEPT ![q] = r],
             row' = row \/ row' = None \/ row'.kind = "card",
             r.phase = "claiming"
               => row' = None \/ row'.kind = "card" \/ row'.expired \/ r.overtaken
      PROVE  /\ rescues' \in [Rescues -> RescueRow \union {Audit!NoRescue}]
             /\ \A p \in Rescues : Cleared(p)'
  <2>1. rescues' \in [Rescues -> RescueRow \union {Audit!NoRescue}]
    BY <1>0, <1>8
  <2>2. ASSUME NEW p \in Rescues PROVE Cleared(p)'
    <3>1. CASE p = q
      BY <1>0, <1>8, <3>1 DEF Cleared
    <3>2. CASE p # q
      BY <1>0, <1>8, <3>2 DEF Cleared
    <3> QED
      BY <3>1, <3>2
  <2> QED
    BY <2>1, <2>2
<1>9. ASSUME NEW q \in Rescues, Audit!BeginRescue(q) PROVE AuditInv'
  <2> DEFINE r == [phase |-> "asking", overtaken |-> FALSE,
                   origin |-> IF filed # None THEN "filter" ELSE "score_low",
                   score |-> IF filed # None THEN None ELSE row.score]
  <2>1. filed = None => row \in Audit!Rows
    BY <1>0, <1>9 DEF Audit!BeginRescue, Audit!Suppressed, Audit!Live
  <2>2. filed = None => row.score \in Scores \union {None}
    BY <2>1 DEF Audit!Rows
  <2>3. r \in RescueRow
    BY <2>2 DEF RescueRow
  <2>4. rescues' = [rescues EXCEPT ![q] = r] /\ r.phase # "claiming" /\ row' = row
    BY <1>9 DEF Audit!BeginRescue
  <2> HIDE DEF r
  <2> QED
    BY <1>0, <1>8, <1>9, <2>3, <2>4 DEF Audit!BeginRescue, AuditInv, Audit!TypeOK
<1>10. ASSUME NEW q \in Rescues, Audit!LookAgain(q) PROVE AuditInv'
  <2> DEFINE r == [rescues[q] EXCEPT !.phase = IF Audit!MustDrop(q) THEN "dropping" ELSE "claiming"]
  <2>1. rescues[q] \in RescueRow
    BY <1>0, <1>10 DEF Audit!LookAgain, Audit!NoRescue
  <2>2. r \in RescueRow /\ r.overtaken = rescues[q].overtaken
    BY <2>1 DEF RescueRow
  <2>3. rescues' = [rescues EXCEPT ![q] = r] /\ row' = row
    BY <1>0, <1>10, <2>1 DEF Audit!LookAgain
  <2>4. r.phase = "claiming" => row = None \/ row.kind = "card" \/ row.expired
    BY <1>0, <2>1 DEF RescueRow, Audit!MustDrop, Audit!Suppressed, Audit!Live, Audit!Rows
  <2> HIDE DEF r
  <2> QED
    BY <1>0, <1>8, <1>10, <2>2, <2>3, <2>4 DEF Audit!LookAgain, AuditInv, Audit!TypeOK
<1>11. ASSUME NEW q \in Rescues, Audit!Drop(q) PROVE AuditInv'
  <2> DEFINE r == [rescues[q] EXCEPT !.phase = "claiming"]
  <2>1. rescues[q] \in RescueRow
    BY <1>0, <1>11 DEF Audit!Drop, Audit!NoRescue
  <2>2. r \in RescueRow
    BY <2>1 DEF RescueRow
  <2>3. rescues' = [rescues EXCEPT ![q] = r] /\ row' = None
    BY <1>0, <1>11, <2>1 DEF Audit!Drop
  <2> HIDE DEF r
  <2> QED
    BY <1>0, <1>8, <1>11, <2>2, <2>3 DEF Audit!Drop, AuditInv, Audit!TypeOK
<1>12. ASSUME NEW q \in Rescues, Audit!ClaimRescued(q) PROVE AuditInv'
  <2> DEFINE r == [rescues[q] EXCEPT !.phase = "marking"]
  <2>1. rescues[q] \in RescueRow
    BY <1>0, <1>12 DEF Audit!ClaimRescued, Audit!NoRescue
  <2>2. r \in RescueRow /\ r.phase # "claiming"
    BY <2>1 DEF RescueRow
  <2>3. rescues' = [rescues EXCEPT ![q] = r]
    BY <1>0, <1>12, <2>1 DEF Audit!ClaimRescued
  <2>4. row' = row \/ (row' \in Audit!Rows /\ row'.kind = "card")
    BY <1>12, AuditRows DEF Audit!ClaimRescued
  <2> HIDE DEF r
  <2> QED
    BY <1>0, <1>8, <1>12, <2>2, <2>3, <2>4 DEF Audit!ClaimRescued, AuditInv, Audit!TypeOK
<1>13. ASSUME NEW q \in Rescues, Audit!MarkRescued(q) PROVE AuditInv'
  <2>1. rescues[q] \in RescueRow
    BY <1>0, <1>13 DEF Audit!MarkRescued, Audit!NoRescue
  <2>2. rescues[q].score \in Scores \union {None}
    BY <2>1 DEF RescueRow
  <2>3. rescues' = [rescues EXCEPT ![q] = Audit!NoRescue]
    BY <1>13 DEF Audit!MarkRescued
  <2>4. \/ row' = row
        \/ row \in Audit!Rows /\ row' \in Audit!Rows /\ row'.kind = row.kind
             /\ row'.expired = row.expired
    BY <1>0, <1>13, <2>2, AuditRows DEF Audit!MarkRescued, Audit!Live
  <2>5. filed' \in Audit!Verdicts \union {None}
    BY <1>0, <1>13 DEF Audit!MarkRescued
  <2>6. ASSUME NEW p \in Rescues PROVE Cleared(p)'
    <3>1. CASE p = q
      BY <1>0, <2>3, <3>1 DEF Cleared
    <3>2. CASE p # q
      <4>1. rescues'[p] = rescues[p] /\ Cleared(p)
        BY <1>0, <2>3, <3>2
      <4> QED
        BY <1>0, <2>4, <4>1 DEF Cleared
    <3> QED
      BY <3>1, <3>2
  <2> QED
    BY <1>0, <1>13, <2>3, <2>4, <2>5, <2>6 DEF Audit!MarkRescued, AuditInv, Audit!TypeOK
<1>14. CASE Audit!Confirm
  BY <1>0, <1>3, <1>14 DEF Audit!Confirm, AuditInv, Audit!TypeOK
<1>15. CASE Audit!SetAuditVerdict
  <2>1. \/ row' = row
        \/ row \in Audit!Rows /\ row' \in Audit!Rows /\ row'.kind = row.kind
             /\ row'.expired = row.expired
    BY <1>0, <1>15, AuditRows DEF Audit!SetAuditVerdict, Audit!Live
  <2> QED
    BY <1>0, <1>3, <1>15, <2>1 DEF Audit!SetAuditVerdict, AuditInv, Audit!TypeOK
<1>16. CASE Audit!Expire
  <2>1. row' \in Audit!Rows /\ row'.expired
    <3>1. row \in Audit!Rows
      BY <1>0, <1>16 DEF Audit!Expire, Audit!Live
    <3> QED
      BY <1>16, <3>1 DEF Audit!Expire, Audit!Rows
  <2> QED
    BY <1>0, <1>2, <1>3, <1>16, <2>1 DEF Audit!Expire, AuditInv, Audit!TypeOK
<1>17. CASE Audit!Prune \/ Audit!Retune
  BY <1>0, <1>2, <1>3, <1>17 DEF Audit!Prune, Audit!Retune, AuditInv, Audit!TypeOK
<1>18. CASE Audit!Crash
  <2>1. CASE UNCHANGED rescues
    BY <1>0, <1>2, <1>3, <1>18, <2>1 DEF Audit!Crash, AuditInv, Audit!TypeOK
  <2>2. CASE rescues' = [q \in Rescues |-> Audit!NoRescue] /\ UNCHANGED auditCycles
    <3>1. \A q \in Rescues : Cleared(q)'
      BY <2>2 DEF Cleared
    <3> QED
      BY <1>0, <1>2, <1>18, <2>2, <3>1 DEF Audit!Crash, AuditInv, Audit!TypeOK
  <2> QED
    BY <1>18, <2>1, <2>2 DEF Audit!Crash
<1>19. CASE UNCHANGED auditVars
  BY <1>0, <1>3, <1>19 DEF auditVars, AuditInv, Audit!TypeOK
<1> QED
  BY <1>4, <1>5, <1>6, <1>7, <1>9, <1>10, <1>11, <1>12, <1>13, <1>14, <1>15, <1>16, <1>17,
     <1>18, <1>19
  DEF Audit!Next

\* Only its own claim takes a rescue from claiming to marking.
LEMMA ClaimIsMade ==
    ASSUME AuditInv, [Audit!Next]_auditVars, NEW q \in Rescues,
           rescues[q].phase = "claiming", rescues'[q].phase = "marking"
    PROVE  Audit!ClaimRescued(q)
<1>0. /\ rescues \in [Rescues -> RescueRow \union {Audit!NoRescue}]
      /\ rescues[q] \in RescueRow
  BY DEF AuditInv, Audit!NoRescue
<1>1. ASSUME NEW p \in Rescues, NEW r, rescues' = [rescues EXCEPT ![p] = r]
      PROVE  p = q
  BY <1>0, <1>1
<1>2. ASSUME NEW p \in Rescues, Audit!BeginRescue(p) \/ Audit!MarkRescued(p)
      PROVE  FALSE
  BY <1>0, <1>1, <1>2 DEF Audit!BeginRescue, Audit!MarkRescued, Audit!NoRescue
<1>3. ASSUME NEW p \in Rescues, Audit!LookAgain(p) \/ Audit!Drop(p)
      PROVE  FALSE
  BY <1>0, <1>3 DEF Audit!LookAgain, Audit!Drop
<1>4. ASSUME NEW p \in Rescues, Audit!ClaimRescued(p)
      PROVE  p = q
  BY <1>0, <1>4 DEF Audit!ClaimRescued
<1>5. ASSUME NEW c \in Cycles, Audit!MarkSuppressed(c)
      PROVE  FALSE
  <2>1. rescues'[q] = [rescues[q] EXCEPT !.overtaken = TRUE] \/ rescues'[q] = rescues[q]
    BY <1>5 DEF Audit!MarkSuppressed
  <2> QED
    BY <1>0, <2>1 DEF RescueRow
<1>6. rescues' # rescues
  OBVIOUS
<1>7. ~Audit!Crash
  BY <1>6 DEF Audit!Crash, Audit!NoRescue
<1> QED
  BY <1>2, <1>3, <1>4, <1>5, <1>6, <1>7
  DEF Audit!Next, Audit!Screen, Audit!ClaimForNotify, Audit!Delivered, Audit!ReleaseClaim,
      Audit!Confirm, Audit!SetAuditVerdict, Audit!Expire, Audit!Prune, Audit!Retune, auditVars

\* What a step of the audit page may do to a rescue and to a judgement.
LEMMA AuditActs ==
    ASSUME ServicesAssumption, AuditInv, [Audit!Next]_auditVars
    PROVE  /\ \A q \in Rescues :
                 rescues[q].phase = "claiming" /\ rescues'[q].phase = "marking"
                    => row'.kind = "card" \/ row'.expired \/ rescues[q].overtaken
           /\ filed \in {"rescued", "confirmed"} => filed' # None
           /\ Audit!Live /\ row.verdict # "none" /\ ~Audit!Live' =>
                 \/ \E q \in Rescues : rescues[q].phase = "dropping" /\
                    rescues'[q].phase = "claiming"
                 \/ \E c \in Cycles : auditCycles[c] = "claimed" /\ auditCycles'[c] = "idle"
<1> DEFINE Takes == \A q \in Rescues :
              rescues[q].phase = "claiming" /\ rescues'[q].phase = "marking"
                 => row'.kind = "card" \/ row'.expired \/ rescues[q].overtaken
           Filed == filed \in {"rescued", "confirmed"} => filed' # None
           Judged == Audit!Live /\ row.verdict # "none" /\ ~Audit!Live' =>
              \/ \E q \in Rescues : rescues[q].phase = "dropping" /\ rescues'[q].phase = "claiming"
              \/ \E c \in Cycles : auditCycles[c] = "claimed" /\ auditCycles'[c] = "idle"
<1>0. /\ row \in Audit!Rows \union {None} /\ filed \in Audit!Verdicts \union {None}
      /\ None \notin Audit!Rows /\ None \notin {"rescued", "confirmed"}
      /\ auditCycles \in [Cycles -> {"idle", "scoring", "claimed"}]
      /\ rescues \in [Rescues -> RescueRow \union {Audit!NoRescue}]
      /\ \A q \in Rescues : Cleared(q)
  BY DEF ServicesAssumption, Audit!AuditAssumption, AuditInv, Audit!TypeOK, Audit!Verdicts
<1>1. Takes
  <2>1. SUFFICES ASSUME NEW q \in Rescues, rescues[q].phase = "claiming",
                        rescues'[q].phase = "marking"
                 PROVE  row'.kind = "card" \/ row'.expired \/ rescues[q].overtaken
    OBVIOUS
  <2>2. row' = IF row = None THEN Audit!Card ELSE row
    BY <2>1, ClaimIsMade DEF Audit!ClaimRescued
  <2>3. row = None \/ row.kind = "card" \/ row.expired \/ rescues[q].overtaken
    BY <1>0, <2>1 DEF Cleared, Audit!NoRescue
  <2> QED
    BY <2>2, <2>3, AuditRows
<1>2. Filed
  BY <1>0 DEF Audit!Next, Audit!Screen, Audit!MarkSuppressed, Audit!ClaimForNotify,
     Audit!Delivered, Audit!ReleaseClaim, Audit!BeginRescue, Audit!LookAgain, Audit!Drop,
     Audit!ClaimRescued, Audit!MarkRescued, Audit!Confirm, Audit!SetAuditVerdict, Audit!Expire,
     Audit!Prune, Audit!Expires, Audit!Retune, Audit!Crash, auditVars
<1>3. ASSUME Audit!Live, row.verdict # "none", ~Audit!Live'
      PROVE  \/ \E q \in Rescues : rescues[q].phase = "dropping" /\ rescues'[q].phase = "claiming"
             \/ \E c \in Cycles : auditCycles[c] = "claimed" /\ auditCycles'[c] = "idle"
  <2>0. /\ row \in Audit!Rows /\ row # None /\ ~row.expired /\ row' # row
        /\ ~(row' \in Audit!Rows /\ row'.expired = row.expired)
    BY <1>0, <1>3 DEF Audit!Live
  <2>1. CASE \E q \in Rescues : Audit!Drop(q)
    <3>1. PICK q \in Rescues : Audit!Drop(q)
      BY <2>1
    <3>2. rescues[q] \in RescueRow
      BY <1>0, <3>1 DEF Audit!Drop, Audit!NoRescue
    <3>3. rescues'[q].phase = "claiming"
      BY <1>0, <3>1, <3>2 DEF Audit!Drop, RescueRow
    <3> QED
      BY <3>1, <3>3 DEF Audit!Drop
  <2>2. CASE \E c \in Cycles : Audit!ReleaseClaim(c)
    BY <1>0, <2>2 DEF Audit!ReleaseClaim
  <2>3. ASSUME NEW q \in Rescues PROVE ~Audit!ClaimRescued(q)
    BY <2>0 DEF Audit!ClaimRescued
  <2>4. ASSUME NEW q \in Rescues PROVE ~Audit!MarkRescued(q)
    <3>1. SUFFICES ASSUME Audit!MarkRescued(q) PROVE FALSE
      OBVIOUS
    <3>2. rescues[q] \in RescueRow
      BY <1>0, <3>1 DEF Audit!MarkRescued, Audit!NoRescue
    <3>3. rescues[q].score \in Scores \union {None}
      BY <3>2 DEF RescueRow
    <3>4. "rescued" \in Audit!Verdicts
      BY DEF Audit!Verdicts
    <3> QED
      BY <2>0, <3>1, <3>3, <3>4, AuditRows DEF Audit!MarkRescued
  <2>5. ~Audit!Confirm /\ ~Audit!SetAuditVerdict
    BY <2>0, AuditRows DEF Audit!Confirm, Audit!SetAuditVerdict, Audit!Verdicts
  <2>6. ~Audit!Prune /\ ~Audit!Expire
    BY <1>3, <2>0 DEF Audit!Prune, Audit!Expire, Audit!Expires
  <2>7. ASSUME NEW c \in Cycles
        PROVE  ~Audit!Screen(c) /\ ~Audit!MarkSuppressed(c) /\ ~Audit!ClaimForNotify(c)
                 /\ ~Audit!Delivered(c)
    BY <2>0 DEF Audit!Screen, Audit!MarkSuppressed, Audit!ClaimForNotify, Audit!Delivered
  <2>8. ASSUME NEW q \in Rescues PROVE ~Audit!BeginRescue(q) /\ ~Audit!LookAgain(q)
    BY <2>0 DEF Audit!BeginRescue, Audit!LookAgain
  <2>9. ~Audit!Retune /\ ~Audit!Crash /\ ~UNCHANGED auditVars
    BY <2>0 DEF Audit!Retune, Audit!Crash, auditVars
  <2> QED
    BY <2>1, <2>2, <2>3, <2>4, <2>5, <2>6, <2>7, <2>8, <2>9 DEF Audit!Next
<1> QED
  BY <1>1, <1>2, <1>3

-----------------------------------------------------------------------------
(* The audit page, where it is the part that is run and where it is not *)

LEMMA AuditPart ==
    ASSUME ServicesNext \/ UNCHANGED servicesVars
    PROVE  [Audit!Next]_auditVars
BY DEF ServicesNext, servicesVars

THEOREM AuditInvHolds == ServicesSpec => []AuditInv
<1>1. ServicesInit => AuditInv
  BY ServicesAssumption, AuditStarts DEF ServicesInit
<1>2. AuditInv /\ [ServicesNext]_servicesVars => AuditInv'
  BY ServicesAssumption, AuditStep, AuditPart
<1> QED
  BY <1>1, <1>2, PTL DEF ServicesSpec

\* A rescue takes, whatever the cycles do to the posting while the model is asked: what was
\* suppressed when it looked again is dropped before its claim, so that the claim makes the
\* card (audit.py, rescue), unless a cycle suppressed the posting after that look or a row that
\* has expired is in the way; and what the user judged stays for the thresholds to be tuned on
\* (state_sqlite.py, the expiry of seen_jobs and rejected_postings).
THEOREM RescuesAreTaken == ServicesSpec => RescuesTake
<1>1. AuditInv => Audit!TypeOK
  BY DEF AuditInv
<1>2. AuditInv /\ [ServicesNext]_servicesVars =>
         [\A q \in Rescues :
            rescues[q].phase = "claiming" /\ rescues'[q].phase = "marking"
               => row'.kind = "card" \/ row'.expired \/ rescues[q].overtaken]_auditVars
  BY ServicesAssumption, AuditActs, AuditPart
<1>3. AuditInv /\ [ServicesNext]_servicesVars =>
         [/\ filed \in {"rescued", "confirmed"} => filed' # None
          /\ Audit!Live /\ row.verdict # "none" /\ ~Audit!Live' =>
                \/ \E q \in Rescues : rescues[q].phase = "dropping" /\
                   rescues'[q].phase = "claiming"
                \/ \E c \in Cycles : auditCycles[c] = "claimed" /\
                   auditCycles'[c] = "idle"]_auditVars
  BY ServicesAssumption, AuditActs, AuditPart
<1> QED
  BY <1>1, <1>2, <1>3, AuditInvHolds, PTL
  DEF ServicesSpec, RescuesTake, Audit!RescueTakes, Audit!JudgementsLast, Audit!vars, auditVars

-----------------------------------------------------------------------------
(* The wizard *)

Cfgs == [Wizard!Fields -> BOOLEAN]
Posted(kinds, resumes, reads) ==
    [kind : kinds, cfg : Cfgs, profile : BOOLEAN, resume : resumes, read : reads]

\* What a request holds where t topics were suggested: a form is between its writes or not, a
\* call of the model is under way for a résumé, and what was read is a set of steps or a topic.
FormReads == {None, "saved", "nothing"}
PostRow(t) ==
    Posted(Wizard!Forms, 0 .. MaxResumes, FormReads)
      \union Posted({"draft"}, 0 .. MaxResumes, {None})
      \union Posted({"draft"}, 1 .. MaxResumes, {"called"})
      \union Posted({"suggest"}, 0 .. MaxResumes, (1 .. t) \union {None})
      \union Posted({"skip"}, 0 .. MaxResumes, (SUBSET Wizard!StepNames) \union {None})

\* Where the review was saved there is a profile, and no document is ever taken away.
ReviewIsSaved == \A q \in Requests : posts[q].kind = "review" /\ posts[q].read # None => profile

WizardInv ==
    /\ Wizard!TypeOK /\ posts \in [Requests -> PostRow(topics) \union {Wizard!NoPost}]
    /\ ReviewIsSaved

LEMMA PostIsOfItsKind ==
    ASSUME NEW t \in Nat, NEW p \in PostRow(t)
    PROVE  /\ p \in Posted(Wizard!Kinds, 0 .. MaxResumes, {p.read}) /\ p # Wizard!NoPost
           /\ p.kind \in Wizard!Forms => p.read \in FormReads
           /\ p.kind = "draft" /\ p.read # None => p.read = "called" /\ p.resume \in 1 .. MaxResumes
           /\ p.kind = "suggest" => p.read \in (1 .. t) \union {None}
           /\ p.kind = "skip" => p.read \in (SUBSET Wizard!StepNames) \union {None}
<1>1. CASE p \in Posted(Wizard!Forms, 0 .. MaxResumes, FormReads)
  BY <1>1 DEF Posted, Wizard!Forms, Wizard!Kinds, Wizard!NoPost
<1>2. CASE p \in Posted({"draft"}, 0 .. MaxResumes, {None})
  <2>1. p.kind = "draft" /\ p.read = None
    BY <1>2 DEF Posted
  <2> QED
    BY <1>2, <2>1 DEF Posted, Wizard!Forms, Wizard!Kinds, Wizard!NoPost
<1>3. CASE p \in Posted({"draft"}, 1 .. MaxResumes, {"called"})
  <2>1. p.resume \in 0 .. MaxResumes
    BY <1>3 DEF Posted
  <2> QED
    BY <1>3, <2>1 DEF Posted, Wizard!Forms, Wizard!Kinds, Wizard!NoPost
<1>4. CASE p \in Posted({"suggest"}, 0 .. MaxResumes, (1 .. t) \union {None})
  BY <1>4 DEF Posted, Wizard!Forms, Wizard!Kinds, Wizard!NoPost
<1>5. CASE p \in Posted({"skip"}, 0 .. MaxResumes, (SUBSET Wizard!StepNames) \union {None})
  BY <1>5 DEF Posted, Wizard!Forms, Wizard!Kinds, Wizard!NoPost
<1> QED
  BY <1>1, <1>2, <1>3, <1>4, <1>5 DEF PostRow

\* Every request has a kind, whatever else is written of it.
LEMMA PostFields ==
    ASSUME NEW t, NEW p \in PostRow(t) \union {Wizard!NoPost}, NEW x
    PROVE  [p EXCEPT !.read = x].kind = p.kind /\ [p EXCEPT !.read = x].read = x
<1>1. CASE p = Wizard!NoPost
  BY <1>1 DEF Wizard!NoPost
<1>2. CASE p \in PostRow(t)
  BY <1>2 DEF PostRow, Posted
<1> QED
  BY <1>1, <1>2

\* A topic more makes no request a different one.
LEMMA PostsStay ==
    ASSUME NEW t \in Nat
    PROVE  PostRow(t) \subseteq PostRow(t + 1)
<1>1. 1 .. t \subseteq 1 .. (t + 1)
  OBVIOUS
<1>2. Posted({"suggest"}, 0 .. MaxResumes, (1 .. t) \union {None})
        \subseteq Posted({"suggest"}, 0 .. MaxResumes, (1 .. (t + 1)) \union {None})
  BY <1>1 DEF Posted
<1> QED
  BY <1>2 DEF PostRow

LEMMA WizardStarts ==
    ASSUME ServicesAssumption, Wizard!Init
    PROVE  WizardInv
<1>1. /\ MaxRequests \in Nat /\ MaxResumes \in Nat /\ WizardMishaps \in Nat
      /\ Begins \subseteq [cfg : [Wizard!Fields -> BOOLEAN], secrets : SUBSET {"key", "ntfy"},
                           profile : BOOLEAN, resume : 0 .. MaxResumes,
                           skipped : SUBSET Wizard!StepNames]
  BY DEF ServicesAssumption, Wizard!WizardAssumption
<1>2. PICK i \in Begins : /\ cfg = i.cfg /\ secrets = i.secrets /\ profile = i.profile
                          /\ resume = i.resume /\ skipped = i.skipped
  BY DEF Wizard!Init
<1> QED
  BY <1>1, <1>2 DEF Wizard!Init, WizardInv, Wizard!TypeOK, ReviewIsSaved, Wizard!NoPost

\* A saved review stays saved: what a step writes of a request, and what of the profile.
LEMMA ReviewStaysSaved ==
    ASSUME WizardInv, [Wizard!Next]_wizardVars
    PROVE  ReviewIsSaved'
<1>0. /\ ReviewIsSaved /\ profile \in BOOLEAN
      /\ posts \in [Requests -> PostRow(topics) \union {Wizard!NoPost}]
  BY DEF WizardInv, Wizard!TypeOK
<1>1. ASSUME UNCHANGED posts, profile => profile' PROVE ReviewIsSaved'
  BY <1>0, <1>1 DEF ReviewIsSaved
<1>2. ASSUME NEW q \in Requests, NEW p, posts' = [posts EXCEPT ![q] = p], profile => profile',
             p.kind = "review" /\ p.read # None => profile'
      PROVE  ReviewIsSaved'
  <2>1. ASSUME NEW o \in Requests, posts'[o].kind = "review", posts'[o].read # None
        PROVE  profile'
    <3>1. CASE o = q
      BY <1>0, <1>2, <2>1, <3>1
    <3>2. CASE o # q
      BY <1>0, <1>2, <2>1, <3>2 DEF ReviewIsSaved
    <3> QED
      BY <3>1, <3>2
  <2> QED
    BY <2>1 DEF ReviewIsSaved
<1>3. ASSUME NEW q \in Requests, Wizard!Done(q), profile => profile' PROVE ReviewIsSaved'
  BY <1>2, <1>3 DEF Wizard!Done, Wizard!NoPost
<1>4. ASSUME NEW q \in Requests, NEW kind, NEW mark, Wizard!First(q, kind, mark),
             profile => profile', kind = "review" => profile'
      PROVE  ReviewIsSaved'
  <2>1. /\ posts' = [posts EXCEPT ![q] = [posts[q] EXCEPT !.read = mark]]
        /\ [posts[q] EXCEPT !.read = mark].kind = posts[q].kind /\ posts[q].kind = kind
    BY <1>0, <1>4, PostFields DEF Wizard!First
  <2> QED
    BY <1>2, <1>4, <2>1
<1>5. ASSUME NEW q \in Requests, NEW kind \in Wizard!Kinds, Wizard!Arrive(q, kind)
      PROVE  ReviewIsSaved'
  BY <1>2, <1>5 DEF Wizard!Arrive, Wizard!settings
<1>6. ASSUME NEW q \in Requests, Wizard!Save(q) PROVE ReviewIsSaved'
  <2>1. CASE Wizard!SaveReview(q)
    BY <1>4, <2>1 DEF Wizard!SaveReview
  <2>2. CASE Wizard!SaveCompanies(q)
    BY <1>4, <2>2 DEF Wizard!SaveCompanies
  <2>3. CASE Wizard!SaveLlm(q) \/ Wizard!SaveResume(q) \/ Wizard!SaveNotifications(q)
    BY <1>4, <2>3 DEF Wizard!SaveLlm, Wizard!SaveResume, Wizard!SaveNotifications
  <2> QED
    BY <1>6, <2>1, <2>2, <2>3 DEF Wizard!Save
<1>7. ASSUME NEW q \in Requests, Wizard!Finish(q) PROVE ReviewIsSaved'
  BY <1>3, <1>7
  DEF Wizard!Finish, Wizard!StoreKey, Wizard!DropDraft, Wizard!SkipCompanies, Wizard!DropTopic,
      Wizard!Second
<1>8. ASSUME NEW q \in Requests, Wizard!Other(q) PROVE ReviewIsSaved'
  <2>1. CASE Wizard!WriteSkipped(q) \/ Wizard!PutTopic(q) \/ Wizard!EndDraft(q)
    BY <1>3, <2>1 DEF Wizard!WriteSkipped, Wizard!PutTopic, Wizard!EndDraft, Wizard!settings
  <2>2. CASE Wizard!Refuse(q)
    BY <1>2, <2>2 DEF Wizard!Refuse, Wizard!settings, Wizard!NoPost
  <2>3. ASSUME NEW x, posts[q].kind # "review", profile' = profile,
               posts' = [posts EXCEPT ![q] = [posts[q] EXCEPT !.read = x]]
        PROVE  ReviewIsSaved'
    <3>1. [posts[q] EXCEPT !.read = x].kind = posts[q].kind
      BY <1>0, PostFields
    <3> QED
      BY <1>2, <2>3, <3>1
  <2>4. CASE Wizard!ReadSkipped(q)
    <3>1. /\ posts' = [posts EXCEPT ![q] = [posts[q] EXCEPT !.read = skipped]]
          /\ posts[q].kind # "review" /\ profile' = profile
      BY <2>4 DEF Wizard!ReadSkipped, Wizard!settings
    <3> QED
      BY <2>3, <3>1
  <2>5. CASE Wizard!ReadTopic(q)
    BY <1>3, <2>3, <2>5 DEF Wizard!ReadTopic, Wizard!settings
  <2>6. CASE Wizard!BeginDraft(q)
    <3>1. CASE posts' = [posts EXCEPT ![q] = Wizard!NoPost]
      BY <1>2, <2>6, <3>1 DEF Wizard!BeginDraft, Wizard!settings, Wizard!NoPost
    <3>2. CASE posts' = [posts EXCEPT ![q] = [posts[q] EXCEPT !.read = "called"]]
      <4>1. posts[q].kind # "review" /\ profile' = profile
        BY <2>6 DEF Wizard!BeginDraft, Wizard!settings
      <4> QED
        BY <2>3, <3>2, <4>1
    <3> QED
      BY <2>6, <3>1, <3>2 DEF Wizard!BeginDraft
  <2> QED
    BY <1>8, <2>1, <2>2, <2>4, <2>5, <2>6 DEF Wizard!Other
<1>9. CASE Wizard!Restart
  BY <1>9 DEF Wizard!Restart, ReviewIsSaved, Wizard!NoPost
<1>10. CASE Wizard!Redraft \/ Wizard!StartPreview \/ Wizard!EndPreview \/ UNCHANGED wizardVars
  BY <1>1, <1>10
  DEF Wizard!Redraft, Wizard!StartPreview, Wizard!EndPreview, Wizard!settings, wizardVars
<1>11. CASE Wizard!Elsewhere
  <2>1. UNCHANGED posts
    BY <1>11 DEF Wizard!Elsewhere
  <2>2. profile => profile'
    BY <1>11, Zenon DEF Wizard!Elsewhere
  <2> QED
    BY <1>1, <2>1, <2>2
<1> QED
  BY <1>5, <1>6, <1>7, <1>8, <1>9, <1>10, <1>11 DEF Wizard!Next

LEMMA WizardStep ==
    ASSUME ServicesAssumption, WizardInv, [Wizard!Next]_wizardVars
    PROVE  WizardInv'
<1> USE ReviewStaysSaved
<1>0. /\ MaxRequests \in Nat /\ MaxResumes \in Nat /\ WizardMishaps \in Nat
      /\ cfg \in Cfgs /\ secrets \subseteq {"key", "ntfy"} /\ profile \in BOOLEAN
      /\ resume \in 0 .. MaxResumes /\ skipped \subseteq Wizard!StepNames
      /\ draft \in [status : {"ok", "error"}, of : 1 .. MaxResumes] \union {None}
      /\ preview \in {None, "running", "ok", "error"} /\ previews \in Nat
      /\ topics \in Nat /\ topic \in (1 .. topics) \union {None}
      /\ arrived \in 0 .. MaxRequests /\ mishaps \in 0 .. WizardMishaps
      /\ posts \in [Requests -> PostRow(topics) \union {Wizard!NoPost}]
  BY DEF ServicesAssumption, Wizard!WizardAssumption, WizardInv, Wizard!TypeOK, Cfgs
<1>1. ASSUME Wizard!Mishap PROVE mishaps' \in 0 .. WizardMishaps
  BY <1>0, <1>1 DEF Wizard!Mishap
<1>2. ASSUME arrived < MaxRequests, arrived' = arrived + 1 PROVE arrived' \in 0 .. MaxRequests
  BY <1>0, <1>2
<1>3. ASSUME NEW q \in Requests, Wizard!Done(q)
      PROVE  /\ posts' \in [Requests -> PostRow(topics) \union {Wizard!NoPost}]
             /\ posts[q] \in PostRow(topics)
  BY <1>0, <1>3 DEF Wizard!Done
<1>4. ASSUME NEW q \in Requests, NEW kind \in Wizard!Kinds, Wizard!Arrive(q, kind)
      PROVE  WizardInv'
  <2> DEFINE p == [kind |-> kind, cfg |-> cfg, profile |-> profile, resume |-> resume,
      read |-> None]
  <2>1. p \in PostRow(topics)
    BY <1>0 DEF PostRow, Posted, Wizard!Kinds, FormReads
  <2>2. posts' = [posts EXCEPT ![q] = p]
    BY <1>4 DEF Wizard!Arrive
  <2> HIDE DEF p
  <2>3. posts' \in [Requests -> PostRow(topics) \union {Wizard!NoPost}]
    BY <1>0, <2>1, <2>2
  <2> QED
    BY <1>0, <1>2, <1>4, <2>3
    DEF Wizard!Arrive, Wizard!settings, Wizard!store, WizardInv, Wizard!TypeOK, Cfgs
<1>5. ASSUME NEW q \in Requests, Wizard!Refuse(q) PROVE WizardInv'
  <2>1. posts' \in [Requests -> PostRow(topics) \union {Wizard!NoPost}]
    BY <1>0, <1>5 DEF Wizard!Refuse
  <2> QED
    BY <1>0, <1>5, <2>1
    DEF Wizard!Refuse, Wizard!settings, Wizard!store, WizardInv, Wizard!TypeOK, Cfgs
<1>6. ASSUME NEW name \in {"key", "ntfy"}, Wizard!SecretForm(name)
      PROVE  secrets' \subseteq {"key", "ntfy"}
  BY <1>0, <1>6 DEF Wizard!SecretForm
\* The two writes of a form, by what they leave of the request.
<1>7. ASSUME NEW q \in Requests, NEW kind \in Wizard!Forms, NEW mark \in FormReads,
             Wizard!First(q, kind, mark)
      PROVE  /\ posts' \in [Requests -> PostRow(topics) \union {Wizard!NoPost}]
             /\ posts[q].cfg \in Cfgs
  <2> DEFINE p == [posts[q] EXCEPT !.read = mark]
  <2>1. posts[q] \in PostRow(topics) /\ posts[q].kind = kind
    BY <1>0, <1>7 DEF Wizard!First, Wizard!NoPost, Wizard!Forms
  <2>2. posts[q] \in Posted({kind}, 0 .. MaxResumes, {posts[q].read})
    BY <1>0, <2>1, PostIsOfItsKind DEF Posted
  <2>3. p \in Posted(Wizard!Forms, 0 .. MaxResumes, FormReads) /\ posts[q].cfg \in Cfgs
    BY <2>2 DEF Posted
  <2>4. posts' = [posts EXCEPT ![q] = p]
    BY <1>7 DEF Wizard!First
  <2> HIDE DEF p
  <2> QED
    BY <1>0, <2>3, <2>4 DEF PostRow
<1>8. ASSUME NEW q \in Requests, NEW kind, Wizard!Second(q, kind)
      PROVE  posts' \in [Requests -> PostRow(topics) \union {Wizard!NoPost}]
  BY <1>3, <1>8 DEF Wizard!Second
<1>9. ASSUME NEW q \in Requests, Wizard!Save(q) PROVE WizardInv'
  <2>1. CASE Wizard!SaveLlm(q)
    <3>1. PICK on \in BOOLEAN : cfg' = Wizard!Patched(q, [scoring |-> on])
      BY <2>1 DEF Wizard!SaveLlm
    <3>2. posts' \in [Requests -> PostRow(topics) \union {Wizard!NoPost}]
      BY <1>7, <2>1 DEF Wizard!SaveLlm, Wizard!Forms, FormReads
    <3>3. cfg' \in Cfgs
      <4>1. posts[q].cfg \in Cfgs
        BY <1>7, <2>1 DEF Wizard!SaveLlm, Wizard!Forms, FormReads
      <4> QED
        BY <1>0, <3>1, <4>1 DEF Wizard!Patched, Cfgs, Wizard!Fields
    <3> QED
      BY <1>0, <2>1, <3>2, <3>3
      DEF Wizard!SaveLlm, Wizard!First, Wizard!store, WizardInv, Wizard!TypeOK, Cfgs
  <2>2. CASE Wizard!SaveResume(q)
    <3>1. posts' \in [Requests -> PostRow(topics) \union {Wizard!NoPost}]
      BY <1>7, <2>2 DEF Wizard!SaveResume, Wizard!Forms, FormReads
    <3>2. resume' \in 0 .. MaxResumes
      BY <1>0, <2>2 DEF Wizard!SaveResume
    <3> QED
      BY <1>0, <2>2, <3>1, <3>2
      DEF Wizard!SaveResume, Wizard!First, Wizard!store, WizardInv, Wizard!TypeOK, Cfgs
  <2>3. CASE Wizard!SaveNotifications(q)
    <3>1. posts' \in [Requests -> PostRow(topics) \union {Wizard!NoPost}]
      BY <1>7, <2>3 DEF Wizard!SaveNotifications, Wizard!Forms, FormReads
    <3> QED
      BY <1>0, <1>6, <2>3, <3>1
      DEF Wizard!SaveNotifications, Wizard!First, Wizard!store, WizardInv, Wizard!TypeOK, Cfgs
  <2>4. CASE Wizard!SaveCompanies(q)
    <3>1. PICK discovery \in BOOLEAN, pack \in BOOLEAN :
            /\ Wizard!First(q, "companies", IF discovery \/ pack THEN "saved" ELSE "nothing")
            /\ cfg' = Wizard!Patched(q, [discovery |-> discovery, pack |-> pack])
      BY <2>4 DEF Wizard!SaveCompanies
    <3>2. posts' \in [Requests -> PostRow(topics) \union {Wizard!NoPost}] /\ posts[q].cfg \in Cfgs
      BY <1>7, <3>1 DEF Wizard!Forms, FormReads
    <3>3. cfg' \in Cfgs
      BY <1>0, <3>1, <3>2 DEF Wizard!Patched, Cfgs, Wizard!Fields
    <3> QED
      BY <1>0, <2>4, <3>1, <3>2, <3>3
      DEF Wizard!SaveCompanies, Wizard!First, Wizard!store, WizardInv, Wizard!TypeOK, Cfgs
  <2>5. CASE Wizard!SaveReview(q)
    <3>1. PICK titles \in BOOLEAN, age \in BOOLEAN :
            cfg' = [posts[q].cfg EXCEPT !.titles = titles, !.age = age]
      BY <2>5 DEF Wizard!SaveReview
    <3>2. posts' \in [Requests -> PostRow(topics) \union {Wizard!NoPost}] /\ posts[q].cfg \in Cfgs
      BY <1>7, <2>5 DEF Wizard!SaveReview, Wizard!Forms, FormReads
    <3>3. cfg' \in Cfgs
      BY <3>1, <3>2 DEF Cfgs, Wizard!Fields
    <3> QED
      BY <1>0, <2>5, <3>2, <3>3
      DEF Wizard!SaveReview, Wizard!First, Wizard!store, WizardInv, Wizard!TypeOK, Cfgs
  <2> QED
    BY <1>9, <2>1, <2>2, <2>3, <2>4, <2>5 DEF Wizard!Save
<1>10. ASSUME NEW q \in Requests, Wizard!Finish(q) PROVE WizardInv'
  <2>1. CASE Wizard!StoreKey(q)
    BY <1>0, <1>6, <1>8, <2>1
    DEF Wizard!StoreKey, Wizard!Second, WizardInv, Wizard!TypeOK, Cfgs
  <2>2. CASE Wizard!DropDraft(q)
    BY <1>0, <1>8, <2>2
    DEF Wizard!DropDraft, Wizard!AfterSave, Wizard!Second, WizardInv, Wizard!TypeOK, Cfgs
  <2>3. CASE Wizard!DropTopic(q)
    BY <1>0, <1>8, <2>3
    DEF Wizard!DropTopic, Wizard!Second, WizardInv, Wizard!TypeOK, Cfgs
  <2>4. CASE Wizard!SkipCompanies(q)
    <3>1. "companies" \in Wizard!StepNames
      BY DEF Wizard!StepNames, Wizard!Steps
    <3>2. skipped' \subseteq Wizard!StepNames
      BY <1>0, <2>4, <3>1 DEF Wizard!SkipCompanies
    <3> QED
      BY <1>0, <1>8, <2>4, <3>2
      DEF Wizard!SkipCompanies, Wizard!Second, WizardInv, Wizard!TypeOK, Cfgs
  <2> QED
    BY <1>10, <2>1, <2>2, <2>3, <2>4 DEF Wizard!Finish
<1>12. ASSUME NEW q \in Requests, Wizard!ReadSkipped(q) PROVE WizardInv'
  <2> DEFINE p == [posts[q] EXCEPT !.read = skipped]
  <2>1. posts[q] \in PostRow(topics) /\ posts[q].kind = "skip"
    BY <1>0, <1>12 DEF Wizard!ReadSkipped, Wizard!NoPost
  <2>2. posts[q] \in Posted({"skip"}, 0 .. MaxResumes, {posts[q].read})
    BY <1>0, <2>1, PostIsOfItsKind DEF Posted
  <2>3. p \in Posted({"skip"}, 0 .. MaxResumes, (SUBSET Wizard!StepNames) \union {None})
    BY <1>0, <2>2 DEF Posted
  <2>4. posts' = [posts EXCEPT ![q] = p]
    BY <1>12 DEF Wizard!ReadSkipped
  <2> HIDE DEF p
  <2>5. posts' \in [Requests -> PostRow(topics) \union {Wizard!NoPost}]
    BY <1>0, <2>3, <2>4 DEF PostRow
  <2> QED
    BY <1>0, <1>12, <2>5
    DEF Wizard!ReadSkipped, Wizard!settings, Wizard!store, WizardInv, Wizard!TypeOK, Cfgs
<1>13. ASSUME NEW q \in Requests, Wizard!WriteSkipped(q) PROVE WizardInv'
  <2>1. posts[q].read \subseteq Wizard!StepNames
    BY <1>0, <1>3, <1>13, PostIsOfItsKind DEF Wizard!WriteSkipped
  <2>2. skipped' \subseteq Wizard!StepNames
    BY <1>13, <2>1 DEF Wizard!WriteSkipped
  <2> QED
    BY <1>0, <1>3, <1>13, <2>2
    DEF Wizard!WriteSkipped, Wizard!settings, WizardInv, Wizard!TypeOK, Cfgs
<1>14. ASSUME NEW q \in Requests, Wizard!ReadTopic(q) PROVE WizardInv'
  <2>1. CASE Wizard!Done(q) /\ UNCHANGED topics
    BY <1>0, <1>3, <1>14, <2>1
    DEF Wizard!ReadTopic, Wizard!settings, Wizard!store, WizardInv, Wizard!TypeOK, Cfgs
  <2>2. CASE topics' = topics + 1 /\ posts' = [posts EXCEPT ![q].read = topics']
    <3> DEFINE p == [posts[q] EXCEPT !.read = topics']
    <3>1. posts[q] \in PostRow(topics) /\ posts[q].kind = "suggest"
      BY <1>0, <1>14 DEF Wizard!ReadTopic, Wizard!NoPost
    <3>2. posts[q] \in Posted({"suggest"}, 0 .. MaxResumes, {posts[q].read})
      BY <1>0, <3>1, PostIsOfItsKind DEF Posted
    <3>3. topics' \in 1 .. topics'
      BY <1>0, <2>2
    <3>4. p \in Posted({"suggest"}, 0 .. MaxResumes, (1 .. topics') \union {None})
      BY <3>2, <3>3 DEF Posted
    <3>5. posts' = [posts EXCEPT ![q] = p]
      BY <2>2
    <3> HIDE DEF p
    <3>6. PostRow(topics) \subseteq PostRow(topics')
      BY <1>0, <2>2, PostsStay
    <3>7. p \in PostRow(topics')
      BY <3>4 DEF PostRow
    <3>8. posts' \in [Requests -> PostRow(topics') \union {Wizard!NoPost}]
      BY <1>0, <3>5, <3>6, <3>7
    <3>9. topics' \in Nat /\ (topic \in (1 .. topics') \union {None})
      BY <1>0, <2>2
    <3> QED
      BY <1>0, <1>14, <3>8, <3>9
      DEF Wizard!ReadTopic, Wizard!settings, Wizard!store, WizardInv, Wizard!TypeOK, Cfgs
  <2> QED
    BY <1>14, <2>1, <2>2 DEF Wizard!ReadTopic
<1>15. ASSUME NEW q \in Requests, Wizard!PutTopic(q) PROVE WizardInv'
  <2>1. topic' \in (1 .. topics) \union {None}
    BY <1>0, <1>3, <1>15, PostIsOfItsKind DEF Wizard!PutTopic
  <2> QED
    BY <1>0, <1>3, <1>15, <2>1 DEF Wizard!PutTopic, Wizard!settings, WizardInv, Wizard!TypeOK, Cfgs
<1>16. ASSUME NEW q \in Requests, Wizard!BeginDraft(q) PROVE WizardInv'
  <2> DEFINE p == [posts[q] EXCEPT !.read = "called"]
  <2>1. posts[q] \in PostRow(topics) /\ posts[q].kind = "draft"
    BY <1>0, <1>16 DEF Wizard!BeginDraft, Wizard!NoPost
  <2>2. posts[q] \in Posted({"draft"}, 0 .. MaxResumes, {posts[q].read})
    BY <1>0, <2>1, PostIsOfItsKind DEF Posted
  <2>3. posts[q].resume # 0 => posts[q].resume \in 1 .. MaxResumes
    BY <1>0, <2>2 DEF Posted
  <2>4. posts[q].resume # 0 => p \in Posted({"draft"}, 1 .. MaxResumes, {"called"})
    BY <2>2, <2>3 DEF Posted
  <2>5. \/ posts' = [posts EXCEPT ![q] = Wizard!NoPost]
        \/ posts[q].resume # 0 /\ posts' = [posts EXCEPT ![q] = p]
    BY <1>16 DEF Wizard!BeginDraft
  <2> HIDE DEF p
  <2>6. posts' \in [Requests -> PostRow(topics) \union {Wizard!NoPost}]
    BY <1>0, <2>4, <2>5 DEF PostRow
  <2> QED
    BY <1>0, <1>16, <2>6
    DEF Wizard!BeginDraft, Wizard!settings, Wizard!store, WizardInv, Wizard!TypeOK, Cfgs
<1>17. ASSUME NEW q \in Requests, Wizard!EndDraft(q) PROVE WizardInv'
  <2>1. posts[q].resume \in 1 .. MaxResumes
    BY <1>0, <1>3, <1>17, PostIsOfItsKind DEF Wizard!EndDraft
  <2>2. PICK status \in {"ok", "error"} : /\ Wizard!MishapUnless(status = "ok")
                                          /\ draft' = [status |-> status, of |-> posts[q].resume]
    BY <1>17 DEF Wizard!EndDraft
  <2>3. draft' \in [status : {"ok", "error"}, of : 1 .. MaxResumes]
    BY <2>1, <2>2
  <2>4. mishaps' \in 0 .. WizardMishaps
    BY <1>0, <1>1, <2>2 DEF Wizard!MishapUnless
  <2> QED
    BY <1>0, <1>3, <1>17, <2>3, <2>4
       DEF Wizard!EndDraft, Wizard!settings, WizardInv, Wizard!TypeOK, Cfgs
<1>18. CASE Wizard!Redraft
  BY <1>0, <1>18 DEF Wizard!Redraft, Wizard!settings, WizardInv, Wizard!TypeOK, Cfgs
<1>19. CASE Wizard!StartPreview
  BY <1>0, <1>2, <1>19 DEF Wizard!StartPreview, Wizard!settings, WizardInv, Wizard!TypeOK, Cfgs
<1>20. CASE Wizard!EndPreview
  BY <1>0, <1>20
     DEF Wizard!EndPreview, Wizard!Outcomes, Wizard!settings, WizardInv, Wizard!TypeOK, Cfgs
<1>21. CASE Wizard!Elsewhere
  <2>1. cfg' \in Cfgs
    <3>1. CASE \E f \in Edited : cfg' = [cfg EXCEPT ![f] = ~@]
      <4>1. PICK f \in Edited : cfg' = [cfg EXCEPT ![f] = ~cfg[f]]
        BY <3>1
      <4>2. f \in Wizard!Fields
        BY DEF ServicesAssumption, Wizard!WizardAssumption
      <4> QED
        BY <1>0, <4>1, <4>2 DEF Cfgs
    <3>2. ASSUME NEW i \in Begins PROVE i.cfg \in Cfgs
      BY DEF ServicesAssumption, Wizard!WizardAssumption, Cfgs
    <3> QED
      BY <1>0, <1>21, <3>1, <3>2 DEF Wizard!Elsewhere
  <2>2. ASSUME NEW i \in Begins PROVE i.profile \in BOOLEAN
    BY DEF ServicesAssumption, Wizard!WizardAssumption
  <2>3. secrets' \subseteq {"key", "ntfy"} /\ resume' \in 0 .. MaxResumes
    <3>1. secrets' = secrets \/ \E s \in secrets : secrets' = secrets \ {s}
      BY <1>21 DEF Wizard!Elsewhere
    <3>2. resume' = resume \/ \E r \in 1 .. MaxResumes : resume' = r
      BY <1>21, Zenon DEF Wizard!Elsewhere
    <3>3. secrets' \subseteq {"key", "ntfy"}
      BY <1>0, <3>1
    <3>4. \A r \in 1 .. MaxResumes : r \in 0 .. MaxResumes
      BY <1>0
    <3>5. resume' \in 0 .. MaxResumes
      BY <1>0, <3>2, <3>4
    <3> QED
      BY <3>3, <3>5
  <2>4. \/ profile' = profile \/ profile' = TRUE
        \/ \E i \in Begins : profile' = (profile \/ i.profile)
    BY <1>21 DEF Wizard!Elsewhere
  <2>5. profile' \in BOOLEAN
    BY <1>0, <2>2, <2>4
  <2> QED
    BY <1>0, <1>1, <1>21, <2>1, <2>3, <2>5
       DEF Wizard!Elsewhere, Wizard!store, WizardInv, Wizard!TypeOK, Cfgs
<1>22. CASE Wizard!Restart
  BY <1>0, <1>1, <1>22
  DEF Wizard!Restart, Wizard!settings, Wizard!store, WizardInv, Wizard!TypeOK, Cfgs
<1>23. CASE UNCHANGED wizardVars
  BY <1>0, <1>23 DEF wizardVars, WizardInv, Wizard!TypeOK, Cfgs
<1> QED
  BY <1>4, <1>5, <1>9, <1>10, <1>12, <1>13, <1>14, <1>15, <1>16, <1>17, <1>18, <1>19, <1>20,
     <1>21, <1>22, <1>23
  DEF Wizard!Next, Wizard!Other

-----------------------------------------------------------------------------
(* The steps of the wizard, and the readiness checks *)

LEMMA StepsNamed ==
    /\ DOMAIN Wizard!Steps = 1 .. 6
    /\ Wizard!StepNames = {"llm", "resume", "review", "companies", "notifications", "preview"}
    /\ \A s \in Wizard!StepNames : \E i \in 1 .. 6 : Wizard!Steps[i] = s
<1>1. DOMAIN Wizard!Steps = 1 .. 6
  BY DEF Wizard!Steps
<1>2. /\ Wizard!Steps[1] = "llm" /\ Wizard!Steps[2] = "resume" /\ Wizard!Steps[3] = "review"
      /\ Wizard!Steps[4] = "companies" /\ Wizard!Steps[5] = "notifications"
      /\ Wizard!Steps[6] = "preview"
  BY DEF Wizard!Steps
<1>3. 1 .. 6 = {1, 2, 3, 4, 5, 6}
  OBVIOUS
<1> QED
  BY <1>1, <1>2, <1>3 DEF Wizard!StepNames

LEMMA FirstOpen ==
    ASSUME NEW open \in SUBSET (1 .. 6), open # {}
    PROVE  (CHOOSE i \in open : \A j \in open : i <= j) \in open
<1>1. \E i \in open : \A j \in open : i <= j
  <2>1. 1 .. 6 = {1, 2, 3, 4, 5, 6}
    OBVIOUS
  <2>2. CASE 1 \in open
    BY <2>2
  <2>3. CASE 1 \notin open /\ 2 \in open
    BY <2>1, <2>3
  <2>4. CASE {1, 2} \intersect open = {} /\ 3 \in open
    BY <2>1, <2>4
  <2>5. CASE {1, 2, 3} \intersect open = {} /\ 4 \in open
    BY <2>1, <2>5
  <2>6. CASE {1, 2, 3, 4} \intersect open = {} /\ 5 \in open
    BY <2>1, <2>6
  <2>7. CASE {1, 2, 3, 4, 5} \intersect open = {}
    <3>1. open = {6}
      BY <2>1, <2>7
    <3> QED
      BY <3>1
  <2> QED
    BY <2>2, <2>3, <2>4, <2>5, <2>6, <2>7
<1> QED
  BY <1>1

\* The wizard has nothing left to ask when every step is complete or skipped.
LEMMA NothingLeft ==
    ASSUME ServicesAssumption, Wizard!NextStep = None
    PROVE  \A s \in Wizard!StepNames : s \in skipped \/ Wizard!Complete(s)
<1> DEFINE open == {i \in DOMAIN Wizard!Steps :
                      Wizard!Steps[i] \notin skipped /\ ~Wizard!Complete(Wizard!Steps[i])}
           first == CHOOSE i \in open : \A j \in open : i <= j
<1>1. Wizard!NextStep = IF open = {} THEN None ELSE Wizard!Steps[first]
  BY DEF Wizard!NextStep
<1>2. open # {} => first \in open
  BY FirstOpen, StepsNamed
<1>3. open # {} => Wizard!Steps[first] \in Wizard!StepNames
  BY <1>2 DEF Wizard!StepNames
<1>4. open = {}
  BY <1>1, <1>3 DEF ServicesAssumption, Wizard!WizardAssumption
<1> QED
  BY <1>4, StepsNamed

\* A step that a save leaves open is the next one because it is not complete.
LEMMA StillOpen ==
    ASSUME ServicesAssumption, NEW s \in Wizard!StepNames, (Wizard!NextStep)' = s
    PROVE  (~Wizard!Complete(s))'
<1> DEFINE open == {i \in DOMAIN Wizard!Steps :
                      Wizard!Steps[i] \notin skipped /\ ~Wizard!Complete(Wizard!Steps[i])}
           first == CHOOSE i \in open' : \A j \in open' : i <= j
<1>1. (Wizard!NextStep)' = IF open' = {} THEN None ELSE Wizard!Steps[first]
  BY DEF Wizard!NextStep
<1>2. open' # {}
  BY <1>1 DEF ServicesAssumption, Wizard!WizardAssumption
<1>3. open' \in SUBSET (1 .. 6)
  BY StepsNamed
<1>4. first \in open'
  BY <1>2, <1>3, FirstOpen
<1>5. PICK i \in open' : Wizard!Steps[i] = s
  BY <1>1, <1>2, <1>4
<1>6. (~Wizard!Complete(Wizard!Steps[i]))'
  BY <1>5
<1> QED
  BY <1>5, <1>6

LEMMA StepsAgree ==
    ASSUME ServicesAssumption, WizardInv
    PROVE  Wizard!DoneIsReady
<1> DEFINE About(step) == CASE step = "llm" -> {"llm_no_key", "llm_no_profile"}
                            [] step = "review" -> {"no_titles", "no_max_age", "llm_no_profile"}
                            [] step = "companies" -> {"nothing_polled"}
                            [] step = "notifications" -> {"no_sink"}
                            [] OTHER -> {}
<1> SUFFICES ASSUME Wizard!NextStep = None, NEW c \in Wizard!Codes
             PROVE  \E step \in skipped : c \in About(step)
  BY DEF Wizard!DoneIsReady
<1>0. cfg \in Cfgs /\ profile \in BOOLEAN
  BY DEF WizardInv, Wizard!TypeOK, Cfgs
<1>1. \A s \in {"llm", "review", "companies", "notifications"} : s \in skipped \/ Wizard!Complete(s)
  BY NothingLeft, StepsNamed
<1>2. \/ c = "no_titles" /\ ~cfg.titles
      \/ c = "nothing_polled" /\ ~cfg.boards /\ ~cfg.discovery /\ ~cfg.pack
      \/ c = "no_sink" /\ "ntfy" \notin secrets
      \/ c = "llm_no_key" /\ cfg.scoring /\ "key" \notin secrets
      \/ c = "llm_no_profile" /\ cfg.scoring /\ ~profile
      \/ c = "no_max_age" /\ ~cfg.age
  BY DEF Wizard!Codes
<1>3. CASE c \in {"no_titles", "no_max_age"}
  <2>1. ~Wizard!Complete("review")
    BY <1>3 DEF Wizard!Complete, Wizard!ReviewDone
  <2> QED
    BY <1>1, <1>3, <2>1
<1>4. CASE c = "llm_no_profile"
  <2>1. ~profile
    BY <1>2, <1>4
  <2>2. ~Wizard!Complete("review")
    BY <2>1 DEF Wizard!Complete, Wizard!ReviewDone
  <2> QED
    BY <1>1, <1>4, <2>2
<1>5. CASE c = "nothing_polled"
  <2>1. ~cfg.boards /\ ~cfg.discovery /\ ~cfg.pack
    BY <1>2, <1>5
  <2>2. ~Wizard!Complete("companies")
    BY <2>1 DEF Wizard!Complete, Wizard!CompaniesChosen
  <2> QED
    BY <1>1, <1>5, <2>2
<1>6. CASE c = "no_sink"
  <2>1. ~Wizard!Complete("notifications")
    BY <1>6 DEF Wizard!Complete
  <2> QED
    BY <1>1, <1>6, <2>1
<1>7. CASE c = "llm_no_key"
  <2>1. ~Wizard!Complete("llm")
    BY <1>7 DEF Wizard!Complete
  <2> QED
    BY <1>1, <1>7, <2>1
<1> QED
  BY <1>2, <1>3, <1>4, <1>5, <1>6, <1>7

\* A save of the review, or of the notifications, that leaves its step open.
LEMMA SavesExplain ==
    ASSUME ServicesAssumption, WizardInv, WizardInv', NEW q \in Requests,
           NEW step \in {"review", "notifications"},
           posts[q].kind = step, Wizard!Finish(q), (Wizard!NextStep)' = step
    PROVE  (Wizard!StepWarnings(step))' # {}
<1>1. (~Wizard!Complete(step))'
  BY StillOpen, StepsNamed
<1>2. CASE step = "review"
  <2>1. posts[q].read # None /\ UNCHANGED profile
    BY DEF Wizard!Finish, Wizard!StoreKey, Wizard!DropDraft, Wizard!SkipCompanies,
       Wizard!DropTopic, Wizard!Second, Wizard!Due
  <2>2. profile' = TRUE
    BY <1>2, <2>1 DEF WizardInv, ReviewIsSaved, Wizard!TypeOK
  <2>3. (Wizard!Codes)' \intersect {"no_titles", "no_max_age"} # {}
    BY <1>1, <1>2, <2>2 DEF Wizard!Complete, Wizard!ReviewDone
  <2>4. (Wizard!StepWarnings(step))' = (Wizard!Codes)' \intersect {"no_titles", "no_max_age"}
    BY <1>2 DEF Wizard!StepWarnings
  <2> QED
    BY <2>3, <2>4
<1>3. CASE step = "notifications"
  <2>1. "no_sink" \in (Wizard!Codes)'
    BY <1>1, <1>3 DEF Wizard!Complete
  <2>2. (Wizard!StepWarnings(step))' = (Wizard!Codes)' \intersect {"no_sink"}
    BY <1>3 DEF Wizard!StepWarnings
  <2> QED
    BY <2>1, <2>2
<1> QED
  BY <1>2, <1>3

\* A step ends no save of a résumé but the delete of the draft, and a restart.
LEMMA ResumeSaveGoesOn ==
    ASSUME WizardInv, [Wizard!Next]_wizardVars, ~Wizard!Restart,
           NEW p \in Requests, posts[p].kind = "resume", Wizard!Due(p), ~Wizard!DropDraft(p)
    PROVE  posts'[p] # Wizard!NoPost
<1>0. /\ posts \in [Requests -> PostRow(topics) \union {Wizard!NoPost}]
      /\ posts[p] # Wizard!NoPost /\ Wizard!Saving
  BY DEF WizardInv, Wizard!NoPost, Wizard!Saving
<1>1. ASSUME UNCHANGED posts PROVE posts'[p] # Wizard!NoPost
  BY <1>0, <1>1
<1>2. ASSUME NEW q \in Requests, NEW o, posts' = [posts EXCEPT ![q] = o], q # p
      PROVE  posts'[p] # Wizard!NoPost
  BY <1>0, <1>2
<1>3. ASSUME NEW q \in Requests, NEW kind \in Wizard!Kinds PROVE ~Wizard!Arrive(q, kind)
  BY <1>0 DEF Wizard!Arrive
<1>4. ASSUME NEW q \in Requests PROVE ~Wizard!Save(q)
  BY <1>0 DEF Wizard!Save, Wizard!SaveLlm, Wizard!SaveResume, Wizard!SaveReview,
     Wizard!SaveCompanies, Wizard!SaveNotifications, Wizard!First
<1>5. ASSUME NEW q \in Requests, Wizard!Finish(q) PROVE posts'[p] # Wizard!NoPost
  <2>1. posts' = [posts EXCEPT ![q] = Wizard!NoPost]
    BY <1>5 DEF Wizard!Finish, Wizard!StoreKey, Wizard!DropDraft, Wizard!SkipCompanies,
       Wizard!DropTopic, Wizard!Second, Wizard!Done
  <2>2. q # p
    BY <1>5 DEF Wizard!Finish, Wizard!StoreKey, Wizard!SkipCompanies, Wizard!DropTopic,
       Wizard!Second
  <2> QED
    BY <1>2, <2>1, <2>2
<1>6. ASSUME NEW q \in Requests, Wizard!Other(q) PROVE posts'[p] # Wizard!NoPost
  <2>1. CASE Wizard!ReadSkipped(q) \/ Wizard!WriteSkipped(q)
    BY <1>2, <2>1 DEF Wizard!ReadSkipped, Wizard!WriteSkipped, Wizard!Done
  <2>2. CASE Wizard!ReadTopic(q) \/ Wizard!PutTopic(q)
    BY <1>2, <2>2 DEF Wizard!ReadTopic, Wizard!PutTopic, Wizard!Done
  <2>3. ~Wizard!BeginDraft(q) /\ ~Wizard!EndDraft(q) /\ ~Wizard!Refuse(q)
    BY <1>0 DEF Wizard!BeginDraft, Wizard!EndDraft, Wizard!Refuse
  <2> QED
    BY <1>6, <2>1, <2>2, <2>3 DEF Wizard!Other
<1>7. CASE Wizard!Redraft \/ Wizard!StartPreview \/ Wizard!EndPreview \/ Wizard!Elsewhere
             \/ UNCHANGED wizardVars
  BY <1>1, <1>7
  DEF Wizard!Redraft, Wizard!StartPreview, Wizard!EndPreview, Wizard!Elsewhere, wizardVars
<1> QED
  BY <1>3, <1>4, <1>5, <1>6, <1>7 DEF Wizard!Next

\* Where a draft may be of another résumé than the one in effect.
LEMMA DraftsAreAccounted ==
    ASSUME ServicesAssumption, WizardInv, [Wizard!Next]_wizardVars, Wizard!Stale'
    PROVE  \/ /\ Wizard!Stale /\ draft' = draft
              /\ \/ Wizard!Restart
                 \/ ~\E q \in Requests : posts[q].kind = "resume" /\ Wizard!Due(q)
                                            /\ posts'[q] = Wizard!NoPost
           \/ \E q \in Requests : posts'[q].kind = "resume" /\ Wizard!Due(q)'
           \/ \E q \in Requests : posts[q].kind = "draft" /\ posts[q].read = "called"
                                    /\ posts[q].resume = draft'.of /\ posts'[q] = Wizard!NoPost
           \/ Wizard!Elsewhere /\ resume' # resume
<1>0. /\ topics \in Nat /\ posts \in [Requests -> PostRow(topics) \union {Wizard!NoPost}]
      /\ draft' # None /\ draft'.of # resume' /\ None \notin {"saved"}
  BY DEF WizardInv, Wizard!TypeOK, Wizard!Stale, ServicesAssumption, Wizard!WizardAssumption
<1>1. ASSUME NEW q \in Requests, Wizard!EndDraft(q)
      PROVE  posts[q].kind = "draft" /\ posts[q].read = "called"
               /\ posts[q].resume = draft'.of /\ posts'[q] = Wizard!NoPost
  <2>1. posts[q] \in PostRow(topics) /\ posts'[q] = Wizard!NoPost
    BY <1>0, <1>1 DEF Wizard!EndDraft, Wizard!Done
  <2>2. posts[q].read = "called"
    BY <1>0, <1>1, <2>1, PostIsOfItsKind DEF Wizard!EndDraft
  <2>3. posts[q].resume = draft'.of
    BY <1>1 DEF Wizard!EndDraft
  <2> QED
    BY <1>1, <2>1, <2>2, <2>3 DEF Wizard!EndDraft
<1>2. ASSUME NEW q \in Requests PROVE ~Wizard!DropDraft(q)
  BY <1>0 DEF Wizard!DropDraft, Wizard!AfterSave
<1>3. ~Wizard!Redraft
  BY <1>0 DEF Wizard!Redraft
<1>4. ASSUME NEW q \in Requests, Wizard!SaveResume(q)
      PROVE  posts'[q].kind = "resume" /\ Wizard!Due(q)'
  <2>1. posts'[q] = [posts[q] EXCEPT !.read = "saved"] /\ posts[q].kind = "resume"
    BY <1>0, <1>4 DEF Wizard!SaveResume, Wizard!First
  <2>2. posts'[q].kind = "resume" /\ posts'[q].read = "saved"
    BY <1>0, <2>1, PostFields
  <2> QED
    BY <1>0, <2>2 DEF Wizard!Due, Wizard!Forms
<1>5. \/ \E q \in Requests : Wizard!EndDraft(q) \/ Wizard!SaveResume(q)
      \/ Wizard!Elsewhere /\ resume' # resume
      \/ UNCHANGED <<draft, resume>>
  BY <1>2, <1>3 DEF Wizard!Next, Wizard!Save, Wizard!Finish, Wizard!Other, Wizard!Arrive,
     Wizard!Refuse, Wizard!First, Wizard!Second, Wizard!SaveLlm, Wizard!StoreKey,
     Wizard!SaveCompanies, Wizard!SkipCompanies, Wizard!SaveNotifications, Wizard!DropTopic,
     Wizard!SaveReview, Wizard!ReadSkipped, Wizard!WriteSkipped, Wizard!ReadTopic,
     Wizard!PutTopic, Wizard!BeginDraft, Wizard!StartPreview, Wizard!EndPreview,
     Wizard!Elsewhere, Wizard!Restart, Wizard!settings, Wizard!store, wizardVars
<1>6. CASE UNCHANGED <<draft, resume>>
  <2>1. Wizard!Stale /\ draft' = draft
    BY <1>0, <1>6 DEF Wizard!Stale
  <2>2. Wizard!Restart \/ ~\E q \in Requests : posts[q].kind = "resume" /\ Wizard!Due(q)
                                               /\ posts'[q] = Wizard!NoPost
    BY <1>2, ResumeSaveGoesOn
  <2> QED
    BY <2>1, <2>2
<1> QED
  BY <1>1, <1>4, <1>5, <1>6

-----------------------------------------------------------------------------
(* The wizard, where it is the part that is run and where it is not *)

LEMMA WizardPart ==
    ASSUME ServicesNext \/ UNCHANGED servicesVars
    PROVE  [Wizard!Next]_wizardVars
BY DEF ServicesNext, servicesVars

THEOREM WizardInvHolds == ServicesSpec => []WizardInv
<1>1. ServicesInit => WizardInv
  BY ServicesAssumption, WizardStarts DEF ServicesInit
<1>2. WizardInv /\ [ServicesNext]_servicesVars => WizardInv'
  BY ServicesAssumption, WizardStep, WizardPart
<1> QED
  BY <1>1, <1>2, PTL DEF ServicesSpec

\* The steps (steps.py) and the readiness checks (readiness.py) agree, for whatever settings:
\* a finished wizard leaves no warning but of a step that was skipped.  A draft of a résumé no
\* longer in effect has one of the causes SetupWizard names, and goes with the next save of a
\* résumé in the wizard (routes.py); and a save that leaves its step open says why.
THEOREM TheWizardHolds == ServicesSpec => WizardHolds
<1>1. WizardInv => Wizard!TypeOK /\ Wizard!DoneIsReady
  BY ServicesAssumption, StepsAgree DEF WizardInv
<1>2. WizardInv /\ [ServicesNext]_servicesVars =>
         [Wizard!Stale' =>
            \/ /\ Wizard!Stale /\ draft' = draft
               /\ \/ Wizard!Restart
                  \/ ~\E q \in Requests : posts[q].kind = "resume" /\ Wizard!Due(q)
                                             /\ posts'[q] = Wizard!NoPost
            \/ \E q \in Requests : posts'[q].kind = "resume" /\ Wizard!Due(q)'
            \/ \E q \in Requests : posts[q].kind = "draft" /\ posts[q].read = "called"
                                     /\ posts[q].resume = draft'.of
                                     /\ posts'[q] = Wizard!NoPost
            \/ Wizard!Elsewhere /\ resume' # resume]_wizardVars
  BY ServicesAssumption, DraftsAreAccounted, WizardPart
<1>3. WizardInv /\ [ServicesNext]_servicesVars =>
         [\A q \in Requests, step \in {"review", "notifications"} :
            posts[q].kind = step /\ Wizard!Finish(q) /\ (Wizard!NextStep)' = step
               => (Wizard!StepWarnings(step))' # {}]_wizardVars
  BY ServicesAssumption, SavesExplain, WizardStep, WizardPart
<1> QED
  BY <1>1, <1>2, <1>3, WizardInvHolds, PTL
  DEF ServicesSpec, WizardHolds, Wizard!DraftIsOfTheResume, Wizard!SavesAreExplained,
      Wizard!vars, wizardVars

-----------------------------------------------------------------------------
(* Least numbers, and the first of a table *)

\* The order of the naturals, as the library's induction takes it.
LEMMA NaturalOrder ==
    \E R : IsWellFoundedOn(R, Nat) /\ \A x, y \in Nat : x < y => <<x, y>> \in R
<1> DEFINE R == OpToRel(<, Nat)
<1>1. IsWellFoundedOn(R, Nat)
  BY NatLessThanWellFounded
<1>2. \A x, y \in Nat : x < y => <<x, y>> \in R
  BY DEF OpToRel
<1> HIDE DEF R
<1> QED
  BY <1>1, <1>2

LEMMA MinimalElement ==
    ASSUME NEW R, NEW S, IsWellFoundedOn(R, S), NEW T, T \subseteq S, T # {}
    PROVE  \E x \in T : \A y \in T : ~(<<y, x>> \in R)
BY WFMin

LEMMA LeastNumber ==
    ASSUME NEW T, T \subseteq Nat, T # {}
    PROVE  \E x \in T : \A y \in T : x <= y
<1>1. PICK R : IsWellFoundedOn(R, Nat) /\ \A x, y \in Nat : x < y => <<x, y>> \in R
  BY NaturalOrder
<1>2. PICK x \in T : \A y \in T : ~(<<y, x>> \in R)
  <2>1. IsWellFoundedOn(R, Nat)
    BY <1>1
  <2> QED
    BY <2>1, MinimalElement, Zenon
<1>3. ASSUME NEW y \in T PROVE x <= y
  <2>1. ~(y < x)
    BY <1>1, <1>2
  <2> QED
    BY <2>1
<1> QED
  BY <1>3

\* The first of a table that passes a test is one of those that do.
LEMMA MinIsFirst ==
    ASSUME NEW I, I \subseteq Nat, I # {}
    PROVE  Filters!Min(I) \in I /\ \A i \in I : Filters!Min(I) <= i
BY LeastNumber DEF Filters!Min

\* A posting passes if no gate rejects it.
LEMMA AllowedByAll ==
    ASSUME LookupsAssumption, NEW raw, NEW f, NEW now
    PROVE  LET p == Filters!Normalize(raw, f)
           IN Filters!Allowed(raw, f, now) <=>
                /\ Filters!FilterAge(p, f, now) # "reject" /\ Filters!FilterCompany(p, f) # "reject"
                /\ Filters!FilterRole(p, f) # "reject"
                /\ Filters!FilterEmploymentType(p, f) # "reject"
                /\ Filters!FilterSeniority(p, f) # "reject"
                /\ Filters!FilterLocation(p, f) # "reject"
                /\ Filters!FilterStack(p, f) # "reject" /\ Filters!FilterComp(p, f) # "reject"
<1> DEFINE p == Filters!Normalize(raw, f)
           gates == Filters!Pipeline(p, f, now)
           I == {i \in 1 .. Len(gates) : gates[i][2] = "reject"}
           m == IF I # {} THEN Filters!Min(I) ELSE 0
<1>1. Filters!Allowed(raw, f, now) <=> (IF m = 0 THEN None ELSE gates[m][1]) = None
  BY DEF Filters!Allowed, Filters!RejectedBy, Filters!SelectInSeq
<1> HIDE DEF p
<1>2. /\ Len(gates) = 8
      /\ \A i \in 1 .. 8 : gates[i][1] # None
      /\ gates[1][2] = Filters!FilterAge(p, f, now)
      /\ gates[2][2] = Filters!FilterCompany(p, f)
      /\ gates[3][2] = Filters!FilterRole(p, f)
      /\ gates[4][2] = Filters!FilterEmploymentType(p, f)
      /\ gates[5][2] = Filters!FilterSeniority(p, f)
      /\ gates[6][2] = Filters!FilterLocation(p, f)
      /\ gates[7][2] = Filters!FilterStack(p, f)
      /\ gates[8][2] = Filters!FilterComp(p, f)
  BY DEF Filters!Pipeline, LookupsAssumption
<1> HIDE DEF gates
<1>3. I \subseteq 1 .. 8
  BY <1>2
<1>4. I = {} => m = 0
  OBVIOUS
<1>5. I # {} => m \in I /\ m \in 1 .. 8
  <2>1. I \subseteq Nat
    BY <1>3
  <2> HIDE DEF I
  <2> QED
    BY <1>3, <2>1, MinIsFirst
<1>6. Filters!Allowed(raw, f, now) <=> I = {}
  BY <1>1, <1>2, <1>4, <1>5
<1>7. I = {} <=> \A i \in 1 .. 8 : gates[i][2] # "reject"
  BY <1>2
<1>8. (\A i \in 1 .. 8 : gates[i][2] # "reject") <=>
      /\ gates[1][2] # "reject" /\ gates[2][2] # "reject" /\ gates[3][2] # "reject"
      /\ gates[4][2] # "reject" /\ gates[5][2] # "reject" /\ gates[6][2] # "reject"
      /\ gates[7][2] # "reject" /\ gates[8][2] # "reject"
  OBVIOUS
<1> QED
  BY <1>2, <1>6, <1>7, <1>8 DEF p

-----------------------------------------------------------------------------
(* The hard filters *)

\* The marks a place is given.  No city is named like one of them.
Marks == {"unknown_location", "remote", "hybrid", "onsite_only"}

\* A posting as a connector gives it, and the filters of the settings, of any words W.
PlacesOf(W) == [marks : SUBSET {"remote", "hybrid"}, cities : SUBSET W,
             areas : SUBSET [kind : {"country", "region"}, of : W]]
Postings(W, S) ==
    [titles : SUBSET W, levels : SUBSET W, company : S, source : S,
     place : PlacesOf(W) \union {None}, remote : BOOLEAN \union {None}, kind : SUBSET W,
     comp : Int \union {None}, tech : SUBSET W, posted : Int \union {None}]
Settings(W) ==
    [titles : SUBSET W, seniority : SUBSET W, countries : SUBSET W, cities : SUBSET (W \ Marks),
     policy : W, allowUnknown : BOOLEAN, floor : Int, stack : SUBSET W,
     maxAge : Int \union {None}, blocked : SUBSET Seq(W), blockedTypes : SUBSET W]

\* The tags of a place but for its cities are the same whatever the filters are.
LEMMA TagsOf ==
    ASSUME LookupsAssumption, NEW W, NEW S, NEW raw \in Postings(W, S), NEW f \in Settings(W)
    PROVE  \E base \in SUBSET Marks :
             /\ \A g \in Settings(W) :
                  Filters!LocationTags(raw.place, raw.remote, g.cities)
                     = base \union (IF raw.place = None THEN {}
                                      ELSE raw.place.cities \intersect g.cities)
             /\ raw.place # None => "unknown_location" \notin base
<1> DEFINE marks == (IF raw.remote = TRUE THEN {"remote"} ELSE {}) \union raw.place.marks
           base == IF raw.place # None THEN IF marks = {} THEN {"onsite_only"} ELSE marks
                   ELSE IF raw.remote = None THEN {"unknown_location"}
                   ELSE IF raw.remote THEN {"remote"} ELSE {"onsite_only"}
<1>1. base \in SUBSET Marks
  BY DEF Postings, PlacesOf, Marks
<1>2. ASSUME NEW g \in Settings(W)
      PROVE  Filters!LocationTags(raw.place, raw.remote, g.cities)
                = base \union (IF raw.place = None THEN {}
                                 ELSE raw.place.cities \intersect g.cities)
  BY DEF Filters!LocationTags, Postings, LookupsAssumption
<1>3. raw.place # None => "unknown_location" \notin base
  BY DEF Postings, PlacesOf
<1> QED
  BY <1>1, <1>2, <1>3

\* An area that reaches an allowed country still does where more are allowed.
LEMMA CoversMore ==
    ASSUME NEW geo, NEW A, NEW B, A \subseteq B, Filters!CoversAny(geo, A)
    PROVE  Filters!CoversAny(geo, B)
BY DEF Filters!CoversAny

\* What the gates see.
LEMMA NormalizedAs ==
    ASSUME NEW raw, NEW f
    PROVE  LET p == Filters!Normalize(raw, f) IN
            /\ p.titles = raw.titles /\ p.seniority = Filters!Seniority(raw.levels)
            /\ p.company = Filters!Company(raw.company, raw.source)
            /\ p.tags = Filters!LocationTags(raw.place, raw.remote, f.cities)
            /\ p.geo = Filters!GeoTags(raw.place)
            /\ p.stack = raw.tech \intersect f.stack
            /\ p.type = Filters!EmploymentType(raw.kind) /\ p.comp = raw.comp
            /\ p.posted = raw.posted
BY DEF Filters!Normalize, Filters!ExtractStack

\* The gate of the location, which reads the tags with the filters in hand.
LEMMA LocationWidens ==
    ASSUME LookupsAssumption, NEW W, NEW S, NEW raw \in Postings(W, S), NEW f \in Settings(W),
           NEW g \in Settings(W),
           Filters!Wider(g, f), Filters!FilterLocation(Filters!Normalize(raw, f), f) # "reject"
    PROVE  Filters!FilterLocation(Filters!Normalize(raw, g), g) # "reject"
<1> DEFINE p == Filters!Normalize(raw, f)
           q == Filters!Normalize(raw, g)
           own(h) == IF raw.place = None THEN {} ELSE raw.place.cities \intersect h.cities
<1>1. PICK base \in SUBSET Marks :
         /\ p.tags = base \union own(f) /\ q.tags = base \union own(g)
  <2>1. p.tags = Filters!LocationTags(raw.place, raw.remote, f.cities)
    BY NormalizedAs
  <2>2. q.tags = Filters!LocationTags(raw.place, raw.remote, g.cities)
    BY NormalizedAs
  <2> HIDE DEF p, q
  <2> QED
    BY <2>1, <2>2, TagsOf
<1>2. p.geo = q.geo
  BY NormalizedAs
<1>3. /\ f.cities \subseteq g.cities /\ g.policy \in {f.policy, "anywhere"}
      /\ (f.allowUnknown => g.allowUnknown)
      /\ f.countries \subseteq g.countries /\ f.cities \intersect Marks = {}
      /\ g.cities \intersect Marks = {}
  BY DEF Filters!Wider, Settings
<1>4. Filters!CoversAny(p.geo, f.countries) => Filters!CoversAny(q.geo, g.countries)
  BY <1>2, <1>3, CoversMore
<1> HIDE DEF p, q
<1>5. own(f) \subseteq own(g) /\ own(f) \intersect Marks = {} /\ own(g) \intersect Marks = {}
  BY <1>3
<1> HIDE DEF own
<1>6. \A t \in Marks : t \in p.tags <=> t \in q.tags
  BY <1>1, <1>5
<1>7. p.tags \intersect f.cities # {} => q.tags \intersect g.cities # {}
  BY <1>1, <1>3, <1>5
<1>8. Filters!FilterLocation(p, f) # "reject"
  BY DEF p
<1> QED
  BY <1>2, <1>3, <1>4, <1>6, <1>7, <1>8 DEF Filters!FilterLocation, Filters!MatchIf, q, Marks

\* A filter that is widened loses nothing (filters.py, normalize.py): for any posting, any
\* settings and any wider ones, on any day, what passed still passes, although the posting is
\* read again with the new words in hand.
THEOREM WideningLosesNothing ==
    ASSUME LookupsAssumption, NEW W, NEW S, NEW raw \in Postings(W, S), NEW f \in Settings(W),
           NEW g \in Settings(W),
           NEW now \in Int
    PROVE  Filters!WideningKeeps(raw, f, g, now)
<1> SUFFICES ASSUME Filters!Wider(g, f), Filters!Allowed(raw, f, now)
    PROVE Filters!Allowed(raw, g, now)
  BY DEF Filters!WideningKeeps
<1> DEFINE p == Filters!Normalize(raw, f)
           q == Filters!Normalize(raw, g)
<1>1. /\ Filters!FilterAge(p, f, now) # "reject" /\ Filters!FilterCompany(p, f) # "reject"
      /\ Filters!FilterRole(p, f) # "reject" /\ Filters!FilterEmploymentType(p, f) # "reject"
      /\ Filters!FilterSeniority(p, f) # "reject" /\ Filters!FilterLocation(p, f) # "reject"
      /\ Filters!FilterStack(p, f) # "reject" /\ Filters!FilterComp(p, f) # "reject"
  BY AllowedByAll
<1>2. /\ q.titles = p.titles /\ q.seniority = p.seniority /\ q.company = p.company
      /\ q.type = p.type
      /\ q.comp = p.comp /\ q.posted = p.posted /\ p.comp = raw.comp /\ p.posted = raw.posted
      /\ q.stack = raw.tech \intersect g.stack
  BY NormalizedAs
<1>3. Filters!FilterLocation(q, g) # "reject"
  BY <1>1, LocationWidens
<1> HIDE DEF p, q
<1>4. Filters!FilterAge(q, g, now) # "reject"
  BY <1>1, <1>2
     DEF Filters!FilterAge, Filters!MatchIf, Filters!Wider, Postings, Settings, LookupsAssumption
<1>5. Filters!FilterCompany(q, g) # "reject"
  BY <1>1, <1>2 DEF Filters!FilterCompany, Filters!MatchIf, Filters!Wider
<1>6. Filters!FilterRole(q, g) # "reject" /\ Filters!FilterSeniority(q, g) # "reject" /\
      Filters!FilterEmploymentType(q, g) # "reject"
  BY <1>1, <1>2
     DEF Filters!FilterRole, Filters!FilterSeniority, Filters!FilterEmploymentType,
     Filters!MatchIf, Filters!Wider
<1>7. Filters!FilterStack(q, g) # "reject"
  BY <1>2 DEF Filters!FilterStack, Filters!MatchIf
<1>8. Filters!FilterComp(q, g) # "reject"
  BY <1>1, <1>2
     DEF Filters!FilterComp, Filters!MatchIf, Filters!Wider, Postings, Settings, LookupsAssumption
<1> QED
  BY <1>3, <1>4, <1>5, <1>6, <1>7, <1>8, AllowedByAll DEF q

\* What the filters rejected stays rejected on every later day (filter_age): the evaluation
\* memory may skip it unread.
THEOREM RejectionOutlastsTheDay ==
    ASSUME LookupsAssumption, NEW W, NEW S, NEW raw \in Postings(W, S), NEW f \in Settings(W),
           NEW now \in Int, NEW later \in Int
    PROVE  Filters!RejectionLasts(raw, f, now, later)
<1> SUFFICES ASSUME now <= later, Filters!Allowed(raw, f, later) PROVE Filters!Allowed(raw, f, now)
  BY DEF Filters!RejectionLasts
<1> DEFINE p == Filters!Normalize(raw, f)
<1>1. Filters!FilterAge(p, f, later) # "reject"
  BY AllowedByAll
<1>2. p.posted = raw.posted
  BY NormalizedAs
<1> HIDE DEF p
<1>3. Filters!FilterAge(p, f, now) # "reject"
  BY <1>1, <1>2 DEF Filters!FilterAge, Filters!MatchIf, Postings, Settings, LookupsAssumption
<1> QED
  BY <1>3, AllowedByAll DEF p

\* No words are of no employment type.
LEMMA NoneIsFirst ==
    ASSUME LookupsAssumption
    PROVE  Filters!EmploymentType({}) = None
<1> DEFINE tried == <<<<"intern", "internship">>, <<"contract", "contract">>, <<"temp",
    "temporary">>,
                   <<"part", "part_time">>, <<"full", "full_time">>>>
           I == {i \in 1 .. Len(tried) : tried[i][1] \in {}}
<1>1. I = {}
  OBVIOUS
<1>2. Filters!SelectInSeq(tried, LAMBDA t : t[1] \in {}) = 0
  BY <1>1 DEF Filters!SelectInSeq
<1> QED
  BY <1>2 DEF Filters!EmploymentType

\* What a connector does not tell rejects no posting that passed with it (the "unknown" of the
\* gates of filters.py).
THEOREM SilenceRejectsNothing ==
    ASSUME LookupsAssumption, NEW W, NEW S, NEW raw \in Postings(W, S), NEW f \in Settings(W),
           NEW now \in Int
    PROVE  Filters!MissingPasses(raw, f, now)
<1> SUFFICES ASSUME Filters!Allowed(raw, f, now)
             PROVE  /\ Filters!Allowed([raw EXCEPT !.comp = None], f, now)
                    /\ Filters!Allowed([raw EXCEPT !.posted = None], f, now)
                    /\ Filters!Allowed([raw EXCEPT !.kind = {}], f, now)
                    /\ Filters!Allowed([raw EXCEPT !.tech = {}], f, now)
  BY DEF Filters!MissingPasses
<1> DEFINE p == Filters!Normalize(raw, f)
<1>1. /\ Filters!FilterAge(p, f, now) # "reject" /\ Filters!FilterCompany(p, f) # "reject"
      /\ Filters!FilterRole(p, f) # "reject" /\ Filters!FilterEmploymentType(p, f) # "reject"
      /\ Filters!FilterSeniority(p, f) # "reject" /\ Filters!FilterLocation(p, f) # "reject"
      /\ Filters!FilterStack(p, f) # "reject" /\ Filters!FilterComp(p, f) # "reject"
  BY AllowedByAll
<1>2. ASSUME NEW less,
             \/ less = [raw EXCEPT !.comp = None] \/ less = [raw EXCEPT !.posted = None]
             \/ less = [raw EXCEPT !.kind = {}] \/ less = [raw EXCEPT !.tech = {}]
      PROVE  Filters!Allowed(less, f, now)
  <2> DEFINE q == Filters!Normalize(less, f)
  <2>1. /\ less.titles = raw.titles /\ less.levels = raw.levels /\ less.company = raw.company
        /\ less.source = raw.source /\ less.place = raw.place /\ less.remote = raw.remote
        /\ less.comp \in {raw.comp, None} /\ less.posted \in {raw.posted, None}
        /\ less.kind \in {raw.kind, {}}
        /\ less.tech \in {raw.tech, {}}
    BY <1>2 DEF Postings
  <2>2. /\ q.titles = p.titles /\ q.seniority = p.seniority /\ q.company = p.company
        /\ q.tags = p.tags
        /\ q.geo = p.geo /\ q.type \in {p.type, None} /\ q.stack \in {p.stack, {}}
        /\ q.comp \in {p.comp, None} /\ q.posted \in {p.posted, None}
    <3>1. /\ p.titles = raw.titles /\ p.seniority = Filters!Seniority(raw.levels)
          /\ p.company = Filters!Company(raw.company, raw.source)
          /\ p.tags = Filters!LocationTags(raw.place, raw.remote, f.cities)
          /\ p.geo = Filters!GeoTags(raw.place) /\ p.stack = raw.tech \intersect f.stack
          /\ p.type = Filters!EmploymentType(raw.kind) /\ p.comp = raw.comp
          /\ p.posted = raw.posted
      BY NormalizedAs
    <3>2. /\ q.titles = raw.titles /\ q.seniority = Filters!Seniority(raw.levels)
          /\ q.company = Filters!Company(raw.company, raw.source)
          /\ q.tags = Filters!LocationTags(raw.place, raw.remote, f.cities)
          /\ q.geo = Filters!GeoTags(raw.place) /\ q.stack = less.tech \intersect f.stack
          /\ q.type = Filters!EmploymentType(less.kind) /\ q.comp = less.comp
          /\ q.posted = less.posted
      BY <2>1, NormalizedAs
    <3> HIDE DEF p, q
    <3> QED
      BY <2>1, <3>1, <3>2, NoneIsFirst
  <2> HIDE DEF p, q
  <2>3. Filters!FilterAge(q, f, now) # "reject"
    BY <1>1, <2>2 DEF Filters!FilterAge, Filters!MatchIf
  <2>4. Filters!FilterCompany(q, f) # "reject" /\ Filters!FilterRole(q, f) # "reject"
    BY <1>1, <2>2 DEF Filters!FilterCompany, Filters!FilterRole, Filters!MatchIf
  <2>5. Filters!FilterSeniority(q, f) # "reject" /\ Filters!FilterEmploymentType(q, f) # "reject"
    BY <1>1, <2>2 DEF Filters!FilterSeniority, Filters!FilterEmploymentType, Filters!MatchIf
  <2>6. Filters!FilterLocation(q, f) # "reject"
    BY <1>1, <2>2 DEF Filters!FilterLocation
  <2>7. Filters!FilterStack(q, f) # "reject" /\ Filters!FilterComp(q, f) # "reject"
    BY <1>1, <2>2 DEF Filters!FilterStack, Filters!FilterComp
  <2> QED
    BY <2>3, <2>4, <2>5, <2>6, <2>7, AllowedByAll DEF q
<1> QED
  BY <1>2

\* A posting whose areas reach no allowed country is rejected unless remote work is allowed from
\* anywhere (filter_location, covers_any), whatever cities and marks its text has.
THEOREM AbroadIsRejected ==
    ASSUME LookupsAssumption, NEW W, NEW S, NEW raw \in Postings(W, S), NEW f \in Settings(W),
           NEW now \in Int
    PROVE  Filters!ForeignIsRejected(raw, f, now)
<1> DEFINE areas == Filters!GeoTags(raw.place)
           countries == {t.of : t \in {a \in areas : a.kind = "country"}}
           reached == countries \union UNION {Filters!RegionCountries[r] : r \in
                      {s \in DOMAIN Filters!RegionCountries : Filters!Region(s) \in areas}}
<1> SUFFICES ASSUME areas # {}, reached \intersect f.countries = {},
                    Filters!Region("worldwide") \in areas => countries # {}, f.policy # "anywhere"
             PROVE  ~Filters!Allowed(raw, f, now)
  BY DEF Filters!ForeignIsRejected
<1> DEFINE p == Filters!Normalize(raw, f)
<1>1. raw.place # None /\ p.geo = areas
  BY NormalizedAs DEF Filters!GeoTags
<1>2. areas \subseteq [kind : {"country", "region"}, of : W]
  BY <1>1 DEF Filters!GeoTags, Postings, PlacesOf
<1>3. ~Filters!CoversAny(areas, f.countries)
  <2> SUFFICES ASSUME NEW tag \in areas,
                      \/ tag.kind = "country" /\ tag.of \in f.countries
                      \/ tag = Filters!Region("worldwide") /\ \A other \in areas :
                         other.kind # "country"
                      \/ /\ tag.kind = "region" /\ tag.of \in DOMAIN Filters!RegionCountries
                         /\ Filters!RegionCountries[tag.of] \intersect f.countries # {}
               PROVE  FALSE
    BY DEF Filters!CoversAny
  <2>1. tag.kind # "country" \/ tag.of \notin f.countries
    OBVIOUS
  <2>2. tag # Filters!Region("worldwide") \/ \E other \in areas : other.kind = "country"
    OBVIOUS
  <2>3. tag.kind = "region" => tag = Filters!Region(tag.of)
    BY <1>2 DEF Filters!Region
  <2>4. tag.kind = "region" /\ tag.of \in DOMAIN Filters!RegionCountries
           => Filters!RegionCountries[tag.of] \subseteq reached
    <3> HIDE DEF areas
    <3> QED
      BY <2>3
  <2> HIDE DEF reached, countries, areas
  <2> QED
    BY <2>1, <2>2, <2>4
<1>4. "unknown_location" \notin p.tags
  <2>1. PICK base \in SUBSET Marks :
         /\ p.tags = base \union (raw.place.cities \intersect f.cities)
         /\ "unknown_location" \notin base
    BY <1>1, TagsOf, NormalizedAs
  <2>2. "unknown_location" \notin f.cities
    BY DEF Settings, Marks
  <2> HIDE DEF p
  <2> QED
    BY <2>1, <2>2
<1> HIDE DEF p, areas
<1>5. Filters!FilterLocation(p, f) = "reject"
  BY <1>1, <1>3, <1>4 DEF Filters!FilterLocation, Filters!MatchIf
<1> QED
  BY <1>5, AllowedByAll DEF p

\* The workplace read from the text is the one read from the tags (workplace_type_of,
\* workplace_type_from_tags), where the connector's flag adds nothing to the text.
THEOREM BucketsAreOne ==
    ASSUME LookupsAssumption, NEW W, NEW S, NEW raw \in Postings(W, S), NEW f \in Settings(W)
    PROVE  Filters!BucketsAgree(raw, f)
<1> DEFINE tags == Filters!Normalize(raw, f).tags
           own == IF raw.place = None THEN {} ELSE raw.place.cities \intersect f.cities
           buckets == <<<<"hybrid", "hybrid">>, <<"remote", "remote">>, <<"onsite_only",
           "onsite">>>>
           I == {i \in 1 .. Len(buckets) : buckets[i][1] \in tags}
<1> SUFFICES ASSUME raw.remote = None \/ (raw.place # None /\ raw.remote = FALSE)
             PROVE  Filters!WorkplaceOf(raw.place) = Filters!WorkplaceFromTags(tags)
  BY DEF Filters!BucketsAgree
<1>1. tags = Filters!LocationTags(raw.place, raw.remote, f.cities)
  BY NormalizedAs
<1> HIDE DEF tags
<1>2. f.cities \intersect Marks = {}
  BY DEF Settings
<1>3. Filters!WorkplaceFromTags(tags) = CASE "hybrid" \in tags -> "hybrid"
          [] "hybrid" \notin tags /\ "remote" \in tags -> "remote"
          [] "hybrid" \notin tags /\ "remote" \notin tags /\ "onsite_only" \in tags -> "onsite"
          [] OTHER -> "unknown"
  <2>1. Filters!WorkplaceFromTags(tags) =
           IF (IF I # {} THEN Filters!Min(I) ELSE 0) = 0 THEN "unknown"
           ELSE buckets[IF I # {} THEN Filters!Min(I) ELSE 0][2]
    BY DEF Filters!WorkplaceFromTags, Filters!SelectInSeq
  <2>2. \A i \in 1 .. 3 : i \in I <=> (CASE i = 1 -> "hybrid" [] i =
        2 -> "remote" [] OTHER -> "onsite_only") \in tags
    OBVIOUS
  <2>3. I \subseteq 1 .. 3
    OBVIOUS
  <2>4. /\ buckets[1][2] = "hybrid" /\ buckets[2][2] = "remote" /\ buckets[3][2] = "onsite"
    OBVIOUS
  <2>5. I # {} => Filters!Min(I) \in I /\ \A i \in I : Filters!Min(I) <= i
    <3>1. I \subseteq Nat
      BY <2>3
    <3> HIDE DEF I
    <3> QED
      BY <3>1, MinIsFirst
  <2> HIDE DEF I, buckets
  <2> QED
    BY <2>1, <2>2, <2>3, <2>4, <2>5
<1>4. CASE raw.place = None
  <2>1. tags = {"unknown_location"}
    BY <1>1, <1>4 DEF Filters!LocationTags
  <2> QED
    BY <1>3, <1>4, <2>1 DEF Filters!WorkplaceOf
<1>5. CASE raw.place # None
  <2>1. raw.remote # TRUE /\ raw.place.marks \subseteq {"remote", "hybrid"}
    BY <1>5 DEF LookupsAssumption, Postings, PlacesOf
  <2>2. tags = (IF raw.place.marks = {} THEN {"onsite_only"} ELSE raw.place.marks)
                  \union (raw.place.cities \intersect f.cities)
    BY <1>1, <1>5, <2>1 DEF Filters!LocationTags
  <2> QED
    BY <1>2, <1>3, <1>5, <2>1, <2>2 DEF Filters!WorkplaceOf, Marks
<1> QED
  BY <1>4, <1>5

\* The words and the employers of the instance.
Words == {"engineer", "mid", "senior", "junior", "full", "contract", "to hire", "contract_to_hire",
          "go", "java", "berlin", "de", "us", "eu", "worldwide", "anywhere", "countries", "labs"}
Firms == {<<"acme", "labs">>, <<"lever", <<"acme">>>>, None,
          <<"hiringcafe", <<"taleo">>, <<"labs">>>>}

LEMMA SettingsTyped == PlaceSettings \union OtherSettings \subseteq Settings(Words)
<1>1. /\ {{"engineer"}} \subseteq SUBSET Words /\ {{"mid", "senior"}} \subseteq SUBSET Words
      /\ {{}, {"de"}, {"de", "us"}} \subseteq SUBSET Words /\ {{"de"}} \subseteq SUBSET Words
      /\ {"anywhere", "countries"} \subseteq Words /\ {"anywhere"} \subseteq Words
      /\ {{}, {"go"}} \subseteq SUBSET Words /\ {{}, {"contract_to_hire"}} \subseteq SUBSET Words
      /\ {{}} \subseteq SUBSET Words
  BY DEF Words
<1>2. {{}, {"berlin"}} \subseteq SUBSET (Words \ Marks) /\ {{}} \subseteq SUBSET (Words \ Marks)
  BY DEF Words, Marks
<1>3. {{}, {<<"labs">>}} \subseteq SUBSET Seq(Words) /\ {{}} \subseteq SUBSET Seq(Words)
  <2>1. <<"labs">> \in Seq(Words)
    BY DEF Words
  <2> QED
    BY <2>1
<1>4. /\ {None} \subseteq Int \union {None} /\ {None, 1} \subseteq Int \union {None}
      /\ {0, 1} \subseteq Int /\ {0} \subseteq Int /\ {TRUE} \subseteq BOOLEAN
  OBVIOUS
<1>5. PlaceSettings \subseteq Settings(Words)
  BY <1>1, <1>2, <1>3, <1>4 DEF PlaceSettings, Settings
<1>6. OtherSettings \subseteq Settings(Words)
  BY <1>1, <1>2, <1>3, <1>4 DEF OtherSettings, Settings
<1> QED
  BY <1>5, <1>6

LEMMA PlacesTyped == Places \subseteq PlacesOf(Words) \union {None}
<1>1. {De, Us, Eu, World} \subseteq [kind : {"country", "region"}, of : Words]
  BY DEF De, Us, Eu, World, Filters!Country, Filters!Region, Words
<1>2. {{}, {De}, {Us}, {De, Us}, {Eu}, {World}, {World, Us}, {Eu, Us}}
         \subseteq SUBSET [kind : {"country", "region"}, of : Words]
  BY <1>1
<1>3. SUBSET {"berlin"} \subseteq SUBSET Words
  BY DEF Words
<1> QED
  BY <1>2, <1>3 DEF Places, PlacesOf

LEMMA PostingsTyped == Placed \union Other \subseteq Postings(Words, Firms)
<1>1. /\ {{"engineer"}} \subseteq SUBSET Words /\ {{}} \subseteq SUBSET Words
      /\ {{}, {"senior"}, {"senior", "junior"}} \subseteq SUBSET Words
      /\ {{"full"}} \subseteq SUBSET Words
      /\ {{}, {"contract", "to hire"}} \subseteq SUBSET Words /\ {{"go"}} \subseteq SUBSET Words
      /\ {{}, {"go"}, {"java"}} \subseteq SUBSET Words
  BY DEF Words
<1>2. /\ {<<"acme", "labs">>} \subseteq Firms /\ {<<"lever", <<"acme">>>>} \subseteq Firms
      /\ {None} \subseteq Firms /\ {<<"hiringcafe", <<"taleo">>, <<"labs">>>>} \subseteq Firms
  BY DEF Firms
<1>3. /\ {None, 0, 2} \subseteq Int \union {None} /\ {None, 0, 1} \subseteq Int \union {None}
      /\ {2} \subseteq Int \union {None} /\ {1} \subseteq Int \union {None}
  OBVIOUS
<1>4. {TRUE, FALSE, None} \subseteq BOOLEAN \union {None}
  OBVIOUS
<1>5. {[marks |-> {"remote"}, cities |-> {},
      areas |-> {De}]} \subseteq PlacesOf(Words) \union {None}
  BY DEF PlacesOf, De, Filters!Country, Words
<1>6. Placed \subseteq Postings(Words, Firms)
  BY <1>1, <1>2, <1>3, <1>4, PlacesTyped DEF Placed, Postings
<1>7. Other \subseteq Postings(Words, Firms)
  BY <1>1, <1>2, <1>3, <1>5 DEF Other, Told, Postings
<1> QED
  BY <1>6, <1>7

\* What is asked of the filters is a posting and settings of theirs.
AskedFilters ==
    asked.kind = "filters" =>
        /\ asked.raw \in Placed \union Other
        /\ asked.f \in PlaceSettings \union OtherSettings /\ asked.now \in Int

\* Of the questions, those of the filters alone are of their kind.
LEMMA AskedStarts == ServicesInit => AskedFilters
<1> SUFFICES ASSUME ServicesInit, asked.kind = "filters" PROVE AskedFilters
  BY DEF AskedFilters
<1>1. AskFingerprint \/ AskPortfolio \/ AskPolled \/ AskFilters
       \/ AskResume \/ AskCalls \/ AskArchive \/ AskPages
  BY DEF ServicesInit, Init
<1>2. ~AskFingerprint /\ ~AskPortfolio /\ ~AskPolled
  BY DEF AskFingerprint, AskPortfolio, AskPolled
<1>3. ~AskResume /\ ~AskCalls /\ ~AskArchive
  BY DEF AskResume, AskCalls, AskArchive
<1>4. ~AskPages
  BY DEF AskPages
<1> QED
  BY <1>1, <1>2, <1>3, <1>4 DEF AskFilters, AskedFilters

\* The properties of the hard filters hold of every question that is asked of them.
THEOREM FiltersAreHeld == ServicesSpec => []FiltersHold
<1>1. ServicesInit => AskedFilters
  BY AskedStarts
<1>2. AskedFilters /\ [ServicesNext]_servicesVars => AskedFilters'
  <2> SUFFICES ASSUME AskedFilters, [ServicesNext]_servicesVars PROVE AskedFilters'
    OBVIOUS
  <2>1. asked' = asked
    BY DEF ServicesNext, Next, servicesVars, lookupVars
  <2> QED
    BY <2>1 DEF AskedFilters
<1>3. AskedFilters => FiltersHold
  <2> SUFFICES ASSUME AskedFilters, asked.kind = "filters"
      PROVE  /\ \A g \in Wideners(asked.f) : Filters!WideningKeeps(asked.raw, asked.f, g, asked.now)
             /\ Filters!RejectionLasts(asked.raw, asked.f, asked.now, asked.now + 1)
             /\ Filters!MissingPasses(asked.raw, asked.f, asked.now)
             /\ Filters!ForeignIsRejected(asked.raw, asked.f, asked.now)
             /\ Filters!BucketsAgree(asked.raw, asked.f)
    BY DEF FiltersHold, Asked
  <2>1. /\ asked.raw \in Postings(Words, Firms) /\ asked.f \in Settings(Words)
        /\ asked.now \in Int /\ asked.now + 1 \in Int
    BY PostingsTyped, SettingsTyped DEF AskedFilters
  <2>2. \A g \in Wideners(asked.f) : g \in Settings(Words)
    BY SettingsTyped DEF Wideners
  <2>3. \A g \in Wideners(asked.f) : Filters!WideningKeeps(asked.raw, asked.f, g, asked.now)
    BY <2>1, <2>2, LookupsAssumption, WideningLosesNothing
  <2>4. Filters!RejectionLasts(asked.raw, asked.f, asked.now, asked.now + 1)
    BY <2>1, LookupsAssumption, RejectionOutlastsTheDay
  <2> QED
    BY <2>1, <2>3, <2>4, LookupsAssumption, SilenceRejectsNothing, AbroadIsRejected, BucketsAreOne
<1> QED
  BY <1>1, <1>2, <1>3, PTL DEF ServicesSpec

-----------------------------------------------------------------------------
(* What is made of the model's answers *)

LEMMA MinOfCalls ==
    ASSUME NEW I, I \subseteq Nat, I # {}
    PROVE  Calls!Min(I) \in I /\ \A i \in I : Calls!Min(I) <= i
BY LeastNumber DEF Calls!Min

\* Text with an object in it is that object; a text with anything else is none.
LEMMA ExtractsIt ==
    ASSUME NEW obj, Calls!Bare(obj).text # None
    PROVE  Calls!Extract(Calls!Bare(obj).text) = IF obj.kind = "object" THEN obj ELSE Calls!NoObject
<1> DEFINE text == [whole |-> Calls!NoObject, braced |-> obj]
           candidates == <<text.whole, text.braced>>
           I == {i \in 1 .. Len(candidates) : candidates[i].kind = "object"}
           m == IF I # {} THEN Calls!Min(I) ELSE 0
<1>1. Calls!Bare(obj).text = text
  BY DEF Calls!Bare
<1>2. Calls!Extract(text) = IF text = None \/ m = 0 THEN Calls!NoObject ELSE candidates[m]
  BY DEF Calls!Extract, Calls!SelectInSeq
<1>3. Len(candidates) = 2 /\ candidates[1] = Calls!NoObject /\ candidates[2] = obj
      /\ Calls!NoObject.kind # "object"
  BY DEF Calls!NoObject
<1> HIDE DEF candidates
<1>4. I = IF obj.kind = "object" THEN {2} ELSE {}
  BY <1>3
<1> HIDE DEF I
<1>5. m = IF obj.kind = "object" THEN 2 ELSE 0
  BY <1>4, MinOfCalls
<1> QED
  BY <1>1, <1>2, <1>3, <1>5

LEMMA TakesTheTool ==
    ASSUME NEW obj, NEW tool
    PROVE  Calls!ToolInput(Calls!Tooled(obj, tool).blocks, tool) = obj
<1> DEFINE blocks == <<[tool |-> tool, input |-> obj]>>
           I == {i \in 1 .. Len(blocks) : blocks[i].tool = tool}
           m == IF I # {} THEN Calls!Min(I) ELSE 0
<1>1. Calls!ToolInput(blocks, tool) = IF m = 0 THEN Calls!NoObject ELSE blocks[m].input
  BY DEF Calls!ToolInput, Calls!SelectInSeq
<1>2. Len(blocks) = 1 /\ blocks[1].tool = tool /\ blocks[1].input = obj
  OBVIOUS
<1> HIDE DEF blocks
<1>3. I = {1}
  BY <1>2
<1> HIDE DEF I
<1>4. m = 1
  BY <1>3, MinOfCalls
<1> QED
  BY <1>1, <1>2, <1>4 DEF Calls!Tooled, blocks

\* Ollama's first answer counts if its call does not raise.
LEMMA FirstTryCounts ==
    ASSUME NEW call, call.raised = None
    PROVE  Calls!ScoreByOllama([i \in 1 .. Calls!OllamaMaxAttempts |-> call])
             = Calls!ScoreOfText(call.text)
<1> DEFINE calls == [i \in 1 .. Calls!OllamaMaxAttempts |-> call]
           made == SubSeq(calls, 1, Calls!OllamaMaxAttempts)
           I == {i \in 1 .. Len(made) : made[i].raised = None}
           m == IF I # {} THEN Calls!Min(I) ELSE 0
<1>1. Calls!ScoreByOllama(calls) = IF m = 0 THEN Calls!Fallback(Calls!Last(made).raised)
                                   ELSE Calls!ScoreOfText(made[m].text)
  BY DEF Calls!ScoreByOllama, Calls!SelectInSeq
<1>2. Len(made) = 3 /\ \A i \in 1 .. 3 : made[i] = call
  BY DEF Calls!OllamaMaxAttempts
<1> HIDE DEF made, calls
<1>3. I = 1 .. 3
  BY <1>2
<1> HIDE DEF I
<1>4. m \in 1 .. 3
  BY <1>3, MinOfCalls
<1> QED
  BY <1>1, <1>2, <1>4 DEF calls

\* One object means one thing (ProvidersAgree), whichever provider it comes from and however it is
\* wrapped: for any object that has any fields, and anything else that a text may decode to.
THEOREM ProvidersSayOneThing ==
    ASSUME NEW obj, NEW most, Calls!Bare(obj).text # None,
           obj.kind = "none" => obj = Calls!NoObject, obj.kind \in {"none", "other", "object"}
    PROVE  Calls!ProvidersAgree(obj, most)
<1> DEFINE bare == Calls!Bare(obj)
           found == IF obj.kind = "object" THEN obj ELSE Calls!NoObject
<1>1. bare.raised = None /\ Calls!Extract(bare.text) = found
  BY ExtractsIt DEF Calls!Bare
<1>2. \A tool : /\ Calls!Tooled(obj, tool).raised = None
                /\ Calls!ToolInput(Calls!Tooled(obj, tool).blocks, tool) = obj
  BY TakesTheTool DEF Calls!Tooled
<1> HIDE DEF bare
<1>3. obj.kind # "object" => \A key : ~Calls!Has(obj, key) /\ ~Calls!Has(found, key)
  BY DEF Calls!Has, Calls!NoObject
<1>4. /\ Calls!ScoreOfText(bare.text) = Calls!ScoreOfInput(obj)
      /\ Calls!GapsOfText(bare.text, most) = Calls!GapsOfInput(obj, most)
      /\ Calls!CoachOfText(bare.text) = Calls!CoachOfInput(obj)
  <2>1. CASE obj.kind = "object"
    BY <1>1, <2>1
       DEF Calls!ScoreOfText, Calls!ScoreOfInput, Calls!GapsOfText, Calls!CoachOfText
  <2>2. CASE obj.kind # "object"
    <3>1. Calls!ScoreOfText(bare.text) = Calls!Malformed /\
          Calls!ScoreOfInput(obj) = Calls!Malformed
      BY <1>1, <1>3, <2>2 DEF Calls!ScoreOfText, Calls!ScoreOfInput
    <3>2. /\ Calls!GapsOfText(bare.text, most) = Calls!Malformed
          /\ Calls!GapsOfInput(obj, most) = Calls!Malformed
      BY <1>1, <1>3, <2>2 DEF Calls!GapsOfText, Calls!GapsOfInput
    <3>3. Calls!CoachOfText(bare.text) = Calls!Malformed /\
          Calls!CoachOfInput(obj) = Calls!Malformed
      BY <1>1, <1>3, <2>2 DEF Calls!CoachOfText, Calls!CoachOfInput
    <3> QED
      BY <3>1, <3>2, <3>3
  <2> QED
    BY <2>1, <2>2
<1> DEFINE calls == [i \in 1 .. Calls!OllamaMaxAttempts |-> bare]
<1>5. Head(calls) = bare /\ Calls!ScoreByOllama(calls) = Calls!ScoreOfText(bare.text)
  <2>1. Calls!ScoreByOllama(calls) = Calls!ScoreOfText(bare.text)
    BY <1>1, FirstTryCounts
  <2>2. Head(calls) = bare
    BY DEF Calls!OllamaMaxAttempts
  <2> QED
    BY <2>1, <2>2
<1> HIDE DEF calls
<1> SUFFICES ASSUME NEW provider \in {"gemini", "ollama"}
             PROVE  /\ Calls!Score(provider, calls)
                         = Calls!Score("anthropic", <<Calls!Tooled(obj, "record_relevance")>>)
                    /\ Calls!Gaps(provider, bare, most)
                         = Calls!Gaps("anthropic", Calls!Tooled(obj, "record_gaps"), most)
                    /\ Calls!Coach(provider, bare)
                         = Calls!Coach("anthropic", Calls!Tooled(obj, "record_recommendations"))
                    /\ obj.kind # "other" => Calls!CompleteJson(provider, bare)
                         = Calls!CompleteJson("anthropic", Calls!Tooled(obj, "respond"))
  BY DEF Calls!ProvidersAgree, bare, calls
<1>6. Calls!Score(provider, calls)
        = Calls!Score("anthropic", <<Calls!Tooled(obj, "record_relevance")>>)
  <2>1. Calls!Score(provider, calls) = Calls!ScoreOfText(bare.text)
    BY <1>1, <1>5 DEF Calls!Score, Calls!ScoreByGemini
  <2>2. Calls!Score("anthropic", <<Calls!Tooled(obj, "record_relevance")>>)
          = Calls!ScoreByAnthropic(Calls!Tooled(obj, "record_relevance"))
    BY DEF Calls!Score
  <2>3. Calls!ScoreByAnthropic(Calls!Tooled(obj, "record_relevance")) = Calls!ScoreOfInput(obj)
    BY <1>2 DEF Calls!ScoreByAnthropic
  <2> QED
    BY <1>4, <2>1, <2>2, <2>3
<1>7. Calls!Gaps(provider, bare, most)
        = Calls!Gaps("anthropic", Calls!Tooled(obj, "record_gaps"), most)
  <2>1. Calls!Gaps(provider, bare, most) = Calls!GapsOfText(bare.text, most)
    BY <1>1 DEF Calls!Gaps, Calls!GapsByGemini, Calls!GapsByOllama
  <2>2. Calls!Gaps("anthropic", Calls!Tooled(obj, "record_gaps"), most) =
        Calls!GapsOfInput(obj, most)
    BY <1>2 DEF Calls!Gaps, Calls!GapsByAnthropic
  <2> QED
    BY <1>4, <2>1, <2>2
<1>8. Calls!Coach(provider, bare)
        = Calls!Coach("anthropic", Calls!Tooled(obj, "record_recommendations"))
  <2>1. Calls!Coach(provider, bare) = Calls!CoachOfText(bare.text)
    BY <1>1 DEF Calls!Coach, Calls!CoachByGemini, Calls!CoachByOllama
  <2>2. Calls!Coach("anthropic", Calls!Tooled(obj, "record_recommendations"))
          = Calls!CoachOfInput(obj)
    BY <1>2 DEF Calls!Coach, Calls!CoachByAnthropic
  <2> QED
    BY <1>4, <2>1, <2>2
<1>9. ASSUME obj.kind # "other"
      PROVE  Calls!CompleteJson(provider, bare)
               = Calls!CompleteJson("anthropic", Calls!Tooled(obj, "respond"))
  <2>1. found = obj
    BY <1>9
  <2>2. Calls!CompleteJson(provider, bare) = Calls!Answered(found)
    BY <1>1 DEF Calls!CompleteJson, Calls!JsonByGemini, Calls!JsonByOllama
  <2>3. Calls!CompleteJson("anthropic", Calls!Tooled(obj, "respond")) = Calls!Answered(obj)
    BY <1>2 DEF Calls!CompleteJson, Calls!JsonByAnthropic
  <2> QED
    BY <2>1, <2>2, <2>3
<1> QED
  BY <1>6, <1>7, <1>8, <1>9

\* The first n of the skills as they are listed, without the blanks, counted.
Unblank(items, n) == {i \in 1 .. n : items[i] # "blank"}

\* g keeps what is left of the first i skills, for every i up to n.
Keeps(g, items, n) ==
    g = [i \in 0 .. n |-> IF i = 0 THEN <<>>
                          ELSE IF items[i] = "blank" THEN g[i - 1] ELSE Append(g[i - 1], items[i])]

LEMMA KeepsOneMore ==
    ASSUME NEW items, NEW n \in Nat, n # 0, NEW g, Keeps(g, items, n - 1)
    PROVE  \E h : Keeps(h, items, n)
<1> DEFINE new == IF items[n] = "blank" THEN g[n - 1] ELSE Append(g[n - 1], items[n])
           h == [i \in 0 .. n |-> IF i = n THEN new ELSE g[i]]
<1>1. \A i \in 0 .. n - 1 : g[i] = IF i = 0 THEN <<>>
          ELSE IF items[i] = "blank" THEN g[i - 1] ELSE Append(g[i - 1], items[i])
  BY DEF Keeps
<1>2. h[n] = new /\ \A i \in 0 .. n - 1 : h[i] = g[i]
  OBVIOUS
<1>3. DOMAIN h = 0 .. n /\ h = [i \in 0 .. n |-> h[i]]
  OBVIOUS
<1>4. h[n] = IF items[n] = "blank" THEN h[n - 1] ELSE Append(h[n - 1], items[n])
  BY <1>2
<1> HIDE DEF h
<1>5. ASSUME NEW i \in 0 .. n
      PROVE  h[i] = IF i = 0 THEN <<>>
                    ELSE IF items[i] = "blank" THEN h[i - 1] ELSE Append(h[i - 1], items[i])
  <2>1. CASE i = n
    BY <1>4, <2>1
  <2>2. CASE i # n /\ i # 0
    BY <1>1, <1>2, <2>2
  <2>3. CASE i # n /\ i = 0
    BY <1>1, <1>2, <2>3
  <2> QED
    BY <2>1, <2>2, <2>3
<1>6. Keeps(h, items, n)
  BY <1>3, <1>5 DEF Keeps
<1> QED
  BY <1>6

LEMMA KeepsAll ==
    ASSUME NEW items, NEW n \in Nat
    PROVE  \E g : Keeps(g, items, n)
<1> DEFINE T == {m \in Nat : ~\E g : Keeps(g, items, m)}
<1> SUFFICES ASSUME T # {} PROVE FALSE
  OBVIOUS
<1>1. PICK m \in T : \A y \in T : m <= y
  BY LeastNumber
<1>2. m # 0
  <2> DEFINE g == [i \in 0 .. 0 |-> <<>>]
  <2>1. Keeps(g, items, 0)
    BY DEF Keeps
  <2> QED
    BY <2>1
<1>3. m - 1 \in Nat /\ m - 1 \notin T
  BY <1>1, <1>2
<1>4. \E g : Keeps(g, items, m - 1)
  BY <1>3
<1> QED
  BY <1>2, <1>4, KeepsOneMore

LEMMA UnblankGrows ==
    ASSUME NEW items, NEW n \in Nat
    PROVE  /\ Unblank(items, 0) = {} /\ IsFiniteSet(Unblank(items, n))
           /\ Cardinality(Unblank(items, n)) \in Nat
           /\ n # 0 => Cardinality(Unblank(items, n)) = IF items[n] = "blank"
                          THEN Cardinality(Unblank(items, n - 1))
                          ELSE Cardinality(Unblank(items, n - 1)) + 1
<1>1. \A m \in Nat : IsFiniteSet(Unblank(items, m))
  <2> SUFFICES ASSUME NEW m \in Nat PROVE IsFiniteSet(Unblank(items, m))
    OBVIOUS
  <2>1. IsFiniteSet(1 .. m)
    BY FS_Interval
  <2>2. Unblank(items, m) \in SUBSET (1 .. m)
    BY DEF Unblank
  <2> QED
    BY <2>1, <2>2, FS_Subset
<1>2. n # 0 => Unblank(items, n) = IF items[n] = "blank" THEN Unblank(items, n - 1)
                                   ELSE Unblank(items, n - 1) \union {n}
  BY DEF Unblank
<1>3. n \notin Unblank(items, n - 1) /\ Unblank(items, 0) = {}
  BY DEF Unblank
<1>4. n # 0 => n - 1 \in Nat
  OBVIOUS
<1>5. Cardinality(Unblank(items, n)) \in Nat
  BY <1>1, FS_CardinalityType
<1>6. ASSUME n # 0, items[n] # "blank"
      PROVE  Cardinality(Unblank(items, n)) = Cardinality(Unblank(items, n - 1)) + 1
  <2> DEFINE before == Unblank(items, n - 1)
  <2>1. IsFiniteSet(before) /\ Unblank(items, n) = before \union {n} /\ n \notin before
    BY <1>1, <1>2, <1>3, <1>4, <1>6
  <2> HIDE DEF before
  <2>2. Cardinality(before \union {n}) = Cardinality(before) + 1
    BY <2>1, FS_AddElement
  <2> QED
    BY <2>1, <2>2 DEF before
<1> QED
  BY <1>1, <1>2, <1>3, <1>5, <1>6

\* What is left has no blank, and everything else.
LEMMA KeptIsClean ==
    ASSUME NEW W, NEW items \in Seq(W), NEW g, Keeps(g, items, Len(items)),
           NEW n \in 0 .. Len(items)
    PROVE  g[n] \in Seq(W \ {"blank"}) /\ Len(g[n]) = Cardinality(Unblank(items, n))
<1> DEFINE Fits(m) == g[m] \in Seq(W \ {"blank"}) /\ Len(g[m]) = Cardinality(Unblank(items, m))
           T == {m \in 0 .. Len(items) : ~Fits(m)}
<1> SUFFICES ASSUME T # {} PROVE FALSE
  OBVIOUS
<1>0. T \subseteq Nat
  OBVIOUS
<1>1. PICK m \in T : \A y \in T : m <= y
  <2> HIDE DEF T
  <2> QED
    BY <1>0, LeastNumber
<1>2. \A i \in 0 .. Len(items) : g[i] = IF i = 0 THEN <<>>
          ELSE IF items[i] = "blank" THEN g[i - 1] ELSE Append(g[i - 1], items[i])
  BY DEF Keeps
<1>3. m # 0
  <2>0. 0 \in 0 .. Len(items) /\ 0 \in Nat
    OBVIOUS
  <2>1. g[0] = <<>> /\ Unblank(items, 0) = {}
    <3>1. g[0] = <<>>
      BY <1>2, <2>0
    <3> QED
      BY <2>0, <3>1, UnblankGrows
  <2>2. <<>> \in Seq(W \ {"blank"}) /\ Len(<<>>) = 0
    OBVIOUS
  <2> QED
    BY <1>1, <2>1, <2>2, FS_EmptySet
<1>4. m - 1 \in 0 .. Len(items) /\ m \in 1 .. Len(items) /\ Fits(m - 1)
  BY <1>1, <1>3
<1>5. items[m] \in W
  BY <1>4
<1>6. g[m] = IF items[m] = "blank" THEN g[m - 1] ELSE Append(g[m - 1], items[m])
  BY <1>2, <1>4
<1>7. Cardinality(Unblank(items, m)) = IF items[m] = "blank"
         THEN Cardinality(Unblank(items, m - 1)) ELSE Cardinality(Unblank(items, m - 1)) + 1
  BY <1>4, UnblankGrows
<1> HIDE DEF T
<1>8. Fits(m)
  <2>1. CASE items[m] = "blank"
    BY <1>4, <1>6, <1>7, <2>1
  <2>2. CASE items[m] # "blank"
    <3> DEFINE before == g[m - 1]
    <3>1. before \in Seq(W \ {"blank"}) /\ items[m] \in W \ {"blank"}
      BY <1>4, <1>5, <2>2
    <3>2. g[m] = Append(before, items[m])
      BY <1>6, <2>2
    <3> HIDE DEF before
    <3>3. g[m] \in Seq(W \ {"blank"}) /\ Len(g[m]) = Len(before) + 1
      BY <3>1, <3>2
    <3> QED
      BY <1>4, <1>7, <2>2, <3>3 DEF before
  <2> QED
    BY <2>1, <2>2
<1> QED
  BY <1>1, <1>8 DEF T

LEMMA CleanKeeps ==
    ASSUME NEW W, NEW items \in Seq(W)
    PROVE  /\ Calls!Clean(items) \in Seq(W \ {"blank"})
           /\ Len(Calls!Clean(items)) = Cardinality({i \in DOMAIN items : items[i] # "blank"})
<1> DEFINE h == CHOOSE h : h = [i \in 0 .. Len(items) |-> IF i = 0 THEN <<>>
                   ELSE IF items[i] = "blank" THEN h[i - 1] ELSE Append(h[i - 1], items[i])]
<1>1. Calls!Clean(items) = h[Len(items)]
  BY DEF Calls!Clean
<1>2. \E g : g = [i \in 0 .. Len(items) |-> IF i = 0 THEN <<>>
                ELSE IF items[i] = "blank" THEN g[i - 1] ELSE Append(g[i - 1], items[i])]
  <2>1. Len(items) \in Nat
    OBVIOUS
  <2> QED
    BY <2>1, KeepsAll DEF Keeps
<1>3. Keeps(h, items, Len(items))
  BY <1>2, ZenonT(40) DEF Keeps
<1> HIDE DEF h
<1>4. Len(items) \in 0 .. Len(items) /\ DOMAIN items = 1 .. Len(items)
  OBVIOUS
<1>5. {i \in DOMAIN items : items[i] # "blank"} = Unblank(items, Len(items))
  BY <1>4 DEF Unblank
<1>6. h[Len(items)] \in Seq(W \ {"blank"})
      /\ Len(h[Len(items)]) = Cardinality(Unblank(items, Len(items)))
  BY <1>3, <1>4, KeptIsClean
<1> QED
  BY <1>1, <1>5, <1>6

\* The elements of a set, counted there and here.
LEMMA SameCount == \A S : Calls!Cardinality(S) = Cardinality(S)
BY DEF Calls!Cardinality, Cardinality

\* The skills an object names, where it names a list of them, are words.
Names(obj, W) ==
    Calls!Has(obj, "missing_skills") /\ obj.fields.missing_skills.kind = "list"
        => obj.fields.missing_skills.items \in Seq(W)

\* So are those of a call, whatever it brings back.
Brings(call, W) ==
    /\ call.text # None => Names(call.text.whole, W) /\ Names(call.text.braced, W)
    /\ \E B : call.blocks \in Seq(B)
    /\ \A i \in 1 .. Len(call.blocks) : Names(call.blocks[i].input, W)

\* The place of the first of n that passes a test, 0 if there is none.
LEMMA FirstOfCalls ==
    ASSUME NEW n \in Nat, NEW I, I \subseteq 1 .. n
    PROVE  /\ (IF I # {} THEN Calls!Min(I) ELSE 0) \in 0 .. n
           /\ I # {} => Calls!Min(I) \in I /\ \A i \in I : Calls!Min(I) <= i
<1>1. I \subseteq Nat
  OBVIOUS
<1>2. I # {} => Calls!Min(I) \in I /\ \A i \in I : Calls!Min(I) <= i
  BY <1>1, MinOfCalls
<1>3. ASSUME I # {} PROVE Calls!Min(I) \in 0 .. n
  <2>1. Calls!Min(I) \in 1 .. n
    BY <1>2, <1>3
  <2> QED
    BY <2>1
<1>4. 0 \in 0 .. n
  OBVIOUS
<1> QED
  BY <1>2, <1>3, <1>4

LEMMA ExtractsOneOf ==
    ASSUME NEW text
    PROVE  \/ Calls!Extract(text) = Calls!NoObject
           \/ text # None /\ Calls!Extract(text) \in {text.whole, text.braced}
<1> DEFINE candidates == <<text.whole, text.braced>>
           I == {i \in 1 .. Len(candidates) : candidates[i].kind = "object"}
           m == IF I # {} THEN Calls!Min(I) ELSE 0
<1>1. Calls!Extract(text) = IF text = None \/ m = 0 THEN Calls!NoObject ELSE candidates[m]
  BY DEF Calls!Extract, Calls!SelectInSeq
<1>2. Len(candidates) = 2 /\ candidates[1] = text.whole /\ candidates[2] = text.braced
  OBVIOUS
<1> HIDE DEF candidates
<1>3. I \subseteq 1 .. 2
  BY <1>2
<1> HIDE DEF I
<1>4. m \in 0 .. 2
  BY <1>3, FirstOfCalls
<1> QED
  BY <1>1, <1>2, <1>4

LEMMA TakesOneOf ==
    ASSUME NEW B, NEW blocks \in Seq(B), NEW tool
    PROVE  \/ Calls!ToolInput(blocks, tool) = Calls!NoObject
           \/ \E i \in 1 .. Len(blocks) : Calls!ToolInput(blocks, tool) = blocks[i].input
<1> DEFINE I == {i \in 1 .. Len(blocks) : blocks[i].tool = tool}
           m == IF I # {} THEN Calls!Min(I) ELSE 0
<1>1. Calls!ToolInput(blocks, tool) = IF m = 0 THEN Calls!NoObject ELSE blocks[m].input
  BY DEF Calls!ToolInput, Calls!SelectInSeq
<1>2. I \subseteq 1 .. Len(blocks) /\ Len(blocks) \in Nat
  OBVIOUS
<1> HIDE DEF I
<1>3. m = 0 \/ m \in 1 .. Len(blocks)
  BY <1>2, FirstOfCalls
<1> QED
  BY <1>1, <1>3

\* A list of words makes as many gaps as there are skills in it, the most at most.
LEMMA SkillsAreFew ==
    ASSUME NEW W, NEW value, value.items \in Seq(W), NEW most \in Nat
    PROVE  LET skills == Calls!Skills(value, most) IN
           /\ Len(skills) <= most /\ "blank" \notin Calls!ToSet(skills)
           /\ Len(skills) < most =>
                Len(skills) = Cardinality({i \in DOMAIN value.items : value.items[i] # "blank"})
<1> DEFINE clean == Calls!Clean(value.items)
           skills == Calls!Skills(value, most)
           V == W \ {"blank"}
<1>1. clean \in Seq(V)
      /\ Len(clean) = Cardinality({i \in DOMAIN value.items : value.items[i] # "blank"})
  BY CleanKeeps
<1>2. skills = IF Len(clean) <= most THEN clean ELSE SubSeq(clean, 1, most)
  BY DEF Calls!Skills
<1> HIDE DEF clean, skills, V
<1>3. skills \in Seq(V) /\ Len(skills) = IF Len(clean) <= most THEN Len(clean) ELSE most
  <2>1. CASE Len(clean) <= most
    BY <1>1, <1>2, <2>1
  <2>2. CASE ~(Len(clean) <= most)
    <3>1. Len(clean) \in Nat /\ most <= Len(clean)
      BY <1>1, <2>2
    <3>2. skills = SubSeq(clean, 1, most)
      BY <1>2, <2>2
    <3>3. skills \in Seq(V) /\ Len(skills) = most
      BY <1>1, <3>1, <3>2
    <3> QED
      BY <2>2, <3>3
  <2> QED
    BY <2>1, <2>2
<1>4. "blank" \notin Calls!ToSet(skills)
  BY <1>3 DEF Calls!ToSet, V
<1> QED
  BY <1>1, <1>3, <1>4 DEF skills

LEMMA GapsComeFrom ==
    ASSUME NEW W, NEW obj, Names(obj, W), NEW most \in Nat, None # "MalformedResponse",
           Calls!GapsOfInput(obj, most).error = None
    PROVE  LET skills == Calls!GapsOfInput(obj, most).value IN
           /\ Calls!Has(obj, "missing_skills")
           /\ Len(skills) <= most /\ "blank" \notin Calls!ToSet(skills)
           /\ LET items == obj.fields.missing_skills.items IN
              Len(skills) < most =>
                 Len(skills) = Cardinality({i \in DOMAIN items : items[i] # "blank"})
<1> DEFINE value == obj.fields.missing_skills
<1>1. Calls!Malformed.error # None
  BY DEF Calls!Malformed, Calls!Fallback
<1>2. Calls!Has(obj, "missing_skills") /\ value.kind = "list"
      /\ Calls!GapsOfInput(obj, most) = Calls!Answered(Calls!Skills(value, most))
  BY <1>1 DEF Calls!GapsOfInput
<1>3. value.items \in Seq(W)
  BY <1>2 DEF Names
<1>4. Calls!GapsOfInput(obj, most).value = Calls!Skills(value, most)
  BY <1>2 DEF Calls!Answered
<1> HIDE DEF value
<1>5. LET skills == Calls!Skills(value, most) IN
      /\ Len(skills) <= most /\ "blank" \notin Calls!ToSet(skills)
      /\ Len(skills) < most =>
           Len(skills) = Cardinality({i \in DOMAIN value.items : value.items[i] # "blank"})
  BY <1>3, SkillsAreFew
<1> QED
  BY <1>2, <1>4, <1>5 DEF value

\* An annotation is an honest one (GapsAreClean): of any call that brings back lists of words,
\* through any provider and for any most, the gaps are clean, and all there was room for.
THEOREM GapsStayClean ==
    ASSUME None # "MalformedResponse", NEW W, NEW call, Brings(call, W),
           NEW provider \in Calls!Providers, NEW most \in Nat
    PROVE  Calls!GapsAreClean(provider, call, most)
<1> DEFINE gaps == Calls!Gaps(provider, call, most)
           told == Calls!Extract(call.text)
           given == Calls!ToolInput(call.blocks, "record_gaps")
<1>0. (gaps.error = None =>
            /\ Len(gaps.value) <= most /\ "blank" \notin Calls!ToSet(gaps.value)
            /\ \E obj \in {told, given} :
                  /\ Calls!Has(obj, "missing_skills")
                  /\ LET items == obj.fields.missing_skills.items IN
                     Len(gaps.value) < most =>
                        Len(gaps.value) = Calls!Cardinality({i \in DOMAIN items :
                        items[i] # "blank"}))
         => Calls!GapsAreClean(provider, call, most)
  BY Zenon DEF Calls!GapsAreClean
<1> SUFFICES ASSUME gaps.error = None, ~Calls!GapsAreClean(provider, call, most) PROVE FALSE
  BY <1>0, Zenon
<1>1. Names(Calls!NoObject, W)
  BY DEF Names, Calls!NoObject, Calls!Has
<1>2. Names(told, W)
  BY <1>1, ExtractsOneOf DEF Brings
<1>3. Names(given, W)
  <2>1. PICK B : call.blocks \in Seq(B)
    BY DEF Brings
  <2>2. \/ given = Calls!NoObject
        \/ \E i \in 1 .. Len(call.blocks) : given = call.blocks[i].input
    BY <2>1, TakesOneOf
  <2> QED
    BY <1>1, <2>2 DEF Brings
<1>4. call.raised = None /\ \E obj \in {told, given} : gaps = Calls!GapsOfInput(obj, most)
  <2> USE DEF Calls!Providers, Calls!Gaps, Calls!Fallback
  <2>1. CASE provider = "anthropic"
    BY <2>1 DEF Calls!GapsByAnthropic
  <2>2. CASE provider = "gemini"
    BY <2>2 DEF Calls!GapsByGemini, Calls!GapsOfText
  <2>3. CASE provider = "ollama"
    BY <2>3 DEF Calls!GapsByOllama, Calls!GapsOfText
  <2> QED
    BY <2>1, <2>2, <2>3
<1>5. PICK obj \in {told, given} : gaps = Calls!GapsOfInput(obj, most)
  BY <1>4
<1>6. Names(obj, W) /\ Calls!GapsOfInput(obj, most).error = None
  BY <1>2, <1>3, <1>5
<1>7. LET skills == Calls!GapsOfInput(obj, most).value IN
      /\ Calls!Has(obj, "missing_skills")
      /\ Len(skills) <= most /\ "blank" \notin Calls!ToSet(skills)
      /\ LET items == obj.fields.missing_skills.items IN
         Len(skills) < most =>
            Len(skills) = Cardinality({i \in DOMAIN items : items[i] # "blank"})
  BY <1>6, GapsComeFrom
<1> HIDE DEF gaps, told, given
<1> QED
  BY <1>0, <1>5, <1>7, SameCount

\* A posting goes out unscored only when nothing could be made of the model (UnscoredIsEarned),
\* for calls that fail in any way or bring back any text.
THEOREM UnscoredStaysEarned ==
    ASSUME NEW C, NEW calls \in Seq(C)
    PROVE  Calls!UnscoredIsEarned(calls)
<1> SUFFICES ASSUME Len(calls) = 3, Calls!ScoreByOllama(calls).error \notin {None, "OverflowError"}
             PROVE  \/ \A i \in DOMAIN calls : calls[i].raised # None
                    \/ \E i \in DOMAIN calls :
                          /\ calls[i].raised = None /\ \A j \in 1 .. i - 1 : calls[j].raised # None
                          /\ Calls!ScoreOfText(calls[i].text) = Calls!Malformed
  BY SMTT(40) DEF Calls!UnscoredIsEarned, Calls!OllamaMaxAttempts
<1> DEFINE made == SubSeq(calls, 1, Calls!OllamaMaxAttempts)
           I == {i \in 1 .. Len(made) : made[i].raised = None}
           m == IF I # {} THEN Calls!Min(I) ELSE 0
<1>1. Calls!ScoreByOllama(calls) = IF m = 0 THEN Calls!Fallback(Calls!Last(made).raised)
                                   ELSE Calls!ScoreOfText(made[m].text)
  BY ZenonT(40) DEF Calls!ScoreByOllama, Calls!SelectInSeq
<1>2. Len(made) = 3 /\ DOMAIN calls = 1 .. 3 /\ \A i \in 1 .. 3 : made[i] = calls[i]
  BY DEF Calls!OllamaMaxAttempts
<1> HIDE DEF made
<1>3. I = {i \in 1 .. 3 : calls[i].raised = None}
  BY <1>2
<1>4. I \subseteq 1 .. 3
  BY <1>3
<1> HIDE DEF I
<1>5. m \in 0 .. 3 /\ (I # {} => m \in I /\ \A i \in I : m <= i)
  BY <1>4, FirstOfCalls
<1> HIDE DEF m
<1>6. CASE I = {}
  BY <1>2, <1>3, <1>6
<1>7. CASE I # {}
  <2>1. m \in 1 .. 3 /\ calls[m].raised = None
    BY <1>3, <1>5, <1>7
  <2>2. \A j \in 1 .. m - 1 : calls[j].raised # None
    BY <1>3, <1>5, <1>7, <2>1
  <2>3. Calls!ScoreByOllama(calls) = Calls!ScoreOfText(calls[m].text)
    BY <1>1, <1>2, <2>1
  <2>4. Calls!ScoreOfText(calls[m].text) = Calls!Malformed
    <3> DEFINE score == Calls!ScoreOfText(calls[m].text)
               obj == Calls!Extract(calls[m].text)
    <3>1. \/ score = Calls!Malformed
          \/ score = [Calls!Fallback("OverflowError") EXCEPT !.raises = TRUE]
          \/ \E n : score = Calls!Answered(n)
      BY DEF Calls!ScoreOfText
    <3>2. score.error \notin {None, "OverflowError"}
      BY <2>3
    <3>3. [Calls!Fallback("OverflowError") EXCEPT !.raises = TRUE].error = "OverflowError"
      BY DEF Calls!Fallback
    <3>4. \A n : Calls!Answered(n).error = None
      BY DEF Calls!Answered
    <3> HIDE DEF score
    <3>5. score = Calls!Malformed
      BY <3>1, <3>2, <3>3, <3>4
    <3> QED
      BY <3>5 DEF score
  <2>5. m \in DOMAIN calls
    BY <1>2, <2>1
  <2> QED
    BY <2>1, <2>2, <2>4, <2>5, Zenon
<1> QED
  BY <1>6, <1>7

\* Settings of the model: a feature names a provider of its own or none.
Models == [enabled : BOOLEAN, provider : Calls!Providers, local : BOOLEAN,
           keys : SUBSET Calls!Providers, profile : BOOLEAN, resume : BOOLEAN,
           gaps : [enabled : BOOLEAN, provider : Calls!Providers \union {None}],
           coach : [enabled : BOOLEAN, provider : Calls!Providers \union {None}]]

\* A provider that needs no key, or has one.
Keyed(model, provider) == (provider = "ollama" /\ model.local) \/ provider \in model.keys

LEMMA BindsWithKey ==
    ASSUME None \notin Calls!Providers, NEW model \in Models,
           NEW feature \in {"relevance", "gaps", "coach"}
    PROVE  LET provider == Calls!Resolve(model, feature) IN
           /\ provider \in Calls!Providers
           /\ Calls!Binding(model, feature) = IF Keyed(model, provider) THEN provider ELSE None
<1> DEFINE provider == Calls!Resolve(model, feature)
<1>1. provider \in Calls!Providers
  <2>1. CASE feature = "relevance"
    BY <2>1 DEF Calls!Resolve, Models
  <2>2. CASE feature = "gaps"
    BY <2>2 DEF Calls!Resolve, Models
  <2>3. CASE feature = "coach"
    BY <2>3 DEF Calls!Resolve, Models
  <2> QED
    BY <2>1, <2>2, <2>3
<1> HIDE DEF provider
<1>2. Calls!MissingKey(model, feature) = IF Keyed(model, provider) THEN None ELSE provider
  BY DEF Calls!MissingKey, Calls!NeedsKey, Keyed, provider
<1>3. Calls!Binding(model, feature) = IF Keyed(model, provider) THEN provider ELSE None
  BY <1>1, <1>2 DEF Calls!Binding, provider
<1> QED
  BY <1>1, <1>3 DEF provider

\* The overview tells the truth about scoring (WarningsExplain), for any settings of the model
\* and whatever a test of the provider brings back.
THEOREM WarningsStayTrue ==
    ASSUME None \notin Calls!Providers, NEW model \in Models, NEW calls
    PROVE  Calls!WarningsExplain(model, calls)
<1> DEFINE probed == [model EXCEPT !.profile = TRUE]
           scorer == Calls!BuildScorer(model)
           Own(feature) == model[feature].provider
           built == [gaps |-> Calls!BuildAnalyzer(model), coach |-> Calls!BuildCoach(model)]
           wanted == {f \in {"gaps", "coach"} : model[f].enabled /\ (f = "gaps" => model.resume)}
<1> SUFFICES /\ Calls!Warnings(model) # {} <=> model.enabled /\ scorer = None
             /\ Calls!ProbeLlm(model, calls) => Calls!Warnings(model) \subseteq {"llm_no_profile"}
             /\ scorer # None => \A f \in wanted : Own(f) = None => built[f] = scorer
             /\ \A f \in wanted : Own(f) # None /\ Own(f) \in model.keys => built[f] = Own(f)
  BY Zenon DEF Calls!WarningsExplain
<1>1. model.provider \in Calls!Providers /\ model.provider # None
  BY DEF Models
<1>2. Calls!Resolve(model, "relevance") = model.provider
      /\ Calls!Resolve(probed, "relevance") = model.provider
  BY DEF Calls!Resolve, Models
<1>3. scorer = IF model.enabled /\ model.profile /\ Keyed(model, model.provider)
               THEN model.provider ELSE None
  BY <1>2, BindsWithKey DEF Calls!BuildScorer
<1>4. /\ "llm_no_key" \in Calls!Warnings(model) <=>
             model.enabled /\ ~Keyed(model, model.provider)
      /\ "llm_no_profile" \in Calls!Warnings(model) <=> model.enabled /\ ~model.profile
      /\ Calls!Warnings(model) \subseteq {"llm_no_key", "llm_no_profile"}
  BY DEF Calls!Warnings, Keyed
<1>5. Calls!Warnings(model) # {} <=> model.enabled /\ scorer = None
  BY <1>1, <1>3, <1>4
<1>6. Calls!ProbeLlm(model, calls) => Calls!Warnings(model) \subseteq {"llm_no_profile"}
  <2>1. probed \in Models /\ (Keyed(probed, model.provider) <=> Keyed(model, model.provider))
        /\ (probed.enabled <=> model.enabled)
    BY DEF Models, Keyed
  <2>2. Calls!BuildScorer(probed) # None => Keyed(model, model.provider)
    BY <1>2, <2>1, BindsWithKey DEF Calls!BuildScorer
  <2> HIDE DEF probed
  <2>3. Calls!ProbeLlm(model, calls) => Calls!BuildScorer(probed) # None
    BY DEF Calls!ProbeLlm, probed
  <2> QED
    BY <1>4, <2>2, <2>3
<1>7. ASSUME NEW f \in wanted
      PROVE  built[f] = Calls!Binding(model, f)
  BY <1>7 DEF Calls!BuildAnalyzer, Calls!BuildCoach
<1>8. ASSUME NEW f \in wanted
      PROVE  Calls!Resolve(model, f) = IF Own(f) = None THEN model.provider ELSE Own(f)
  BY <1>8 DEF Calls!Resolve
<1>9. ASSUME scorer # None, NEW f \in wanted, Own(f) = None
      PROVE  built[f] = scorer
  BY <1>3, <1>7, <1>8, <1>9, BindsWithKey
<1>10. ASSUME NEW f \in wanted, Own(f) # None, Own(f) \in model.keys
       PROVE  built[f] = Own(f)
  BY <1>7, <1>8, <1>10, BindsWithKey DEF Keyed
<1> HIDE DEF scorer, wanted, built, Own
<1> QED
  BY <1>5, <1>6, <1>9, <1>10, Zenon

-----------------------------------------------------------------------------
(* What is asked of the answers *)

LEMMA AskedObjects ==
    ASSUME NEW obj \in Objects
    PROVE  obj.kind \in {"none", "other", "object"} /\ (obj.kind = "none" => obj = Calls!NoObject)
<1>1. CASE obj \in Plain
  BY <1>1 DEF Plain, Calls!NoObject
<1>2. CASE obj \notin Plain
  <2>1. PICK v \in ScoreValues, s \in SkillLists, c \in Listed({"card", "junk", "blank"}, 2) :
           obj = Object(v, s, c)
    BY <1>2 DEF Objects
  <2> QED
    BY <2>1 DEF Object
<1> QED
  BY <1>1, <1>2

LEMMA MappedIsListed ==
    ASSUME NEW S, NEW n \in Nat, NEW b \in [1 .. n -> S]
    PROVE  b \in Seq(S)
OBVIOUS

LEMMA AskedCallsBring ==
    ASSUME NEW call \in CallsMade
    PROVE  Brings(call, {"go", "blank"})
<1>1. ASSUME NEW obj \in FewObjects PROVE Names(obj, {"go", "blank"})
  <2>1. CASE obj \in Plain
    BY <2>1 DEF Names, Plain, Calls!Has, Calls!NoObject
  <2>2. CASE obj \notin Plain
    <3>1. PICK s \in {None, Value("words", 0, <<>>), Value("list", 0, <<"go", "blank", "go">>)} :
             obj = Object(Value("number", 11, <<>>), s, None)
      BY <2>2 DEF FewObjects
    <3>2. Calls!Has(obj, "missing_skills") => s # None /\ obj.fields.missing_skills = s
      BY <3>1 DEF Calls!Has, Object
    <3>3. s # None /\ s.kind = "list" => s.items = <<"go", "blank", "go">>
      BY DEF Value
    <3>4. <<"go", "blank", "go">> \in Seq({"go", "blank"})
      OBVIOUS
    <3> QED
      BY <3>2, <3>3, <3>4 DEF Names
  <2> QED
    BY <2>1, <2>2
<1> DEFINE B == [tool : {"record_gaps", "record_relevance"}, input : FewObjects]
<1>2. Blocks \subseteq Seq(B)
  <2> SUFFICES ASSUME NEW b \in Blocks PROVE b \in Seq(B)
    OBVIOUS
  <2>1. PICK n \in 0 .. 2 : b \in [1 .. n -> B]
    BY DEF Blocks, UpTo, BoundedSeq, SeqOf
  <2> HIDE DEF B
  <2> QED
    BY <2>1, MappedIsListed
<1>3. CASE \E r \in {None, "Timeout"}, b \in Blocks : call = Call(r, b, None)
  <2>1. PICK b \in Blocks : call.blocks = b /\ call.text = None
    BY <1>3 DEF Call
  <2>2. b \in Seq(B)
    BY <1>2
  <2>3. \A i \in 1 .. Len(b) : b[i].input \in FewObjects
    <3> DEFINE T == B
    <3>1. b \in Seq(T)
      BY <2>2
    <3> HIDE DEF T
    <3>2. \A i \in 1 .. Len(b) : b[i] \in T
      BY <3>1
    <3> QED
      BY <3>2 DEF T
  <2> QED
    BY <1>1, <2>1, <2>2, <2>3 DEF Brings
<1>4. CASE \E r \in {None, "Timeout"}, t \in Texts : call = Call(r, <<>>, t)
  <2>1. PICK t \in Texts : call.blocks = <<>> /\ call.text = t
    BY <1>4 DEF Call
  <2>2. t # None => t.whole \in FewObjects /\ t.braced \in FewObjects
    BY DEF Texts
  <2>3. <<>> \in Seq(B) /\ Len(<<>>) = 0
    OBVIOUS
  <2> QED
    BY <1>1, <2>1, <2>2, <2>3 DEF Brings
<1> QED
  BY <1>3, <1>4 DEF CallsMade

LEMMA AskedModels == Wired \subseteq Models
BY DEF Wired, Models, Calls!Providers

\* What is asked of the answers is an object, a call, three tries, or settings of the model.
AskedCalls ==
    /\ asked.kind = "object" => asked.obj \in Objects /\ asked.most \in 1 .. 2
    /\ asked.kind = "gaps" => /\ asked.call \in CallsMade /\ asked.provider \in Calls!Providers
                              /\ asked.most \in 1 .. 2
    /\ asked.kind = "tries" => asked.calls \in [1 .. 3 -> Retried]
    /\ asked.kind = "wired" => asked.cfg \in Wired

LEMMA AskedCallsStart == ServicesInit => AskedCalls
<1> SUFFICES ASSUME ServicesInit, asked.kind \in {"object", "gaps", "tries", "wired"}
             PROVE  AskedCalls
  BY DEF AskedCalls
<1>1. AskFingerprint \/ AskPortfolio \/ AskPolled \/ AskFilters
       \/ AskResume \/ AskCalls \/ AskArchive \/ AskPages
  BY DEF ServicesInit, Init
<1>2. ~AskFingerprint /\ ~AskPortfolio /\ ~AskPolled
  BY DEF AskFingerprint, AskPortfolio, AskPolled
<1>3. ~AskResume /\ ~AskFilters /\ ~AskArchive
  BY DEF AskResume, AskFilters, AskArchive
<1>4. ~AskPages
  BY DEF AskPages
<1> QED
  BY <1>1, <1>2, <1>3, <1>4 DEF AskCalls, AskedCalls

\* The properties of the model's answers hold of every question that is asked of them.
THEOREM AnswersAreHeld == ServicesSpec => []AnswersHold
<1>1. ServicesInit => AskedCalls
  BY AskedCallsStart
<1>2. AskedCalls /\ [ServicesNext]_servicesVars => AskedCalls'
  <2> SUFFICES ASSUME AskedCalls, [ServicesNext]_servicesVars PROVE AskedCalls'
    OBVIOUS
  <2>1. asked' = asked
    BY DEF ServicesNext, Next, servicesVars, lookupVars
  <2> QED
    BY <2>1 DEF AskedCalls
<1>3. AskedCalls => AnswersHold
  <2> SUFFICES ASSUME AskedCalls PROVE AnswersHold
    OBVIOUS
  <2>1. asked.kind = "object" => Calls!ProvidersAgree(asked.obj, asked.most)
    BY AnswersAssumption, AskedObjects, ProvidersSayOneThing DEF AskedCalls
  <2>2. asked.kind = "gaps" => Calls!GapsAreClean(asked.provider, asked.call, asked.most)
    BY AnswersAssumption, AskedCallsBring, GapsStayClean DEF AskedCalls
  <2>3. asked.kind = "tries" => Calls!UnscoredIsEarned(asked.calls)
    BY MappedIsListed, UnscoredStaysEarned DEF AskedCalls
  <2>4. asked.kind = "wired" => Calls!WarningsExplain(asked.cfg, asked.calls)
    BY AnswersAssumption, AskedModels, WarningsStayTrue DEF AskedCalls
  <2> QED
    BY <2>1, <2>2, <2>3, <2>4 DEF AnswersHold, Asked
<1> QED
  BY <1>1, <1>2, <1>3, PTL DEF ServicesSpec

-----------------------------------------------------------------------------
(* The elements of a list at some places *)

\* g[i] has those of the first i elements that are at a place in I, for every i up to n.
Picks(g, s, I, n) ==
    g = [i \in 0 .. n |-> IF i = 0 THEN <<>>
                          ELSE IF i \in I THEN Append(g[i - 1], s[i]) ELSE g[i - 1]]

LEMMA PicksOneMore ==
    ASSUME NEW s, NEW I, NEW n \in Nat, n # 0, NEW g, Picks(g, s, I, n - 1)
    PROVE  \E h : Picks(h, s, I, n)
<1> DEFINE new == IF n \in I THEN Append(g[n - 1], s[n]) ELSE g[n - 1]
           h == [i \in 0 .. n |-> IF i = n THEN new ELSE g[i]]
<1>1. \A i \in 0 .. n - 1 : g[i] = IF i = 0 THEN <<>>
          ELSE IF i \in I THEN Append(g[i - 1], s[i]) ELSE g[i - 1]
  BY DEF Picks
<1>2. h[n] = new /\ \A i \in 0 .. n - 1 : h[i] = g[i]
  OBVIOUS
<1>3. DOMAIN h = 0 .. n /\ h = [i \in 0 .. n |-> h[i]]
  OBVIOUS
<1>4. h[n] = IF n \in I THEN Append(h[n - 1], s[n]) ELSE h[n - 1]
  BY <1>2
<1> HIDE DEF h
<1>5. ASSUME NEW i \in 0 .. n
      PROVE  h[i] = IF i = 0 THEN <<>>
                    ELSE IF i \in I THEN Append(h[i - 1], s[i]) ELSE h[i - 1]
  <2>1. CASE i = n
    BY <1>4, <2>1
  <2>2. CASE i # n /\ i # 0
    BY <1>1, <1>2, <2>2
  <2>3. CASE i # n /\ i = 0
    BY <1>1, <1>2, <2>3
  <2> QED
    BY <2>1, <2>2, <2>3
<1>6. Picks(h, s, I, n)
  BY <1>3, <1>5 DEF Picks
<1> QED
  BY <1>6

LEMMA PicksAll ==
    ASSUME NEW s, NEW I, NEW n \in Nat
    PROVE  \E g : Picks(g, s, I, n)
<1> DEFINE T == {m \in Nat : ~\E g : Picks(g, s, I, m)}
<1> SUFFICES ASSUME T # {} PROVE FALSE
  OBVIOUS
<1>1. PICK m \in T : \A y \in T : m <= y
  BY LeastNumber
<1>2. m # 0
  <2> DEFINE g == [i \in 0 .. 0 |-> <<>>]
  <2>1. Picks(g, s, I, 0)
    BY DEF Picks
  <2> QED
    BY <2>1
<1>3. m - 1 \in Nat /\ m - 1 \notin T
  BY <1>1, <1>2
<1>4. \E g : Picks(g, s, I, m - 1)
  BY <1>3
<1> QED
  BY <1>2, <1>4, PicksOneMore

\* p has the elements of s at the places in I up to n, in their order: its k-th is at place at[k].
InOrder(p, at, s, I, n) ==
    /\ at \in [1 .. Len(p) -> I \cap (1 .. n)]
    /\ \A k \in 1 .. Len(p) : p[k] = s[at[k]]
    /\ \A k, l \in 1 .. Len(p) : k < l => at[k] < at[l]
    /\ \A i \in I \cap (1 .. n) : \E k \in 1 .. Len(p) : at[k] = i

LEMMA OrderGrows ==
    ASSUME NEW W, NEW s \in Seq(W), NEW I, NEW n \in 1 .. Len(s), NEW p \in Seq(W), NEW at,
           InOrder(p, at, s, I, n - 1)
    PROVE  LET q == IF n \in I THEN Append(p, s[n]) ELSE p
           IN q \in Seq(W) /\ \E new : InOrder(q, new, s, I, n)
<1>1. CASE n \notin I
  <2>1. I \cap (1 .. n) = I \cap (1 .. n - 1)
    BY <1>1
  <2> QED
    BY <1>1, <2>1 DEF InOrder
<1>2. CASE n \in I
  <2> DEFINE q == Append(p, s[n])
             m == Len(p)
             new == [k \in 1 .. m + 1 |-> IF k = m + 1 THEN n ELSE at[k]]
  <2>1. s[n] \in W
    OBVIOUS
  <2>2. /\ q \in Seq(W) /\ Len(q) = m + 1 /\ m \in Nat
        /\ q[m + 1] = s[n] /\ \A k \in 1 .. m : q[k] = p[k]
    BY <2>1, AppendProperties
  <2>3. /\ at \in [1 .. m -> I \cap (1 .. n - 1)]
        /\ \A k \in 1 .. m : p[k] = s[at[k]]
        /\ \A k, l \in 1 .. m : k < l => at[k] < at[l]
        /\ \A i \in I \cap (1 .. n - 1) : \E k \in 1 .. m : at[k] = i
    BY DEF InOrder
  <2>4. I \cap (1 .. n) = (I \cap (1 .. n - 1)) \union {n}
    BY <1>2
  <2>5. new[m + 1] = n /\ \A k \in 1 .. m : new[k] = at[k]
    BY <2>2
  <2>6. new \in [1 .. Len(q) -> I \cap (1 .. n)]
    BY <2>2, <2>3, <2>4
  <2> HIDE DEF q, m, new
  <2>7. \A k \in 1 .. m + 1 : k = m + 1 \/ k \in 1 .. m
    BY <2>2
  <2>8. \A k \in 1 .. m + 1 : q[k] = s[new[k]]
    BY <2>2, <2>3, <2>5, <2>7
  <2>9. \A k, l \in 1 .. m + 1 : k < l => new[k] < new[l]
    <3> SUFFICES ASSUME NEW k \in 1 .. m + 1, NEW l \in 1 .. m + 1, k < l PROVE new[k] < new[l]
      OBVIOUS
    <3>1. k \in 1 .. m /\ new[k] = at[k] /\ at[k] \in 1 .. n - 1
      BY <2>2, <2>3, <2>5
    <3>2. CASE l = m + 1
      BY <2>5, <3>1, <3>2
    <3>3. CASE l \in 1 .. m
      BY <2>3, <2>5, <3>1, <3>3
    <3> QED
      BY <2>7, <3>2, <3>3
  <2>10. \A i \in I \cap (1 .. n) : \E k \in 1 .. m + 1 : new[k] = i
    <3> SUFFICES ASSUME NEW i \in I \cap (1 .. n) PROVE \E k \in 1 .. m + 1 : new[k] = i
      OBVIOUS
    <3>1. CASE i = n
      BY <2>2, <2>5, <3>1
    <3>2. CASE i \in I \cap (1 .. n - 1)
      <4>1. PICK k \in 1 .. m : at[k] = i
        BY <2>3, <3>2
      <4>2. k \in 1 .. m + 1 /\ new[k] = i
        BY <2>2, <2>5, <4>1
      <4> QED
        BY <4>2
    <3> QED
      BY <2>4, <3>1, <3>2
  <2>11. InOrder(q, new, s, I, n)
    BY <2>2, <2>6, <2>8, <2>9, <2>10 DEF InOrder
  <2>12. q \in Seq(W) /\ \E c : InOrder(q, c, s, I, n)
    BY <2>2, <2>11
  <2> QED
    BY <1>2, <2>12 DEF q
<1> QED
  BY <1>1, <1>2

\* What is picked: the elements at those places, each once and in their order.
LEMMA PickedInOrder ==
    ASSUME NEW W, NEW s \in Seq(W), NEW I
    PROVE  Picked(s, I) \in Seq(W) /\ \E at : InOrder(Picked(s, I), at, s, I, Len(s))
<1> DEFINE h == CHOOSE h : h = [i \in 0 .. Len(s) |-> IF i = 0 THEN <<>>
                   ELSE IF i \in I THEN Append(h[i - 1], s[i]) ELSE h[i - 1]]
           Fits(m) == h[m] \in Seq(W) /\ \E at : InOrder(h[m], at, s, I, m)
           T == {m \in 0 .. Len(s) : ~Fits(m)}
<1>1. Picked(s, I) = h[Len(s)] /\ Len(s) \in Nat
  BY DEF Picked
<1>2. \E g : g = [i \in 0 .. Len(s) |-> IF i = 0 THEN <<>>
                ELSE IF i \in I THEN Append(g[i - 1], s[i]) ELSE g[i - 1]]
  <2>1. Len(s) \in Nat
    OBVIOUS
  <2>2. \E g : Picks(g, s, I, Len(s))
    BY <2>1, PicksAll, ZenonT(40)
  <2> QED
    BY <2>2 DEF Picks
<1>3. Picks(h, s, I, Len(s))
  BY <1>2, ZenonT(40) DEF Picks
<1>4. \A i \in 0 .. Len(s) : h[i] = IF i = 0 THEN <<>>
          ELSE IF i \in I THEN Append(h[i - 1], s[i]) ELSE h[i - 1]
  BY <1>3, ZenonT(40) DEF Picks
<1> HIDE DEF h
<1>5. T = {}
  <2> SUFFICES ASSUME T # {} PROVE FALSE
    OBVIOUS
  <2>0. T \subseteq Nat
    OBVIOUS
  <2>1. PICK m \in T : \A y \in T : m <= y
    <3> HIDE DEF T
    <3> QED
      BY <2>0, LeastNumber
  <2>2. Fits(0)
    <3>1. h[0] = <<>>
      BY <1>1, <1>4
    <3> DEFINE at == [k \in 1 .. 0 |-> 0]
    <3>2. <<>> \in Seq(W) /\ Len(<<>>) = 0 /\ 1 .. 0 = {}
      OBVIOUS
    <3>3. InOrder(<<>>, at, s, I, 0)
      BY <3>2 DEF InOrder
    <3> QED
      BY <3>1, <3>2, <3>3
  <2>3. m \in 1 .. Len(s) /\ m - 1 \in 0 .. Len(s)
    BY <1>1, <2>1, <2>2
  <2>4. m - 1 \notin T
    <3> HIDE DEF T
    <3>1. m - 1 \in T => m <= m - 1
      BY <2>1
    <3> QED
      BY <2>3, <3>1
  <2>5. Fits(m - 1)
    BY <2>3, <2>4
  <2>6. h[m] = IF m \in I THEN Append(h[m - 1], s[m]) ELSE h[m - 1]
    BY <1>4, <2>3
  <2>7. PICK at : InOrder(h[m - 1], at, s, I, m - 1)
    BY <2>5
  <2>8. Fits(m)
    BY <2>3, <2>5, <2>6, <2>7, OrderGrows
  <2> QED
    BY <2>1, <2>8
<1>6. Len(s) \in 0 .. Len(s)
  BY <1>1
<1>7. Fits(Len(s))
  BY <1>5, <1>6
<1> QED
  BY <1>1, <1>7

\* What is picked, as a set.
LEMMA PickedHas ==
    ASSUME NEW W, NEW s \in Seq(W), NEW I
    PROVE  /\ Picked(s, I) \in Seq(W)
           /\ ToSet(Picked(s, I)) = {s[i] : i \in I \cap (1 .. Len(s))}
<1>1. PICK at : InOrder(Picked(s, I), at, s, I, Len(s))
  BY PickedInOrder
<1> DEFINE p == Picked(s, I)
<1>2. p \in Seq(W)
  BY PickedInOrder
<1>3. ToSet(p) = {p[k] : k \in 1 .. Len(p)}
  BY <1>2 DEF ToSet
<1>4. \A k \in 1 .. Len(p) : p[k] = s[at[k]] /\ at[k] \in I \cap (1 .. Len(s))
  BY <1>1 DEF InOrder
<1>5. \A i \in I \cap (1 .. Len(s)) : \E k \in 1 .. Len(p) : at[k] = i
  BY <1>1 DEF InOrder
<1> HIDE DEF p
<1>6. {p[k] : k \in 1 .. Len(p)} = {s[i] : i \in I \cap (1 .. Len(s))}
  <2>1. ASSUME NEW k \in 1 .. Len(p) PROVE p[k] \in {s[i] : i \in I \cap (1 .. Len(s))}
    BY <1>4
  <2>2. ASSUME NEW i \in I \cap (1 .. Len(s)) PROVE s[i] \in {p[k] : k \in 1 .. Len(p)}
    <3>1. PICK k \in 1 .. Len(p) : at[k] = i
      BY <1>5
    <3> QED
      BY <1>4, <3>1
  <2> QED
    BY <2>1, <2>2
<1> QED
  BY <1>2, <1>3, <1>6 DEF p

\* A set has as many elements as it has numbers, if each has one.
LEMMA NumberedCount ==
    ASSUME NEW n \in Nat, NEW S, NEW f \in [1 .. n -> S],
           \A k, l \in 1 .. n : f[k] = f[l] => k = l, \A v \in S : \E k \in 1 .. n : f[k] = v
    PROVE  IsFiniteSet(S) /\ Cardinality(S) = n
<1>1. DOMAIN f = 1 .. n
  OBVIOUS
<1>2. f \in Bijection(1 .. n, S)
  BY <1>1 DEF Bijection, Injection, Surjection, IsInjective
<1>3. ExistsBijection(1 .. n, S)
  BY <1>2 DEF ExistsBijection
<1>4. IsFiniteSet(1 .. n) /\ Cardinality(1 .. n) = n
  BY FS_Interval
<1>5. IsFiniteSet(S) /\ Cardinality(S) = Cardinality(1 .. n)
  BY <1>3, <1>4, FS_Bijection
<1> QED
  BY <1>4, <1>5

\* As many are picked as there are places.
LEMMA PickedCount ==
    ASSUME NEW W, NEW s \in Seq(W), NEW I, I \subseteq 1 .. Len(s)
    PROVE  /\ IsFiniteSet(I) /\ Cardinality(I) \in Nat
           /\ Len(Picked(s, I)) = Cardinality(I)
<1> DEFINE p == Picked(s, I)
<1>1. PICK at : InOrder(p, at, s, I, Len(s))
  BY PickedInOrder
<1>2. p \in Seq(W)
  BY PickedInOrder
<1> HIDE DEF p
<1>3. Len(p) \in Nat /\ I \cap (1 .. Len(s)) = I
  <2>1. Len(p) \in Nat
    BY <1>2
  <2>2. I \cap (1 .. Len(s)) = I
    BY Zenon
  <2> QED
    BY <2>1, <2>2
<1>4. /\ at \in [1 .. Len(p) -> I]
      /\ \A k, l \in 1 .. Len(p) : k < l => at[k] < at[l]
      /\ \A i \in I : \E k \in 1 .. Len(p) : at[k] = i
  BY <1>1, <1>3 DEF InOrder
<1>5. \A k, l \in 1 .. Len(p) : at[k] = at[l] => k = l
  <2> SUFFICES ASSUME NEW k \in 1 .. Len(p), NEW l \in 1 .. Len(p), at[k] = at[l], k # l
               PROVE  FALSE
    OBVIOUS
  <2>1. at[k] \in I /\ at[l] \in I
    BY <1>4
  <2>2. at[k] \in 1 .. Len(s) /\ at[l] \in 1 .. Len(s)
    BY <2>1, Zenon
  <2> QED
    BY <1>3, <1>4, <2>2
<1>6. IsFiniteSet(I) /\ Cardinality(I) = Len(p)
  BY <1>3, <1>4, <1>5, NumberedCount
<1> QED
  BY <1>3, <1>6 DEF p

-----------------------------------------------------------------------------
(* What is polled *)

Families == AtsFamilies \union SlowSlugs \union {"avature"}

\* The boards of the settings, and the rows of a table that has those of the families in F, of
\* any words W.
BoardsOf(W) == [family : Families, tenant : W, region : W, site : W]
Listings(F, W) ==
    [family : F, tenant : W, region : W, site : W, healthy : BOOLEAN, pack : BOOLEAN]

LEMMA FamiliesApart ==
    /\ AtsSlugs \union FromIdentity \subseteq AtsFamilies
    /\ SlugFamilies = AtsSlugs \union SlowSlugs
    /\ AtsFamilies \cap SlowSlugs = {} /\ "avature" \notin AtsFamilies \union SlowSlugs
    /\ TierFamilies("ats") = AtsFamilies /\ TierFamilies("slow") = SlowSlugs
    /\ TierFamilies("headless") = {"avature"}
<1>1. /\ AtsSlugs \subseteq AtsFamilies /\ SlugFamilies = AtsSlugs \union SlowSlugs
      /\ "workable" \notin AtsSlugs /\ "avature" \notin AtsSlugs
  BY DEF AtsSlugs, AtsFamilies, SlugFamilies, PathFamilies, SubdomainFamilies, SlowSlugs
<1>2. FromIdentity \subseteq AtsFamilies
  BY DEF FromIdentity, AtsFamilies
<1>3. AtsFamilies \cap SlowSlugs = {} /\ "avature" \notin AtsFamilies \union SlowSlugs
  BY <1>1 DEF AtsFamilies, SlowSlugs
<1> QED
  BY <1>1, <1>2, <1>3 DEF TierFamilies

\* The name of a board begins with its family.
LEMMA KeyTellsTheFamily ==
    ASSUME NEW b, NEW c, BoardKey(b) = BoardKey(c)
    PROVE  b.family = c.family
<1>1. BoardKey(b)[1] = b.family
  BY DEF BoardKey, ConnectorName
<1>2. BoardKey(c)[1] = c.family
  BY DEF BoardKey, ConnectorName
<1> QED
  BY <1>1, <1>2

LEMMA RowsAreBoards ==
    ASSUME NEW W
    PROVE  /\ \A b \in BoardsOf(W) : BoardOf(b) = b
           /\ \A F \in SUBSET Families : \A r \in Listings(F, W) :
                 BoardOf(r) \in BoardsOf(W) /\ BoardOf(r).family = r.family /\ r.family \in F
           /\ \A r : BoardKey(r) = BoardKey(BoardOf(r))
BY DEF BoardsOf, Listings, BoardOf, RegionalBoard, BoardKey, ConnectorName

\* The boards a table has of the families in F.
BoardsIn(rows, F) == {BoardOf(r) : r \in {q \in ToSet(rows) : q.family \in F}}

LEMMA OfHas ==
    ASSUME NEW R, NEW B, \A r \in R : BoardOf(r) \in B, NEW rows \in Seq(R), NEW F
    PROVE  /\ Of(rows, F) \in Seq(B)
           /\ ToSet(Of(rows, F)) = BoardsIn(rows, F)
<1> DEFINE own == Picked(rows, {i \in DOMAIN rows : rows[i].family \in F})
           out == [i \in DOMAIN own |-> BoardOf(own[i])]
<1>1. /\ own \in Seq(R)
      /\ ToSet(own) = {rows[i] : i \in {j \in DOMAIN rows : rows[j].family \in F}
                                          \cap (1 .. Len(rows))}
  BY PickedHas
<1>2. ToSet(own) = {q \in ToSet(rows) : q.family \in F}
  <2>1. DOMAIN rows = 1 .. Len(rows)
    OBVIOUS
  <2>2. ToSet(own) = {rows[i] : i \in {j \in DOMAIN rows : rows[j].family \in F}}
    BY <1>1, <2>1
  <2>3. ToSet(rows) = {rows[i] : i \in DOMAIN rows}
    BY DEF ToSet
  <2> HIDE DEF own
  <2> QED
    BY <2>2, <2>3
<1>3. Of(rows, F) = out
  BY DEF Of
<1> HIDE DEF own
<1>4. DOMAIN own = 1 .. Len(own) /\ Len(own) \in Nat /\ \A k \in DOMAIN own : own[k] \in R
  BY <1>1
<1>5. out \in Seq(B) /\ ToSet(out) = {BoardOf(own[k]) : k \in DOMAIN own}
  BY <1>4 DEF ToSet
<1>6. {BoardOf(own[k]) : k \in DOMAIN own} = {BoardOf(r) : r \in ToSet(own)}
  BY DEF ToSet
<1> QED
  BY <1>2, <1>3, <1>5, <1>6, ZenonT(40) DEF BoardsIn

LEMMA ConcatHas ==
    ASSUME NEW S, NEW a \in Seq(S), NEW b \in Seq(S)
    PROVE  a \o b \in Seq(S) /\ ToSet(a \o b) = ToSet(a) \union ToSet(b)
<1>1. /\ a \o b \in Seq(S) /\ Len(a \o b) = Len(a) + Len(b)
      /\ \A i \in 1 .. Len(a) + Len(b) :
            (a \o b)[i] = IF i <= Len(a) THEN a[i] ELSE b[i - Len(a)]
  BY ConcatProperties
<1> DEFINE c == a \o b
<1>2. Len(a) \in Nat /\ Len(b) \in Nat
  OBVIOUS
<1>3. /\ ToSet(a) = {a[i] : i \in 1 .. Len(a)} /\ ToSet(b) = {b[i] : i \in 1 .. Len(b)}
      /\ ToSet(c) = {c[i] : i \in 1 .. Len(a) + Len(b)}
  BY <1>1 DEF ToSet
<1>4. \A i \in 1 .. Len(a) + Len(b) : c[i] = IF i <= Len(a) THEN a[i] ELSE b[i - Len(a)]
  BY <1>1
<1> HIDE DEF c
<1>5. ASSUME NEW i \in 1 .. Len(a) + Len(b) PROVE c[i] \in ToSet(a) \union ToSet(b)
  <2>1. CASE i <= Len(a)
    BY <1>2, <1>3, <1>4, <2>1
  <2>2. CASE ~(i <= Len(a))
    <3>1. i - Len(a) \in 1 .. Len(b)
      BY <1>2, <2>2
    <3> QED
      BY <1>2, <1>3, <1>4, <2>2, <3>1
  <2> QED
    BY <2>1, <2>2
<1>6. ASSUME NEW i \in 1 .. Len(a) PROVE a[i] \in ToSet(c)
  <2>1. i \in 1 .. Len(a) + Len(b) /\ c[i] = a[i]
    BY <1>2, <1>4
  <2> QED
    BY <1>3, <2>1
<1>7. ASSUME NEW i \in 1 .. Len(b) PROVE b[i] \in ToSet(c)
  <2>1. i + Len(a) \in 1 .. Len(a) + Len(b) /\ c[i + Len(a)] = b[i]
    BY <1>2, <1>4
  <2> QED
    BY <1>3, <2>1
<1>8. ToSet(c) = ToSet(a) \union ToSet(b)
  BY <1>3, <1>5, <1>6, <1>7
<1> QED
  BY <1>1, <1>8 DEF c

\* What a tier is to poll, as a list, and as a set.
AllOf(t, sources, slugs, boards) ==
    Of(sources, TierFamilies(t)) \o Discovered(t, slugs, boards)
TierBoards(t, sources, slugs, boards) ==
    {b \in ToSet(sources) : b.family \in TierFamilies(t)}
      \union {BoardOf(r) : r \in {q \in ToSet(slugs) :
                                     q.family \in SlugFamilies /\ q.family \in TierFamilies(t)}}
      \union {BoardOf(r) : r \in {q \in ToSet(boards) :
                                     q.family \in FromIdentity /\ q.family \in TierFamilies(t)}}

LEMMA AllHas ==
    ASSUME NEW W, NEW sources \in Seq(BoardsOf(W)), NEW slugs \in Seq(Listings(Families, W)),
           NEW boards \in Seq(Listings(Families, W)), NEW t \in Tiers
    PROVE  /\ AllOf(t, sources, slugs, boards) \in Seq(BoardsOf(W))
           /\ ToSet(AllOf(t, sources, slugs, boards)) = TierBoards(t, sources, slugs, boards)
<1> DEFINE B == BoardsOf(W)
           R == Listings(Families, W)
           own == Of(sources, TierFamilies(t))
           found == Discovered(t, slugs, boards)
           Slugs == {BoardOf(r) : r \in {q \in ToSet(slugs) :
                        q.family \in SlugFamilies /\ q.family \in TierFamilies(t)}}
           Others == {BoardOf(r) : r \in {q \in ToSet(boards) :
                        q.family \in FromIdentity /\ q.family \in TierFamilies(t)}}
<1>1. \A r \in R : BoardOf(r) \in B
  BY RowsAreBoards
<1>2. \A b \in B : BoardOf(b) = b
  BY RowsAreBoards
<1>3. own \in Seq(B) /\ ToSet(own) = BoardsIn(sources, TierFamilies(t))
  <2>1. \A b \in B : BoardOf(b) \in B
    BY <1>2
  <2> HIDE DEF B
  <2>2. sources \in Seq(B)
    BY DEF B
  <2> QED
    BY <2>1, <2>2, OfHas
<1>4. BoardsIn(sources, TierFamilies(t)) = {b \in ToSet(sources) : b.family \in TierFamilies(t)}
  <2>1. ToSet(sources) \subseteq B
    BY DEF ToSet
  <2> HIDE DEF B
  <2> QED
    BY <1>2, <2>1 DEF BoardsIn
<1> HIDE DEF B, R
<1>5. slugs \in Seq(R) /\ boards \in Seq(R)
  BY DEF R
<1>6. \A F : /\ Of(slugs, F) \in Seq(B) /\ ToSet(Of(slugs, F)) = BoardsIn(slugs, F)
             /\ Of(boards, F) \in Seq(B) /\ ToSet(Of(boards, F)) = BoardsIn(boards, F)
  <2> SUFFICES ASSUME NEW F
               PROVE  /\ Of(slugs, F) \in Seq(B) /\ ToSet(Of(slugs, F)) = BoardsIn(slugs, F)
                      /\ Of(boards, F) \in Seq(B) /\ ToSet(Of(boards, F)) = BoardsIn(boards, F)
    OBVIOUS
  <2>1. ASSUME NEW table \in Seq(R)
        PROVE  Of(table, F) \in Seq(B) /\ ToSet(Of(table, F)) = BoardsIn(table, F)
    BY <1>1, OfHas
  <2> QED
    BY <1>5, <2>1
<1>7. found \in Seq(B) /\ ToSet(found) = Slugs \union Others
  <2>1. CASE t = "ats"
    <3>1. found = Of(slugs, AtsSlugs) \o Of(boards, FromIdentity)
      BY <2>1 DEF Discovered
    <3>2. found \in Seq(B) /\ ToSet(found) = BoardsIn(slugs, AtsSlugs) \union BoardsIn(boards,
          FromIdentity)
      <4> DEFINE a == Of(slugs, AtsSlugs)
                 b == Of(boards, FromIdentity)
      <4>1. /\ a \in Seq(B) /\ ToSet(a) = BoardsIn(slugs, AtsSlugs)
            /\ b \in Seq(B) /\ ToSet(b) = BoardsIn(boards, FromIdentity)
        BY <1>6
      <4> HIDE DEF a, b
      <4>2. a \o b \in Seq(B) /\ ToSet(a \o b) = ToSet(a) \union ToSet(b)
        BY <4>1, ConcatHas
      <4> HIDE DEF found
      <4> QED
        BY <3>1, <4>1, <4>2 DEF a, b
    <3>3. \A f : /\ f \in AtsSlugs <=> f \in SlugFamilies /\ f \in TierFamilies(t)
                 /\ f \in FromIdentity <=> f \in FromIdentity /\ f \in TierFamilies(t)
      BY <2>1, FamiliesApart
    <3>4. BoardsIn(slugs, AtsSlugs) = Slugs /\ BoardsIn(boards, FromIdentity) = Others
      BY <3>3, Zenon DEF BoardsIn
    <3> QED
      BY <3>2, <3>4
  <2>2. CASE t = "slow"
    <3>1. found = Of(slugs, SlowSlugs)
      BY <2>2 DEF Discovered
    <3>2. \A f : /\ f \in SlowSlugs <=> f \in SlugFamilies /\ f \in TierFamilies(t)
                 /\ ~(f \in FromIdentity /\ f \in TierFamilies(t))
      BY <2>2, FamiliesApart
    <3>3. BoardsIn(slugs, SlowSlugs) = Slugs /\ Others = {}
      BY <3>2 DEF BoardsIn
    <3> QED
      BY <1>6, <3>1, <3>3
  <2>3. CASE t = "headless"
    <3>1. found = <<>>
      BY <2>3 DEF Discovered
    <3>2. \A f : /\ ~(f \in SlugFamilies /\ f \in TierFamilies(t))
                 /\ ~(f \in FromIdentity /\ f \in TierFamilies(t))
      BY <2>3, FamiliesApart
    <3>3. Slugs = {} /\ Others = {}
      BY <3>2
    <3>4. <<>> \in Seq(B) /\ ToSet(<<>>) = {}
      BY DEF ToSet
    <3> QED
      BY <3>1, <3>3, <3>4
  <2> QED
    BY <2>1, <2>2, <2>3 DEF Tiers
<1>8. own \o found \in Seq(B) /\ ToSet(own \o found) = ToSet(own) \union ToSet(found)
  <2> HIDE DEF own, found
  <2> QED
    BY <1>3, <1>7, ConcatHas
<1>9. AllOf(t, sources, slugs, boards) = own \o found
  BY DEF AllOf
<1>10. TierBoards(t, sources, slugs, boards)
         = {b \in ToSet(sources) : b.family \in TierFamilies(t)} \union Slugs \union Others
  BY DEF TierBoards
<1> HIDE DEF own, found, Slugs, Others
<1> QED
  BY <1>3, <1>4, <1>7, <1>8, <1>9, <1>10 DEF B

LEMMA SlugsAreListed ==
    ASSUME NEW W, NEW F, F \subseteq Families, NEW rows \in Seq(Listings(F, W))
    PROVE  rows \in Seq(Listings(Families, W))
<1>1. Listings(F, W) \subseteq Listings(Families, W)
  BY DEF Listings
<1> DEFINE R == Listings(F, W)
           S == Listings(Families, W)
<1>2. rows \in Seq(R) /\ R \subseteq S
  BY <1>1
<1> HIDE DEF R, S
<1>3. rows \in Seq(S)
  BY <1>2, SeqMonotonic
<1> QED
  BY <1>3 DEF S

LEMMA DiscoveredAreBoards ==
    ASSUME NEW W, NEW slugs \in Seq(Listings(Families, W)),
           NEW boards \in Seq(Listings(Families, W)), NEW t \in Tiers
    PROVE  Discovered(t, slugs, boards) \in Seq(BoardsOf(W))
<1> DEFINE B == BoardsOf(W)
           R == Listings(Families, W)
<1>1. \A r \in R : BoardOf(r) \in B
  BY RowsAreBoards
<1> HIDE DEF B, R
<1>2. slugs \in Seq(R) /\ boards \in Seq(R)
  BY DEF R
<1>3. \A F : Of(slugs, F) \in Seq(B) /\ Of(boards, F) \in Seq(B)
  BY <1>1, <1>2, OfHas
<1>4. <<>> \in Seq(B)
  OBVIOUS
<1>5. \A a, b \in Seq(B) : a \o b \in Seq(B)
  BY ConcatHas
<1> QED
  BY <1>3, <1>4, <1>5 DEF Discovered, Tiers, B

\* A list in which each name stands once: every name that is not suppressed, at its first entry.
Heard(all, suppressed) == {i \in FirstOfTheName(all) : BoardKey(all[i]) \notin suppressed}

LEMMA OnceByName ==
    ASSUME NEW B, NEW all \in Seq(B), NEW suppressed
    PROVE  LET built == Picked(all, Heard(all, suppressed))
           IN /\ built \in Seq(B)
              /\ \A b \in ToSet(built) : \E i \in FirstOfTheName(all) : b = all[i]
              /\ Keys(built) = Keys(all) \ suppressed
              /\ Cardinality(Keys(built)) = Len(built)
<1> DEFINE I == Heard(all, suppressed)
           built == Picked(all, I)
<1>0. /\ DOMAIN all = 1 .. Len(all) /\ Len(all) \in Nat
      /\ FirstOfTheName(all) = {i \in 1 .. Len(all) :
                                  \A j \in 1 .. i - 1 : BoardKey(all[j]) # BoardKey(all[i])}
      /\ I = {i \in FirstOfTheName(all) : BoardKey(all[i]) \notin suppressed}
  BY DEF FirstOfTheName, Heard
<1> HIDE DEF I
<1>1. I \cap (1 .. Len(all)) = I
  BY <1>0
<1>2. built \in Seq(B) /\ ToSet(built) = {all[i] : i \in I}
  BY <1>1, PickedHas
<1>3. PICK at : InOrder(built, at, all, I, Len(all))
  BY PickedInOrder
<1> HIDE DEF built
<1>4. DOMAIN built = 1 .. Len(built) /\ Len(built) \in Nat
  BY <1>2
<1>5. \A b \in ToSet(built) : \E i \in FirstOfTheName(all) : b = all[i]
  BY <1>0, <1>2
<1>6. Keys(built) = Keys(all) \ suppressed
  <2>1. Keys(built) = {BoardKey(all[i]) : i \in I}
    BY <1>2 DEF Keys
  <2>2. Keys(all) = {BoardKey(all[i]) : i \in 1 .. Len(all)}
    BY <1>0 DEF Keys, ToSet
  <2>3. ASSUME NEW i \in I
        PROVE  BoardKey(all[i]) \in {BoardKey(all[j]) : j \in 1 .. Len(all)} \ suppressed
    BY <1>0
  <2>4. ASSUME NEW n \in 1 .. Len(all), BoardKey(all[n]) \notin suppressed
        PROVE  BoardKey(all[n]) \in {BoardKey(all[i]) : i \in I}
    <3> DEFINE T == {m \in 1 .. Len(all) : BoardKey(all[m]) = BoardKey(all[n])}
    <3>1. n \in T /\ T \subseteq Nat
      OBVIOUS
    <3>2. PICK m \in T : \A y \in T : m <= y
      <4> HIDE DEF T
      <4> QED
        BY <3>1, LeastNumber
    <3>3. ASSUME NEW j \in 1 .. m - 1 PROVE BoardKey(all[j]) # BoardKey(all[m])
      <4>1. j \in 1 .. Len(all) /\ ~(m <= j)
        BY <1>0
      <4>2. j \notin T
        BY <3>2, <4>1
      <4> QED
        BY <3>2, <4>1, <4>2
    <3>4. m \in I /\ BoardKey(all[m]) = BoardKey(all[n])
      BY <1>0, <2>4, <3>2, <3>3
    <3> QED
      BY <3>4
  <2> QED
    BY <2>1, <2>2, <2>3, <2>4
<1>7. Cardinality(Keys(built)) = Len(built)
  <2> DEFINE f == [k \in 1 .. Len(built) |-> BoardKey(built[k])]
  <2>1. /\ \A k \in 1 .. Len(built) : built[k] = all[at[k]] /\ at[k] \in I
        /\ \A k, l \in 1 .. Len(built) : k < l => at[k] < at[l]
    BY <1>1, <1>3 DEF InOrder
  <2>2. ASSUME NEW k \in 1 .. Len(built), NEW l \in 1 .. Len(built), k < l
        PROVE  BoardKey(built[k]) # BoardKey(built[l])
    <3>1. at[k] \in 1 .. Len(all) /\ at[l] \in FirstOfTheName(all) /\ at[k] < at[l]
      BY <1>0, <2>1, <2>2
    <3>2. at[l] \in 1 .. Len(all)
      BY <1>0, <3>1
    <3>3. at[k] \in 1 .. at[l] - 1
      BY <3>1, <3>2
    <3> QED
      BY <1>0, <2>1, <3>1, <3>3
  <2>3. \A k, l \in 1 .. Len(built) : f[k] = f[l] => k = l
    <3> SUFFICES ASSUME NEW k \in 1 .. Len(built), NEW l \in 1 .. Len(built), f[k] = f[l], k # l
                 PROVE  FALSE
      OBVIOUS
    <3>1. BoardKey(built[k]) = BoardKey(built[l])
      OBVIOUS
    <3>2. k < l \/ l < k
      BY <1>4
    <3> QED
      BY <2>2, <3>1, <3>2
  <2>4. /\ f \in [1 .. Len(built) -> Keys(built)]
        /\ \A v \in Keys(built) : \E k \in 1 .. Len(built) : f[k] = v
    BY <1>4 DEF Keys, ToSet
  <2> HIDE DEF f
  <2> QED
    BY <1>4, <2>3, <2>4, NumberedCount
<1> QED
  BY <1>2, <1>5, <1>6, <1>7 DEF built, I

LEMMA BuiltHas ==
    ASSUME NEW W, NEW sources \in Seq(BoardsOf(W)), NEW slugs \in Seq(Listings(Families, W)),
           NEW boards \in Seq(Listings(Families, W)), NEW suppressed, NEW t \in Tiers
    PROVE  LET all == AllOf(t, sources, slugs, boards)
               built == BuildConnectors(t, sources, slugs, boards, suppressed)
           IN /\ built \in Seq(BoardsOf(W))
              /\ \A b \in ToSet(built) : \E i \in FirstOfTheName(all) : b = all[i]
              /\ Keys(built) = Keys(all) \ suppressed
              /\ Cardinality(Keys(built)) = Len(built)
<1> DEFINE all == AllOf(t, sources, slugs, boards)
<1>1. all \in Seq(BoardsOf(W))
  BY AllHas
<1>2. BuildConnectors(t, sources, slugs, boards, suppressed)
        = Picked(all, Heard(all, suppressed))
  BY DEF BuildConnectors, AllOf, Heard
<1> HIDE DEF all
<1> QED
  BY <1>1, <1>2, OnceByName DEF all

\* Every family is of one tier, and what a tier is to poll is of its families.
LEMMA TiersByFamily ==
    /\ \A f \in Families : \E t \in Tiers : f \in TierFamilies(t)
    /\ \A t, u \in Tiers : \A f : f \in TierFamilies(t) /\ f \in TierFamilies(u) => t = u
    /\ SlugFamilies \union FromIdentity \subseteq Families
BY FamiliesApart DEF Families, Tiers

LEMMA TierIsOfItsFamilies ==
    ASSUME NEW t, NEW sources, NEW slugs, NEW boards,
           NEW b \in TierBoards(t, sources, slugs, boards)
    PROVE  b.family \in TierFamilies(t)
BY DEF TierBoards, BoardOf, RegionalBoard

\* Of boards and tables of any size, every board that can be polled is polled by one connector.
THEOREM EachIsPolledOnce ==
    ASSUME NEW W, NEW sources \in Seq(BoardsOf(W)), NEW slugs \in Seq(Listings(Families, W)),
           NEW boards \in Seq(Listings(Families, W)), NEW suppressed
    PROVE  PolledOnce(sources, slugs, boards, suppressed)
<1> DEFINE Built(t) == BuildConnectors(t, sources, slugs, boards, suppressed)
           Polled(t) == Keys(Built(t))
           TB(t) == TierBoards(t, sources, slugs, boards)
           rows == {s \in ToSet(slugs) : s.family \in SlugFamilies}
                      \union {b \in ToSet(boards) : b.family \in FromIdentity}
           found == {BoardOf(r) : r \in rows}
<1>1. ASSUME NEW t \in Tiers
      PROVE  /\ Cardinality(Polled(t)) = Len(Built(t))
             /\ \A k : k \in Polled(t) <=> k \notin suppressed /\ \E b \in TB(t) : k = BoardKey(b)
  <2>1. Keys(AllOf(t, sources, slugs, boards)) = {BoardKey(b) : b \in TB(t)}
    BY AllHas DEF Keys
  <2>2. /\ Polled(t) = Keys(AllOf(t, sources, slugs, boards)) \ suppressed
        /\ Cardinality(Polled(t)) = Len(Built(t))
    BY BuiltHas
  <2> HIDE DEF Polled, Built, TB
  <2> QED
    BY <2>1, <2>2
<1>2. \A t \in Tiers : \A b \in TB(t) : b.family \in TierFamilies(t)
  BY TierIsOfItsFamilies
<1>3. \A t \in Tiers : \A b :
         b \in TB(t) <=> \/ b \in ToSet(sources) /\ b.family \in TierFamilies(t)
                         \/ \E r \in rows : b = BoardOf(r) /\ r.family \in TierFamilies(t)
  BY DEF TierBoards
<1>4. /\ \A b \in ToSet(sources) : b.family \in Families
      /\ \A r \in rows : r.family \in Families
  <2>1. \A b \in ToSet(sources) : b \in BoardsOf(W)
    BY DEF ToSet
  <2> QED
    BY <2>1, TiersByFamily DEF BoardsOf
<1> HIDE DEF Built, Polled, TB, rows
<1>5. ASSUME NEW t \in Tiers, NEW u \in Tiers, t # u
      PROVE  Polled(t) \intersect Polled(u) = {}
  <2> SUFFICES ASSUME NEW k, k \in Polled(t), k \in Polled(u) PROVE FALSE
    OBVIOUS
  <2>1. PICK b \in TB(t), c \in TB(u) : k = BoardKey(b) /\ k = BoardKey(c)
    BY <1>1
  <2>2. b.family = c.family
    BY <2>1, KeyTellsTheFamily
  <2> QED
    BY <1>2, <1>5, <2>2, TiersByFamily
<1>6. UNION {Polled(t) : t \in Tiers}
        = (Keys(sources) \union {BoardKey(b) : b \in found}) \ suppressed
  <2>1. ASSUME NEW t \in Tiers, NEW k \in Polled(t)
        PROVE  k \in (Keys(sources) \union {BoardKey(b) : b \in found}) \ suppressed
    <3>1. k \notin suppressed
      BY <1>1
    <3>2. PICK b \in TB(t) : k = BoardKey(b)
      BY <1>1
    <3>3. b \in ToSet(sources) \/ b \in found
      BY <1>3
    <3> HIDE DEF found
    <3> QED
      BY <3>1, <3>2, <3>3 DEF Keys
  <2>2. ASSUME NEW b, b \in ToSet(sources) \/ b \in found, BoardKey(b) \notin suppressed
        PROVE  \E t \in Tiers : BoardKey(b) \in Polled(t)
    <3>1. \E t \in Tiers : b \in TB(t)
      <4>1. CASE b \in ToSet(sources)
        BY <1>3, <1>4, <4>1, TiersByFamily
      <4>2. CASE b \in found
        <5>1. PICK r \in rows : b = BoardOf(r)
          BY <4>2
        <5> QED
          BY <1>3, <1>4, <5>1, TiersByFamily
      <4> QED
        BY <2>2, <4>1, <4>2
    <3> QED
      BY <1>1, <2>2, <3>1
  <2> HIDE DEF found
  <2>3. ASSUME NEW k \in (Keys(sources) \union {BoardKey(b) : b \in found}) \ suppressed
        PROVE  k \in UNION {Polled(t) : t \in Tiers}
    <3>1. PICK b : (b \in ToSet(sources) \/ b \in found) /\ k = BoardKey(b)
      BY DEF Keys
    <3> QED
      BY <2>2, <3>1
  <2> QED
    BY <2>1, <2>3
<1>7. /\ \A t \in Tiers : Cardinality(Polled(t)) = Len(Built(t))
      /\ \A t, u \in Tiers : t # u => Polled(t) \intersect Polled(u) = {}
  BY <1>1, <1>5
<1> HIDE DEF found
<1> QED
  BY <1>6, <1>7 DEF PolledOnce, Built, Polled, found, rows

\* An entry of the settings is polled as it is written there, whatever discovery found.
THEOREM SettingsComeFirst ==
    ASSUME NEW W, NEW sources \in Seq(BoardsOf(W)), NEW slugs \in Seq(Listings(Families, W)),
           NEW boards \in Seq(Listings(Families, W)), NEW suppressed
    PROVE  SettingsWin(sources, slugs, boards, suppressed)
<1> SUFFICES ASSUME NEW t \in Tiers,
                    NEW b \in ToSet(BuildConnectors(t, sources, slugs, boards, suppressed)),
                    BoardKey(b) \in Keys(sources)
             PROVE  b \in ToSet(sources)
  BY DEF SettingsWin
<1> DEFINE B == BoardsOf(W)
           own == Of(sources, TierFamilies(t))
           found == Discovered(t, slugs, boards)
           all == AllOf(t, sources, slugs, boards)
<1>1. PICK i \in FirstOfTheName(all) : b = all[i]
  BY BuiltHas
<1>2. own \in Seq(B) /\ ToSet(own) = {c \in ToSet(sources) : c.family \in TierFamilies(t)}
  <2>1. \A c \in B : BoardOf(c) = c
    BY RowsAreBoards
  <2>2. ToSet(sources) \subseteq B
    BY DEF ToSet
  <2> HIDE DEF B
  <2>3. sources \in Seq(B) /\ \A c \in B : BoardOf(c) \in B
    BY <2>1 DEF B
  <2>4. own \in Seq(B) /\ ToSet(own) = BoardsIn(sources, TierFamilies(t))
    BY <2>3, OfHas
  <2> QED
    BY <2>1, <2>2, <2>4 DEF BoardsIn
<1>3. all \in Seq(B) /\ ToSet(all) = TierBoards(t, sources, slugs, boards)
  BY AllHas
<1>4. all = own \o found /\ found \in Seq(B)
  BY DiscoveredAreBoards DEF AllOf
<1> HIDE DEF B, own, found, all
<1>5. /\ Len(own) \in Nat /\ DOMAIN all = 1 .. Len(own) + Len(found) /\ Len(found) \in Nat
      /\ \A j \in 1 .. Len(own) : all[j] = own[j]
  BY <1>2, <1>4, ConcatProperties
<1>6. i \in DOMAIN all /\ \A j \in 1 .. i - 1 : BoardKey(all[j]) # BoardKey(all[i])
  BY <1>1 DEF FirstOfTheName
<1>7. b.family \in TierFamilies(t)
  <2>1. b \in ToSet(all)
    BY <1>1, <1>6 DEF ToSet
  <2> QED
    BY <1>3, <2>1, TierIsOfItsFamilies
<1>8. PICK c \in ToSet(sources) : BoardKey(c) = BoardKey(b)
  BY DEF Keys
<1>9. c.family = b.family
  BY <1>8, KeyTellsTheFamily
<1>10. c \in ToSet(own)
  BY <1>2, <1>7, <1>9
<1>11. PICK j \in 1 .. Len(own) : own[j] = c
  BY <1>2, <1>10 DEF ToSet
<1>12. ~(j < i)
  <2>1. BoardKey(all[j]) = BoardKey(all[i])
    BY <1>1, <1>5, <1>8, <1>11
  <2>2. j \in Int /\ i \in Int /\ 1 <= j
    BY <1>5, <1>6
  <2> QED
    BY <1>6, <2>1, <2>2
<1>13. i \in 1 .. Len(own) /\ b = own[i]
  BY <1>1, <1>5, <1>6, <1>11, <1>12
<1>14. b \in ToSet(own)
  BY <1>2, <1>13 DEF ToSet
<1> QED
  BY <1>2, <1>14

\* What the page counts as discovered is what is polled without being configured.
THEOREM TheCountIsPolled ==
    ASSUME NEW W, NEW sources \in Seq(BoardsOf(W)), NEW slugs \in Seq(Listings(SlugFamilies, W)),
           NEW boards \in Seq(Listings(Families, W))
    PROVE  CountedArePolled(sources, slugs, boards)
<1> SUFFICES ASSUME \A b \in ToSet(boards) : b.family \in FromIdentity
             PROVE  DiscoveryOnly(sources, slugs, boards)
                      = (UNION {Keys(BuildConnectors(t, sources, slugs, boards, {})) : t \in Tiers})
                           \ Keys(sources)
  BY DEF CountedArePolled
<1> DEFINE R == Listings(Families, W)
           all == slugs \o boards
           polled == UNION {Keys(BuildConnectors(t, sources, slugs, boards, {})) : t \in Tiers}
           found == {BoardOf(r) : r \in {s \in ToSet(slugs) : s.family \in SlugFamilies}
                                           \union {b \in ToSet(boards) : b.family \in FromIdentity}}
           names == {BoardKey(all[i]) : i \in 1 .. Len(all)}
<1>1. slugs \in Seq(R)
  BY SlugsAreListed, TiersByFamily
<1>2. all \in Seq(R) /\ ToSet(all) = ToSet(slugs) \union ToSet(boards)
  <2> HIDE DEF R
  <2>1. boards \in Seq(R)
    BY DEF R
  <2> QED
    BY <1>1, <2>1, ConcatHas
<1>3. polled = Keys(sources) \union {BoardKey(b) : b \in found}
  <2>1. PolledOnce(sources, slugs, boards, {})
    BY <1>1, EachIsPolledOnce
  <2> QED
    BY <2>1 DEF PolledOnce
<1>4. \A s \in ToSet(slugs) : s.family \in SlugFamilies
  <2>1. \A s \in ToSet(slugs) : s \in Listings(SlugFamilies, W)
    BY DEF ToSet
  <2> QED
    BY <2>1 DEF Listings
<1>5. found = {BoardOf(r) : r \in ToSet(slugs) \union ToSet(boards)}
  BY <1>4
<1> HIDE DEF found, polled
<1>6. names = {BoardKey(r) : r \in ToSet(all)}
  <2> HIDE DEF R, all
  <2>1. DOMAIN all = 1 .. Len(all)
    BY <1>2
  <2> QED
    BY <2>1 DEF ToSet
<1>7. names = {BoardKey(b) : b \in found}
  <2>1. \A r : BoardKey(r) = BoardKey(BoardOf(r))
    BY RowsAreBoards
  <2> HIDE DEF names, all
  <2> QED
    BY <1>2, <1>5, <1>6, <2>1
<1>8. DiscoveryOnly(sources, slugs, boards) = names \ Keys(sources)
  BY DEF DiscoveryOnly
<1> HIDE DEF names
<1>9. DiscoveryOnly(sources, slugs, boards) = polled \ Keys(sources)
  BY <1>3, <1>7, <1>8
<1> QED
  BY <1>9 DEF polled

-----------------------------------------------------------------------------
(* The Companies page *)

\* An install: the slug table has slug families, the other one those that are polled from it.
InstallsOf(W) == [sources : Seq(BoardsOf(W)), slugs : Seq(Listings(SlugFamilies, W)),
                  boards : Seq(Listings(FromIdentity, W)), packOn : BOOLEAN]

\* The rows of both tables that are listed as healthy.
Heeded(inst) == {r \in ToSet(inst.slugs) \union ToSet(inst.boards) :
                    r.healthy /\ (r.pack => inst.packOn)}

LEMMA HealthyHas ==
    ASSUME NEW F, NEW W, NEW rows \in Seq(Listings(F, W)), NEW inst
    PROVE  /\ Healthy(rows, inst.packOn) \in Seq(Listings(F, W))
           /\ \A r : r \in ToSet(Healthy(rows, inst.packOn))
                      <=> r \in ToSet(rows) /\ r.healthy /\ (r.pack => inst.packOn)
<1> DEFINE R == Listings(F, W)
           I == {i \in DOMAIN rows : rows[i].healthy /\ (rows[i].pack => inst.packOn)}
<1> HIDE DEF R
<1>1. rows \in Seq(R)
  BY DEF R
<1>2. DOMAIN rows = 1 .. Len(rows)
  BY <1>1
<1>3. Picked(rows, I) \in Seq(R) /\ ToSet(Picked(rows, I)) =
      {rows[i] : i \in I \cap (1 .. Len(rows))}
  <2> HIDE DEF I
  <2> QED
    BY <1>1, PickedHas
<1>4. {rows[i] : i \in I \cap (1 .. Len(rows))} = {rows[i] : i \in I}
  BY <1>2
<1>5. {rows[i] : i \in I} = {r \in ToSet(rows) : r.healthy /\ (r.pack => inst.packOn)}
  BY DEF ToSet
<1>6. Healthy(rows, inst.packOn) = Picked(rows, I)
  BY DEF Healthy
<1> HIDE DEF I
<1> QED
  BY <1>3, <1>4, <1>5, <1>6 DEF R

\* What the cycles poll of an install.
LEMMA PolledOfHas ==
    ASSUME NEW W, NEW inst \in InstallsOf(W), NEW suppressed
    PROVE  \A k : k \in PolledOf(inst, suppressed) <=>
                    /\ k \notin suppressed
                    /\ k \in Keys(inst.sources) \/ \E r \in Heeded(inst) : k = BoardKey(r)
<1> DEFINE slugs == Healthy(inst.slugs, inst.packOn)
           boards == Healthy(inst.boards, inst.packOn)
           rows == {s \in ToSet(slugs) : s.family \in SlugFamilies}
                      \union {b \in ToSet(boards) : b.family \in FromIdentity}
           found == {BoardOf(r) : r \in rows}
<1>1. /\ inst.sources \in Seq(BoardsOf(W)) /\ inst.slugs \in Seq(Listings(SlugFamilies, W))
      /\ inst.boards \in Seq(Listings(FromIdentity, W))
  BY DEF InstallsOf
<1>2. /\ slugs \in Seq(Listings(SlugFamilies, W)) /\ boards \in Seq(Listings(FromIdentity, W))
      /\ \A r : r \in ToSet(slugs) <=> r \in ToSet(inst.slugs) /\ r.healthy /\
         (r.pack => inst.packOn)
      /\ \A r : r \in ToSet(boards) <=> r \in ToSet(inst.boards) /\ r.healthy /\
         (r.pack => inst.packOn)
  <2>1. /\ Healthy(inst.slugs, inst.packOn) \in Seq(Listings(SlugFamilies, W))
        /\ \A r : r \in ToSet(Healthy(inst.slugs, inst.packOn))
                   <=> r \in ToSet(inst.slugs) /\ r.healthy /\ (r.pack => inst.packOn)
    BY <1>1, HealthyHas
  <2>2. /\ Healthy(inst.boards, inst.packOn) \in Seq(Listings(FromIdentity, W))
        /\ \A r : r \in ToSet(Healthy(inst.boards, inst.packOn))
                   <=> r \in ToSet(inst.boards) /\ r.healthy /\ (r.pack => inst.packOn)
    BY <1>1, HealthyHas
  <2> QED
    BY <2>1, <2>2, Zenon
<1> HIDE DEF slugs, boards
<1>3. slugs \in Seq(Listings(Families, W)) /\ boards \in Seq(Listings(Families, W))
  BY <1>2, SlugsAreListed, TiersByFamily
<1>4. rows = Heeded(inst)
  <2>1. \A s \in ToSet(slugs) : s.family \in SlugFamilies
    <3>1. \A s \in ToSet(slugs) : s \in Listings(SlugFamilies, W)
      BY <1>2 DEF ToSet
    <3> QED
      BY <3>1 DEF Listings
  <2>2. \A b \in ToSet(boards) : b.family \in FromIdentity
    <3>1. \A b \in ToSet(boards) : b \in Listings(FromIdentity, W)
      BY <1>2 DEF ToSet
    <3> QED
      BY <3>1 DEF Listings
  <2>3. rows = ToSet(slugs) \union ToSet(boards)
    BY <2>1, <2>2
  <2> HIDE DEF rows
  <2> QED
    BY <1>2, <2>3 DEF Heeded
<1>5. PolledOf(inst, suppressed)
        = (Keys(inst.sources) \union {BoardKey(b) : b \in found}) \ suppressed
  <2>1. PolledOnce(inst.sources, slugs, boards, suppressed)
    BY <1>1, <1>3, EachIsPolledOnce
  <2>2. PolledOf(inst, suppressed)
          = UNION {Keys(BuildConnectors(t, inst.sources, slugs, boards, suppressed)) : t \in Tiers}
    BY DEF PolledOf, slugs, boards
  <2> QED
    BY <2>1, <2>2 DEF PolledOnce
<1>6. \A k : k \in {BoardKey(b) : b \in found} <=> \E r \in Heeded(inst) : k = BoardKey(r)
  <2>1. \A r : BoardKey(r) = BoardKey(BoardOf(r))
    BY RowsAreBoards
  <2> HIDE DEF rows
  <2> QED
    BY <1>4, <2>1
<1> HIDE DEF found
<1> QED
  BY <1>5, <1>6

LEMMA FinitelyMany ==
    ASSUME NEW S, NEW s \in Seq(S)
    PROVE  IsFiniteSet(Keys(s))
<1> DEFINE V == Keys(s)
           f == [i \in 1 .. Len(s) |-> BoardKey(s[i])]
<1>1. f \in [1 .. Len(s) -> V] /\ \A v \in V : \E i \in 1 .. Len(s) : f[i] = v
  BY DEF Keys, ToSet
<1>2. IsFiniteSet(1 .. Len(s))
  BY FS_Interval
<1> HIDE DEF f, V
<1>3. f \in Surjection(1 .. Len(s), V)
  BY <1>1 DEF Surjection
<1>4. IsFiniteSet(V)
  BY <1>2, <1>3, FS_Surjection DEF ExistsSurjection
<1> QED
  BY <1>4 DEF V

\* What the page adds to an install of any size is polled, by one connector.
THEOREM AddingPolls ==
    ASSUME NEW W, NEW inst \in InstallsOf(W), NEW board \in BoardsOf(W), board # None,
           NEW suppressed
    PROVE  AddedIsPolled(inst, board, suppressed)
<1> DEFINE new == AddBoard(inst, board)
           B == BoardsOf(W)
           key == BoardKey(board)
<1>1. inst.sources \in Seq(B)
  BY DEF InstallsOf
<1>2. board \in B
  OBVIOUS
<1> HIDE DEF B
<1>3. /\ new \in InstallsOf(W) /\ Heeded(new) = Heeded(inst)
      /\ new.sources = IF key \in Keys(inst.sources) THEN inst.sources
                       ELSE Append(inst.sources, board)
  <2>1. Append(inst.sources, board) \in Seq(B)
    BY <1>1, <1>2, AppendProperties
  <2>2. [inst EXCEPT !.sources = Append(inst.sources, board)] \in InstallsOf(W)
    BY <2>1 DEF InstallsOf, B
  <2>3. new = IF key \in Keys(inst.sources) THEN inst
              ELSE [inst EXCEPT !.sources = Append(inst.sources, board)]
    BY DEF AddBoard
  <2> QED
    BY <2>2, <2>3 DEF Heeded, InstallsOf
<1> DEFINE more == Append(inst.sources, board)
<1>4. Keys(more) = Keys(inst.sources) \union {key} /\ Len(more) = Len(inst.sources) + 1
  <2>1. /\ more \in Seq(B) /\ Len(more) = Len(inst.sources) + 1 /\ Len(inst.sources) \in Nat
        /\ \A i \in 1 .. Len(inst.sources) : more[i] = inst.sources[i]
        /\ more[Len(inst.sources) + 1] = board
    BY <1>1, <1>2, AppendProperties
  <2> DEFINE n == Len(inst.sources)
  <2> HIDE DEF more, n
  <2>2. DOMAIN more = 1 .. n + 1 /\ DOMAIN inst.sources = 1 .. n /\ n \in Nat
    BY <1>1, <2>1 DEF n
  <2>3. ToSet(more) = ToSet(inst.sources) \union {board}
    <3>1. \A i \in 1 .. n + 1 : i = n + 1 \/ i \in 1 .. n
      BY <2>2
    <3>2. \A i \in 1 .. n : i \in 1 .. n + 1
      BY <2>2
    <3>3. n + 1 \in 1 .. n + 1
      BY <2>2
    <3> QED
      BY <2>1, <2>2, <3>1, <3>2, <3>3 DEF ToSet, n
  <2> QED
    BY <2>1, <2>3 DEF Keys
<1> HIDE DEF new, more
<1>5. Keys(new.sources) = Keys(inst.sources) \union {key}
  <2>1. CASE key \in Keys(inst.sources)
    BY <1>3, <2>1
  <2>2. CASE key \notin Keys(inst.sources)
    BY <1>3, <1>4, <2>2 DEF more
  <2> QED
    BY <2>1, <2>2
<1>6. PolledOf(new, suppressed) = PolledOf(inst, suppressed) \union ({key} \ suppressed)
  <2>1. \A k : k \in PolledOf(new, suppressed) <=>
                  /\ k \notin suppressed
                  /\ k \in Keys(new.sources) \/ \E r \in Heeded(inst) : k = BoardKey(r)
    BY <1>3, PolledOfHas
  <2>2. \A k : k \in PolledOf(inst, suppressed) <=>
                  /\ k \notin suppressed
                  /\ k \in Keys(inst.sources) \/ \E r \in Heeded(inst) : k = BoardKey(r)
    BY PolledOfHas
  <2> HIDE DEF key
  <2> QED
    BY <1>5, <2>1, <2>2
<1>7. Cardinality(Keys(new.sources)) - Cardinality(Keys(inst.sources))
        = Len(new.sources) - Len(inst.sources)
  <2>1. IsFiniteSet(Keys(inst.sources))
    BY <1>1, FinitelyMany
  <2>2. Cardinality(Keys(inst.sources)) \in Nat /\ Len(inst.sources) \in Nat
    BY <1>1, <2>1, FS_CardinalityType
  <2>3. Cardinality(Keys(inst.sources) \union {key})
          = IF key \in Keys(inst.sources) THEN Cardinality(Keys(inst.sources))
            ELSE Cardinality(Keys(inst.sources)) + 1
    BY <2>1, FS_AddElement
  <2>4. CASE key \in Keys(inst.sources)
    BY <1>3, <1>5, <2>2, <2>3, <2>4
  <2>5. CASE key \notin Keys(inst.sources)
    <3>1. Len(new.sources) = Len(inst.sources) + 1
      BY <1>3, <1>4, <2>5 DEF more
    <3> QED
      BY <1>5, <2>2, <2>3, <2>5, <3>1
  <2> QED
    BY <2>4, <2>5
<1>8. AddBoard(new, board) = new
  BY <1>5 DEF AddBoard
<1>9. ProbeShown(new, [status |-> "matched", board |-> board]).already
  BY <1>5 DEF ProbeShown
<1> QED
  BY <1>6, <1>7, <1>8, <1>9 DEF AddedIsPolled, new

\* The offer of the starter pack is kept, for an install of any size.
THEOREM TheOfferIsKept ==
    ASSUME NEW W, NEW inst \in InstallsOf(W), NEW dismissed \in BOOLEAN, NEW suppressed
    PROVE  OfferIsKept(inst, dismissed, suppressed)
<1> DEFINE new == StarterPack(inst)
           pack == {BoardKey(BoardOf(r)) : r \in {s \in ToSet(inst.slugs \o inst.boards) :
                                                     s.pack /\ s.healthy}}
           both == ToSet(inst.slugs) \union ToSet(inst.boards)
           eligible == Cardinality(pack)
<1>1. /\ new \in InstallsOf(W) /\ new.sources = inst.sources /\ new.packOn
      /\ new.slugs = inst.slugs /\ new.boards = inst.boards
  BY DEF StarterPack, InstallsOf
<1>2. ToSet(inst.slugs \o inst.boards) = both
  <2> DEFINE R == Listings(Families, W)
  <2>1. inst.slugs \in Seq(R) /\ inst.boards \in Seq(R)
    BY SlugsAreListed, TiersByFamily DEF InstallsOf
  <2> HIDE DEF R
  <2> QED
    BY <2>1, ConcatHas
<1>3. \A k : k \in pack <=> \E r \in both : r.pack /\ r.healthy /\ k = BoardKey(r)
  <2>1. \A r : BoardKey(r) = BoardKey(BoardOf(r))
    BY RowsAreBoards
  <2> HIDE DEF both
  <2> QED
    BY <1>2, <2>1
<1>4. \A r : r \in Heeded(new) <=> r \in Heeded(inst) \/ (r \in both /\ r.pack /\ r.healthy)
  <2>1. inst.packOn \in BOOLEAN /\ \A r \in both : r.pack \in BOOLEAN /\ r.healthy \in BOOLEAN
    <3>1. \A r \in both : r \in Listings(SlugFamilies, W) \union Listings(FromIdentity, W)
      BY DEF InstallsOf, ToSet
    <3> HIDE DEF both
    <3> QED
      BY <3>1 DEF Listings, InstallsOf
  <2> QED
    BY <1>1, <2>1 DEF Heeded
<1> HIDE DEF pack, both, new
<1>5. PolledOf(new, suppressed) = PolledOf(inst, suppressed) \union (pack \ suppressed)
  <2>1. \A k : k \in PolledOf(new, suppressed) <=>
                  /\ k \notin suppressed
                  /\ k \in Keys(inst.sources) \/ \E r \in Heeded(new) : k = BoardKey(r)
    BY <1>1, PolledOfHas
  <2>2. \A k : k \in PolledOf(inst, suppressed) <=>
                  /\ k \notin suppressed
                  /\ k \in Keys(inst.sources) \/ \E r \in Heeded(inst) : k = BoardKey(r)
    BY PolledOfHas
  <2> QED
    BY <1>3, <1>4, <2>1, <2>2
<1>6. StarterOffer(new, dismissed, eligible) = None
  BY <1>1 DEF StarterOffer
<1>7. StarterOffer(inst, FALSE, eligible) # None => pack # {} /\ ~inst.packOn
  BY FS_EmptySet DEF StarterOffer
<1>8. BoardEntries(new) = BoardEntries(inst)
  BY <1>1 DEF BoardEntries
<1> QED
  BY <1>5, <1>6, <1>7, <1>8 DEF OfferIsKept, new, pack

\* The first row of the address, or none.
LEMMA FoundFirst ==
    ASSUME LookupsAssumption, NEW R, NEW list \in Seq(R), NEW shown, NEW i
    PROVE  LET at == Found(list, shown, i)
           IN /\ at = None <=> \A j \in 1 .. Len(list) : list[j] # shown[i]
              /\ at # None => at \in 1 .. Len(list) /\ list[at] = shown[i]
<1> DEFINE same == {j \in DOMAIN list : list[j] = shown[i]}
           m == CHOOSE j \in same : \A k \in same : j <= k
<1>1. DOMAIN list = 1 .. Len(list)
  OBVIOUS
<1>2. Found(list, shown, i) = IF same = {} THEN None ELSE m
  BY DEF Found, Digest
<1>3. same \subseteq Nat
  BY <1>1
<1>4. same = {} <=> \A j \in 1 .. Len(list) : list[j] # shown[i]
  BY <1>1
<1>5. same # {} => m \in same
  <2> HIDE DEF same
  <2> QED
    BY <1>3, LeastNumber
<1>6. m \in same => m \in 1 .. Len(list) /\ list[m] = shown[i]
  BY <1>1
<1> HIDE DEF same, m
<1>7. m \in same => m # None
  <2>1. m \in same => m \in Int
    BY <1>3
  <2> QED
    BY <2>1 DEF LookupsAssumption
<1> QED
  BY <1>2, <1>4, <1>5, <1>6, <1>7

\* A list with another row at one place, and without the row there.
LEMMA OneEditAway ==
    ASSUME NEW R, NEW list \in Seq(R), NEW at \in 1 .. Len(list), NEW e
    PROVE  /\ [list EXCEPT ![at] = e] = Ahead(list, at) \o <<e>> \o Behind(list, at)
           /\ Ahead(list, at) \o Behind(list, at) = Ahead(list, at) \o <<>> \o Behind(list, at)
<1> DEFINE S == R \union {e}
           a == Ahead(list, at)
           b == Behind(list, at)
           n == Len(list)
           ae == a \o <<e>>
           out == ae \o b
<1>1. list \in Seq(S)
  BY SeqMonotonic
<1>2. n \in Nat /\ at \in 1 .. n /\ \A k \in 1 .. n : list[k] \in S
  BY <1>1
<1>3. /\ a \in Seq(S) /\ Len(a) = at - 1 /\ \A k \in 1 .. at - 1 : a[k] = list[k]
  <2>1. \A k \in 1 .. at - 1 : list[k] \in S
    BY <1>2
  <2> QED
    BY <1>2, <2>1, SubSeqProperties DEF Ahead
<1>4. /\ b \in Seq(S) /\ Len(b) = n - at /\ \A k \in 1 .. n - at : b[k] = list[at + k]
  <2>1. \A k \in at + 1 .. n : list[k] \in S
    BY <1>2
  <2>2. /\ SubSeq(list, at + 1, n) \in Seq(S)
        /\ Len(SubSeq(list, at + 1, n)) = IF at + 1 <= n THEN n - (at + 1) + 1 ELSE 0
        /\ \A k \in 1 .. n - (at + 1) + 1 : SubSeq(list, at + 1, n)[k] = list[at + 1 + k - 1]
    <3> HIDE DEF n, S
    <3> QED
      BY <1>2, <2>1, SubSeqProperties
  <2> QED
    BY <1>2, <2>2 DEF Behind
<1> HIDE DEF a, b, n, S
<1>5. <<e>> \in Seq(S) /\ Len(<<e>>) = 1 /\ <<e>>[1] = e
  BY DEF S
<1>6. /\ ae \in Seq(S) /\ Len(ae) = at
      /\ \A k \in 1 .. at : ae[k] = IF k <= at - 1 THEN a[k] ELSE e
  <2>1. /\ ae \in Seq(S) /\ Len(ae) = Len(a) + Len(<<e>>)
        /\ \A k \in 1 .. Len(a) + Len(<<e>>) :
              ae[k] = IF k <= Len(a) THEN a[k] ELSE <<e>>[k - Len(a)]
    BY <1>3, <1>5, ConcatProperties
  <2>2. Len(a) + Len(<<e>>) = at
    BY <1>2, <1>3, <1>5
  <2>3. ASSUME NEW k \in 1 .. at PROVE ae[k] = IF k <= at - 1 THEN a[k] ELSE e
    <3>1. CASE k <= at - 1
      BY <1>3, <2>1, <2>2, <3>1
    <3>2. CASE ~(k <= at - 1)
      <4>1. k = at /\ k - Len(a) = 1
        BY <1>2, <1>3, <3>2
      <4> QED
        BY <1>3, <1>5, <2>1, <2>2, <3>2, <4>1
    <3> QED
      BY <3>1, <3>2
  <2> QED
    BY <2>1, <2>2, <2>3
<1> HIDE DEF ae
<1>7. /\ out \in Seq(S) /\ Len(out) = n
      /\ \A k \in 1 .. n : out[k] = IF k <= at THEN ae[k] ELSE b[k - at]
  <2>1. /\ out \in Seq(S) /\ Len(out) = Len(ae) + Len(b)
        /\ \A k \in 1 .. Len(ae) + Len(b) :
              out[k] = IF k <= Len(ae) THEN ae[k] ELSE b[k - Len(ae)]
    BY <1>4, <1>6, ConcatProperties
  <2>2. Len(ae) + Len(b) = n
    BY <1>2, <1>4, <1>6
  <2> QED
    BY <1>6, <2>1, <2>2
<1> HIDE DEF out
<1>8. DOMAIN out = 1 .. n /\ out = [k \in 1 .. n |-> out[k]] /\ DOMAIN list = 1 .. n
  BY <1>1, <1>7 DEF n
<1>9. ASSUME NEW k \in 1 .. n PROVE out[k] = IF k = at THEN e ELSE list[k]
  <2>1. CASE k = at
    BY <1>2, <1>6, <1>7, <2>1
  <2>2. CASE k < at
    <3>1. k \in 1 .. at /\ k <= at - 1 /\ k \in 1 .. at - 1
      BY <1>2, <2>2
    <3> QED
      BY <1>3, <1>6, <1>7, <2>2, <3>1
  <2>3. CASE k > at
    <3>1. k - at \in 1 .. n - at /\ at + (k - at) = k /\ ~(k <= at)
      BY <1>2, <2>3
    <3> QED
      BY <1>4, <1>7, <2>3, <3>1
  <2> QED
    BY <1>2, <2>1, <2>2, <2>3
<1>10. [list EXCEPT ![at] = e] = out
  BY <1>8, <1>9
<1>11. a \o <<>> = a
  BY <1>3, ConcatEmptySeq
<1> QED
  BY <1>10, <1>11 DEF out, ae, a, b

\* An edit of a list of any length hits the row it was meant for.
THEOREM EditsHitTheSame ==
    ASSUME LookupsAssumption, NEW R, NEW list \in Seq(R), NEW shown \in Seq(R),
           NEW i \in 1 .. Len(shown), NEW kind, NEW values
    PROVE  StaleEditsHitTheSame(list, shown, i, kind, values)
<1> DEFINE at == Found(list, shown, i)
           Hit(out, new) == \E j \in DOMAIN list :
                               list[j] = shown[i] /\ out = Ahead(list, j) \o new \o Behind(list, j)
           removed == RemoveRowPatch(list, shown, i)
           Sent(v) == Write(list, shown, i, kind, v)
           again == AsValues(shown[i])
<1>0. DOMAIN list = 1 .. Len(list) /\ i # None
  BY DEF LookupsAssumption
<1>1. /\ at = None <=> \A j \in 1 .. Len(list) : list[j] # shown[i]
      /\ at # None => at \in 1 .. Len(list) /\ list[at] = shown[i]
  BY FoundFirst
<1>2. removed = IF at = None THEN Refused(list)
                ELSE Made(SubSeq(list, 1, at - 1) \o SubSeq(list, at + 1, Len(list)))
  BY DEF RemoveRowPatch
<1>3. \A v : Sent(v) = IF DecodeRow(v) = None \/ AsEntry(kind, v) = None \/ at = None
                       THEN Refused(list) ELSE Made([list EXCEPT ![at] = AsEntry(kind, v)])
  BY <1>0 DEF Write, UpdateRowPatch
<1> HIDE DEF at, removed, Sent
<1>4. removed.done <=> shown[i] \in ToSet(list)
  BY <1>0, <1>1, <1>2 DEF Refused, Made, ToSet
<1>5. removed.done => Hit(removed.list, <<>>)
  <2> SUFFICES ASSUME removed.done PROVE Hit(removed.list, <<>>)
    OBVIOUS
  <2>1. at \in 1 .. Len(list) /\ list[at] = shown[i]
        /\ removed.list = Ahead(list, at) \o Behind(list, at)
    BY <1>1, <1>2 DEF Refused, Made, Ahead, Behind
  <2>2. removed.list = Ahead(list, at) \o <<>> \o Behind(list, at)
    BY <2>1, OneEditAway
  <2> QED
    BY <1>0, <2>1, <2>2
<1>6. ASSUME NEW v, Sent(v).done
      PROVE  /\ Hit(Sent(v).list, <<AsEntry(kind, v)>>)
             /\ at \in 1 .. Len(list) /\ list[at] = shown[i]
             /\ Sent(v).list = [list EXCEPT ![at] = AsEntry(kind, v)]
  <2>1. at \in 1 .. Len(list) /\ list[at] = shown[i]
        /\ Sent(v).list = [list EXCEPT ![at] = AsEntry(kind, v)]
    BY <1>1, <1>3, <1>6 DEF Refused, Made
  <2>2. Sent(v).list = Ahead(list, at) \o <<AsEntry(kind, v)>> \o Behind(list, at)
    BY <2>1, OneEditAway
  <2> QED
    BY <1>0, <2>1, <2>2, ZenonT(40)
<1>7. ~Sent(values).done => Sent(values).list = list
  BY <1>3 DEF Refused, Made
<1>8. Sent(again).done /\ shown[i] = AsEntry(kind, again) => Sent(again).list = list
  <2> SUFFICES ASSUME Sent(again).done, shown[i] = AsEntry(kind, again)
               PROVE  Sent(again).list = list
    OBVIOUS
  <2>1. Sent(again).list = [list EXCEPT ![at] = list[at]] /\ at \in 1 .. Len(list)
    BY <1>6
  <2> QED
    BY <2>1
<1>9. Sent(values).done => Hit(Sent(values).list, <<AsEntry(kind, values)>>)
  BY <1>6
<1> HIDE DEF Hit
<1> QED
  BY <1>4, <1>5, <1>7, <1>8, <1>9, Zenon DEF StaleEditsHitTheSame, removed, Sent, Hit, again

-----------------------------------------------------------------------------
(* What is asked of the boards *)

\* How the boards of the instance are spelt.
Spellings == {"acme", "b", "ext", "wd1", "wd2", None}

LEMMA ShortLists ==
    ASSUME NEW S
    PROVE  \A a, b \in S : <<>> \in Seq(S) /\ <<a>> \in Seq(S) /\ <<a, b>> \in Seq(S)
OBVIOUS

LEMMA AskedInstalls == Installs \subseteq InstallsOf(Spellings)
<1> DEFINE B == BoardsOf(Spellings)
           S == Listings(SlugFamilies, Spellings)
           D == Listings(FromIdentity, Spellings)
<1> SUFFICES ASSUME NEW inst \in Installs
             PROVE  inst \in InstallsOf(Spellings)
  OBVIOUS
<1>1. {Gh, WdOne, WdTwo, Wb, Av} \subseteq B
  BY FamiliesApart
     DEF BoardsOf, Spellings, Families, SlowSlugs, AtsFamilies, AtsSlugs, SlugFamilies,
     PathFamilies, Gh, WdOne, WdTwo, Wb, Av, Board, RegionalBoard
<1>2. \A h, p \in BOOLEAN : {Tabled(Gh, h, p), Tabled(Wb, h, p)} \subseteq S
  BY DEF Listings, Spellings, SlugFamilies, PathFamilies, Tabled, Gh, Wb, Board, RegionalBoard
<1>3. \A h, p \in BOOLEAN :
         {Tabled(WdTwo, h, p), Tabled(Board("jsonld", "b", None), h, p)} \subseteq D
  BY DEF Listings, Spellings, FromIdentity, Tabled, WdTwo, Board, RegionalBoard
<1> HIDE DEF B, S, D
<1>4. inst.sources \in Seq(B)
  <2>1. PICK n \in 0 .. 2 : inst.sources \in [1 .. n -> {Gh, WdOne, WdTwo, Wb, Av}]
    BY DEF Installs, UpTo, BoundedSeq, SeqOf
  <2>2. inst.sources \in Seq({Gh, WdOne, WdTwo, Wb, Av})
    BY <2>1, MappedIsListed
  <2> QED
    BY <1>1, <2>2, SeqMonotonic
<1>5. inst.slugs \in Seq(S)
  <2>1. inst.slugs \in {<<>>, <<Tabled(Gh, TRUE, FALSE)>>, <<Tabled(Wb, TRUE, TRUE)>>,
                         <<Tabled(Gh, FALSE, FALSE), Tabled(Wb, TRUE, FALSE)>>}
    BY DEF Installs
  <2>2. /\ Tabled(Gh, TRUE, FALSE) \in S /\ Tabled(Wb, TRUE, TRUE) \in S
        /\ Tabled(Gh, FALSE, FALSE) \in S /\ Tabled(Wb, TRUE, FALSE) \in S
    BY <1>2
  <2> QED
    BY <2>1, <2>2, ShortLists
<1>6. inst.boards \in Seq(D)
  <2>1. inst.boards \in {<<>>, <<Tabled(WdTwo, TRUE, FALSE)>>,
                          <<Tabled(WdTwo, FALSE, FALSE),
                            Tabled(Board("jsonld", "b", None), TRUE, FALSE)>>}
    BY DEF Installs
  <2>2. /\ Tabled(WdTwo, TRUE, FALSE) \in D /\ Tabled(WdTwo, FALSE, FALSE) \in D
        /\ Tabled(Board("jsonld", "b", None), TRUE, FALSE) \in D
    BY <1>3
  <2> QED
    BY <2>1, <2>2, ShortLists
<1>7. inst = [sources |-> inst.sources, slugs |-> inst.slugs, boards |-> inst.boards,
              packOn |-> inst.packOn] /\ inst.packOn \in BOOLEAN
  BY DEF Installs
<1> QED
  BY <1>4, <1>5, <1>6, <1>7 DEF InstallsOf, B, S, D

\* What is asked of the boards is an install and a board to add, or an edit of a row a page
\* showed.
AskedBoards ==
    /\ asked.kind = "polled" => asked.inst \in Installs /\ asked.board \in {Gh, WdTwo, Av}
    /\ asked.kind = "row" => /\ asked.list \in Seq(RowsOf(asked.of))
                             /\ asked.shown \in Seq(RowsOf(asked.of))
                             /\ asked.at \in 1 .. Len(asked.shown)

LEMMA AskedBoardsStart == ServicesInit => AskedBoards
<1> SUFFICES ASSUME ServicesInit, asked.kind \in {"polled", "row"}
             PROVE  AskedBoards
  BY DEF AskedBoards
<1>1. AskFingerprint \/ AskPortfolio \/ AskPolled \/ AskFilters
       \/ AskResume \/ AskCalls \/ AskArchive \/ AskPages
  BY DEF ServicesInit, Init
<1>2. ~AskFingerprint /\ ~AskPortfolio /\ ~AskFilters
  BY DEF AskFingerprint, AskPortfolio, AskFilters
<1>3. ~AskResume /\ ~AskCalls /\ ~AskArchive
  BY DEF AskResume, AskCalls, AskArchive
<1>4. ~AskPages
  BY DEF AskPages
<1>5. CASE \E inst \in Installs, suppressed \in Muted, board \in {Gh, WdTwo, Av} :
              asked = [kind |-> "polled", inst |-> inst, suppressed |-> suppressed, board |-> board]
  BY <1>5 DEF AskedBoards
<1>6. CASE \E kind \in {"chips", "model", "union"} :
           \E list \in UpTo(2, RowsOf(kind)), shown \in UpTo(2, RowsOf(kind)) \ {<<>>},
              form \in FormsOf :
           \E i \in DOMAIN shown :
              asked = [kind |-> "row", list |-> list, shown |-> shown, at |-> i, of |-> kind,
                       form |-> form]
  <2>1. PICK kind \in {"chips", "model", "union"} :
           /\ asked.kind = "row" /\ asked.of = kind
           /\ asked.list \in UpTo(2, RowsOf(kind)) /\ asked.shown \in UpTo(2, RowsOf(kind))
           /\ asked.at \in DOMAIN asked.shown
    BY <1>6
  <2>2. ASSUME NEW s \in UpTo(2, RowsOf(kind)) PROVE s \in Seq(RowsOf(kind))
    <3>1. PICK n \in 0 .. 2 : s \in [1 .. n -> RowsOf(kind)]
      BY DEF UpTo, BoundedSeq, SeqOf
    <3> QED
      BY <3>1, MappedIsListed
  <2>3. asked.list \in Seq(RowsOf(kind)) /\ asked.shown \in Seq(RowsOf(kind))
    BY <2>1, <2>2
  <2>4. asked.at \in 1 .. Len(asked.shown)
    BY <2>1, <2>3
  <2> QED
    BY <2>1, <2>3, <2>4 DEF AskedBoards
<1> QED
  BY <1>1, <1>2, <1>3, <1>4, <1>5, <1>6 DEF AskPolled

\* What is polled is what the tables and the pages say, and an edit hits its row: the property
\* holds of every install and of every edit that is asked of it.
THEOREM PollingIsHeld == ServicesSpec => []ListedIsPolled
<1>1. ServicesInit => AskedBoards
  BY AskedBoardsStart
<1>2. AskedBoards /\ [ServicesNext]_servicesVars => AskedBoards'
  <2> SUFFICES ASSUME AskedBoards, [ServicesNext]_servicesVars PROVE AskedBoards'
    OBVIOUS
  <2>1. asked' = asked
    BY DEF ServicesNext, Next, servicesVars, lookupVars
  <2> QED
    BY <2>1 DEF AskedBoards
<1>3. AskedBoards => ListedIsPolled
  <2> SUFFICES ASSUME AskedBoards PROVE ListedIsPolled
    OBVIOUS
  <2>1. ASSUME asked.kind = "polled"
        PROVE  LET inst == asked.inst
                   slugs == Healthy(inst.slugs, inst.packOn)
                   boards == Healthy(inst.boards, inst.packOn)
               IN /\ PolledOnce(inst.sources, slugs, boards, asked.suppressed)
                  /\ SettingsWin(inst.sources, slugs, boards, asked.suppressed)
                  /\ CountedArePolled(inst.sources, slugs, boards)
                  /\ AddedIsPolled(inst, asked.board, asked.suppressed)
                  /\ OfferIsKept(inst, FALSE, asked.suppressed)
    <3> DEFINE inst == asked.inst
               slugs == Healthy(inst.slugs, inst.packOn)
               boards == Healthy(inst.boards, inst.packOn)
    <3>1. inst \in InstallsOf(Spellings) /\ asked.board \in {Gh, WdTwo, Av}
      BY <2>1, AskedInstalls DEF AskedBoards
    <3>2. asked.board \in BoardsOf(Spellings) /\ asked.board # None
      <4>1. {Gh, WdTwo, Av} \subseteq BoardsOf(Spellings)
        BY FamiliesApart DEF BoardsOf, Spellings, Families, SlowSlugs, AtsFamilies, AtsSlugs,
           SlugFamilies, PathFamilies, Gh, WdTwo, Av, Board, RegionalBoard
      <4> QED
        BY <3>1, <4>1, BoardsAssumption
    <3> HIDE DEF inst
    <3>3. /\ inst.sources \in Seq(BoardsOf(Spellings))
          /\ inst.slugs \in Seq(Listings(SlugFamilies, Spellings))
          /\ inst.boards \in Seq(Listings(FromIdentity, Spellings))
      BY <3>1 DEF InstallsOf
    <3>4. slugs \in Seq(Listings(SlugFamilies, Spellings)) /\
          boards \in Seq(Listings(FromIdentity, Spellings))
      BY <3>3, HealthyHas
    <3> HIDE DEF slugs, boards
    <3>5. slugs \in Seq(Listings(Families, Spellings)) /\
          boards \in Seq(Listings(Families, Spellings))
      BY <3>4, SlugsAreListed, TiersByFamily
    <3>6. PolledOnce(inst.sources, slugs, boards, asked.suppressed)
      BY <3>3, <3>5, EachIsPolledOnce
    <3>7. SettingsWin(inst.sources, slugs, boards, asked.suppressed)
      BY <3>3, <3>5, SettingsComeFirst
    <3>8. CountedArePolled(inst.sources, slugs, boards)
      BY <3>3, <3>4, <3>5, TheCountIsPolled
    <3>9. AddedIsPolled(inst, asked.board, asked.suppressed)
      BY <3>1, <3>2, AddingPolls DEF inst
    <3>10. OfferIsKept(inst, FALSE, asked.suppressed)
      BY <3>1, TheOfferIsKept DEF inst
    <3> QED
      BY <3>6, <3>7, <3>8, <3>9, <3>10 DEF slugs, boards, inst
  <2>2. asked.kind = "row"
        => StaleEditsHitTheSame(asked.list, asked.shown, asked.at, asked.of, asked.form)
    BY LookupsAssumption, EditsHitTheSame DEF AskedBoards
  <2> QED
    BY <2>1, <2>2 DEF ListedIsPolled, Asked
<1> QED
  BY <1>1, <1>2, <1>3, PTL DEF ServicesSpec

-----------------------------------------------------------------------------
(* Extracting an archive *)

\* g[i] is the destination once the first i members are written, for every i up to n.
Writes(g, start, members, n) ==
    g = [i \in 0 .. n |-> IF i = 0 THEN start ELSE Archive!WriteMember(g[i - 1], members[i])]

LEMMA WritesOneMore ==
    ASSUME NEW start, NEW members, NEW n \in Nat, n # 0, NEW g, Writes(g, start, members, n - 1)
    PROVE  \E h : Writes(h, start, members, n)
<1> DEFINE new == Archive!WriteMember(g[n - 1], members[n])
           h == [i \in 0 .. n |-> IF i = n THEN new ELSE g[i]]
<1>1. \A i \in 0 .. n - 1 :
         g[i] = IF i = 0 THEN start ELSE Archive!WriteMember(g[i - 1], members[i])
  BY DEF Writes
<1>2. h[n] = new /\ \A i \in 0 .. n - 1 : h[i] = g[i]
  OBVIOUS
<1>3. DOMAIN h = 0 .. n /\ h = [i \in 0 .. n |-> h[i]]
  OBVIOUS
<1>4. h[n] = Archive!WriteMember(h[n - 1], members[n])
  BY <1>2
<1> HIDE DEF h
<1>5. ASSUME NEW i \in 0 .. n
      PROVE  h[i] = IF i = 0 THEN start ELSE Archive!WriteMember(h[i - 1], members[i])
  <2>1. CASE i = n
    BY <1>4, <2>1
  <2>2. CASE i # n /\ i # 0
    BY <1>1, <1>2, <2>2
  <2>3. CASE i # n /\ i = 0
    BY <1>1, <1>2, <2>3
  <2> QED
    BY <2>1, <2>2, <2>3
<1>6. Writes(h, start, members, n)
  BY <1>3, <1>5 DEF Writes
<1> QED
  BY <1>6

LEMMA WritesAll ==
    ASSUME NEW start, NEW members, NEW n \in Nat
    PROVE  \E g : Writes(g, start, members, n)
<1> DEFINE T == {m \in Nat : ~\E g : Writes(g, start, members, m)}
<1> SUFFICES ASSUME T # {} PROVE FALSE
  OBVIOUS
<1>1. PICK m \in T : \A y \in T : m <= y
  BY LeastNumber
<1>2. m # 0
  <2> DEFINE g == [i \in 0 .. 0 |-> start]
  <2>1. Writes(g, start, members, 0)
    BY DEF Writes
  <2> QED
    BY <2>1
<1>3. m - 1 \in Nat /\ m - 1 \notin T
  BY <1>1, <1>2
<1>4. \E g : Writes(g, start, members, m - 1)
  BY <1>3
<1> QED
  BY <1>2, <1>4, WritesOneMore

\* Where the writing begins, and where it ends.
Opened(dest) == [there |-> TRUE, files |-> dest.files, dirs |-> dest.dirs, touched |-> {},
                 created |-> {}, error |-> None]

LEMMA ExtractedIsWritten ==
    ASSUME NEW M, NEW archive, archive.members \in Seq(M), NEW dest
    PROVE  \E g : /\ Writes(g, Opened(dest), archive.members, Len(archive.members))
                  /\ Archive!ExtractUpload(archive, dest)
                       = LET done == g[Len(archive.members)]
                         IN CASE ~Archive!Acceptable(archive) ->
                                    [Opened(dest) EXCEPT !.there = dest.there, !.error = "rejected"]
                              [] Archive!Acceptable(archive) /\ done.error = None -> done
                              [] OTHER -> Archive!Cleanup(done, dest)
<1> DEFINE n == Len(archive.members)
           g == CHOOSE after :
                   after = [i \in 0 .. n |->
                              IF i = 0 THEN Opened(dest)
                              ELSE Archive!WriteMember(after[i - 1], archive.members[i])]
<1>1. n \in Nat
  OBVIOUS
<1>2. Writes(g, Opened(dest), archive.members, n)
  <2>1. \E h : Writes(h, Opened(dest), archive.members, n)
    BY <1>1, WritesAll
  <2> QED
    BY <2>1 DEF Writes
<1>3. Archive!ExtractUpload(archive, dest)
        = LET done == g[n]
          IN CASE ~Archive!Acceptable(archive) ->
                     [Opened(dest) EXCEPT !.there = dest.there, !.error = "rejected"]
               [] Archive!Acceptable(archive) /\ done.error = None -> done
               [] OTHER -> Archive!Cleanup(done, dest)
  BY Zenon DEF Archive!ExtractUpload, Opened
<1> HIDE DEF g
<1> QED
  BY <1>2, <1>3

\* A directory tree has what is on the way to its paths, and one that is not there has none.
Tree(dest) ==
    /\ \A p \in DOMAIN dest.files \union dest.dirs :
          Archive!Prefixed(p) \subseteq DOMAIN dest.files \union dest.dirs
    /\ ~dest.there => DOMAIN dest.files = {} /\ dest.dirs = {}
    /\ dest.there \in BOOLEAN

\* A destination while members are written to it.
Written(there, files, dirs, touched, created, error) ==
    [there |-> there, files |-> files, dirs |-> dirs, touched |-> touched, created |-> created,
     error |-> error]

\* What the writing of some members leaves of a destination, whether it came to its end.
Undone(there, files, dirs, touched, created, dest, members) ==
    /\ there = TRUE
    /\ DOMAIN dest.files \subseteq DOMAIN files
    /\ DOMAIN files \subseteq DOMAIN dest.files \union touched
    /\ touched \cap DOMAIN dest.files = {}
    /\ dirs = dest.dirs \union created
    /\ created \cap (dest.dirs \union DOMAIN dest.files) = {}
    /\ \A p \in DOMAIN dest.files :
          files[p] = dest.files[p] \/ \E m \in Archive!ToSet(members) : m.name = p

Undoable(s, dest, members) ==
    \E w, f, d, t, c, e : s = Written(w, f, d, t, c, e) /\ Undone(w, f, d, t, c, dest, members)

LEMMA WrittenAgain ==
    ASSUME NEW w, NEW f, NEW d, NEW t, NEW c, NEW e, NEW x
    PROVE  /\ [Written(w, f, d, t, c, e) EXCEPT !.files = x] = Written(w, x, d, t, c, e)
           /\ [Written(w, f, d, t, c, e) EXCEPT !.dirs = x] = Written(w, f, x, t, c, e)
BY DEF Written

LEMMA DirsAreUndoable ==
    ASSUME NEW s, NEW dest, NEW members, Undoable(s, dest, members), NEW p
    PROVE  Undoable(Archive!EnsureDir(s, p), dest, members)
<1> DEFINE missing == {q \in Archive!Prefixed(p) :
                          ~Archive!Exists(s, q) /\ \A r \in Archive!Prefixed(p) :
                                 Len(r) > Len(q) => ~Archive!Exists(s, r)}
<1>1. PICK w, f, d, t, c, e : s = Written(w, f, d, t, c, e) /\ Undone(w, f, d, t, c, dest, members)
  BY DEF Undoable
<1>2. s.files = f /\ s.dirs = d /\ s.created = c
  BY <1>1 DEF Written
<1>3. \A q \in missing : q \notin DOMAIN f /\ q \notin d
  BY <1>2 DEF Archive!Exists
<1>4. \/ Archive!EnsureDir(s, p) = s
      \/ Archive!EnsureDir(s, p) = [s EXCEPT !.error = "rejected"]
      \/ Archive!EnsureDir(s, p)
           = [s EXCEPT !.dirs = d \union missing, !.created = c \union missing]
  BY <1>2 DEF Archive!EnsureDir
<1> HIDE DEF missing
<1>5. \/ Archive!EnsureDir(s, p) = s
      \/ Archive!EnsureDir(s, p) = Written(w, f, d, t, c, "rejected")
      \/ Archive!EnsureDir(s, p) = Written(w, f, d \union missing, t, c \union missing, e)
  BY <1>1, <1>4 DEF Written
<1>6. Undone(w, f, d \union missing, t, c \union missing, dest, members)
  BY <1>1, <1>3 DEF Undone
<1> QED
  BY <1>1, <1>5, <1>6 DEF Undoable

LEMMA BodiesAreUndoable ==
    ASSUME NEW s, NEW dest, NEW members, Undoable(s, dest, members),
           NEW m \in Archive!ToSet(members)
    PROVE  Undoable(Archive!WriteBody(Archive!Noted(s, m), m), dest, members)
<1> DEFINE noted == Archive!Noted(s, m)
           body == IF m.reads = "ok" THEN m.body ELSE None
           out == Archive!WriteBody(noted, m)
<1>1. PICK w, f, d, t, c, e : s = Written(w, f, d, t, c, e) /\ Undone(w, f, d, t, c, dest, members)
  BY DEF Undoable
<1>2. s.files = f /\ s.dirs = d /\ s.touched = t
  BY <1>1 DEF Written
<1> DEFINE u == IF Archive!Exists(s, m.name) THEN t ELSE t \union {m.name}
           more == [p \in DOMAIN f \union {m.name} |-> IF p # m.name THEN f[p] ELSE body]
<1>3. noted = Written(w, f, d, u, c, e)
  BY <1>1, <1>2 DEF Archive!Noted, Written
<1>4. Archive!Exists(s, m.name) <=> m.name = <<>> \/ m.name \in DOMAIN f \/ m.name \in d
  BY <1>2 DEF Archive!Exists
<1>5. Undone(w, f, d, u, c, dest, members)
  BY <1>1, <1>4 DEF Undone
<1> HIDE DEF noted, u
<1>6. noted.files = f /\ noted.dirs = d
  BY <1>3 DEF Written
<1>7. \/ \E g : out = Written(w, f, d, u, c, g)
      \/ m.name # <<>> /\ m.name \notin d /\ \E g : out = Written(w, more, d, u, c, g)
  <2>1. CASE m.reads = "unopened" \/ Archive!IsDir(noted, m.name)
               \/ ~Archive!IsDir(noted, Archive!Parent(m.name))
    <3>1. out = [noted EXCEPT !.error = "rejected"]
      BY <2>1 DEF Archive!WriteBody
    <3>2. out = Written(w, f, d, u, c, "rejected")
      BY <1>3, <3>1 DEF Written
    <3> QED
      BY <3>2
  <2>2. CASE ~(m.reads = "unopened" \/ Archive!IsDir(noted, m.name)
                 \/ ~Archive!IsDir(noted, Archive!Parent(m.name)))
    <3> DEFINE g == CASE m.reads = "ok" -> None
                      [] m.reads = "corrupt" -> "rejected"
                      [] m.reads = "full" -> "fault"
    <3>1. out = [noted EXCEPT !.files = more, !.error = g]
      BY <1>6, <2>2 DEF Archive!WriteBody
    <3> HIDE DEF g, more
    <3>2. out = Written(w, more, d, u, c, g)
      BY <1>3, <3>1 DEF Written
    <3>3. m.name # <<>> /\ m.name \notin d
      BY <1>6, <2>2 DEF Archive!IsDir
    <3> QED
      BY <3>2, <3>3
  <2> QED
    BY <2>1, <2>2
<1>8. m.name # <<>> /\ m.name \notin d => Undone(w, more, d, u, c, dest, members)
  <2> SUFFICES ASSUME m.name # <<>>, m.name \notin d PROVE Undone(w, more, d, u, c, dest, members)
    OBVIOUS
  <2>1. m.name \in DOMAIN f \/ m.name \in u
    BY <1>4 DEF u
  <2>2. /\ DOMAIN more = DOMAIN f \union {m.name}
        /\ \A p \in DOMAIN f : p # m.name => more[p] = f[p]
    OBVIOUS
  <2> HIDE DEF more
  <2> QED
    BY <1>5, <2>1, <2>2 DEF Undone
<1> HIDE DEF out, more
<1> QED
  BY <1>5, <1>7, <1>8 DEF Undoable, out, noted

LEMMA MembersAreUndoable ==
    ASSUME NEW s, NEW dest, NEW members, Undoable(s, dest, members),
           NEW m \in Archive!ToSet(members)
    PROVE  Undoable(Archive!WriteMember(s, m), dest, members)
<1> DEFINE made == Archive!EnsureDir(s, Archive!Parent(m.name))
<1>1. Undoable(made, dest, members)
  BY DirsAreUndoable
<1> HIDE DEF made
<1>2. Undoable(Archive!WriteBody(Archive!Noted(made, m), m), dest, members)
  BY <1>1, BodiesAreUndoable
<1>3. \/ Archive!WriteMember(s, m) = s
      \/ Archive!WriteMember(s, m) = made
      \/ Archive!WriteMember(s, m) = Archive!WriteBody(Archive!Noted(made, m), m)
  BY DEF Archive!WriteMember, made
<1> QED
  BY <1>1, <1>2, <1>3

LEMMA WritingIsUndoable ==
    ASSUME NEW M, NEW members \in Seq(M), NEW dest, NEW g,
           Writes(g, Opened(dest), members, Len(members))
    PROVE  Undoable(g[Len(members)], dest, members)
<1> DEFINE T == {i \in Nat : i <= Len(members) /\ ~Undoable(g[i], dest, members)}
<1>1. Len(members) \in Nat
  OBVIOUS
<1>2. \A i \in 0 .. Len(members) :
         g[i] = IF i = 0 THEN Opened(dest) ELSE Archive!WriteMember(g[i - 1], members[i])
  BY DEF Writes
<1>3. T = {}
  <2> SUFFICES ASSUME T # {} PROVE FALSE
    OBVIOUS
  <2>1. PICK i \in T : \A y \in T : i <= y
    BY LeastNumber
  <2>2. i # 0
    <3>1. Undone(TRUE, dest.files, dest.dirs, {}, {}, dest, members)
      BY DEF Undone
    <3>2. Opened(dest) = Written(TRUE, dest.files, dest.dirs, {}, {}, None)
      BY DEF Opened, Written
    <3>3. Undoable(Opened(dest), dest, members)
      BY <3>1, <3>2 DEF Undoable
    <3> QED
      BY <1>1, <1>2, <2>1, <3>3
  <2>3. i \in 1 .. Len(members) /\ i - 1 \in Nat /\ i - 1 <= Len(members)
    BY <1>1, <2>1, <2>2
  <2>4. Undoable(g[i - 1], dest, members)
    <3>1. i - 1 \notin T
      BY <2>1, <2>3
    <3> QED
      BY <2>3, <3>1
  <2>5. members[i] \in Archive!ToSet(members)
    BY <2>3 DEF Archive!ToSet
  <2>6. Undoable(Archive!WriteMember(g[i - 1], members[i]), dest, members)
    BY <2>4, <2>5, MembersAreUndoable
  <2> QED
    BY <1>2, <2>1, <2>3, <2>6
<1> QED
  BY <1>1, <1>3

\* Extracting is all or nothing (RejectedLeavesNothing), into any tree, for an archive of any
\* members, wherever one of them fails.
THEOREM RejectedIsUndone ==
    ASSUME NEW M, NEW archive, archive.members \in Seq(M), NEW dest, Tree(dest)
    PROVE  Archive!RejectedLeavesNothing(archive, dest)
<1> DEFINE members == archive.members
           out == Archive!ExtractUpload(archive, dest)
<1> SUFFICES ASSUME out.error # None
             PROVE  /\ out.there = dest.there /\ DOMAIN out.files = DOMAIN dest.files
                    /\ out.dirs = dest.dirs
                    /\ \A p \in DOMAIN dest.files :
                          out.files[p] = dest.files[p] \/ \E m \in Archive!ToSet(members) :
                          m.name = p
  BY DEF Archive!RejectedLeavesNothing
<1>1. PICK g : /\ Writes(g, Opened(dest), members, Len(members))
               /\ out = LET done == g[Len(members)]
                        IN CASE ~Archive!Acceptable(archive) ->
                                  [Opened(dest) EXCEPT !.there = dest.there, !.error = "rejected"]
                             [] Archive!Acceptable(archive) /\ done.error = None -> done
                             [] OTHER -> Archive!Cleanup(done, dest)
  BY ExtractedIsWritten
<1> DEFINE s == g[Len(members)]
<1>2. Undoable(s, dest, members)
  BY <1>1, WritingIsUndoable
<1> HIDE DEF members, out, s
<1>3. PICK w, f, d, t, c, e : s = Written(w, f, d, t, c, e) /\ Undone(w, f, d, t, c, dest, members)
  BY <1>2 DEF Undoable
<1>4. CASE ~Archive!Acceptable(archive)
  <2>1. out = [Opened(dest) EXCEPT !.there = dest.there, !.error = "rejected"]
    BY <1>1, <1>4
  <2> QED
    BY <2>1 DEF Opened
<1>5. CASE Archive!Acceptable(archive) /\ ~dest.there
  <2>1. out = [s EXCEPT !.there = FALSE, !.files = <<>>, !.dirs = {}]
    BY <1>1, <1>5 DEF s, Archive!Cleanup
  <2>2. out = [there |-> FALSE, files |-> <<>>, dirs |-> {}, touched |-> t, created |-> c,
               error |-> e]
    BY <1>3, <2>1 DEF Written
  <2>3. DOMAIN out.files = {} /\ out.dirs = {} /\ out.there = FALSE
    BY <2>2
  <2> QED
    BY <1>5, <2>3 DEF Tree
<1>6. CASE Archive!Acceptable(archive) /\ dest.there
  <2> DEFINE back == [p \in DOMAIN f \ t |-> f[p]]
             kept == {x \in d : \/ x \notin c
                                \/ \E p \in DOMAIN back : x \in Archive!Prefixed(p)
                                \/ \E y \in d \ c : x \in Archive!Prefixed(y)}
  <2>1. s.files = f /\ s.touched = t
    BY <1>3 DEF Written
  <2>2. out = Archive!RemoveEmptyDirs([s EXCEPT !.files = back])
    BY <1>1, <1>6, <2>1 DEF s, Archive!Cleanup
  <2>3. DOMAIN back = DOMAIN dest.files /\ \A p \in DOMAIN back : back[p] = f[p]
    BY <1>3 DEF Undone
  <2> HIDE DEF back
  <2>4. [s EXCEPT !.files = back] = Written(w, back, d, t, c, e)
    <3>1. [Written(w, f, d, t, c, e) EXCEPT !.files = back] = Written(w, back, d, t, c, e)
      BY WrittenAgain
    <3> QED
      BY <1>3, <3>1
  <2>5. out = [Written(w, back, d, t, c, e) EXCEPT !.dirs = kept]
    <3> DEFINE x == Written(w, back, d, t, c, e)
    <3>1. x.files = back /\ x.dirs = d /\ x.created = c
      BY DEF Written
    <3>2. out = Archive!RemoveEmptyDirs(x)
      BY <2>2, <2>4
    <3> DEFINE k == {y \in x.dirs : \/ y \notin x.created
                                    \/ \E p \in DOMAIN x.files : y \in Archive!Prefixed(p)
                                    \/ \E z \in x.dirs \ x.created : y \in Archive!Prefixed(z)}
    <3> HIDE DEF x
    <3>3. Archive!RemoveEmptyDirs(x) = [x EXCEPT !.dirs = k]
      BY <3>1 DEF Archive!RemoveEmptyDirs
    <3>4. k = kept
      BY <3>1, Zenon
    <3> QED
      BY <3>2, <3>3, <3>4 DEF x
  <2> HIDE DEF kept
  <2>6. out.there = TRUE /\ out.files = back /\ out.dirs = kept
    <3>1. out = Written(w, back, kept, t, c, e)
      BY <2>5 DEF Written
    <3> QED
      BY <1>3, <3>1 DEF Written, Undone
  <2>7. kept = dest.dirs
    <3>1. d \ c = dest.dirs
      BY <1>3 DEF Undone
    <3>2. ASSUME NEW x \in c, NEW p \in DOMAIN dest.files \union dest.dirs
          PROVE  x \notin Archive!Prefixed(p)
      BY <1>3 DEF Undone, Tree
    <3> QED
      BY <2>3, <3>1, <3>2 DEF kept
  <2> QED
    BY <1>3, <1>6, <2>3, <2>6, <2>7 DEF Undone, Tree
<1> QED
  BY <1>4, <1>5, <1>6 DEF Tree

-----------------------------------------------------------------------------
(* Restoring a backup *)

\* s lists the members of S, each once.
Enumerates(s, S, n) ==
    /\ s \in [1 .. n -> S]
    /\ \A i, j \in 1 .. n : s[i] = s[j] => i = j
    /\ \A x \in S : \E i \in 1 .. n : s[i] = x

LEMMA SetToSeqEnumerates ==
    ASSUME NEW S, IsFiniteSet(S)
    PROVE  Cardinality(S) \in Nat /\ Enumerates(Archive!SetToSeq(S), S, Cardinality(S))
<1>1. Cardinality(S) \in Nat /\ ExistsBijection(1 .. Cardinality(S), S)
  BY FS_CardinalityType
<1>2. PICK n \in Nat : n = Cardinality(S)
  BY <1>1
<1>3. PICK s : s = Archive!SetToSeq(S)
  OBVIOUS
<1>4. s \in [1 .. n -> S] /\ IsInjective(s)
  <2>1. \E f \in [1 .. Cardinality(S) -> S] : Archive!IsInjective(f)
    BY <1>1 DEF ExistsBijection, Bijection, Injection, IsInjective, Archive!IsInjective
  <2>2. s \in [1 .. Cardinality(S) -> S] /\ Archive!IsInjective(s)
    <3>1. Archive!Cardinality(S) = Cardinality(S)
      BY DEF Archive!Cardinality, Cardinality
    <3> QED
      BY <1>3, <2>1, <3>1, Zenon DEF Archive!SetToSeq
  <2> QED
    BY <1>2, <2>2 DEF IsInjective, Archive!IsInjective
<1>5. IsFiniteSet(1 .. n) /\ Cardinality(1 .. n) = n
  BY FS_Interval
<1>6. s \in Surjection(1 .. n, S)
  <2>1. s \in Injection(1 .. n, S)
    BY <1>4 DEF Injection
  <2> QED
    BY <1>2, <1>5, <2>1, FS_Injection
<1>7. \A x \in S : \E i \in 1 .. n : s[i] = x
  BY <1>6 DEF Surjection
<1>8. \A i, j \in 1 .. n : s[i] = s[j] => i = j
  BY <1>4 DEF IsInjective
<1>9. Enumerates(s, S, n)
  BY <1>4, <1>7, <1>8 DEF Enumerates
<1> QED
  BY <1>2, <1>3, <1>9

\* What is acceptable of an archive whose members count for one each.
LEMMA PlainIsAcceptable ==
    ASSUME NEW archive, archive.zip = TRUE, NEW n \in Nat, Len(archive.members) = n,
           n <= MaxMembers, n <= MaxTotal, n # 0, DOMAIN archive.members = 1 .. n,
           \A i \in 1 .. n : /\ archive.members[i].size = 1
                             /\ archive.members[i].shape = "plain"
                             /\ archive.members[i].kind = "file"
    PROVE  Archive!Acceptable(archive)
<1> DEFINE members == archive.members
           total == CHOOSE t : t = [i \in 0 .. n |-> IF i =
           0 THEN 0 ELSE t[i - 1] + members[i].size]
<1>1. total = [i \in 0 .. n |-> IF i = 0 THEN 0 ELSE total[i - 1] + members[i].size]
  <2> DEFINE t == [i \in 0 .. n |-> i]
  <2>1. \A i \in 0 .. n : t[i] = IF i = 0 THEN 0 ELSE t[i - 1] + members[i].size
    OBVIOUS
  <2>2. t = [i \in 0 .. n |-> IF i = 0 THEN 0 ELSE t[i - 1] + members[i].size]
    BY <2>1
  <2> QED
    BY <2>2
<1> HIDE DEF total
<1>2. \A i \in 0 .. n : total[i] = i
  <2> DEFINE T == {i \in Nat : i <= n /\ total[i] # i}
  <2> SUFFICES ASSUME T # {} PROVE FALSE
    OBVIOUS
  <2>1. PICK i \in T : \A y \in T : i <= y
    BY LeastNumber
  <2>2. i # 0 /\ i - 1 \in Nat /\ i - 1 \notin T
    BY <1>1, <2>1
  <2> QED
    BY <1>1, <2>1, <2>2
<1>3. Archive!ToSet(archive.members) = {archive.members[i] : i \in 1 .. n}
  BY DEF Archive!ToSet
<1>4. \A m \in Archive!ToSet(archive.members) : Archive!CheckMember(m) /\ m.kind = "file"
  BY <1>3 DEF Archive!CheckMember
<1>5. \E m \in Archive!ToSet(archive.members) : m.kind = "file"
  BY <1>3
<1>6. total[n] <= MaxTotal
  BY <1>2
<1> QED
  BY <1>4, <1>5, <1>6 DEF Archive!Acceptable, total

\* The directories on the way to a path.
OnTheWay(p) == {SubSeq(p, 1, i) : i \in 1 .. Len(p) - 1}

LEMMA PathsOnTheWay ==
    ASSUME NEW M, NEW p \in Seq(M), p # <<>>
    PROVE  /\ Archive!Parent(p) = <<>> \/ Archive!Parent(p) \in Archive!Prefixed(Archive!Parent(p))
           /\ Archive!Prefixed(Archive!Parent(p)) \subseteq OnTheWay(p)
           /\ Len(Archive!Parent(p)) \in Nat
           /\ \A q \in OnTheWay(p) :
                 /\ Len(q) \in Nat /\ Len(q) <= Len(Archive!Parent(p)) /\ q # <<>>
                 /\ Archive!Parent(q) = <<>> \/ Archive!Parent(q) \in OnTheWay(p)
<1> DEFINE up == Archive!Parent(p)
<1>1. Len(p) \in Nat /\ Len(p) >= 1
  BY EmptySeq
<1>2. up \in Seq(M) /\ Len(up) = Len(p) - 1 /\ up = SubSeq(p, 1, Len(p) - 1)
  <2>1. 1 \in Int /\ Len(p) - 1 \in Int /\ \A j \in 1 .. Len(p) - 1 : p[j] \in M
    BY <1>1
  <2>2. /\ SubSeq(p, 1, Len(p) - 1) \in Seq(M)
        /\ Len(SubSeq(p, 1, Len(p) - 1)) = IF 1 <= Len(p) - 1 THEN Len(p) - 1 - 1 + 1 ELSE 0
    BY <2>1, SubSeqProperties
  <2>3. up = SubSeq(p, 1, Len(p) - 1)
    BY DEF Archive!Parent
  <2> HIDE DEF up
  <2>4. ASSUME NEW l \in Nat, l >= 1
        PROVE  (IF 1 <= l - 1 THEN l - 1 - 1 + 1 ELSE 0) = l - 1
    BY <2>4
  <2> QED
    BY <1>1, <2>2, <2>3, <2>4
<1>3. \A i \in 1 .. Len(p) - 1 : SubSeq(p, 1, i) \in Seq(M) /\ Len(SubSeq(p, 1, i)) = i
  <2> TAKE i \in 1 .. Len(p) - 1
  <2>1. i \in Int /\ 1 \in Int /\ \A j \in 1 .. i : p[j] \in M
    BY <1>1
  <2> QED
    BY <2>1, SubSeqProperties
<1>4. \A i \in 1 .. Len(p) - 1 : \A j \in 1 .. i :
         SubSeq(SubSeq(p, 1, i), 1, j) = SubSeq(p, 1, j)
  <2> TAKE i \in 1 .. Len(p) - 1
  <2> TAKE j \in 1 .. i
  <2>1. 1 \in 1 .. Len(p) /\ i \in 1 .. Len(p) /\ 1 \in 1 .. i - 1 + 1 /\ j \in 1 .. i - 1 + 1
    BY <1>1
  <2>2. SubSeq(SubSeq(p, 1, i), 1, j) = SubSeq(p, 1 + 1 - 1, 1 + j - 1)
    BY <2>1, SubSeqOfSubSeq
  <2> QED
    BY <2>2
<1>5. Archive!Prefixed(up) \subseteq OnTheWay(p)
  <2> SUFFICES ASSUME NEW j \in 1 .. Len(up) PROVE SubSeq(up, 1, j) \in OnTheWay(p)
    BY DEF Archive!Prefixed
  <2>1. Len(p) - 1 \in 1 .. Len(p) - 1 /\ j \in 1 .. Len(p) - 1
    BY <1>1, <1>2
  <2>2. SubSeq(up, 1, j) = SubSeq(p, 1, j)
    BY <1>2, <1>4, <2>1, SMTT(40)
  <2> QED
    BY <2>1, <2>2 DEF OnTheWay
<1>6. up = <<>> \/ up \in Archive!Prefixed(up)
  <2> SUFFICES ASSUME up # <<>> PROVE up \in Archive!Prefixed(up)
    OBVIOUS
  <2>1. Len(up) \in 1 .. Len(up) /\ up = SubSeq(up, 1, Len(up))
    BY <1>2, EmptySeq, SubSeqFull
  <2> QED
    BY <2>1 DEF Archive!Prefixed
<1>7. ASSUME NEW q \in OnTheWay(p)
      PROVE  /\ Len(q) \in Nat /\ Len(q) <= Len(up) /\ q # <<>>
             /\ Archive!Parent(q) = <<>> \/ Archive!Parent(q) \in OnTheWay(p)
  <2>1. PICK i \in 1 .. Len(p) - 1 : q = SubSeq(p, 1, i)
    BY DEF OnTheWay
  <2>2. q \in Seq(M) /\ Len(q) = i
    BY <1>3, <2>1
  <2>3. Archive!Parent(q) = SubSeq(q, 1, i - 1)
    BY <2>2 DEF Archive!Parent
  <2>4. Len(q) \in Nat /\ Len(q) <= Len(up) /\ q # <<>>
    BY <1>1, <1>2, <2>2, EmptySeq
  <2>5. CASE i = 1
    <3>1. SubSeq(q, 1, i - 1) = <<>>
      BY <2>5, SubSeqEmpty
    <3> QED
      BY <2>3, <2>4, <3>1
  <2>6. CASE i # 1
    <3>1. i - 1 \in 1 .. i /\ i - 1 \in 1 .. Len(p) - 1
      BY <1>1, <2>6
    <3>2. Archive!Parent(q) = SubSeq(p, 1, i - 1)
      BY <1>4, <2>1, <2>3, <3>1
    <3>3. Archive!Parent(q) \in OnTheWay(p)
      BY <3>1, <3>2 DEF OnTheWay
    <3> QED
      BY <2>4, <3>3
  <2> QED
    BY <2>5, <2>6
<1> QED
  BY <1>2, <1>5, <1>6, <1>7

\* A set of paths none of which is on the way to another.
Leaves(F, M) ==
    /\ F \subseteq Seq(M) /\ <<>> \notin F
    /\ \A p \in F : OnTheWay(p) \cap F = {}

\* A destination that holds some of the files F, as T has them, and directories on their way.
Laid(s, T, F, done) ==
    \E w, d, t, c : /\ s = Written(w, [p \in done |-> T[p]], d, t, c, None)
                    /\ d \subseteq UNION {OnTheWay(p) : p \in F}

LEMMA LevelsAreMade ==
    ASSUME NEW M, NEW F, Leaves(F, M), NEW T, NEW done, done \subseteq F,
           NEW s, Laid(s, T, F, done), NEW p \in F
    PROVE  LET made == Archive!EnsureDir(s, Archive!Parent(p))
           IN Laid(made, T, F, done) /\ Archive!IsDir(made, Archive!Parent(p))
<1> DEFINE up == Archive!Parent(p)
           P == Archive!Prefixed(up)
           ways == UNION {OnTheWay(q) : q \in F}
           f == [q \in done |-> T[q]]
           made == Archive!EnsureDir(s, up)
<1>1. p \in Seq(M) /\ p # <<>>
  BY DEF Leaves
<1>2. /\ up = <<>> \/ up \in P
      /\ P \subseteq OnTheWay(p)
      /\ Len(up) \in Nat
      /\ \A q \in OnTheWay(p) : /\ Len(q) \in Nat /\ Len(q) <= Len(up) /\ q # <<>>
                                /\ Archive!Parent(q) = <<>> \/ Archive!Parent(q) \in OnTheWay(p)
  BY <1>1, PathsOnTheWay
<1>3. P \subseteq ways /\ P \cap F = {} /\ <<>> \notin F
  BY <1>2 DEF Leaves
<1>4. PICK w, d, t, c : s = Written(w, f, d, t, c, None) /\ d \subseteq ways
  BY DEF Laid
<1> DEFINE missing == {q \in P : ~Archive!Exists(s, q) /\ \A r \in P :
                                    Len(r) > Len(q) => ~Archive!Exists(s, r)}
<1>5. s.files = f /\ s.dirs = d /\ s.created = c
  BY <1>4 DEF Written
<1>6. \A q \in P : Archive!Exists(s, q) <=> q \in d
  BY <1>2, <1>3, <1>5 DEF Archive!Exists
<1>7. up = <<>> \/ up \in d \/ up \in missing
  <2> SUFFICES ASSUME up # <<>>, up \notin d PROVE up \in missing
    OBVIOUS
  <2>1. up \in P /\ ~Archive!Exists(s, up)
    BY <1>2, <1>6
  <2>2. \A r \in P : ~(Len(r) > Len(up))
    <3> TAKE r \in P
    <3>1. Len(r) <= Len(up)
      BY <1>2
    <3>2. Len(up) \in Nat /\ Len(r) \in Nat
      BY <1>2
    <3> QED
      BY <3>1, <3>2
  <2> QED
    BY <2>1, <2>2
<1>8. \A q \in missing : Archive!Parent(q) \notin DOMAIN s.files
  <2> TAKE q \in missing
  <2>1. Archive!Parent(q) = <<>> \/ Archive!Parent(q) \in OnTheWay(p)
    BY <1>2
  <2> QED
    BY <1>3, <1>5, <2>1 DEF Leaves
<1>9. \/ missing = {} /\ made = s
      \/ made = [s EXCEPT !.dirs = d \union missing, !.created = c \union missing]
  BY <1>5, <1>8 DEF Archive!EnsureDir
<1> HIDE DEF missing, made, f, up
<1>10. CASE missing = {} /\ made = s
  <2>1. up = <<>> \/ up \in d
    BY <1>7, <1>10
  <2>2. Archive!IsDir(made, up)
    BY <1>5, <1>10, <2>1 DEF Archive!IsDir
  <2> QED
    BY <1>10, <2>2 DEF made, up
<1>11. CASE made = [s EXCEPT !.dirs = d \union missing, !.created = c \union missing]
  <2>1. made = Written(w, f, d \union missing, t, c \union missing, None)
    BY <1>4, <1>11 DEF Written
  <2>2. made.dirs = d \union missing
    BY <2>1 DEF Written
  <2>3. Archive!IsDir(made, up)
    BY <1>7, <2>2 DEF Archive!IsDir
  <2>4. d \union missing \subseteq ways
    BY <1>3, <1>4 DEF missing
  <2>5. Laid(made, T, F, done)
    BY <2>1, <2>4 DEF Laid, f
  <2> QED
    BY <2>3, <2>5 DEF made, up
<1> QED
  BY <1>9, <1>10, <1>11

LEMMA FilesAreLaid ==
    ASSUME NEW M, NEW F, Leaves(F, M), NEW T, NEW done, done \subseteq F,
           NEW s, Laid(s, T, F, done), NEW m, m.name \in F, m.kind = "file", m.reads = "ok",
           m.body = T[m.name]
    PROVE  Laid(Archive!WriteMember(s, m), T, F, done \union {m.name})
<1> DEFINE p == m.name
           made == Archive!EnsureDir(s, Archive!Parent(p))
           noted == Archive!Noted(made, m)
           f == [q \in done |-> T[q]]
           more == [q \in DOMAIN f \union {p} |-> IF q # p THEN f[q] ELSE m.body]
           out == Archive!WriteBody(noted, m)
<1>1. Laid(made, T, F, done) /\ Archive!IsDir(made, Archive!Parent(p))
  BY LevelsAreMade
<1> HIDE DEF made
<1>2. PICK w, d, t, c : /\ made = Written(w, f, d, t, c, None)
                        /\ d \subseteq UNION {OnTheWay(q) : q \in F}
  BY <1>1 DEF Laid
<1>3. Archive!WriteMember(s, m) = out
  <2>1. s.error = None /\ made.error = None
    BY <1>2 DEF Laid, Written
  <2> QED
    BY <2>1 DEF Archive!WriteMember, made
<1>4. p # <<>> /\ p \notin d
  <2>1. \A q \in F : p \notin OnTheWay(q)
    BY DEF Leaves
  <2> QED
    BY <1>2, <2>1 DEF Leaves
<1>5. PICK u : noted = Written(w, f, d, u, c, None)
  BY <1>2 DEF Archive!Noted, Written
<1>6. noted.files = f /\ noted.dirs = d /\ made.dirs = d
  BY <1>2, <1>5 DEF Written
<1>7. ~Archive!IsDir(noted, p) /\ Archive!IsDir(noted, Archive!Parent(p))
  BY <1>1, <1>4, <1>6 DEF Archive!IsDir
<1>8. more = [q \in done \union {p} |-> T[q]]
  OBVIOUS
<1> HIDE DEF noted
<1>9. out = [noted EXCEPT !.files = more, !.error = None]
  BY <1>6, <1>7 DEF Archive!WriteBody
<1> HIDE DEF f, more, out
<1>10. out = Written(w, more, d, u, c, None)
  BY <1>5, <1>9 DEF Written
<1> QED
  BY <1>2, <1>3, <1>8, <1>10 DEF Laid

\* The names of the first members.
Named(members, i) == {members[j].name : j \in 1 .. i}

\* An archive of members that can be read, each of them as T has it, and none on the way to
\* another: it is extracted as it is.
LEMMA ExtractedAsPacked ==
    ASSUME NEW M, NEW F, Leaves(F, M), NEW T, DOMAIN T = F, T = [p \in F |-> T[p]],
           NEW archive, archive.members \in Seq(Archive!ToSet(archive.members)),
           {m.name : m \in Archive!ToSet(archive.members)} = F, Archive!Acceptable(archive),
           \A m \in Archive!ToSet(archive.members) :
              m.kind = "file" /\ m.reads = "ok" /\ m.body = T[m.name]
    PROVE  LET out == Archive!ExtractUpload(archive, Archive!Fresh)
           IN out.error = None /\ out.files = T
<1> DEFINE members == archive.members
           n == Len(members)
           out == Archive!ExtractUpload(archive, Archive!Fresh)
<1>1. n \in Nat /\ Archive!ToSet(members) = {members[i] : i \in 1 .. n}
  <2>1. n \in Nat /\ DOMAIN members = 1 .. n
    OBVIOUS
  <2> QED
    BY <2>1 DEF Archive!ToSet
<1>2. PICK g : /\ Writes(g, Opened(Archive!Fresh), members, n)
               /\ out = LET done == g[n]
                        IN CASE ~Archive!Acceptable(archive) ->
                                  [Opened(Archive!Fresh) EXCEPT !.there = Archive!Fresh.there,
                                                                !.error = "rejected"]
                             [] Archive!Acceptable(archive) /\ done.error = None -> done
                             [] OTHER -> Archive!Cleanup(done, Archive!Fresh)
  BY ExtractedIsWritten
<1>3. \A i \in 0 .. n :
         g[i] = IF i = 0 THEN Opened(Archive!Fresh)
                ELSE Archive!WriteMember(g[i - 1], members[i])
  BY <1>2 DEF Writes
<1> HIDE DEF out, n
<1>4. \A i \in 0 .. n : Laid(g[i], T, F, Named(members, i))
  <2> DEFINE B == {i \in Nat : i <= n /\ ~Laid(g[i], T, F, Named(members, i))}
  <2> SUFFICES ASSUME B # {} PROVE FALSE
    OBVIOUS
  <2>1. PICK i \in B : \A y \in B : i <= y
    BY LeastNumber
  <2>2. i # 0
    <3>1. Opened(Archive!Fresh) = Written(TRUE, <<>>, {}, {}, {}, None)
      BY DEF Opened, Archive!Fresh, Written
    <3>2. Named(members, 0) = {} /\ <<>> = [p \in Named(members, 0) |-> T[p]]
      BY DEF Named
    <3>3. Laid(Opened(Archive!Fresh), T, F, Named(members, 0))
      BY <3>1, <3>2 DEF Laid
    <3> QED
      BY <1>1, <1>3, <2>1, <3>3
  <2>3. i \in 1 .. n /\ i - 1 \in Nat /\ i - 1 <= n /\ i - 1 \notin B
    BY <1>1, <2>1, <2>2
  <2>4. Laid(g[i - 1], T, F, Named(members, i - 1))
    BY <2>3
  <2>5. /\ members[i] \in Archive!ToSet(members) /\ members[i].name \in F
        /\ Named(members, i - 1) \subseteq F /\ Named(members, i) =
           Named(members, i - 1) \union {members[i].name}
    BY <1>1, <2>3 DEF Named
  <2>6. Laid(Archive!WriteMember(g[i - 1], members[i]), T, F,
             Named(members, i - 1) \union {members[i].name})
    BY <2>4, <2>5, FilesAreLaid
  <2>7. i \in 0 .. n /\ g[i] = Archive!WriteMember(g[i - 1], members[i])
    BY <1>1, <1>3, <2>2, <2>3
  <2>8. Laid(g[i], T, F, Named(members, i))
    BY <2>5, <2>6, <2>7
  <2> QED
    BY <2>1, <2>8
<1>5. Named(members, n) = F
  BY <1>1 DEF Named
<1>6. Laid(g[n], T, F, F)
  <2>1. n \in 0 .. n
    BY <1>1
  <2> QED
    BY <1>4, <1>5, <2>1
<1>7. g[n].error = None /\ g[n].files = T
  BY <1>6 DEF Laid, Written
<1> QED
  BY <1>2, <1>7 DEF out, n

\* The names in the paths of an export.
NamesOf(inst) ==
    {"config.yaml", "profile.md", "resume.md", "resume", "content.json", "evidence.json",
     "facts.yaml", "templates"} \union DOMAIN inst.packs
        \union UNION {DOMAIN inst.packs[n] : n \in DOMAIN inst.packs}

Single(p) == \E a \in {"config.yaml", "profile.md", "resume.md"} : p = <<a>>
Double(p) == \E b \in {"content.json", "evidence.json", "facts.yaml"} : p = <<"resume", b>>

LEMMA PathsApart ==
    /\ \A k \in Archive!Kinds : Single(Archive!DocumentFile(k)) \/ Double(Archive!DocumentFile(k))
    /\ Single(Archive!ConfigFile)
    /\ \A k \in Archive!Kinds : Archive!DocumentFile(k) # Archive!ConfigFile
    /\ \A j, k \in Archive!Kinds : Archive!DocumentFile(j) = Archive!DocumentFile(k) => j = k
    /\ \A p, n, f : p = Archive!PackFile(n, f)
                       => ~Single(p) /\ ~Double(p) /\ Len(p) = 4 /\ p[3] = n /\ p[4] = f
<1>1. \A k \in Archive!Kinds : Single(Archive!DocumentFile(k)) \/ Double(Archive!DocumentFile(k))
  BY DEF Archive!Kinds, Archive!DocumentFile, Single, Double
<1>2. Single(Archive!ConfigFile)
  BY DEF Archive!ConfigFile, Single
<1>3. \A k \in Archive!Kinds : Archive!DocumentFile(k) # Archive!ConfigFile
  BY DEF Archive!Kinds, Archive!DocumentFile, Archive!ConfigFile
<1>4. \A j, k \in Archive!Kinds : Archive!DocumentFile(j) = Archive!DocumentFile(k) => j = k
  BY DEF Archive!Kinds, Archive!DocumentFile
<1>5. ASSUME NEW p, NEW n, NEW f, p = Archive!PackFile(n, f)
      PROVE  ~Single(p) /\ ~Double(p) /\ Len(p) = 4 /\ p[3] = n /\ p[4] = f
  BY <1>5 DEF Archive!PackFile, Single, Double
<1> QED
  BY <1>1, <1>2, <1>3, <1>4, <1>5

\* A file of a pack that is exported.
Packed(inst, n, f) == n \in Archive!WholePacks(inst.packs) /\ f \in DOMAIN inst.packs[n]

\* What an export has, and where.
ExportOf(inst, T) ==
    /\ T = [p \in DOMAIN T |-> T[p]]
    /\ \A p \in DOMAIN T :
          \/ p = Archive!ConfigFile
          \/ \E k \in Archive!Kinds : inst.documents[k] # None /\ p = Archive!DocumentFile(k)
          \/ \E n, f : Packed(inst, n, f) /\ p = Archive!PackFile(n, f)
    /\ Archive!ConfigFile \in DOMAIN T
    /\ \E yes, no : /\ T[Archive!ConfigFile]
                        = [readable |-> yes, valid |-> yes, settings |-> inst.settings,
                           secrets |-> no, legacy |-> <<>>]
                    /\ yes = TRUE
    /\ \A k \in Archive!Kinds :
          /\ Archive!DocumentFile(k) \in DOMAIN T <=> inst.documents[k] # None
          /\ inst.documents[k] # None => T[Archive!DocumentFile(k)] = inst.documents[k]
    /\ \A n, f : /\ Archive!PackFile(n, f) \in DOMAIN T <=> Packed(inst, n, f)
                 /\ Packed(inst, n, f) => T[Archive!PackFile(n, f)] = inst.packs[n][f]

LEMMA ExportHolds ==
    ASSUME NEW inst
    PROVE  ExportOf(inst, Archive!ExportDir(inst, inst))
<1> DEFINE T == Archive!ExportDir(inst, inst)
           docs == {k \in Archive!Kinds : inst.documents[k] # None}
           packs == Archive!CopyPacks(inst.packs, <<>>, None)
           packed == UNION {{Archive!PackFile(n, f) : f \in DOMAIN packs[n]} : n \in DOMAIN packs}
           files == {Archive!ConfigFile} \union {Archive!DocumentFile(k) : k \in docs} \union packed
           config == [readable |-> TRUE, valid |-> TRUE, settings |-> inst.settings,
                      secrets |-> FALSE, legacy |-> <<>>]
           held(p) == IF p = Archive!ConfigFile THEN config
                      ELSE IF \E k \in docs : p = Archive!DocumentFile(k)
                      THEN inst.documents[CHOOSE k \in docs : p = Archive!DocumentFile(k)]
                      ELSE packs[p[3]][p[4]]
<1>1. T = [p \in files |-> held(p)]
  BY DEF Archive!ExportDir
<1> HIDE DEF T
<1>2. \E yes, no : /\ config = [readable |-> yes, valid |-> yes, settings |-> inst.settings,
                                secrets |-> no, legacy |-> <<>>]
                   /\ yes = TRUE
  OBVIOUS
<1>9. /\ DOMAIN packs = Archive!WholePacks(inst.packs)
      /\ \A n \in DOMAIN packs : packs[n] = inst.packs[n]
  <2>1. DOMAIN <<>> = {}
    OBVIOUS
  <2> QED
    BY <2>1 DEF Archive!CopyPacks
<1> HIDE DEF config, packs
<1>10. ASSUME NEW p
       PROVE  p \in packed <=> \E n, f : Packed(inst, n, f) /\ p = Archive!PackFile(n, f)
  BY <1>9 DEF Packed
<1> HIDE DEF packed
<1>3. DOMAIN T = files
  BY <1>1
<1>4. Archive!ConfigFile \in files /\ T[Archive!ConfigFile] = config
  BY <1>1
<1>5. ASSUME NEW k \in Archive!Kinds
      PROVE  /\ Archive!DocumentFile(k) \in files <=> inst.documents[k] # None
             /\ inst.documents[k] # None => T[Archive!DocumentFile(k)] = inst.documents[k]
  <2>1. Archive!DocumentFile(k) \in files <=> k \in docs
    <3>1. \A n, f : Archive!DocumentFile(k) # Archive!PackFile(n, f)
      BY PathsApart
    <3>2. Archive!DocumentFile(k) \notin packed
      BY <1>10, <3>1
    <3> QED
      BY <3>2, PathsApart
  <2>2. ASSUME k \in docs PROVE T[Archive!DocumentFile(k)] = inst.documents[k]
    <3> DEFINE j == CHOOSE j \in docs : Archive!DocumentFile(k) = Archive!DocumentFile(j)
    <3>1. j \in docs /\ Archive!DocumentFile(k) = Archive!DocumentFile(j)
      BY <2>2
    <3>2. j = k
      BY <3>1, PathsApart, ZenonT(40)
    <3>3. Archive!DocumentFile(k) \in files /\ Archive!DocumentFile(k) # Archive!ConfigFile
      BY <2>1, <2>2, PathsApart
    <3>4. T[Archive!DocumentFile(k)] = inst.documents[j]
      BY <1>1, <2>2, <3>3
    <3> QED
      BY <3>2, <3>4
  <2> QED
    BY <2>1, <2>2
<1>6. ASSUME NEW n, NEW f
      PROVE  /\ Archive!PackFile(n, f) \in files <=> Packed(inst, n, f)
             /\ Packed(inst, n, f) => T[Archive!PackFile(n, f)] = inst.packs[n][f]
  <2> DEFINE p == Archive!PackFile(n, f)
  <2>1. /\ p # Archive!ConfigFile /\ p[3] = n /\ p[4] = f
        /\ \A k \in Archive!Kinds : p # Archive!DocumentFile(k)
    BY PathsApart
  <2>2. \A m, g : p = Archive!PackFile(m, g) => m = n /\ g = f
    BY PathsApart
  <2>5. p \in packed <=> Packed(inst, n, f)
    BY <1>10, <2>2
  <2>3. p \in files <=> Packed(inst, n, f)
    BY <2>1, <2>5
  <2>4. ASSUME Packed(inst, n, f) PROVE T[p] = inst.packs[n][f]
    <3>1. T[p] = held(p)
      BY <1>1, <2>3, <2>4
    <3>2. held(p) = packs[n][f]
      BY <2>1
    <3> QED
      BY <1>9, <2>4, <3>1, <3>2 DEF Packed
  <2> QED
    BY <2>3, <2>4
<1>7. \A p \in files :
         \/ p = Archive!ConfigFile
         \/ \E k \in Archive!Kinds : inst.documents[k] # None /\ p = Archive!DocumentFile(k)
         \/ \E n, f : Packed(inst, n, f) /\ p = Archive!PackFile(n, f)
  BY <1>10
<1> HIDE DEF files, docs, held
<1>8. T = [p \in DOMAIN T |-> T[p]]
  BY <1>1
<1> QED
  BY <1>2, <1>3, <1>4, <1>5, <1>6, <1>7, <1>8 DEF T, ExportOf

LEMMA PathsAreLists ==
    ASSUME NEW S, NEW a \in S, NEW b \in S, NEW c \in S, NEW d \in S
    PROVE  /\ <<a>> \in Seq(S) /\ <<a>> # <<>> /\ <<a, b>> \in Seq(S) /\ <<a, b>> # <<>>
           /\ <<a, b, c, d>> \in Seq(S) /\ <<a, b, c, d>> # <<>>
OBVIOUS

LEMMA ExportsAreLeaves ==
    ASSUME NEW inst
    PROVE  Leaves(DOMAIN Archive!ExportDir(inst, inst), NamesOf(inst))
<1> DEFINE F == DOMAIN Archive!ExportDir(inst, inst)
           OfPack(p) == \E n \in DOMAIN inst.packs : \E f \in DOMAIN inst.packs[n] :
                           p = <<"resume", "templates", n, f>>
<1>1. \A p \in F : Single(p) \/ Double(p) \/ OfPack(p)
  <2> DEFINE T == Archive!ExportDir(inst, inst)
  <2>3. ExportOf(inst, T)
    BY ExportHolds
  <2> TAKE p \in DOMAIN T
  <2> HIDE DEF T
  <2>1. \/ p = Archive!ConfigFile
        \/ \E k \in Archive!Kinds : p = Archive!DocumentFile(k)
        \/ \E n, f : Packed(inst, n, f) /\ p = Archive!PackFile(n, f)
    BY <2>3 DEF ExportOf
  <2>2. \A n, f : Packed(inst, n, f) => n \in DOMAIN inst.packs /\ f \in DOMAIN inst.packs[n]
    BY DEF Packed, Archive!WholePacks
  <2> QED
    BY <2>1, <2>2, PathsApart DEF Archive!PackFile
<1> HIDE DEF F
<1>2. ASSUME NEW p \in F PROVE p \in Seq(NamesOf(inst)) /\ p # <<>>
  <2> DEFINE N == NamesOf(inst)
  <2>1. /\ {"config.yaml", "profile.md", "resume.md", "resume", "content.json", "evidence.json",
             "facts.yaml", "templates"} \subseteq N
        /\ DOMAIN inst.packs \subseteq N
        /\ \A n \in DOMAIN inst.packs : DOMAIN inst.packs[n] \subseteq N
    BY DEF NamesOf
  <2> HIDE DEF N
  <2>2. CASE Single(p)
    BY <2>1, <2>2, PathsAreLists DEF Single, N
  <2>3. CASE Double(p)
    BY <2>1, <2>3, PathsAreLists DEF Double, N
  <2>4. CASE OfPack(p)
    <3>1. PICK n, f : /\ n \in DOMAIN inst.packs /\ f \in DOMAIN inst.packs[n]
                      /\ p = <<"resume", "templates", n, f>>
      BY <2>4
    <3>2. "resume" \in N /\ "templates" \in N /\ n \in N /\ f \in N
      BY <2>1, <3>1
    <3> QED
      BY <3>1, <3>2, PathsAreLists DEF N
  <2> QED
    BY <1>1, <2>2, <2>3, <2>4
<1>3. ASSUME NEW p \in F, NEW q \in OnTheWay(p), q \in F PROVE FALSE
  <2>1. PICK i \in 1 .. Len(p) - 1 : q = SubSeq(p, 1, i)
    BY DEF OnTheWay
  <2>2. Len(p) \in Nat /\ p \in Seq(NamesOf(inst))
    BY <1>2
  <2>3. Len(q) = i /\ \A j \in 1 .. i : q[j] = p[j]
    <3>1. 1 \in Int /\ i \in Int /\ \A j \in 1 .. i : p[j] \in NamesOf(inst)
      BY <2>2
    <3> QED
      BY <2>1, <2>2, <3>1, SubSeqProperties
  <2>4. CASE Single(q)
    BY <1>1, <2>1, <2>3, <2>4 DEF Single, Double
  <2>5. CASE Double(q)
    BY <1>1, <2>1, <2>3, <2>5, SMTT(40) DEF Single, Double
  <2>6. CASE OfPack(q)
    BY <1>1, <2>1, <2>3, <2>6 DEF Single, Double
  <2> QED
    BY <1>1, <1>3, <2>4, <2>5, <2>6
<1> QED
  BY <1>2, <1>3 DEF Leaves, F

\* An export fits in an archive: its files are few enough, and so are their bytes.
Fits(inst) ==
    LET F == DOMAIN Archive!ExportDir(inst, inst)
    IN IsFiniteSet(F) /\ Cardinality(F) <= MaxMembers /\ Cardinality(F) <= MaxTotal

LEMMA ExportIsRead ==
    ASSUME NEW inst, Fits(inst)
    PROVE  LET archive == Archive!ExportZip(inst, inst)
               out == Archive!ExtractUpload(archive, Archive!Fresh)
           IN /\ archive.size = 1
              /\ out.error = None /\ out.files = Archive!ExportDir(inst, inst)
<1> DEFINE T == Archive!ExportDir(inst, inst)
           F == DOMAIN T
           archive == Archive!ExportZip(inst, inst)
           paths == Archive!SetToSeq(F)
           member(i) == [name |-> paths[i], kind |-> "file", shape |-> "plain", size |-> 1,
                         reads |-> "ok", body |-> T[paths[i]]]
<1>1. IsFiniteSet(F) /\ Cardinality(F) <= MaxMembers /\ Cardinality(F) <= MaxTotal
  BY DEF Fits
<1>2. Leaves(F, NamesOf(inst)) /\ T = [p \in F |-> T[p]] /\ Archive!ConfigFile \in F
  BY ExportsAreLeaves, ExportHolds DEF ExportOf
<1>3. \E yes : /\ archive = [zip |-> yes, size |-> 1,
                             members |-> [i \in DOMAIN paths |-> member(i)]]
               /\ yes = TRUE
  BY DEF Archive!ExportZip
<1> HIDE DEF T, F, archive
<1>4. PICK n \in Nat : n = Cardinality(F) /\ Enumerates(paths, F, n)
  BY <1>1, SetToSeqEnumerates
<1> HIDE DEF paths
<1>5. DOMAIN paths = 1 .. n /\ \A i \in 1 .. n : paths[i] \in F
  BY <1>4 DEF Enumerates
<1>6. PICK members : members = [i \in 1 .. n |-> member(i)]
  OBVIOUS
<1>7. archive.zip = TRUE /\ archive.size = 1 /\ archive.members = members
  <2>1. members = [i \in DOMAIN paths |-> member(i)]
    BY <1>5, <1>6
  <2> HIDE DEF member
  <2>2. PICK yes : archive = [zip |-> yes, size |-> 1, members |-> members] /\ yes = TRUE
    BY <1>3, <2>1
  <2> QED
    BY <2>2
<1>8. \A i \in 1 .. n :
         /\ members[i].size = 1 /\ members[i].shape = "plain" /\ members[i].kind = "file"
         /\ members[i].reads = "ok" /\ members[i].name = paths[i]
         /\ members[i].body = T[paths[i]]
  BY <1>6
<1>9. DOMAIN members = 1 .. n
  BY <1>6
<1> HIDE DEF member
<1>10. Archive!ToSet(members) = {members[i] : i \in 1 .. n}
  BY <1>9 DEF Archive!ToSet
<1>11. members \in Seq(Archive!ToSet(members)) /\ Len(members) = n
  BY <1>6, <1>10
<1>12. n # 0
  BY <1>2, <1>4 DEF Enumerates
<1>13. Archive!Acceptable(archive)
  BY <1>1, <1>4, <1>7, <1>8, <1>9, <1>11, <1>12, PlainIsAcceptable, ZenonT(40)
<1>14. {m.name : m \in Archive!ToSet(members)} = F
  BY <1>4, <1>5, <1>8, <1>10 DEF Enumerates
<1>15. \A m \in Archive!ToSet(members) : m.kind = "file" /\ m.reads = "ok" /\ m.body = T[m.name]
  BY <1>8, <1>10
<1>16. LET out == Archive!ExtractUpload(archive, Archive!Fresh) IN out.error = None /\ out.files = T
  BY <1>2, <1>7, <1>11, <1>13, <1>14, <1>15, ExtractedAsPacked DEF F
<1> QED
  BY <1>7, <1>16 DEF T, archive

\* An instance that another was restored over, but for its packs.
Restored(over, inst, packs) ==
    [settings |-> inst.settings,
     documents |-> [k \in Archive!Kinds |-> IF inst.documents[k] # None THEN inst.documents[k]
                                            ELSE over.documents[k]],
     packs |-> packs]

\* What an instance is made of; documents that can be read and are valid, and packs that are
\* directories of files.
Instance(inst) ==
    \E s, d, k : inst = [settings |-> s, documents |-> d, packs |-> k]
Sound(inst) ==
    /\ \A k \in Archive!Kinds :
          inst.documents[k] # None => inst.documents[k].readable /\ inst.documents[k].valid
    /\ \A n \in DOMAIN inst.packs :
          inst.packs[n] = [f \in DOMAIN inst.packs[n] |-> inst.packs[n][f]]

\* Two folders with the same packs are copied alike.
LEMMA CopiedAlike ==
    ASSUME NEW one, NEW two, NEW to, NEW cut,
           Archive!WholePacks(one) = Archive!WholePacks(two),
           \A n \in Archive!WholePacks(two) : one[n] = two[n]
    PROVE  Archive!CopyPacks(one, to, cut) = Archive!CopyPacks(two, to, cut)
<1> DEFINE new == Archive!WholePacks(two) \ DOMAIN to
           torn == IF cut = None THEN {} ELSE {cut.torn} \intersect new
           copied == IF cut = None THEN new ELSE cut.copied \intersect new
           Copy(from) == [n \in DOMAIN to \union copied \union torn |->
                            IF n \in DOMAIN to THEN to[n]
                            ELSE IF n \in torn THEN cut.left ELSE from[n]]
<1>1. Archive!CopyPacks(one, to, cut) = Copy(one) /\ Archive!CopyPacks(two, to, cut) = Copy(two)
  BY DEF Archive!CopyPacks
<1>2. copied \subseteq Archive!WholePacks(two) /\ torn \subseteq Archive!WholePacks(two)
  OBVIOUS
<1> HIDE DEF new, torn, copied
<1>3. Copy(one) = Copy(two)
  BY <1>2
<1> QED
  BY <1>1, <1>3

LEMMA ExportIsImported ==
    ASSUME NEW inst, Sound(inst), NEW over, Instance(over), NEW cut
    PROVE  Archive!ImportDir(over, Archive!ExportDir(inst, inst), FALSE, FALSE, cut)
             = [inst |-> Restored(over, inst, Archive!CopyPacks(inst.packs, over.packs, cut)),
                outcome |-> IF cut = None THEN "ok" ELSE "cut"]
<1> DEFINE T == Archive!ExportDir(inst, inst)
           config == T[Archive!ConfigFile]
           Path(k) == Archive!DocumentPath(k, config, FALSE)
           documents == [k \in {j \in Archive!Kinds : Path(j) \in DOMAIN T} |-> T[Path(k)]]
           saved == Archive!SaveBundle(over, config, documents)
           held == [k \in {j \in Archive!Kinds : inst.documents[j] # None} |-> inst.documents[k]]
<1>1. /\ Archive!ConfigFile \in DOMAIN T
      /\ \A k \in Archive!Kinds :
            /\ Archive!DocumentFile(k) \in DOMAIN T <=> inst.documents[k] # None
            /\ inst.documents[k] # None => T[Archive!DocumentFile(k)] = inst.documents[k]
      /\ ExportOf(inst, T)
  <2>1. ExportOf(inst, T)
    BY ExportHolds
  <2> HIDE DEF T
  <2> QED
    BY <2>1 DEF ExportOf
<1>2. config.readable /\ config.valid /\ config.settings = inst.settings /\ config.legacy = <<>>
  <2>1. PICK yes, no : /\ config = [readable |-> yes, valid |-> yes, settings |-> inst.settings,
                                    secrets |-> no, legacy |-> <<>>]
                       /\ yes = TRUE
    BY ExportHolds DEF ExportOf
  <2> HIDE DEF config
  <2> QED
    BY <2>1
<1>3. Archive!CopyPacks(Archive!Packs(T), over.packs, cut)
        = Archive!CopyPacks(inst.packs, over.packs, cut)
  <2> DEFINE packs == Archive!Packs(T)
             whole == Archive!WholePacks(inst.packs)
             paths == {p \in DOMAIN T : Len(p) = 4 /\ p = Archive!PackFile(p[3], p[4])}
             names == {p[3] : p \in paths}
             files(n) == {p[4] : p \in {q \in paths : q[3] = n}}
  <2>1. packs = [n \in names |-> [f \in files(n) |-> T[Archive!PackFile(n, f)]]]
    BY DEF Archive!Packs
  <2>2. \A n, f : /\ Archive!PackFile(n, f) \in DOMAIN T <=> Packed(inst, n, f)
                  /\ Packed(inst, n, f) => T[Archive!PackFile(n, f)] = inst.packs[n][f]
    BY <1>1 DEF ExportOf
  <2>3. \A n, f : /\ Len(Archive!PackFile(n, f)) = 4 /\ Archive!PackFile(n, f)[3] = n
                  /\ Archive!PackFile(n, f)[4] = f
    BY PathsApart
  <2> HIDE DEF T
  <2>4. ASSUME NEW p
        PROVE  p \in paths <=> \E n, f : Packed(inst, n, f) /\ p = Archive!PackFile(n, f)
    <3>1. ASSUME NEW n, NEW f, Packed(inst, n, f), p = Archive!PackFile(n, f) PROVE p \in paths
      BY <2>2, <2>3, <3>1
    <3>2. ASSUME p \in paths PROVE Packed(inst, p[3], p[4])
      BY <2>2, <3>2
    <3> QED
      BY <3>1, <3>2
  <2> HIDE DEF paths
  <2>5. ASSUME NEW n, NEW f PROVE n \in names /\ f \in files(n) <=> Packed(inst, n, f)
    <3>1. ASSUME Packed(inst, n, f) PROVE n \in names /\ f \in files(n)
      <4>1. PICK p : p = Archive!PackFile(n, f)
        OBVIOUS
      <4>2. p \in paths /\ p[3] = n /\ p[4] = f
        BY <2>3, <2>4, <3>1, <4>1
      <4> QED
        BY <4>2
    <3>2. ASSUME f \in files(n) PROVE Packed(inst, n, f)
      <4>1. PICK p \in paths : p[3] = n /\ p[4] = f
        BY <3>2
      <4>2. PICK m, g : Packed(inst, m, g) /\ p = Archive!PackFile(m, g)
        BY <2>4
      <4> QED
        BY <2>3, <4>1, <4>2
    <3> QED
      BY <3>1, <3>2
  <2>6. names = whole
    <3>1. ASSUME NEW n \in whole PROVE n \in names
      <4>1. Packed(inst, n, Archive!Template)
        BY DEF Packed, Archive!WholePacks
      <4> QED
        BY <2>5, <4>1
    <3>2. ASSUME NEW n \in names PROVE n \in whole
      <4>1. PICK p \in paths : p[3] = n
        OBVIOUS
      <4>2. PICK m, g : Packed(inst, m, g) /\ p = Archive!PackFile(m, g)
        BY <2>4
      <4> QED
        BY <2>3, <4>1, <4>2 DEF Packed
    <3> QED
      BY <3>1, <3>2
  <2>7. ASSUME NEW n \in whole PROVE packs[n] = inst.packs[n]
    <3>1. files(n) = DOMAIN inst.packs[n]
      <4>1. \A f : f \in files(n) <=> f \in DOMAIN inst.packs[n]
        BY <2>5, <2>6, <2>7 DEF Packed
      <4> QED
        BY <4>1
    <3>2. \A f \in DOMAIN inst.packs[n] : T[Archive!PackFile(n, f)] = inst.packs[n][f]
      BY <2>2, <2>7 DEF Packed
    <3>3. packs[n] = [f \in files(n) |-> T[Archive!PackFile(n, f)]]
      BY <2>1, <2>6, <2>7
    <3>4. n \in DOMAIN inst.packs
      BY <2>7 DEF Archive!WholePacks
    <3>5. inst.packs[n] = [f \in DOMAIN inst.packs[n] |-> inst.packs[n][f]]
      BY <3>4 DEF Sound
    <3> HIDE DEF files, packs
    <3>6. packs[n] = [f \in DOMAIN inst.packs[n] |-> inst.packs[n][f]]
      BY <3>1, <3>2, <3>3
    <3> QED
      BY <3>5, <3>6
  <2>8. DOMAIN packs = whole
    BY <2>1, <2>6
  <2> HIDE DEF packs, names, files
  <2>9. Archive!WholePacks(packs) = whole
    BY <2>7, <2>8 DEF Archive!WholePacks
  <2> QED
    BY <2>7, <2>9, CopiedAlike DEF packs, whole
<1>4. \A k \in Archive!Kinds : Path(k) = Archive!DocumentFile(k)
  <2>1. DOMAIN config.legacy = {}
    BY <1>2
  <2> QED
    BY <2>1 DEF Archive!DocumentPath
<1>5. documents = held
  BY <1>1, <1>4
<1>6. ~Archive!Unreadable(config) /\ \A k \in DOMAIN held : ~Archive!Unreadable(held[k]) /\
      held[k].valid
  BY <1>2 DEF Sound, Archive!Unreadable
<1>7. PICK s, d, q : over = [settings |-> s, documents |-> d, packs |-> q]
  BY DEF Instance
<1>8. saved = Restored(over, inst, over.packs)
  <2> HIDE DEF config
  <2>1. Archive!SaveBundle(over, config, held)
          = [over EXCEPT !.settings = inst.settings,
                         !.documents = [k \in Archive!Kinds |->
                                          IF k \in DOMAIN held THEN held[k] ELSE over.documents[k]]]
    BY <1>2 DEF Archive!SaveBundle
  <2>2. [k \in Archive!Kinds |-> IF k \in DOMAIN held THEN held[k] ELSE over.documents[k]]
          = [k \in Archive!Kinds |-> IF inst.documents[k] # None THEN inst.documents[k]
                                     ELSE over.documents[k]]
    OBVIOUS
  <2> DEFINE both == [k \in Archive!Kinds |-> IF inst.documents[k] # None THEN inst.documents[k]
                                              ELSE over.documents[k]]
  <2>3. Archive!SaveBundle(over, config, held)
          = [over EXCEPT !.settings = inst.settings, !.documents = both]
    BY <2>1, <2>2
  <2> HIDE DEF both
  <2>4. [over EXCEPT !.settings = inst.settings, !.documents = both]
          = [settings |-> inst.settings, documents |-> both, packs |-> over.packs]
    <3>1. over.packs = q
      BY <1>7
    <3>2. [over EXCEPT !.settings = inst.settings]
            = [settings |-> inst.settings, documents |-> d, packs |-> q]
      BY <1>7
    <3>3. [[settings |-> inst.settings, documents |-> d, packs |-> q] EXCEPT !.documents = both]
            = [settings |-> inst.settings, documents |-> both, packs |-> q]
      OBVIOUS
    <3> QED
      BY <3>1, <3>2, <3>3
  <2> QED
    BY <1>5, <2>3, <2>4 DEF Restored, both
<1>9. Archive!ImportDir(over, T, FALSE, FALSE, cut)
        = [inst |-> [saved EXCEPT !.packs = Archive!CopyPacks(Archive!Packs(T), @, cut)],
           outcome |-> IF cut = None THEN "ok" ELSE "cut"]
  BY <1>1, <1>2, <1>5, <1>6, Zenon DEF Archive!ImportDir
<1> HIDE DEF T, saved
<1>10. [saved EXCEPT !.packs = Archive!CopyPacks(Archive!Packs(T), @, cut)]
         = Restored(over, inst, Archive!CopyPacks(inst.packs, over.packs, cut))
  BY <1>3, <1>8 DEF Restored
<1> QED
  BY <1>8, <1>9, <1>10 DEF T

\* A backup brings an instance back, as BackupBringsBack says, whichever instance it is restored
\* over and wherever the first try is cut short, before the packs, between two of them or
\* in the middle of one: for any documents that can be read and are valid, and any number of
\* packs of any number of files that fit in an archive.
THEOREM RestoredIsBack ==
    ASSUME NEW inst, Sound(inst), Fits(inst), NEW over, Instance(over), NEW cut,
           MaxUpload \in Nat, 1 <= MaxUpload
    PROVE  Archive!BackupBringsBack(inst, over, cut)
<1> DEFINE archive == Archive!ExportZip(inst, inst)
           Again(x, c) == Archive!Restore(x, archive, FALSE, c)
           Copy(to, c) == Archive!CopyPacks(inst.packs, to, c)
           whole == Archive!WholePacks(inst.packs)
<1>1. ASSUME NEW x, Instance(x), NEW c
      PROVE  Again(x, c) = [inst |-> Restored(x, inst, Copy(x.packs, c)),
                            outcome |-> IF c = None THEN "ok" ELSE "cut"]
  <2> DEFINE out == Archive!ExtractUpload(archive, Archive!Fresh)
  <2>1. archive.size = 1 /\ out.error = None /\ out.files = Archive!ExportDir(inst, inst)
    BY ExportIsRead
  <2>2. archive.size <= MaxUpload /\ ~(archive.size > MaxUpload)
    BY <2>1
  <2>3. Again(x, c) = Archive!ImportDir(x, out.files, FALSE, FALSE, c)
    <3> HIDE DEF archive
    <3> QED
      BY <2>1, <2>2, Zenon DEF Archive!Restore
  <2> HIDE DEF Again, out, archive
  <2> QED
    BY <1>1, <2>1, <2>3, ExportIsImported
<1> DEFINE first == Again(over, cut).inst
           out == Again(first, None)
<1>2. /\ out.outcome = "ok" /\ out.inst.settings = inst.settings
      /\ \A k \in Archive!Kinds : out.inst.documents[k] = IF inst.documents[k] # None
                                                          THEN inst.documents[k]
                                                          ELSE over.documents[k]
      /\ DOMAIN out.inst.packs = DOMAIN over.packs \union whole
      /\ \A n \in DOMAIN out.inst.packs :
            out.inst.packs[n] = IF n \in DOMAIN over.packs THEN over.packs[n]
                                ELSE IF cut # None /\ n = cut.torn THEN cut.left
                                ELSE inst.packs[n]
      => Archive!BackupBringsBack(inst, over, cut)
  BY DEF Archive!BackupBringsBack
<1> HIDE DEF archive, Again
<1>3. first = Restored(over, inst, Copy(over.packs, cut))
  BY <1>1
<1>4. /\ \A k \in Archive!Kinds : first.documents[k] = IF inst.documents[k] # None
                                                       THEN inst.documents[k]
                                                       ELSE over.documents[k]
      /\ first.packs = Copy(over.packs, cut)
      /\ Instance(first)
  <2> DEFINE both == [k \in Archive!Kinds |-> IF inst.documents[k] # None THEN inst.documents[k]
                                              ELSE over.documents[k]]
             q == Copy(over.packs, cut)
  <2>2. first = [settings |-> inst.settings, documents |-> both, packs |-> q]
    BY <1>3 DEF Restored
  <2>3. \A k \in Archive!Kinds : both[k] = IF inst.documents[k] # None THEN inst.documents[k]
                                           ELSE over.documents[k]
    OBVIOUS
  <2> HIDE DEF first, both, q
  <2>4. first.documents = both /\ first.packs = q
    BY <2>2
  <2>5. Instance(first)
    BY <2>2 DEF Instance
  <2> QED
    BY <2>3, <2>4, <2>5 DEF q
<1> HIDE DEF first
<1>5. out = [inst |-> Restored(first, inst, Copy(first.packs, None)), outcome |-> "ok"]
  BY <1>1, <1>4
\* The first try copies some of the packs and tears one; the second all that are missing.
<1>6. /\ DOMAIN Copy(first.packs, None) = DOMAIN over.packs \union whole
      /\ \A n \in DOMAIN Copy(first.packs, None) :
            Copy(first.packs, None)[n] = IF n \in DOMAIN over.packs THEN over.packs[n]
                                         ELSE IF cut # None /\ n = cut.torn THEN cut.left
                                         ELSE inst.packs[n]
  <2> DEFINE new == whole \ DOMAIN over.packs
             torn == IF cut = None THEN {} ELSE {cut.torn} \intersect new
             copied == IF cut = None THEN new ELSE cut.copied \intersect new
  <2>1. first.packs = [n \in DOMAIN over.packs \union copied \union torn |->
                         IF n \in DOMAIN over.packs THEN over.packs[n]
                         ELSE IF n \in torn THEN cut.left ELSE inst.packs[n]]
    BY <1>4 DEF Archive!CopyPacks
  <2>2. \A n \in new : n \in torn <=> cut # None /\ n = cut.torn
    OBVIOUS
  <2>3. copied \subseteq new /\ torn \subseteq new /\ DOMAIN over.packs \union new
           = DOMAIN over.packs \union whole
    OBVIOUS
  <2> HIDE DEF new, torn, copied, whole
  <2>4. /\ DOMAIN first.packs = DOMAIN over.packs \union copied \union torn
        /\ \A n \in DOMAIN first.packs :
              first.packs[n] = IF n \in DOMAIN over.packs THEN over.packs[n]
                               ELSE IF n \in torn THEN cut.left ELSE inst.packs[n]
    BY <2>1
  <2>5. Copy(first.packs, None)
          = [n \in DOMAIN first.packs \union (whole \ DOMAIN first.packs) \union {} |->
               IF n \in DOMAIN first.packs THEN first.packs[n]
               ELSE IF n \in {} THEN None.left ELSE inst.packs[n]]
    BY DEF Archive!CopyPacks, whole
  <2>6. new = whole \ DOMAIN over.packs
    BY DEF new
  <2>7. /\ DOMAIN Copy(first.packs, None) = DOMAIN first.packs \union whole
        /\ \A n \in DOMAIN first.packs \union whole :
              Copy(first.packs, None)[n]
                = IF n \in DOMAIN first.packs THEN first.packs[n] ELSE inst.packs[n]
    BY <2>5
  <2> HIDE DEF Copy
  <2>8. DOMAIN first.packs \union whole = DOMAIN over.packs \union whole
    BY <2>3, <2>4, <2>6
  <2>9. \A n \in DOMAIN over.packs \union whole :
           Copy(first.packs, None)[n] = IF n \in DOMAIN over.packs THEN over.packs[n]
                                        ELSE IF n \in torn THEN cut.left ELSE inst.packs[n]
    BY <2>4, <2>7, <2>8
  <2> QED
    BY <2>2, <2>6, <2>7, <2>8, <2>9
<1> HIDE DEF out, Copy
<1>7. out.outcome = "ok" /\ out.inst.settings = inst.settings /\
      out.inst.packs = Copy(first.packs, None)
  BY <1>5 DEF Restored
<1>8. \A k \in Archive!Kinds : out.inst.documents[k] = IF inst.documents[k] # None
                                                       THEN inst.documents[k]
                                                       ELSE over.documents[k]
  <2> TAKE k \in Archive!Kinds
  <2>1. out.inst.documents[k] = IF inst.documents[k] # None THEN inst.documents[k]
                                ELSE first.documents[k]
    BY <1>5 DEF Restored
  <2> QED
    BY <1>4, <2>1
<1> HIDE DEF whole
<1> QED
  BY <1>2, <1>6, <1>7, <1>8

-----------------------------------------------------------------------------
(* What is asked of the backups *)

LEMMA OneMoreCounted ==
    ASSUME NEW S, NEW x, IsFiniteSet(S), Cardinality(S) \in Nat
    PROVE  /\ IsFiniteSet(S \union {x}) /\ Cardinality(S \union {x}) \in Nat
           /\ Cardinality(S \union {x}) <= Cardinality(S) + 1
<1>1. /\ IsFiniteSet(S \union {x})
      /\ Cardinality(S \union {x}) = IF x \in S THEN Cardinality(S) ELSE Cardinality(S) + 1
  BY FS_AddElement
<1>2. ASSUME NEW n \in Nat, NEW m, m = IF x \in S THEN n ELSE n + 1
      PROVE  m \in Nat /\ m <= n + 1
  BY <1>2
<1> QED
  BY <1>1, <1>2

LEMMA FiveAtMost ==
    ASSUME NEW a, NEW b, NEW c, NEW d, NEW e, NEW S \in SUBSET {a, b, c, d, e}
    PROVE  IsFiniteSet(S) /\ Cardinality(S) \in Nat /\ Cardinality(S) <= 5
<1> DEFINE A == {} \union {a}
           B == A \union {b}
           C == B \union {c}
           D == C \union {d}
           T == D \union {e}
<1>1. IsFiniteSet({}) /\ Cardinality({}) = 0
  BY FS_EmptySet
<1>2. IsFiniteSet(A) /\ Cardinality(A) \in Nat /\ Cardinality(A) <= 0 + 1
  <2>1. Cardinality({}) \in Nat
    BY <1>1
  <2> QED
    BY <1>1, <2>1, OneMoreCounted
<1>3. S \in SUBSET T
  OBVIOUS
<1> HIDE DEF A
<1>4. IsFiniteSet(B) /\ Cardinality(B) \in Nat /\ Cardinality(B) <= Cardinality(A) + 1
  BY <1>2, OneMoreCounted
<1> HIDE DEF B
<1>5. IsFiniteSet(C) /\ Cardinality(C) \in Nat /\ Cardinality(C) <= Cardinality(B) + 1
  BY <1>4, OneMoreCounted
<1> HIDE DEF C
<1>6. IsFiniteSet(D) /\ Cardinality(D) \in Nat /\ Cardinality(D) <= Cardinality(C) + 1
  BY <1>5, OneMoreCounted
<1> HIDE DEF D
<1>7. IsFiniteSet(T) /\ Cardinality(T) \in Nat /\ Cardinality(T) <= Cardinality(D) + 1
  BY <1>6, OneMoreCounted
<1> HIDE DEF T
<1>8. IsFiniteSet(S) /\ Cardinality(S) <= Cardinality(T)
  BY <1>3, <1>7, FS_Subset
<1>9. Cardinality(S) \in Nat
  BY <1>8, FS_CardinalityType
<1> QED
  BY <1>2, <1>4, <1>5, <1>6, <1>7, <1>8, <1>9

\* The instances that are asked about can be exported and restored.
LEMMA AskedInstancesFit ==
    ASSUME NEW inst \in Instances
    PROVE  Instance(inst) /\ Sound(inst) /\ Fits(inst)
<1>1. PICK own \in {{}, {"profile"}, {"resume_content"}}, n \in 1 .. 2 :
         inst.documents = Bodies(own, n)
  BY DEF Instances
<1>2. Instance(inst)
  BY DEF Instances, Instance
<1>4. /\ DOMAIN inst.packs \subseteq {"modern", "plain"}
      /\ \A m \in DOMAIN inst.packs :
            /\ inst.packs[m] = [f \in DOMAIN inst.packs[m] |-> inst.packs[m][f]]
            /\ DOMAIN inst.packs[m] \subseteq {Archive!Template}
                  \union IF m = "modern" THEN {"meta.yaml"} ELSE {}
  <2>1. \/ \E names \in {{}, {"modern"}, {"modern", "plain"}}, i \in 1 .. 2 :
              inst.packs = Folder(names, i)
        \/ inst.packs = [m \in {"modern"} |-> Torn(1)]
    BY DEF Instances
  <2>2. \A m, i : Pack(m, i) = [f \in {Archive!Template} \union
                                         IF m = "modern" THEN {"meta.yaml"} ELSE {} |-> File(i, TRUE)]
    BY DEF Pack
  <2>3. \A i : Torn(i) = [f \in {"meta.yaml"} |-> File(i, TRUE)]
    BY DEF Torn
  <2> QED
    BY <2>1, <2>2, <2>3 DEF Folder
<1>3. Sound(inst)
  <2>1. File(n, TRUE).readable /\ File(n, TRUE).valid
    BY DEF File
  <2> HIDE DEF File
  <2> QED
    BY <1>1, <1>4, <2>1 DEF Sound, Bodies
<1>5. Fits(inst)
  <2> DEFINE T == Archive!ExportDir(inst, inst)
             F == DOMAIN T
  <2>7. ExportOf(inst, T)
    BY ExportHolds
  <2> HIDE DEF T
  <2>1. \E k \in Archive!Kinds : \A j \in Archive!Kinds : inst.documents[j] # None => j = k
    BY <1>1 DEF Bodies, Archive!Kinds
  <2>2. PICK k \in Archive!Kinds : \A j \in Archive!Kinds : inst.documents[j] # None => j = k
    BY <2>1
  <2>3. \A p \in F : \/ p = Archive!ConfigFile
                     \/ \E j \in Archive!Kinds : /\ inst.documents[j] # None
                                                 /\ p = Archive!DocumentFile(j)
                     \/ \E m, f : Packed(inst, m, f) /\ p = Archive!PackFile(m, f)
    BY <2>7 DEF ExportOf
  <2>4. \A m, f : Packed(inst, m, f) => \/ m = "modern" /\ f \in {Archive!Template, "meta.yaml"}
                                        \/ m = "plain" /\ f = Archive!Template
    BY <1>4 DEF Packed, Archive!WholePacks
  <2> HIDE DEF F
  <2>5. F \subseteq {Archive!ConfigFile, Archive!DocumentFile(k),
                     Archive!PackFile("modern", Archive!Template),
                     Archive!PackFile("modern", "meta.yaml"),
                     Archive!PackFile("plain", Archive!Template)}
    BY <2>2, <2>3, <2>4
  <2>6. IsFiniteSet(F) /\ Cardinality(F) \in Nat /\ Cardinality(F) <= 5
    BY <2>5, FiveAtMost
  <2> QED
    BY <2>6, LimitsAssumption DEF Fits, F, T
<1> QED
  BY <1>2, <1>3, <1>5

LEMMA AskedDestsAreTrees == \A dest \in Dests : Tree(dest)
<1>1. \A a, b : Archive!Prefixed(<<a>>) = {<<a>>} /\ Archive!Prefixed(<<a, b>>) = {<<a>>, <<a, b>>}
  <2> TAKE a, b
  <2>1. Archive!Prefixed(<<a>>) = {<<a>>}
    BY DEF Archive!Prefixed
  <2>2. SubSeq(<<a, b>>, 1, 1) = <<a>> /\ SubSeq(<<a, b>>, 1, 2) = <<a, b>>
    <3> DEFINE S == {a, b}
    <3>1. <<a, b>> \in Seq(S) /\ Len(<<a, b>>) = 2
      OBVIOUS
    <3>2. SubSeq(<<a, b>>, 1, 2) = <<a, b>>
      BY <3>1, SubSeqFull
    <3>3. PICK q : q = SubSeq(<<a, b>>, 1, 1)
      OBVIOUS
    <3>4. \A i \in 1 .. 1 : <<a, b>>[i] \in S
      OBVIOUS
    <3>5. q \in Seq(S) /\ Len(q) = 1 /\ q[1] = a
      BY <3>3, <3>4, SubSeqProperties
    <3>6. q = <<a>>
      BY <3>5
    <3> QED
      BY <3>2, <3>3, <3>6
  <2>3. 1 .. Len(<<a, b>>) = {1, 2}
    OBVIOUS
  <2>4. Archive!Prefixed(<<a, b>>) = {<<a>>, <<a, b>>}
    BY <2>2, <2>3 DEF Archive!Prefixed
  <2> QED
    BY <2>1, <2>4
<1>2. Tree(Archive!Fresh)
  BY DEF Tree, Archive!Fresh
<1>5. Tree([there |-> FALSE, files |-> <<>>, dirs |-> {}])
  BY DEF Tree
<1>3. Tree([there |-> TRUE, files |-> [p \in {<<"d", "x">>} |-> File(0, TRUE)], dirs |-> {<<"d">>}])
  BY <1>1 DEF Tree
<1>4. Tree([there |-> TRUE, files |-> [p \in {<<"a">>} |-> File(0, TRUE)], dirs |-> {}])
  BY <1>1 DEF Tree
<1> QED
  BY <1>2, <1>3, <1>4, <1>5 DEF Dests

\* What is asked of the backups is an archive and a destination, or two instances.
AskedArchive ==
    /\ asked.kind = "extract" => asked.archive.members \in Seq(Members) /\ asked.dest \in Dests
    /\ asked.kind = "restore" => asked.inst \in Instances /\ asked.over \in Instances

LEMMA AskedArchiveStart == ServicesInit => AskedArchive
<1> SUFFICES ASSUME ServicesInit, asked.kind \in {"extract", "restore"}
             PROVE  AskedArchive
  BY DEF AskedArchive
<1>1. AskFingerprint \/ AskPortfolio \/ AskPolled \/ AskFilters
       \/ AskResume \/ AskCalls \/ AskArchive \/ AskPages
  BY DEF ServicesInit, Init
<1>2. ~AskFingerprint /\ ~AskPortfolio /\ ~AskFilters
  BY DEF AskFingerprint, AskPortfolio, AskFilters
<1>3. ~AskResume /\ ~AskCalls /\ ~AskPolled
  BY DEF AskResume, AskCalls, AskPolled
<1>4. ~AskPages
  BY DEF AskPages
<1>5. CASE \E members \in UpTo(3, Members), dest \in Dests :
              asked = [kind |-> "extract",
                       archive |-> [zip |-> TRUE, size |-> 1, members |-> members], dest |-> dest]
  <2>1. PICK members \in UpTo(3, Members), dest \in Dests :
           asked.kind = "extract" /\ asked.archive.members = members /\ asked.dest = dest
    BY <1>5
  <2>2. members \in Seq(Members)
    <3>1. PICK n \in 0 .. 3 : members \in [1 .. n -> Members]
      BY DEF UpTo, BoundedSeq, SeqOf
    <3> QED
      BY <3>1, MappedIsListed
  <2> QED
    BY <2>1, <2>2 DEF AskedArchive
<1>6. CASE \E inst, over \in Instances : \E cut \in Cuts(inst) :
              asked = [kind |-> "restore", inst |-> inst, over |-> over, cut |-> cut]
  BY <1>6 DEF AskedArchive
<1> QED
  BY <1>1, <1>2, <1>3, <1>4, <1>5, <1>6 DEF AskArchive

\* An upload that is turned down leaves nothing behind, and a backup brings its instance back:
\* the property holds of every archive and of every two instances that are asked about.
THEOREM BackupsAreHeld == ServicesSpec => []BackupsHold
<1>1. ServicesInit => AskedArchive
  BY AskedArchiveStart
<1>2. AskedArchive /\ [ServicesNext]_servicesVars => AskedArchive'
  <2> SUFFICES ASSUME AskedArchive, [ServicesNext]_servicesVars PROVE AskedArchive'
    OBVIOUS
  <2>1. asked' = asked
    BY DEF ServicesNext, Next, servicesVars, lookupVars
  <2> QED
    BY <2>1 DEF AskedArchive
<1>3. AskedArchive => BackupsHold
  <2> SUFFICES ASSUME AskedArchive PROVE BackupsHold
    OBVIOUS
  <2>1. ASSUME asked.kind = "extract"
        PROVE  Archive!RejectedLeavesNothing(asked.archive, asked.dest)
    BY <2>1, AskedDestsAreTrees, RejectedIsUndone DEF AskedArchive
  <2>2. ASSUME asked.kind = "restore"
        PROVE  Archive!BackupBringsBack(asked.inst, asked.over, asked.cut)
    BY <2>2, AskedInstancesFit, RestoredIsBack, LimitsAssumption DEF AskedArchive
  <2> QED
    BY <2>1, <2>2 DEF BackupsHold, Asked
<1> QED
  BY <1>1, <1>2, <1>3, PTL DEF ServicesSpec
=============================================================================
