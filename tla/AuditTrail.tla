------------------------------ MODULE AuditTrail ------------------------------
(***************************************************************************)
(* The audit page (src/src/web/audit.py): what the filters and the scores  *)
(* turned down, and the user's judgement of it.  A rescue makes a card of  *)
(* a posting; it waits for the model between reading the posting and       *)
(* writing its row.  The poll cycles run in another process and write the  *)
(* same tables, a statement at a time (src/src/state_sqlite.py).           *)
(*                                                                         *)
(* One posting is followed: its row of seen_jobs, None, suppressed or a    *)
(* card, and its row of rejected_postings.  A row of seen_jobs expires     *)
(* before it goes: from then on every read passes it over, but it is in    *)
(* the way of every INSERT OR IGNORE until the daily prune.                *)
(***************************************************************************)
EXTENDS Naturals, FiniteSets

CONSTANTS None,
          Cycles,     \* poll cycles, of one process or of two
          Rescues,    \* rescues under way
          Scores,     \* the scores that suppress
          MaxMishaps  \* bound: crashes, failed deliveries, and rows that expire

VARIABLES row,      \* seen_jobs: None, or [kind, score, verdict, signal, expired]
          filed,    \* rejected_postings: None, or the verdict, "none" without one
          allowed,  \* the filters in effect let the posting through
          cycles, rescues, mishaps,
          confirming   \* a confirmation is between its two statements

vars == <<row, filed, allowed, cycles, rescues, mishaps, confirming>>

Verdicts == {"none", "rescued", "confirmed"}
Rows == [kind : {"suppressed", "card"}, score : Scores \union {None}, verdict : Verdicts,
         signal : Scores \union {None}, expired : BOOLEAN]
NoRescue == [phase |-> "none"]

AuditAssumption == MaxMishaps \in Nat /\ None \notin Verdicts \union Rows

TypeOK ==
    /\ row \in Rows \union {None} /\ filed \in Verdicts \union {None} /\ allowed \in BOOLEAN
    /\ cycles \in [Cycles -> {"idle", "scoring", "claimed"}]
    /\ mishaps \in 0 .. MaxMishaps /\ confirming \in BOOLEAN

Init ==
    /\ row = None /\ filed = None /\ allowed \in BOOLEAN /\ mishaps = 0 /\ confirming = FALSE
    /\ cycles = [c \in Cycles |-> "idle"] /\ rescues = [q \in Rescues |-> NoRescue]

Mishap == mishaps < MaxMishaps /\ mishaps' = mishaps + 1

\* _live_rows, get_suppressed: what a read sees.
Live == row # None /\ ~row.expired
Suppressed == Live /\ row.kind = "suppressed"

\* What an insert writes.
Card == [kind |-> "card", score |-> None, verdict |-> "none", signal |-> None, expired |-> FALSE]
Low(score) == [Card EXCEPT !.kind = "suppressed", !.score = score]

-----------------------------------------------------------------------------
(* The cycles *)

\* diff_new and the screening: what was turned down is filed once, with its gate.
Screen(c) ==
    /\ cycles[c] = "idle" /\ ~Live
    /\ IF allowed THEN cycles' = [cycles EXCEPT ![c] = "scoring"] /\ UNCHANGED filed
       ELSE filed' = (IF filed = None THEN "none" ELSE filed) /\ UNCHANGED cycles
    /\ UNCHANGED <<row, allowed, rescues, mishaps, confirming>>

\* mark_suppressed: INSERT OR IGNORE.  For what is checked, a rescue that has looked again
\* remembers that it was overtaken.
MarkSuppressed(c) ==
    /\ cycles[c] = "scoring" /\ cycles' = [cycles EXCEPT ![c] = "idle"]
    /\ \/ /\ row = None
          /\ \E score \in Scores : row' = Low(score)
          /\ rescues' = [q \in Rescues |-> IF rescues[q].phase = "claiming"
                                           THEN [rescues[q] EXCEPT !.overtaken = TRUE]
                                           ELSE rescues[q]]
       \/ row # None /\ UNCHANGED <<row, rescues>>
    /\ UNCHANGED <<filed, allowed, mishaps, confirming>>

\* claim_for_notify: INSERT OR IGNORE, and it says whether it wrote.
ClaimForNotify(c) ==
    /\ cycles[c] = "scoring"
    /\ IF row = None THEN row' = Card /\ cycles' = [cycles EXCEPT ![c] = "claimed"]
       ELSE cycles' = [cycles EXCEPT ![c] = "idle"] /\ UNCHANGED row
    /\ UNCHANGED <<filed, allowed, rescues, mishaps, confirming>>

Delivered(c) ==
    /\ cycles[c] = "claimed" /\ cycles' = [cycles EXCEPT ![c] = "idle"]
    /\ UNCHANGED <<row, filed, allowed, rescues, mishaps, confirming>>

\* release_claim: every sink failed.
ReleaseClaim(c) ==
    /\ cycles[c] = "claimed" /\ cycles' = [cycles EXCEPT ![c] = "idle"]
    /\ row' = None /\ Mishap
    /\ UNCHANGED <<filed, allowed, rescues, confirming>>

-----------------------------------------------------------------------------
(* The audit page *)

\* rescue, up to the model: a filed posting is a filter's, else it must be suppressed.
BeginRescue(q) ==
    /\ rescues[q] = NoRescue /\ (filed # None \/ Suppressed)
    /\ rescues' = [rescues EXCEPT ![q] =
          [phase |-> "asking", overtaken |-> FALSE,
           origin |-> IF filed # None THEN "filter" ELSE "score_low",
           score |-> IF filed # None THEN None ELSE row.score]]
    /\ UNCHANGED <<row, filed, allowed, cycles, mishaps, confirming>>

\* Mutant: only what was found suppressed is looked at again.
LooksByOrigin(q) == rescues[q].origin = "score_low" /\ Suppressed

\* The row may have been suppressed, for a filter's posting too.
MustDrop(q) == Suppressed

\* The second look, after the model.
LookAgain(q) ==
    /\ rescues[q].phase = "asking"
    /\ rescues' = [rescues EXCEPT ![q].phase = IF MustDrop(q) THEN "dropping" ELSE "claiming"]
    /\ UNCHANGED <<row, filed, allowed, cycles, mishaps, confirming>>

\* release_claim deletes whatever row is there by then.
Drop(q) ==
    /\ rescues[q].phase = "dropping" /\ row' = None
    /\ rescues' = [rescues EXCEPT ![q].phase = "claiming"]
    /\ UNCHANGED <<filed, allowed, cycles, mishaps, confirming>>

\* claim_for_notify, and nobody asks whether it wrote.
ClaimRescued(q) ==
    /\ rescues[q].phase = "claiming"
    /\ row' = IF row = None THEN Card ELSE row
    /\ rescues' = [rescues EXCEPT ![q].phase = "marking"]
    /\ UNCHANGED <<filed, allowed, cycles, mishaps, confirming>>

\* set_verdict, or mark_rescued_from_suppression of a live row, with the score the posting had.
MarkRescued(q) ==
    /\ rescues[q].phase = "marking" /\ rescues' = [rescues EXCEPT ![q] = NoRescue]
    /\ filed' = IF rescues[q].origin = "filter" /\ filed # None THEN "rescued" ELSE filed
    /\ row' = IF rescues[q].score # None /\ Live
              THEN [row EXCEPT !.verdict = "rescued", !.signal = rescues[q].score] ELSE row
    /\ UNCHANGED <<allowed, cycles, mishaps, confirming>>

\* confirm: first set_verdict, of what was filed ...
Confirm ==
    /\ ~confirming /\ confirming' = TRUE /\ (filed # None \/ Live)
    /\ filed' = IF filed # None THEN "confirmed" ELSE None
    /\ UNCHANGED <<row, allowed, cycles, rescues, mishaps>>

\* ... then set_audit_verdict, of any live row, a card as well.
SetAuditVerdict ==
    /\ confirming /\ confirming' = FALSE
    /\ row' = IF Live THEN [row EXCEPT !.verdict = "confirmed"] ELSE row
    /\ UNCHANGED <<filed, allowed, cycles, rescues, mishaps>>

-----------------------------------------------------------------------------
(* The surroundings *)

\* Mutant: a judgement does not take the expiry away.
ExpiresAnyway(verdict) == TRUE

\* Only what nobody judged expires: a verdict takes the expiry away.
Expires(verdict) == verdict = "none"

\* The ttl of a row lapses.
Expire ==
    /\ Mishap /\ Live /\ Expires(row.verdict)
    /\ row' = [row EXCEPT !.expired = TRUE]
    /\ UNCHANGED <<filed, allowed, cycles, rescues, confirming>>

\* The daily prune: prune_expired, and prune_older_than of what was filed.
Prune ==
    /\ \/ row # None /\ row.expired /\ row' = None /\ UNCHANGED <<filed, mishaps>>
       \/ filed # None /\ Expires(filed) /\ filed' = None /\ Mishap /\ UNCHANGED row
    /\ UNCHANGED <<allowed, cycles, rescues, confirming>>

\* The filters are changed.
Retune ==
    /\ allowed' = ~allowed
    /\ UNCHANGED <<row, filed, cycles, rescues, mishaps, confirming>>

\* The web process or the poller goes, or a call of the model ends the rescue.
Crash ==
    /\ Mishap
    /\ \/ /\ rescues' = [q \in Rescues |-> NoRescue] /\ confirming' = FALSE
          /\ UNCHANGED cycles
       \/ cycles' = [c \in Cycles |-> "idle"] /\ UNCHANGED <<rescues, confirming>>
    /\ UNCHANGED <<row, filed, allowed>>

Next ==
    \/ \E c \in Cycles : \/ Screen(c) \/ MarkSuppressed(c) \/ ClaimForNotify(c)
                         \/ Delivered(c) \/ ReleaseClaim(c)
    \/ \E q \in Rescues : \/ BeginRescue(q) \/ LookAgain(q) \/ Drop(q) \/ ClaimRescued(q)
                          \/ MarkRescued(q)
    \/ Confirm \/ SetAuditVerdict \/ Expire \/ Prune \/ Retune \/ Crash

Spec == Init /\ [][Next]_vars

-----------------------------------------------------------------------------
(* Properties *)

\* A rescue takes: once its claim is made the posting is a card, whatever a cycle did to its
\* row while the model was asked, with two exceptions: a cycle suppressed it after the
\* rescue looked again, or a row that has expired and is not pruned yet is in the way.
RescueTakes ==
    [][\A q \in Rescues :
         rescues[q].phase = "claiming" /\ rescues'[q].phase = "marking"
         => row'.kind = "card" \/ row'.expired \/ rescues[q].overtaken]_vars

\* What a user judged is what the thresholds are tuned on: a judgement does not expire, and
\* goes only with the row a rescue replaces, or with a card whose delivery failed.
JudgementsLast ==
    [][/\ filed \in {"rescued", "confirmed"} => filed' # None
       /\ Live /\ row.verdict # "none" /\ ~Live' =>
            \/ \E q \in Rescues : rescues[q].phase = "dropping" /\ rescues'[q].phase = "claiming"
            \/ \E c \in Cycles : cycles[c] = "claimed" /\ cycles'[c] = "idle"]_vars

(***************************************************************************)
(* Not kept by the code.  "Drop it so the claim below writes fresh"        *)
(* (audit.py:216): an expired row is none to the look, so it is not        *)
(* dropped, the claim no-ops on it, and the posting is not on the board    *)
(* though nothing overtook the rescue.  And a rescue of a filter's posting *)
(* writes nothing if a cycle has claimed it, and the cycle takes its claim *)
(* back when no sink answers; the user was told the posting is on the      *)
(* board.                                                                  *)
(***************************************************************************)
RescueWritesFresh ==
    [][\A q \in Rescues :
         rescues[q].phase = "claiming" /\ rescues'[q].phase = "marking" /\ ~rescues[q].overtaken
         => Live' /\ row'.kind = "card"]_vars
RescuedStays ==
    [][filed = "rescued" /\ row # None /\ row.kind = "card" => row' # None]_vars
=============================================================================
