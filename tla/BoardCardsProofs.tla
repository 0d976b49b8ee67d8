--------------------------- MODULE BoardCardsProofs ---------------------------
(***************************************************************************)
(* Proofs about BoardCards, for any cards, any mail and any number of      *)
(* crashes: the types, the watermark of the Gmail sweeps, which may        *)
(* overlap, the two strikes of the closed-posting sweep, and the digest's  *)
(* announcements of what it closed.                                        *)
(***************************************************************************)
EXTENDS BoardCards, SequenceTheorems, TLAPS

USE DEF env, counts

\* The record of a closed-posting sweep, of a digest and of a Gmail sweep.
SweepRow == [pc: {"idle", "probe", "write"}, cards: SUBSET Cards, misses: [Cards -> 0 .. 2],
             closed: SUBSET Cards, verdict: [Cards -> {"none", "alive", "miss", "unknown"}]]
DigestRow == [pc: {"idle", "send", "mark"}, mark: SUBSET Cards, laps: 0 .. 1]
MailRow == [pc: {"idle", "search", "read"}, cards: SUBSET Cards,
            status: [Cards -> Statuses \union {"new"}], badge: [Cards -> 0 .. Inbox],
            dismissed: [Cards -> SUBSET Messages], known: [Cards -> SUBSET Messages],
            from: 0 .. Inbox, next: 0 .. Inbox + 1, last: 0 .. Inbox, stamp: 0 .. Inbox]

LEMMA Rows ==
    ASSUME TypeOK
    PROVE  sweep \in SweepRow /\ digest \in DigestRow /\ mail \in [Mailers -> MailRow]
BY DEF TypeOK, SweepRow, DigestRow, MailRow

\* What the parts of the types are made of.
LEMMA Blanks ==
    /\ NoCard \in CardRow /\ NewCard \in CardRow
    /\ IdleSweep \in SweepRow /\ IdleDigest \in DigestRow /\ IdleMail \in MailRow
<1>1. <<>> \in Seq(Messages)
  OBVIOUS
<1>2. Inbox \in Nat
  BY BoardAssumption
<1>3. NoCard \in CardRow
  BY <1>1, <1>2 DEF NoCard, CardRow, None
<1>4. NewCard \in CardRow
  BY <1>3 DEF NewCard, CardRow
<1>5. IdleSweep \in SweepRow
  BY DEF IdleSweep, SweepRow
<1>6. IdleDigest \in DigestRow
  BY DEF IdleDigest, DigestRow
<1>7. IdleMail \in MailRow
  BY <1>2 DEF IdleMail, MailRow, None
<1> QED
  BY <1>3, <1>4, <1>5, <1>6, <1>7

\* A dismissed id stays one of the inbox: the list is only appended to and cut.
LEMMA RememberedTyped ==
    ASSUME TypeOK, NEW c \in Cards
    PROVE  Remembered(c) \in Seq(Messages)
<1>1. card[c] \in CardRow
  BY DEF TypeOK
<1>2. card[c].dismissed \in Seq(Messages) /\ card[c].suggestion \in 0 .. Inbox
  BY <1>1 DEF CardRow
<1>3. CASE card[c].suggestion = None
  BY <1>2, <1>3 DEF Remembered
<1>4. CASE card[c].suggestion # None
  <2> DEFINE ids == Append(card[c].dismissed, card[c].suggestion)
  <2>1. card[c].suggestion \in Messages
    BY <1>2, <1>4, BoardAssumption DEF Messages, None
  <2>2. ids \in Seq(Messages)
    BY <1>2, <2>1, AppendProperties
  <2>3. Len(ids) \in Nat /\ KeepDismissed \in Nat \ {0}
    BY <2>2, BoardAssumption, LenProperties
  <2>4. Larger(1, Len(ids) - KeepDismissed + 1) \in 1 .. Len(ids) + 1
    BY <2>3 DEF Larger
  <2> HIDE DEF ids
  <2>5. Newest(ids) \in Seq(Messages)
    BY <2>2, <2>3, <2>4, SubSeqProperties DEF Newest
  <2> QED
    BY <1>4, <2>5 DEF Remembered, ids
<1> QED
  BY <1>3, <1>4

LEMMA SweptTyped ==
    ASSUME TypeOK, NEW c \in Cards
    PROVE  Swept(c) \in CardRow
<1>1. card[c] \in CardRow /\ sweep.misses[c] \in 0 .. 2
  BY Rows DEF TypeOK, SweepRow
<1>2. Smaller(2, sweep.misses[c] + 1) \in 0 .. 2
  BY <1>1 DEF Smaller
<1>3. ASSUME NEW n \in 0 .. 2, NEW f \in BOOLEAN PROVE Checked(c, n, f) \in CardRow
  BY <1>1, <1>3 DEF Checked, CardRow
<1>4. Checked(c, Smaller(2, sweep.misses[c] + 1), c \in sweep.closed \/ sweep.misses[c] >= 1) \in CardRow
  BY <1>2, <1>3
<1>5. Checked(c, 0, FALSE) \in CardRow
  <2>1. 0 \in 0 .. 2 /\ FALSE \in BOOLEAN
    OBVIOUS
  <2> QED
    BY <1>3, <2>1
<1> QED
  BY <1>1, <1>4, <1>5 DEF Swept

-----------------------------------------------------------------------------
(* Types *)

LEMMA CardStepTyped ==
    ASSUME TypeOK, NEW c \in Cards,
           \/ Claim(c) \/ Sent(c) \/ Release(c) \/ Expire(c) \/ User(c) \/ ClearBadge(c)
           \/ WebCrash(c) \/ Flip(c)
    PROVE  TypeOK'
<1>0. card[c] \in CardRow /\ Inbox \in Nat
  BY BoardAssumption DEF TypeOK
<1>1. CASE Claim(c)
  BY <1>1, Blanks DEF Claim, TypeOK
<1>2. CASE Sent(c)
  BY <1>2 DEF Sent, TypeOK
<1>3. CASE Release(c)
  BY <1>3, Blanks DEF Release, Gone, TypeOK
<1>4. CASE Expire(c)
  BY <1>4, Blanks DEF Expire, Gone, TypeOK
<1>5. ASSUME NEW s \in Statuses, AddManual(c, s) PROVE TypeOK'
  <2>1. [NewCard EXCEPT !.status = s, !.expires = FALSE] \in CardRow
    BY Blanks DEF CardRow
  <2> QED
    BY <1>5, <2>1 DEF AddManual, TypeOK
<1>6. ASSUME NEW s \in Statuses, Move(c, s) PROVE TypeOK'
  <2>1. [card[c] EXCEPT !.status = s, !.expires = @ /\ s \notin Kept] \in CardRow
    BY <1>0 DEF CardRow
  <2>2. card' = [card EXCEPT ![c] = [card[c] EXCEPT !.status = s, !.expires = @ /\ s \notin Kept]]
    BY <1>6, <1>0 DEF Move, TypeOK, CardRow
  <2> QED
    BY <1>6, <2>1, <2>2 DEF Move, TypeOK
<1>7. CASE Dismiss(c)
  <2>1. [card[c] EXCEPT !.suggestion = None, !.dismissed = Remembered(c)] \in CardRow
    <3>1. None \in 0 .. Inbox
      BY <1>0 DEF None
    <3>2. Remembered(c) \in Seq(Messages)
      BY RememberedTyped
    <3> QED
      BY <1>0, <3>1, <3>2 DEF CardRow
  <2>2. card' = [card EXCEPT ![c] = [card[c] EXCEPT !.suggestion = None, !.dismissed = Remembered(c)]]
    BY <1>7, <1>0 DEF Dismiss, TypeOK, CardRow
  <2>3. {card[c].suggestion} \ {None} \subseteq Messages
    BY <1>0 DEF CardRow, Messages, None
  <2>4. answered' \in [Cards -> SUBSET Messages]
    BY <1>7, <2>3 DEF Dismiss, TypeOK
  <2>5. card' \in [Cards -> CardRow]
    BY <2>1, <2>2 DEF TypeOK
  <2> QED
    BY <1>7, <2>4, <2>5 DEF Dismiss, TypeOK
<1>8. CASE ClearBadge(c)
  <2>1. [card[c] EXCEPT !.suggestion = None] \in CardRow
    BY <1>0 DEF CardRow, None
  <2>2. card' = [card EXCEPT ![c] = [card[c] EXCEPT !.suggestion = None]]
    BY <1>8, <1>0 DEF ClearBadge, TypeOK, CardRow
  <2> QED
    BY <1>8, <2>1, <2>2 DEF ClearBadge, TypeOK
<1>9. CASE WebCrash(c)
  BY <1>9 DEF WebCrash, Mishap, TypeOK
<1>10. CASE Flip(c)
  BY <1>10 DEF Flip, TypeOK
<1> QED
  BY <1>1, <1>2, <1>3, <1>4, <1>5, <1>6, <1>7, <1>8, <1>9, <1>10 DEF User

LEMMA SweepStepTyped ==
    ASSUME TypeOK, SweepStep \/ SweepCrash
    PROVE  TypeOK'
<1>0. sweep \in SweepRow /\ digest \in DigestRow /\ card \in [Cards -> CardRow]
  BY SMTT(30), Rows DEF TypeOK
<1> DEFINE Fine(s, d) == s \in SweepRow /\ d \in DigestRow
<1>1. CASE SweepList
  <2>1. Listed \subseteq Cards
    BY DEF Listed
  <2>2. [c \in Cards |-> IF c \in Listed THEN card[c].misses ELSE 0] \in [Cards -> 0 .. 2]
    BY <1>0 DEF CardRow
  <2>3. sweep' \in SweepRow
    <3>1. {c \in Listed : card[c].closed} \subseteq Cards
      BY <2>1
    <3> QED
      BY <1>1, <2>1, <2>2, <3>1 DEF SweepList, IdleSweep, SweepRow
  <2>4. digest' \in DigestRow
    BY <1>0, <1>1 DEF SweepList, DigestRow
  <2> QED
    BY <1>1, <2>3, <2>4 DEF SweepList, TypeOK, SweepRow, DigestRow
<1>2. CASE SweepGathered
  <2>1. sweep' \in SweepRow
    BY <1>0, <1>2 DEF SweepGathered, SweepRow
  <2> QED
    BY <1>2, <2>1 DEF SweepGathered, TypeOK, SweepRow
<1>3. ASSUME NEW c \in Cards, NEW v \in {"alive", "miss", "unknown"}, Probe(c, v) PROVE TypeOK'
  <2>1. sweep' = [sweep EXCEPT !.verdict = [sweep.verdict EXCEPT ![c] = v]]
    BY <1>0, <1>3 DEF Probe, SweepRow
  <2>2. sweep' \in SweepRow
    BY <1>0, <2>1 DEF SweepRow
  <2>3. mishaps' \in Nat
    BY <1>3 DEF Probe, Mishap, TypeOK
  <2> QED
    BY <1>3, <2>2, <2>3 DEF Probe, TypeOK, SweepRow
<1>4. ASSUME NEW c \in Cards, NEW ok \in BOOLEAN, SweepWrite(c, ok) PROVE TypeOK'
  <2>1. sweep' \in SweepRow
    <3> DEFINE next == [sweep EXCEPT !.cards = sweep.cards \ {c},
                                     !.verdict = [sweep.verdict EXCEPT ![c] = "none"],
                                     !.misses = [sweep.misses EXCEPT ![c] = 0],
                                     !.closed = sweep.closed \ {c}]
    <3>1. next \in SweepRow
      <4>1. /\ sweep.cards \ {c} \in SUBSET Cards /\ sweep.closed \ {c} \in SUBSET Cards
            /\ [sweep.verdict EXCEPT ![c] = "none"] \in [Cards -> {"none", "alive", "miss", "unknown"}]
            /\ [sweep.misses EXCEPT ![c] = 0] \in [Cards -> 0 .. 2]
        BY <1>0 DEF SweepRow
      <4> QED
        BY <1>0, <4>1 DEF SweepRow
    <3>2. sweep' \in {IdleSweep, next}
      BY <1>0, <1>4 DEF SweepWrite, SweepRow
    <3> QED
      BY <3>1, <3>2, Blanks
  <2>2. card' \in [Cards -> CardRow]
    BY <1>0, <1>4, SweptTyped DEF SweepWrite
  <2>3. strikes' \in [Cards -> Nat]
    <3>1. \A n \in Nat : Smaller(2, n + 1) \in Nat
      BY DEF Smaller
    <3> QED
      BY <1>4, <3>1 DEF SweepWrite, TypeOK
  <2>4. announced' \in [Cards -> Nat]
    BY <1>4 DEF SweepWrite, TypeOK
  <2>5. mishaps' \in Nat
    BY <1>4 DEF SweepWrite, Mishap, TypeOK
  <2> QED
    BY <1>4, <2>1, <2>2, <2>3, <2>4, <2>5 DEF SweepWrite, TypeOK, SweepRow
<1>5. CASE SweepCrash
  <2>1. sweep' \in SweepRow
    BY <1>5, Blanks DEF SweepCrash
  <2>2. mishaps' \in Nat
    BY <1>5 DEF SweepCrash, Mishap, TypeOK
  <2> QED
    BY <1>5, <2>1, <2>2 DEF SweepCrash, TypeOK, SweepRow
<1> QED
  BY <1>1, <1>2, <1>3, <1>4, <1>5 DEF SweepStep

LEMMA DigestStepTyped ==
    ASSUME TypeOK, DigestStep \/ DigestCrash
    PROVE  TypeOK'
<1>0. digest \in DigestRow /\ card \in [Cards -> CardRow]
  BY Rows DEF TypeOK
<1>1. CASE DigestCompose
  <2>1. digest' \in DigestRow
    BY <1>1 DEF DigestCompose, DigestRow, Unannounced
  <2> QED
    BY <1>1, <2>1 DEF DigestCompose, TypeOK, DigestRow
<1>2. ASSUME NEW ok \in BOOLEAN, DigestSend(ok) PROVE TypeOK'
  <2>1. digest' \in DigestRow
    BY <1>0, <1>2, Blanks DEF DigestSend, DigestRow
  <2>2. announced' \in [Cards -> Nat]
    <3>1. MaxMishaps \in Nat
      BY BoardAssumption
    <3>2. \A n \in Nat : Smaller(n + 1, MaxMishaps + 2) \in Nat
      BY <3>1 DEF Smaller
    <3> QED
      BY <1>2, <3>2 DEF DigestSend, TypeOK
  <2>3. mishaps' \in Nat
    BY <1>2 DEF DigestSend, Mishap, TypeOK
  <2> QED
    BY <1>2, <2>1, <2>2, <2>3 DEF DigestSend, TypeOK, DigestRow
<1>3. ASSUME NEW c \in Cards, DigestMark(c) PROVE TypeOK'
  <2>1. digest' \in DigestRow
    BY <1>0, <1>3, Blanks DEF DigestMark, DigestRow
  <2>2. Marked(c) \in CardRow
    BY <1>0 DEF Marked, CardRow
  <2>3. card' \in [Cards -> CardRow]
    BY <1>0, <1>3, <2>2 DEF DigestMark
  <2> QED
    BY <1>3, <2>1, <2>3 DEF DigestMark, TypeOK, DigestRow
<1>4. CASE DigestCrash
  <2>1. digest' \in DigestRow
    BY <1>4, Blanks DEF DigestCrash
  <2>2. mishaps' \in Nat
    BY <1>4 DEF DigestCrash, Mishap, TypeOK
  <2> QED
    BY <1>4, <2>1, <2>2 DEF DigestCrash, TypeOK, DigestRow
<1> QED
  BY <1>1, <1>2, <1>3, <1>4 DEF DigestStep
\* Mail is numbered from 1, so a sweep under way is never before the first message.
Started == \A s \in Mailers : mail[s].pc # "idle" => mail[s].next >= 1

\* A sweep begins from a place in the inbox.
LEMMA SinceTyped ==
    ASSUME TypeOK
    PROVE  Since \in 0 .. Inbox /\ Since >= watermark
<1>1. /\ Inbox \in Nat /\ watermark \in NeverSwept .. Inbox /\ delivered \in 0 .. Inbox
      /\ old \in 0 .. delivered /\ young \in 0 .. delivered
  BY BoardAssumption DEF TypeOK
<1> QED
  BY <1>1 DEF Since, Larger, NeverSwept

LEMMA MailStepTyped ==
    ASSUME TypeOK, Started, NEW s \in Mailers, MailStep(s) \/ MailFail(s)
    PROVE  TypeOK' /\ Started'
<1>0. mail \in [Mailers -> MailRow] /\ card \in [Cards -> CardRow]
  BY Rows DEF TypeOK
<1>1. /\ Inbox \in Nat /\ Overlap \in Nat /\ MaxMessages \in Nat \ {0}
      /\ delivered \in 0 .. Inbox /\ Since \in 0 .. Inbox /\ watermark \in NeverSwept .. Inbox
  BY BoardAssumption, SinceTyped DEF TypeOK
<1>2. CASE MailList(s)
  <2> DEFINE row ==
         [pc |-> "search", cards |-> Listed,
          status |-> [c \in Cards |-> IF c \in Listed THEN card[c].status ELSE "new"],
          badge |-> [c \in Cards |-> IF c \in Listed THEN card[c].suggestion ELSE None],
          dismissed |-> [c \in Cards |-> IF c \in Listed THEN InSeq(card[c].dismissed)
                                                         ELSE {}],
          known |-> [c \in Cards |-> IF c \in Listed THEN answered[c] ELSE {}],
          from |-> Since, next |-> Larger(1, Since + 1 - Overlap), last |-> 0,
          stamp |-> delivered]
  <2>1. \A c \in Cards : /\ card[c].status \in Statuses \union {"new"}
                        /\ card[c].suggestion \in 0 .. Inbox
                        /\ card[c].dismissed \in Seq(Messages)
                        /\ answered[c] \in SUBSET Messages
    BY <1>0 DEF CardRow, TypeOK
  <2>2. \A q \in Seq(Messages) : InSeq(q) \in SUBSET Messages
    BY DEF InSeq
  <2>3. Larger(1, Since + 1 - Overlap) \in 0 .. Inbox + 1
    BY <1>1 DEF Larger
  <2>4. Listed \in SUBSET Cards
    BY DEF Listed
  <2>5. [c \in Cards |-> IF c \in Listed THEN card[c].status ELSE "new"]
           \in [Cards -> Statuses \union {"new"}]
    BY <2>1
  <2>6. [c \in Cards |-> IF c \in Listed THEN card[c].suggestion ELSE None] \in [Cards -> 0 .. Inbox]
    BY <1>1, <2>1 DEF None
  <2>7. [c \in Cards |-> IF c \in Listed THEN InSeq(card[c].dismissed) ELSE {}]
           \in [Cards -> SUBSET Messages]
    BY <2>1, <2>2
  <2>8. [c \in Cards |-> IF c \in Listed THEN answered[c] ELSE {}] \in [Cards -> SUBSET Messages]
    BY <2>1
  <2>9. row \in MailRow
    BY <1>1, <2>3, <2>4, <2>5, <2>6, <2>7, <2>8 DEF MailRow
  <2>10. mail' = [mail EXCEPT ![s] = row]
    BY <1>2 DEF MailList
  <2>11. mail' \in [Mailers -> MailRow]
    BY <1>0, <2>9, <2>10
  <2>12. row.next >= 1
    BY <1>1 DEF Larger
  <2> HIDE DEF row
  <2>13. Started'
    BY <1>0, <2>10, <2>12 DEF Started
  <2>14. lapsed' \subseteq Messages
    BY <1>2 DEF MailList, TypeOK
  <2> QED
    BY <1>2, <2>11, <2>13, <2>14 DEF MailList, TypeOK, MailRow
<1>3. CASE MailSearch(s)
  <2> DEFINE first == Larger(mail[s].next, delivered + 1 - MaxMessages)
  <2>1. mail[s].next \in 1 .. Inbox + 1
    BY <1>0, <1>3 DEF MailSearch, MailRow, Started
  <2>2. first \in 1 .. Inbox + 1
    BY <1>1, <2>1 DEF Larger
  <2>3. mail' = [mail EXCEPT ![s] = [mail[s] EXCEPT !.pc = "read", !.next = first, !.last = delivered]]
    BY <1>0, <1>3 DEF MailSearch, MailRow
  <2>4. cut' = cut \union (mail[s].next .. first - 1)
    BY <1>3 DEF MailSearch
  <2> HIDE DEF first
  <2>5. [mail[s] EXCEPT !.pc = "read", !.next = first, !.last = delivered] \in MailRow
    <3>1. first \in 0 .. Inbox + 1 /\ delivered \in 0 .. Inbox /\ mail[s] \in MailRow
      BY <1>0, <1>1, <2>2
    <3>2. \A r \in MailRow, n \in 0 .. Inbox + 1, d \in 0 .. Inbox :
              [r EXCEPT !.pc = "read", !.next = n, !.last = d] \in MailRow
      BY Zenon DEF MailRow
    <3> QED
      BY <3>1, <3>2
  <2>6. mail' \in [Mailers -> MailRow]
    BY <1>0, <2>3, <2>5
  <2>7. cut' \subseteq Messages
    <3> DEFINE n == mail[s].next
    <3>1. n \in 1 .. Inbox + 1
      BY <2>1
    <3> HIDE DEF n
    <3>2. n .. first - 1 \subseteq 1 .. Inbox
      BY <1>1, <2>2, <3>1
    <3>3. cut \subseteq 1 .. Inbox
      BY DEF TypeOK, Messages
    <3> QED
      BY <2>4, <3>2, <3>3 DEF Messages, n
  <2>8. Started'
    <3>1. \A t \in Mailers : mail'[t] = IF t = s THEN [mail[s] EXCEPT !.pc = "read", !.next = first, !.last = delivered]
                                        ELSE mail[t]
      BY <1>0, <2>3
    <3>2. [mail[s] EXCEPT !.pc = "read", !.next = first, !.last = delivered].next >= 1
      BY <1>0, <2>2 DEF MailRow
    <3> QED
      BY <3>1, <3>2 DEF Started
  <2> QED
    BY <1>3, <2>6, <2>7, <2>8 DEF MailSearch, TypeOK, MailRow
<1>4. ASSUME NEW lost \in SUBSET Cards, MailRead(s, lost) PROVE TypeOK' /\ Started'
  <2> DEFINE m == mail[s].next
             badged == {c \in mail[s].cards : Suggests(s, c, m)} \ lost
             badge == [c \in Cards |-> IF c \in badged /\ Live(c) THEN m ELSE mail[s].badge[c]]
  <2>1. m \in 1 .. Inbox
    <3>1. m <= mail[s].last /\ mail[s].pc = "read"
      BY <1>4 DEF MailRead
    <3>2. m \in 0 .. Inbox + 1 /\ mail[s].last \in 0 .. Inbox
      BY <1>0 DEF MailRow
    <3>3. m >= 1
      BY <3>1 DEF Started
    <3> HIDE DEF m
    <3> QED
      BY <1>1, <3>1, <3>2, <3>3
  <2>2. /\ card' = [c \in Cards |-> IF c \in badged /\ Live(c)
                                   THEN [card[c] EXCEPT !.suggestion = m] ELSE card[c]]
        /\ mail' = [mail EXCEPT ![s] = [mail[s] EXCEPT !.next = m + 1, !.badge = badge]]
        /\ examined' = examined \union {m}
    BY <1>0, <1>4 DEF MailRead, MailRow
  <2> HIDE DEF m
  <2>3. \A c \in Cards : [card[c] EXCEPT !.suggestion = m] \in CardRow
    <3>1. m \in 0 .. Inbox
      BY <1>1, <2>1
    <3> QED
      BY <1>0, <3>1 DEF CardRow
  <2>4. card' \in [Cards -> CardRow]
    BY <1>0, <2>2, <2>3
  <2>5. badge \in [Cards -> 0 .. Inbox]
    <3>1. m \in 0 .. Inbox /\ mail[s].badge \in [Cards -> 0 .. Inbox]
      BY <1>0, <1>1, <2>1 DEF MailRow
    <3> QED
      BY <3>1
  <2> HIDE DEF badged, badge
  <2>6. [mail[s] EXCEPT !.next = m + 1, !.badge = badge] \in MailRow
    <3>1. m + 1 \in 0 .. Inbox + 1
      BY <1>1, <2>1
    <3>2. mail[s] \in MailRow
      BY <1>0
    <3> DEFINE n == m + 1
    <3> HIDE DEF n
    <3>3. n \in 0 .. Inbox + 1
      BY <3>1 DEF n
    <3>4. [mail[s] EXCEPT !.next = n, !.badge = badge] \in MailRow
      BY <2>5, <3>2, <3>3 DEF MailRow
    <3> QED
      BY <3>4 DEF n
  <2>7. mail' \in [Mailers -> MailRow]
    BY <1>0, <2>2, <2>6
  <2>8. examined' \subseteq Messages
    BY <2>1, <2>2 DEF Messages, TypeOK
  <2>9. mishaps' \in Nat
    BY <1>4 DEF MailRead, Mishap, TypeOK
  <2>10. Started'
    <3>1. \A t \in Mailers : mail'[t] = IF t = s THEN [mail[s] EXCEPT !.next = m + 1, !.badge = badge]
                                        ELSE mail[t]
      BY <1>0, <2>2
    <3>2. [mail[s] EXCEPT !.next = m + 1, !.badge = badge].next = m + 1
      BY <1>0 DEF MailRow
    <3>3. m + 1 >= 1
      BY <2>1
    <3> QED
      BY <3>1, <3>2, <3>3 DEF Started
  <2> QED
    BY <1>4, <2>4, <2>7, <2>8, <2>9, <2>10 DEF MailRead, TypeOK, MailRow
<1>5. CASE MailEnd(s)
  <2>1. mail' \in [Mailers -> MailRow] /\ mail' = [mail EXCEPT ![s] = IdleMail]
    BY <1>0, <1>5, Blanks DEF MailEnd
  <2>2. watermark' \in NeverSwept .. Inbox
    <3>1. watermark' \in 0 .. Inbox
      BY <1>0, <1>5 DEF MailEnd, Stamp, MailRow
    <3> QED
      BY <1>1, <3>1 DEF NeverSwept
  <2>3. Started'
    BY <1>0, <2>1 DEF Started, IdleMail
  <2> QED
    BY <1>5, <2>1, <2>2, <2>3 DEF MailEnd, TypeOK, MailRow
<1>6. CASE MailFail(s)
  <2>1. mail' \in [Mailers -> MailRow] /\ mail' = [mail EXCEPT ![s] = IdleMail]
    BY <1>0, <1>6, Blanks DEF MailFail
  <2>2. Started'
    BY <1>0, <2>1 DEF Started, IdleMail
  <2>3. mishaps' \in Nat
    BY <1>6 DEF MailFail, Mishap, TypeOK
  <2> QED
    BY <1>6, <2>1, <2>2, <2>3 DEF MailFail, TypeOK, MailRow
<1>7. CASE MailSkip(s)
  <2> DEFINE m == mail[s].next
  <2>1. m \in 0 .. Inbox /\ m >= 1
    BY <1>0, <1>1, <1>7 DEF MailSkip, MailRow, Started
  <2>2. mail' = [mail EXCEPT ![s] = [mail[s] EXCEPT !.next = m + 1]]
    BY <1>0, <1>7 DEF MailSkip, MailRow
  <2>3. m + 1 \in 0 .. Inbox + 1 /\ m + 1 >= 1
    BY <1>1, <2>1
  <2> HIDE DEF m
  <2> DEFINE n == m + 1
  <2> HIDE DEF n
  <2>4. n \in 0 .. Inbox + 1 /\ n >= 1 /\ mail' = [mail EXCEPT ![s] = [mail[s] EXCEPT !.next = n]]
    BY <2>2, <2>3 DEF n
  <2>5. [mail[s] EXCEPT !.next = n] \in MailRow /\ [mail[s] EXCEPT !.next = n].next = n
    BY <1>0, <2>4 DEF MailRow
  <2>6. mail' \in [Mailers -> MailRow]
    BY <1>0, <2>4, <2>5
  <2>7. Started'
    BY <1>0, <2>4, <2>5 DEF Started
  <2> QED
    BY <1>7, <2>6, <2>7 DEF MailSkip, TypeOK, MailRow
<1> QED
  BY <1>2, <1>3, <1>4, <1>5, <1>6, <1>7 DEF MailStep

\* Mail and time that pass.
LEMMA WorldTyped ==
    ASSUME TypeOK, Age \/ \E l \in 0 .. MaxLag : Deliver(l)
    PROVE  TypeOK' /\ UNCHANGED mail
<1>0. /\ Inbox \in Nat /\ delivered \in 0 .. Inbox /\ lag \in [Messages -> Nat]
      /\ old \in 0 .. delivered /\ young \in 0 .. delivered
  BY BoardAssumption DEF TypeOK
<1>1. CASE Age
  <2>1. old' \in 0 .. delivered' /\ young' \in 0 .. delivered'
    BY <1>0, <1>1 DEF Age
  <2> QED
    BY <1>1, <2>1 DEF Age, TypeOK
<1>2. ASSUME NEW l \in 0 .. MaxLag, Deliver(l) PROVE TypeOK' /\ UNCHANGED mail
  <2>1. delivered' \in 0 .. Inbox /\ old' \in 0 .. delivered' /\ young' \in 0 .. delivered'
    BY <1>0, <1>2 DEF Deliver
  <2>2. l \in Nat
    BY BoardAssumption
  <2>3. lag' \in [Messages -> Nat]
    BY <1>0, <1>2, <2>2 DEF Deliver
  <2> QED
    BY <1>2, <2>1, <2>3 DEF Deliver, TypeOK
<1> QED
  BY <1>1, <1>2

LEMMA TypeStep ==
    ASSUME TypeOK, Started, [Next]_vars
    PROVE  TypeOK' /\ Started'
<1>1. CASE UNCHANGED mail
  <2>1. Started'
    BY <1>1 DEF Started
  <2>2. CASE Age \/ \E l \in 0 .. MaxLag : Deliver(l)
    BY <2>1, <2>2, WorldTyped
  <2>3. CASE UNCHANGED vars
    BY <2>1, <2>3 DEF vars, TypeOK
  <2> QED
    BY <2>1, <2>2, <2>3, CardStepTyped, SweepStepTyped, DigestStepTyped, MailStepTyped DEF Next
<1>2. CASE mail' # mail
  <2>1. ASSUME NEW c \in Cards,
               \/ Claim(c) \/ Sent(c) \/ Release(c) \/ Expire(c) \/ User(c) \/ ClearBadge(c)
               \/ WebCrash(c) \/ Flip(c)
        PROVE  mail' = mail
    BY <2>1 DEF Claim, Sent, Release, Expire, User, AddManual, Move, Dismiss, ClearBadge,
                WebCrash, Flip
  <2>2. SweepStep \/ SweepCrash \/ DigestStep \/ DigestCrash \/ UNCHANGED vars
          => mail' = mail
    BY DEF SweepStep, SweepList, SweepGathered, Probe, SweepWrite, SweepCrash, DigestStep,
           DigestCompose, DigestSend, DigestMark, DigestCrash, vars
  <2> QED
    BY SMTT(30), <1>2, <2>1, <2>2, WorldTyped, MailStepTyped DEF Next
<1> QED
  BY <1>1, <1>2

LEMMA StartTyped ==
    ASSUME Init
    PROVE  TypeOK /\ Started
<1>1. Inbox \in Nat /\ 0 \in 0 .. Inbox /\ NeverSwept \in NeverSwept .. Inbox
  BY BoardAssumption DEF NeverSwept
<1>2. mail \in [Mailers -> MailRow] /\ Started
  BY Blanks DEF Init, Started, IdleMail
<1>3. card \in [Cards -> CardRow] /\ sweep \in SweepRow /\ digest \in DigestRow
  BY Blanks DEF Init
<1>4. /\ watermark \in NeverSwept .. Inbox /\ delivered \in 0 .. Inbox
      /\ lag \in [Messages -> Nat] /\ old \in 0 .. delivered /\ young \in 0 .. delivered
  BY <1>1 DEF Init
<1> QED
  BY <1>2, <1>3, <1>4 DEF Init, TypeOK, SweepRow, DigestRow, MailRow

\* Whatever the sweeps, the user, the poller and the digest do to a card at the same time, its
\* row stays well formed and no sweep reads mail that is not there.
THEOREM CardsTypeCorrect == Spec => []TypeOK
<1>1. Init => TypeOK /\ Started
  BY StartTyped
<1>2. TypeOK /\ Started /\ [Next]_vars => TypeOK' /\ Started'
  BY TypeStep
<1> QED
  BY <1>1, <1>2, PTL DEF Spec

-----------------------------------------------------------------------------
(* The watermark *)

\* A message a sweep read, or that is one of the three kinds no sweep has to read.
Covered(m) == m \in examined \union cut \union lapsed \union Late

\* A sweep begins from a place up to which all is covered, has come to one as far, and stops
\* no earlier than the newest message there was when it began, which is what it will stamp.
MailInv ==
    /\ watermark <= delivered /\ MailIsRead
    /\ \A m \in Messages : m > delivered => lag[m] = 0
    /\ \A s \in Mailers : mail[s].pc # "idle" =>
          /\ mail[s].stamp <= delivered
          /\ mail[s].pc = "read" => mail[s].stamp <= mail[s].last
          /\ \A m \in 1 .. mail[s].from : Covered(m)
          /\ \A m \in 1 .. mail[s].next - 1 : Covered(m)

LEMMA MailStepKept ==
    ASSUME TypeOK, Started, MailInv, NEW s \in Mailers, MailStep(s) \/ MailFail(s)
    PROVE  MailInv'
<1>0. /\ mail \in [Mailers -> MailRow] /\ mail[s] \in MailRow
      /\ Inbox \in Nat /\ Overlap \in Nat /\ MaxMessages \in Nat \ {0}
      /\ watermark \in NeverSwept .. Inbox /\ delivered \in 0 .. Inbox
      /\ Since \in 0 .. Inbox /\ lag \in [Messages -> Nat]
  BY Rows, SinceTyped, BoardAssumption DEF TypeOK
<1>1. /\ delivered' = delivered /\ lag' = lag
      /\ examined \subseteq examined' /\ cut \subseteq cut' /\ lapsed \subseteq lapsed'
  BY DEF MailStep, MailList, MailSearch, MailSkip, MailRead, MailEnd, MailFail
<1>2. \A m : Covered(m) => Covered(m)'
  BY <1>1 DEF Covered, Late
\* What has to be shown of the sweep that moved; the others only see more covered.
<1>3. ASSUME \A t \in Mailers \ {s} : mail'[t] = mail[t], watermark' = watermark,
             mail'[s].pc # "idle" =>
                /\ mail'[s].stamp <= delivered
                /\ mail'[s].pc = "read" => mail'[s].stamp <= mail'[s].last
                /\ \A m \in 1 .. mail'[s].from : Covered(m)'
                /\ \A m \in 1 .. mail'[s].next - 1 : Covered(m)'
      PROVE  MailInv'
  <2>1. /\ watermark' <= delivered' /\ MailIsRead'
        /\ \A m \in Messages : m > delivered' => lag'[m] = 0
    BY <1>1, <1>2, <1>3 DEF MailInv, MailIsRead, Covered
  <2>2. ASSUME NEW t \in Mailers, mail'[t].pc # "idle"
        PROVE  /\ mail'[t].stamp <= delivered'
               /\ mail'[t].pc = "read" => mail'[t].stamp <= mail'[t].last
               /\ \A m \in 1 .. mail'[t].from : Covered(m)'
               /\ \A m \in 1 .. mail'[t].next - 1 : Covered(m)'
    <3>1. CASE t = s
      BY <1>1, <1>3, <2>2, <3>1
    <3>2. CASE t # s
      BY <1>1, <1>2, <1>3, <2>2, <3>2 DEF MailInv
    <3> QED
      BY <3>1, <3>2
  <2> QED
    BY <2>1, <2>2 DEF MailInv
<1>4. CASE MailList(s)
  <2> DEFINE n == Larger(1, Since + 1 - Overlap)
  <2>1. /\ \A t \in Mailers \ {s} : mail'[t] = mail[t]
        /\ mail'[s].pc = "search" /\ mail'[s].next = n /\ mail'[s].stamp = delivered
        /\ mail'[s].from = Since
    BY <1>0, <1>4 DEF MailList
  <2>2. \A m \in 1 .. n - 1 : m \in 1 .. Since
    BY <1>0 DEF Larger
  <2>6. ASSUME NEW m \in 1 .. Since PROVE Covered(m)'
    <3>1. CASE m <= watermark
      <4>1. m \in 1 .. watermark
        BY <1>0, <3>1 DEF NeverSwept
      <4> QED
        BY <1>2, <4>1 DEF MailInv, MailIsRead, Covered
    <3>2. CASE watermark < m
      <4>1. m \in Messages /\ m <= Since
        BY <1>0 DEF Messages
      <4> QED
        BY <1>4, <3>2, <4>1 DEF MailList, Covered
    <3> QED
      BY <1>0, <3>1, <3>2 DEF NeverSwept
  <2>3. \A m \in 1 .. n - 1 : Covered(m)'
    BY <2>2, <2>6
  <2>4. watermark' = watermark
    BY <1>4 DEF MailList
  <2>5. delivered <= delivered
    BY <1>0
  <2> HIDE DEF n
  <2> QED
    BY <1>3, <2>1, <2>3, <2>4, <2>5, <2>6
<1>5. CASE MailSearch(s)
  <2> DEFINE n == mail[s].next
             first == Larger(n, delivered + 1 - MaxMessages)
  <2>1. /\ watermark' = watermark /\ cut' = cut \union (n .. first - 1) /\ mail[s].pc = "search"
        /\ \A t \in Mailers \ {s} : mail'[t] = mail[t]
    BY <1>0, <1>5 DEF MailSearch
  <2>2. /\ mail'[s].pc = "read" /\ mail'[s].stamp = mail[s].stamp
        /\ mail'[s].last = delivered /\ mail'[s].next = first /\ mail'[s].from = mail[s].from
    BY <1>0, <1>5 DEF MailSearch, MailRow
  <2>3. n \in Nat /\ \A m \in 1 .. n - 1 : Covered(m)
    BY <1>0, <2>1 DEF MailInv, MailRow
  <2>4. mail[s].stamp <= delivered /\ \A m \in 1 .. mail[s].from : Covered(m)
    BY <2>1 DEF MailInv
  <2> HIDE DEF n
  <2>5. first \in Int
    BY <1>0, <2>3 DEF Larger
  <2> HIDE DEF first
  <2>6. \A m \in 1 .. first - 1 : m \in 1 .. n - 1 \/ m \in n .. first - 1
    BY <2>3, <2>5
  <2>7. \A m \in 1 .. first - 1 : Covered(m)'
    BY <1>2, <2>1, <2>3, <2>6 DEF Covered
  <2> QED
    BY <1>2, <1>3, <2>1, <2>2, <2>4, <2>7
<1>6. ASSUME NEW lost \in SUBSET Cards, MailRead(s, lost) PROVE MailInv'
  <2> DEFINE m0 == mail[s].next
  <2>1. /\ mail[s].pc = "read" /\ watermark' = watermark /\ examined' = examined \union {m0}
        /\ \A t \in Mailers \ {s} : mail'[t] = mail[t]
    BY <1>0, <1>6 DEF MailRead
  <2>2. /\ mail'[s].pc = "read" /\ mail'[s].next = m0 + 1
        /\ mail'[s].stamp = mail[s].stamp /\ mail'[s].last = mail[s].last
        /\ mail'[s].from = mail[s].from
    BY <1>0, <1>6 DEF MailRead, MailRow
  <2>3. /\ m0 \in Nat /\ \A m \in 1 .. m0 - 1 : Covered(m)
        /\ mail[s].stamp <= delivered /\ mail[s].stamp <= mail[s].last
        /\ \A m \in 1 .. mail[s].from : Covered(m)
    BY <1>0, <2>1 DEF MailInv, MailRow
  <2> HIDE DEF m0
  <2>4. \A m \in 1 .. mail'[s].next - 1 : m \in 1 .. m0 - 1 \/ m = m0
    BY <2>2, <2>3
  <2>5. \A m \in 1 .. mail'[s].next - 1 : Covered(m)'
    BY <1>2, <2>1, <2>3, <2>4 DEF Covered
  <2> QED
    BY <1>2, <1>3, <2>1, <2>2, <2>3, <2>5
<1>7. CASE MailEnd(s)
  <2>1. /\ mail[s].pc = "read" /\ mail[s].next > mail[s].last /\ watermark' = mail[s].stamp
        /\ mail' = [mail EXCEPT ![s] = IdleMail]
    BY <1>7 DEF MailEnd, Stamp
  <2>2. /\ mail[s].stamp <= delivered /\ mail[s].stamp <= mail[s].last
        /\ \A m \in 1 .. mail[s].next - 1 : Covered(m)
    BY <2>1 DEF MailInv
  <2>3. mail[s].stamp \in Nat /\ mail[s].last \in Nat /\ mail[s].next \in Nat
    BY <1>0 DEF MailRow
  <2>4. \A m \in 1 .. mail[s].stamp : m \in 1 .. mail[s].next - 1
    BY <2>1, <2>2, <2>3
  <2>5. MailIsRead'
    BY <1>2, <2>1, <2>2, <2>4 DEF MailIsRead, Covered
  <2>6. \A t \in Mailers : mail'[t] = IF t = s THEN IdleMail ELSE mail[t]
    BY <1>0, <2>1
  <2> QED
    BY <1>1, <1>2, <2>1, <2>2, <2>5, <2>6 DEF MailInv, IdleMail
<1>8. CASE MailFail(s)
  <2>1. /\ watermark' = watermark /\ mail'[s].pc = "idle"
        /\ \A t \in Mailers \ {s} : mail'[t] = mail[t]
    BY <1>0, <1>8 DEF MailFail, IdleMail
  <2> QED
    BY <1>3, <2>1
\* What is passed over is dated too far back, or is from before the place the sweep began from.
<1>9. CASE MailSkip(s)
  <2> DEFINE m0 == mail[s].next
             from == mail[s].from
  <2>1. /\ mail[s].pc = "read" /\ watermark' = watermark /\ TooOld(s, m0) /\ m0 <= mail[s].last
        /\ \A t \in Mailers \ {s} : mail'[t] = mail[t]
    BY <1>0, <1>9 DEF MailSkip
  <2>2. /\ mail'[s].pc = "read" /\ mail'[s].next = m0 + 1 /\ mail'[s].from = from
        /\ mail'[s].stamp = mail[s].stamp /\ mail'[s].last = mail[s].last
    BY <1>0, <1>9 DEF MailSkip, MailRow
  <2>3. /\ \A m \in 1 .. m0 - 1 : Covered(m)
        /\ mail[s].stamp <= delivered /\ mail[s].stamp <= mail[s].last
        /\ \A m \in 1 .. from : Covered(m)
    BY <2>1 DEF MailInv
  <2>4. m0 >= 1 /\ m0 \in 0 .. Inbox + 1 /\ mail[s].last \in 0 .. Inbox /\ from \in 0 .. Inbox
    BY <1>0, <2>1 DEF Started, MailRow
  <2>5. m0 + Overlap <= from + lag[m0]
    BY <2>1 DEF TooOld
  <2> HIDE DEF m0, from
  <2>6. m0 \in Messages /\ lag[m0] \in Nat
    BY <1>0, <2>1, <2>4 DEF Messages
  <2>7. Covered(m0)
    <3>1. CASE lag[m0] > Overlap
      BY <1>0, <2>6, <3>1 DEF Covered, Late
    <3>2. CASE lag[m0] <= Overlap
      <4>1. m0 \in 1 .. from
        BY <1>0, <2>4, <2>5, <2>6, <3>2
      <4> QED
        BY <2>3, <4>1
    <3> QED
      BY <1>0, <2>6, <3>1, <3>2
  <2>8. \A m \in 1 .. mail'[s].next - 1 : m \in 1 .. m0 - 1 \/ m = m0
    BY <2>2, <2>4
  <2>9. \A m \in 1 .. mail'[s].next - 1 : Covered(m)'
    BY <1>2, <2>3, <2>7, <2>8
  <2> QED
    BY <1>2, <1>3, <2>1, <2>2, <2>3, <2>9
<1> QED
  BY <1>4, <1>5, <1>6, <1>7, <1>8, <1>9 DEF MailStep

\* What happens to a card moves no sweep of the mail.
LEMMA MailUntouched ==
    ASSUME NEW c \in Cards,
           \/ Claim(c) \/ Sent(c) \/ Release(c) \/ Expire(c) \/ User(c) \/ ClearBadge(c)
           \/ WebCrash(c) \/ Flip(c)
    PROVE  UNCHANGED <<mail, watermark, delivered, lag, examined, cut, lapsed>>
<1>1. User(c) => UNCHANGED <<mail, watermark, delivered, lag, examined, cut, lapsed>>
  BY DEF User, AddManual, Move, Dismiss
<1> QED
  BY SMTT(30), <1>1 DEF Claim, Sent, Release, Expire, ClearBadge, WebCrash, Flip

LEMMA MailKept ==
    ASSUME TypeOK, Started, MailInv, [Next]_vars
    PROVE  MailInv'
<1>1. CASE UNCHANGED <<mail, watermark, delivered, lag, examined, cut, lapsed>>
  BY <1>1 DEF MailInv, MailIsRead, Covered, Late
<1>2. ASSUME NEW l \in 0 .. MaxLag, Deliver(l) PROVE MailInv'
  <2>1. /\ delivered' = delivered + 1 /\ delivered \in Nat /\ watermark \in Int
        /\ UNCHANGED <<mail, watermark, examined, cut, lapsed>>
        /\ lag' = [lag EXCEPT ![delivered + 1] = l] /\ lag \in [Messages -> Nat]
        /\ \A s \in Mailers : mail[s].stamp \in Nat
    BY <1>2, Rows, BoardAssumption DEF Deliver, TypeOK, MailRow, NeverSwept
  <2>2. delivered + 1 \in Messages => lag[delivered + 1] = 0
    BY <2>1 DEF MailInv
  <2>3. Late \subseteq Late'
    <3>1. 0 <= Overlap
      BY BoardAssumption
    <3>2. \A m \in Messages \ {delivered + 1} : lag'[m] = lag[m]
      BY <2>1
    <3> QED
      BY <2>1, <2>2, <3>1, <3>2, BoardAssumption DEF Late
  <2>4. \A m : Covered(m) => Covered(m)'
    BY <2>1, <2>3 DEF Covered
  <2>5. \A m \in Messages : m > delivered' => lag'[m] = 0
    BY <2>1, BoardAssumption DEF MailInv, Messages
  <2>6. MailIsRead'
    BY <2>1, <2>4 DEF MailInv, MailIsRead, Covered
  <2>7. ASSUME NEW s \in Mailers, mail'[s].pc # "idle"
        PROVE  /\ mail'[s].stamp <= delivered'
               /\ mail'[s].pc = "read" => mail'[s].stamp <= mail'[s].last
               /\ \A m \in 1 .. mail'[s].from : Covered(m)'
               /\ \A m \in 1 .. mail'[s].next - 1 : Covered(m)'
    BY <2>1, <2>4, <2>7 DEF MailInv
  <2> QED
    BY <2>1, <2>5, <2>6, <2>7 DEF MailInv
<1>3. ASSUME NEW c \in Cards,
             \/ Claim(c) \/ Sent(c) \/ Release(c) \/ Expire(c) \/ User(c) \/ ClearBadge(c)
             \/ WebCrash(c) \/ Flip(c)
      PROVE  MailInv'
  BY <1>1, <1>3, MailUntouched
<1>4. CASE SweepStep \/ SweepCrash \/ DigestStep \/ DigestCrash \/ Age \/ UNCHANGED vars
  <2>1. UNCHANGED <<mail, watermark, delivered, lag, examined, cut, lapsed>>
    BY <1>4 DEF SweepStep, SweepList, SweepGathered, Probe, SweepWrite, SweepCrash, DigestStep,
                DigestCompose, DigestSend, DigestMark, DigestCrash, Age, vars
  <2> QED
    BY SMTT(30), <1>1, <2>1
<1> QED
  BY <1>2, <1>3, <1>4, MailStepKept DEF Next

\* The watermark passes no message that was neither read nor cut off, but one that left the
\* windows the sweeps look back over or is dated further back than their overlap: for any
\* inbox, any windows, overlap and cap, any number of sweeps at a time, and wherever they fail.
THEOREM WatermarkIsSafe == Spec => []MailIsRead
<1>1. Init => TypeOK /\ Started /\ MailInv
  <2>1. Init => watermark = -1 /\ delivered = 0 /\ \A m \in Messages : lag[m] = 0
    BY DEF Init, NeverSwept
  <2>2. Init => \A s \in Mailers : mail[s].pc = "idle"
    BY DEF Init, IdleMail
  <2> QED
    BY <2>1, <2>2, StartTyped DEF MailInv, MailIsRead
<1>2. TypeOK /\ Started /\ MailInv /\ [Next]_vars => TypeOK' /\ Started' /\ MailInv'
  BY TypeStep, MailKept
<1>3. MailInv => MailIsRead
  BY DEF MailInv
<1> QED
  BY <1>1, <1>2, <1>3, PTL DEF Spec

-----------------------------------------------------------------------------
(* The two strikes *)

\* A card the sweep listed is a kept one, so it lives on while it is probed, and nobody else
\* writes its misses and its flag; and these never run ahead of the strikes.
StrikeInv ==
    /\ \A c \in Cards : Live(c) /\ card[c].status \in Kept => ~card[c].expires
    /\ \A c \in sweep.cards :
          /\ Live(c) /\ ~card[c].expires
          /\ sweep.misses[c] = card[c].misses
          /\ (c \in sweep.closed <=> card[c].closed)
    /\ \A c \in Cards : card[c].misses <= strikes[c]
    /\ TwoStrikes

\* A step that leaves the sweep and every card's strikes alone, and takes no ttl back.
LEMMA Relabelled ==
    ASSUME TypeOK, StrikeInv, UNCHANGED <<sweep, strikes>>,
           \A c \in Cards : /\ card'[c].live = card[c].live /\ card'[c].misses = card[c].misses
                            /\ card'[c].closed = card[c].closed
                            /\ card'[c].expires => card[c].expires
                            /\ card'[c].status \in Kept => card[c].status \in Kept \/ ~card'[c].expires
    PROVE  StrikeInv'
<1>1. \A c \in Cards : Live(c)' /\ card'[c].status \in Kept => ~card'[c].expires
  BY DEF StrikeInv, Live
<1>2. sweep.cards \subseteq Cards
  BY Rows DEF SweepRow
<1>3. \A c \in sweep.cards :
        /\ Live(c)' /\ ~card'[c].expires /\ sweep.misses[c] = card'[c].misses
        /\ (c \in sweep.closed <=> card'[c].closed)
  BY <1>2 DEF StrikeInv, Live
<1>4. \A c \in Cards : card'[c].misses <= strikes'[c] /\ (card'[c].closed => strikes'[c] >= 2)
  BY DEF StrikeInv, TwoStrikes
<1> QED
  BY <1>1, <1>3, <1>4 DEF StrikeInv, TwoStrikes

\* A step that writes one row anew, which no sweep has listed.
LEMMA Rewritten ==
    ASSUME TypeOK, StrikeInv, sweep' = sweep, NEW c \in Cards, c \notin sweep.cards,
           \A d \in Cards \ {c} : card'[d] = card[d] /\ strikes'[d] = strikes[d],
           card'[c].misses = 0, ~card'[c].closed, 0 <= strikes'[c],
           card'[c].live /\ card'[c].status \in Kept => ~card'[c].expires
    PROVE  StrikeInv'
BY Rows DEF StrikeInv, TwoStrikes, Live, SweepRow

LEMMA CardStepStrikes ==
    ASSUME MaxReleases = 0, TypeOK, StrikeInv, NEW c \in Cards,
           \/ Claim(c) \/ Sent(c) \/ Release(c) \/ Expire(c) \/ User(c) \/ ClearBadge(c)
           \/ WebCrash(c) \/ Flip(c)
    PROVE  StrikeInv'
<1>0. /\ card \in [Cards -> CardRow] /\ strikes \in [Cards -> Nat] /\ releases \in Nat
      /\ card[c] \in CardRow
  BY DEF TypeOK
<1>1. "new" \notin Kept
  BY DEF Kept, Active
<1>2. ~Live(c) \/ card[c].expires => c \notin sweep.cards
  BY DEF StrikeInv, Live
<1>3. CASE Claim(c)
  <2>1. /\ card'[c] = NewCard /\ strikes' = strikes /\ sweep' = sweep /\ c \notin sweep.cards
        /\ \A d \in Cards \ {c} : card'[d] = card[d]
    BY <1>0, <1>2, <1>3 DEF Claim
  <2>2. NewCard.misses = 0 /\ ~NewCard.closed /\ NewCard.status = "new"
    BY DEF NewCard, NoCard
  <2> QED
    BY <1>0, <1>1, <2>1, <2>2, Rewritten
<1>4. ASSUME NEW s \in Statuses, AddManual(c, s) PROVE StrikeInv'
  <2>1. /\ card'[c] = [NewCard EXCEPT !.status = s, !.expires = FALSE]
        /\ strikes' = strikes /\ sweep' = sweep /\ c \notin sweep.cards
        /\ \A d \in Cards \ {c} : card'[d] = card[d]
    BY <1>0, <1>2, <1>4 DEF AddManual
  <2>2. card'[c].misses = 0 /\ ~card'[c].closed /\ ~card'[c].expires /\ 0 <= strikes'[c]
    BY <1>0, <2>1 DEF NewCard, NoCard
  <2>3. card'[c].live /\ card'[c].status \in Kept => ~card'[c].expires
    BY <2>2
  <2> QED
    BY <2>1, <2>2, <2>3, Rewritten
<1>5. CASE Expire(c)
  <2>1. /\ card'[c] = NoCard /\ strikes'[c] = 0 /\ sweep' = sweep /\ c \notin sweep.cards
        /\ \A d \in Cards \ {c} : card'[d] = card[d] /\ strikes'[d] = strikes[d]
    BY <1>0, <1>2, <1>5 DEF Expire, Gone
  <2>2. NoCard.misses = 0 /\ ~NoCard.closed /\ ~NoCard.live
    BY DEF NoCard
  <2> QED
    BY <2>1, <2>2, Rewritten
<1>6. ~Release(c)
  BY <1>0 DEF Release
<1>7. ASSUME NEW s \in Statuses, Move(c, s) PROVE StrikeInv'
  <2>1. card' = [card EXCEPT ![c] = [card[c] EXCEPT !.status = s, !.expires = @ /\ s \notin Kept]]
    BY <1>0, <1>7 DEF Move, CardRow
  <2>2. UNCHANGED <<sweep, strikes>>
    BY <1>7 DEF Move
  <2>3. \A d \in Cards : /\ card'[d].live = card[d].live /\ card'[d].misses = card[d].misses
                         /\ card'[d].closed = card[d].closed
                         /\ card'[d].expires => card[d].expires
                         /\ card'[d].status \in Kept => card[d].status \in Kept \/ ~card'[d].expires
    BY <1>0, <2>1 DEF CardRow
  <2> QED
    BY <2>2, <2>3, Relabelled
<1>8. CASE Dismiss(c)
  <2>1. \A d \in Cards : /\ card'[d].live = card[d].live /\ card'[d].misses = card[d].misses
                         /\ card'[d].closed = card[d].closed /\ card'[d].status = card[d].status
                         /\ card'[d].expires = card[d].expires
    BY <1>0, <1>8 DEF Dismiss, CardRow
  <2>2. UNCHANGED <<sweep, strikes>>
    BY <1>8 DEF Dismiss
  <2> QED
    BY <2>1, <2>2, Relabelled
<1>9. CASE ClearBadge(c)
  <2>1. \A d \in Cards : /\ card'[d].live = card[d].live /\ card'[d].misses = card[d].misses
                         /\ card'[d].closed = card[d].closed /\ card'[d].status = card[d].status
                         /\ card'[d].expires = card[d].expires
    BY <1>0, <1>9 DEF ClearBadge, CardRow
  <2>2. UNCHANGED <<sweep, strikes>>
    BY <1>9 DEF ClearBadge
  <2> QED
    BY <2>1, <2>2, Relabelled
<1>10. CASE Sent(c) \/ WebCrash(c) \/ Flip(c)
  <2>1. UNCHANGED <<card, sweep, strikes>>
    BY <1>10 DEF Sent, WebCrash, Flip
  <2> QED
    BY <2>1, Relabelled
<1> QED
  BY <1>3, <1>4, <1>5, <1>6, <1>7, <1>8, <1>9, <1>10 DEF User

LEMMA SweepStepStrikes ==
    ASSUME TypeOK, StrikeInv, SweepStep \/ SweepCrash
    PROVE  StrikeInv'
<1>0. sweep \in SweepRow /\ card \in [Cards -> CardRow] /\ strikes \in [Cards -> Nat]
  BY Rows DEF TypeOK
<1>1. CASE SweepList
  <2>1. /\ sweep'.cards = Listed /\ UNCHANGED <<card, strikes>>
        /\ sweep'.misses = [c \in Cards |-> IF c \in Listed THEN card[c].misses ELSE 0]
        /\ sweep'.closed = {c \in Listed : card[c].closed}
    BY <1>1 DEF SweepList, IdleSweep
  <2>2. \A c \in Listed : c \in Cards /\ Live(c) /\ card[c].status \in Kept
    BY DEF Listed, Kept
  <2> QED
    BY <2>1, <2>2 DEF StrikeInv, TwoStrikes, Live
<1>2. CASE SweepGathered
  <2>1. /\ sweep'.cards = sweep.cards /\ sweep'.misses = sweep.misses
        /\ sweep'.closed = sweep.closed /\ UNCHANGED <<card, strikes>>
    BY <1>0, <1>2 DEF SweepGathered, SweepRow
  <2> QED
    BY <2>1 DEF StrikeInv, TwoStrikes, Live
<1>3. ASSUME NEW c \in Cards, NEW v \in {"alive", "miss", "unknown"}, Probe(c, v) PROVE StrikeInv'
  <2>1. /\ sweep'.cards = sweep.cards /\ sweep'.misses = sweep.misses
        /\ sweep'.closed = sweep.closed /\ UNCHANGED <<card, strikes>>
    BY <1>0, <1>3 DEF Probe, SweepRow
  <2> QED
    BY <2>1 DEF StrikeInv, TwoStrikes, Live
<1>4. ASSUME NEW c \in Cards, NEW ok \in BOOLEAN, SweepWrite(c, ok) PROVE StrikeInv'
  <2>1. /\ c \in sweep.cards /\ Live(c) /\ ~card[c].expires
        /\ sweep.misses[c] = card[c].misses /\ (c \in sweep.closed <=> card[c].closed)
        /\ card[c].misses <= strikes[c] /\ (card[c].closed => strikes[c] >= 2)
        /\ card[c].misses \in 0 .. 2 /\ strikes[c] \in Nat /\ card[c] \in CardRow
    <3>1. c \in sweep.cards
      BY <1>4 DEF SweepWrite
    <3>2. card[c] \in CardRow /\ card[c].misses \in 0 .. 2 /\ strikes[c] \in Nat
      BY <1>0 DEF CardRow
    <3>3. /\ Live(c) /\ ~card[c].expires
          /\ sweep.misses[c] = card[c].misses /\ (c \in sweep.closed <=> card[c].closed)
      BY <3>1 DEF StrikeInv, Live
    <3>4. card[c].misses <= strikes[c] /\ (card[c].closed => strikes[c] >= 2)
      BY DEF StrikeInv, TwoStrikes
    <3> QED
      BY <3>1, <3>2, <3>3, <3>4
  <2>2. \A d \in Cards \ {c} : card'[d] = card[d] /\ strikes'[d] = strikes[d]
    BY <1>0, <1>4 DEF SweepWrite
  <2>3. sweep'.cards \subseteq sweep.cards \ {c}
    BY <1>0, <1>4 DEF SweepWrite, IdleSweep, SweepRow
  <2>4. \A d \in sweep'.cards : sweep'.misses[d] = sweep.misses[d] /\ (d \in sweep'.closed <=> d \in sweep.closed)
    <3>1. CASE sweep' = IdleSweep
      BY <3>1 DEF IdleSweep
    <3>2. CASE sweep' # IdleSweep
      <4>1. sweep' = [sweep EXCEPT !.cards = sweep.cards \ {c},
                                   !.verdict = [sweep.verdict EXCEPT ![c] = "none"],
                                   !.misses = [sweep.misses EXCEPT ![c] = 0],
                                   !.closed = sweep.closed \ {c}]
        BY <1>0, <1>4, <3>2 DEF SweepWrite, SweepRow
      <4>2. sweep'.misses = [sweep.misses EXCEPT ![c] = 0] /\ sweep'.closed = sweep.closed \ {c}
        BY <1>0, <4>1 DEF SweepRow
      <4>3. sweep.misses \in [Cards -> 0 .. 2] /\ sweep.cards \subseteq Cards
        BY <1>0 DEF SweepRow
      <4> QED
        BY <2>3, <4>2, <4>3
    <3> QED
      BY <3>1, <3>2
  <2>5. /\ card'[c].live = card[c].live /\ card'[c].expires = card[c].expires
        /\ card'[c].status = card[c].status
    <3>1. card'[c] \in {card[c], Swept(c)}
      BY <1>0, <1>4 DEF SweepWrite
    <3>2. /\ Swept(c).live = card[c].live /\ Swept(c).expires = card[c].expires
          /\ Swept(c).status = card[c].status
      BY <2>1 DEF Swept, Checked, CardRow
    <3> QED
      BY <3>1, <3>2
  <2>6. card'[c].misses <= strikes'[c] /\ (card'[c].closed => strikes'[c] >= 2)
    <3>1. CASE ~ok
      BY <1>4, <2>1, <3>1 DEF SweepWrite
    <3>2. CASE ok
      <4>1. /\ card'[c] = Swept(c)
            /\ strikes'[c] = CASE sweep.verdict[c] = "miss" -> Smaller(2, strikes[c] + 1)
                                [] sweep.verdict[c] = "alive" -> 0
                                [] OTHER -> strikes[c]
        BY <1>0, <1>4, <2>1, <3>2 DEF SweepWrite
      <4>2. CASE sweep.verdict[c] = "miss"
        <5>1. /\ Swept(c).misses = Smaller(2, card[c].misses + 1)
              /\ Swept(c).closed => card[c].closed \/ card[c].misses >= 1
          BY <2>1, <4>2 DEF Swept, Checked, CardRow
        <5>2. strikes'[c] = Smaller(2, strikes[c] + 1)
          BY <4>1, <4>2
        <5> QED
          BY <2>1, <4>1, <5>1, <5>2 DEF Smaller
      <4>3. CASE sweep.verdict[c] = "alive"
        <5>1. strikes'[c] = 0
          BY <4>1, <4>3
        <5>2. Swept(c).misses = 0 /\ ~Swept(c).closed
          <6>1. CASE sweep.misses[c] > 0 \/ c \in sweep.closed
            BY <2>1, <4>3, <6>1 DEF Swept, Checked, CardRow
          <6>2. CASE ~(sweep.misses[c] > 0 \/ c \in sweep.closed)
            <7>1. Swept(c) = card[c]
              BY <4>3, <6>2 DEF Swept
            <7> QED
              BY <2>1, <6>2, <7>1
          <6> QED
            BY <6>1, <6>2
        <5> QED
          BY <4>1, <5>1, <5>2
      <4>4. CASE sweep.verdict[c] \notin {"miss", "alive"}
        <5>1. Swept(c) = card[c] /\ strikes'[c] = strikes[c]
          BY <4>1, <4>4 DEF Swept
        <5> QED
          BY <2>1, <4>1, <5>1
      <4> QED
        BY <4>2, <4>3, <4>4
    <3> QED
      BY <3>1, <3>2
  <2>7. sweep.cards \subseteq Cards
    BY <1>0 DEF SweepRow
  <2> QED
    BY <2>1, <2>2, <2>3, <2>4, <2>5, <2>6, <2>7 DEF StrikeInv, TwoStrikes, Live
<1>5. CASE SweepCrash
  <2>1. sweep'.cards = {} /\ UNCHANGED <<card, strikes>>
    BY <1>5 DEF SweepCrash, IdleSweep
  <2> QED
    BY <2>1 DEF StrikeInv, TwoStrikes, Live
<1> QED
  BY <1>1, <1>2, <1>3, <1>4, <1>5 DEF SweepStep

LEMMA StrikesKept ==
    ASSUME MaxReleases = 0, TypeOK, StrikeInv, [Next]_vars
    PROVE  StrikeInv'
<1>0. card \in [Cards -> CardRow]
  BY DEF TypeOK
<1>1. CASE DigestStep \/ DigestCrash
  <2>1. UNCHANGED <<sweep, strikes>>
    BY <1>1 DEF DigestStep, DigestCompose, DigestSend, DigestMark, DigestCrash
  <2>2. \A d \in Cards : card'[d] \in {card[d], Marked(d)}
    BY <1>0, <1>1 DEF DigestStep, DigestCompose, DigestSend, DigestMark, DigestCrash
  <2>3. \A d \in Cards : /\ card'[d].live = card[d].live /\ card'[d].misses = card[d].misses
                         /\ card'[d].closed = card[d].closed /\ card'[d].status = card[d].status
                         /\ card'[d].expires = card[d].expires
    BY <1>0, <2>2 DEF Marked, CardRow
  <2> QED
    BY <2>1, <2>3, Relabelled
<1>2. ASSUME NEW s \in Mailers, MailStep(s) \/ MailFail(s) PROVE StrikeInv'
  <2>1. UNCHANGED <<sweep, strikes>>
    BY <1>2 DEF MailStep, MailList, MailSearch, MailSkip, MailRead, MailEnd, MailFail
  <2>2. \A d \in Cards : \E m : card'[d] \in {card[d], [card[d] EXCEPT !.suggestion = m]}
    BY <1>0, <1>2 DEF MailStep, MailList, MailSearch, MailSkip, MailRead, MailEnd, MailFail
  <2>3. \A d \in Cards : /\ card'[d].live = card[d].live /\ card'[d].misses = card[d].misses
                         /\ card'[d].closed = card[d].closed /\ card'[d].status = card[d].status
                         /\ card'[d].expires = card[d].expires
    BY <1>0, <2>2 DEF CardRow
  <2> QED
    BY <2>1, <2>3, Relabelled
<1>3. CASE Age \/ (\E l \in 0 .. MaxLag : Deliver(l)) \/ UNCHANGED vars
  <2>1. UNCHANGED <<card, sweep, strikes>>
    BY <1>3 DEF Age, Deliver, vars
  <2> QED
    BY <2>1, Relabelled
<1> QED
  BY <1>1, <1>2, <1>3, CardStepStrikes, SweepStepStrikes DEF Next

\* A single flaky probe never flags a card, for any cards, any order of the sweep's and the
\* user's writes, and wherever the sweep crashes, as long as no claim is released: a card that
\* is released and claimed again while the sweep is under way inherits the verdict on its
\* predecessor.
THEOREM NeverOneStrike == ASSUME MaxReleases = 0 PROVE Spec => []TwoStrikes
<1>1. Init => TypeOK /\ Started /\ StrikeInv
  BY StartTyped DEF Init, IdleSweep, StrikeInv, TwoStrikes, NoCard, Live
<1>2. TypeOK /\ Started /\ StrikeInv /\ [Next]_vars => TypeOK' /\ Started' /\ StrikeInv'
  BY TypeStep, StrikesKept
<1>3. StrikeInv => TwoStrikes
  BY DEF StrikeInv
<1> QED
  BY <1>1, <1>2, <1>3, PTL DEF Spec

-----------------------------------------------------------------------------
(* The announcements *)

\* A closure that was announced is not announced again: it is marked, or about to be.
HeldBack(c) == card[c].notified \/ (digest.pc = "mark" /\ c \in digest.mark)

\* A card and its marker, which is on no card with a strike that is not flagged.
Honest(c) ==
    /\ card[c].closed => Live(c) /\ ~card[c].expires
    /\ card[c].closed => announced[c] <= mishaps + (IF HeldBack(c) THEN 1 ELSE 0)
    /\ card[c].closed /\ card[c].notified => announced[c] >= 1
    /\ ~card[c].closed /\ card[c].notified => card[c].misses = 0

\* A card whose closure a digest announces: at most one verdict is written while it does, and
\* until it is the card keeps its flag.
Pending(c) ==
    /\ Live(c) /\ ~card[c].expires
    /\ ~card[c].closed => card[c].misses = 0
    /\ c \in sweep.cards \/ digest.laps = 0 => card[c].closed
    /\ digest.pc = "send" => ~card[c].notified
    /\ digest.pc = "mark" => announced[c] >= 1

AnnounceInv ==
    /\ sweep.pc = "idle" => sweep.cards = {}
    /\ digest.pc = "idle" => digest.mark = {}
    /\ digest.pc # "idle" /\ digest.laps = 0 => sweep.cards = {}
    /\ \A c \in Cards : Honest(c)
    /\ \A c \in digest.mark : Pending(c)

\* A step that leaves the flags, the sweep and the digest alone, and takes no ttl back.
LEMMA FlagsStay ==
    ASSUME TypeOK, AnnounceInv, UNCHANGED <<sweep, digest, announced>>,
           mishaps' = mishaps \/ mishaps' = mishaps + 1,
           \A c \in Cards : /\ card'[c].live = card[c].live /\ card'[c].misses = card[c].misses
                            /\ card'[c].closed = card[c].closed
                            /\ card'[c].notified = card[c].notified
                            /\ card'[c].expires => card[c].expires
    PROVE  AnnounceInv'
<1>0. mishaps \in Nat /\ announced \in [Cards -> Nat] /\ digest.mark \subseteq Cards
  BY Rows DEF TypeOK, DigestRow
<1>1. \A c \in Cards : HeldBack(c)' <=> HeldBack(c)
  BY DEF HeldBack
<1>2. ASSUME NEW c \in Cards PROVE Honest(c)'
  <2>1. Honest(c) /\ announced[c] \in Nat
    BY <1>0 DEF AnnounceInv
  <2> QED
    BY <1>0, <1>1, <2>1 DEF Honest, Live
<1>3. ASSUME NEW c \in digest.mark PROVE Pending(c)'
  BY <1>0 DEF AnnounceInv, Pending, Live
<1> QED
  BY <1>2, <1>3 DEF AnnounceInv

\* A step that writes one row anew, which no digest announces.
LEMMA NewRow ==
    ASSUME TypeOK, AnnounceInv, UNCHANGED <<sweep, digest, mishaps>>,
           NEW c \in Cards, c \notin digest.mark, ~card'[c].closed, ~card'[c].notified,
           \A d \in Cards \ {c} : card'[d] = card[d] /\ announced'[d] = announced[d]
    PROVE  AnnounceInv'
<1>0. digest.mark \subseteq Cards
  BY Rows DEF DigestRow
<1>1. Honest(c)'
  BY DEF Honest
<1>2. ASSUME NEW d \in Cards \ {c} PROVE Honest(d)'
  BY DEF AnnounceInv, Honest, HeldBack, Live
<1>3. ASSUME NEW d \in digest.mark PROVE Pending(d)'
  BY <1>0 DEF AnnounceInv, Pending, Live
<1> QED
  BY <1>1, <1>2, <1>3 DEF AnnounceInv

LEMMA CardStepAnnounced ==
    ASSUME MaxReleases = 0, TypeOK, AnnounceInv, NEW c \in Cards,
           \/ Claim(c) \/ Sent(c) \/ Release(c) \/ Expire(c) \/ User(c) \/ ClearBadge(c)
           \/ WebCrash(c) \/ Flip(c)
    PROVE  AnnounceInv'
<1>0. /\ card \in [Cards -> CardRow] /\ card[c] \in CardRow /\ releases \in Nat
      /\ announced \in [Cards -> Nat]
  BY DEF TypeOK
<1>1. ~Live(c) \/ card[c].expires => c \notin digest.mark
  BY DEF AnnounceInv, Pending
<1>2. /\ ~NewCard.closed /\ ~NewCard.notified /\ ~NoCard.closed /\ ~NoCard.notified
      /\ \A s : ~[NewCard EXCEPT !.status = s, !.expires = FALSE].closed
                /\ ~[NewCard EXCEPT !.status = s, !.expires = FALSE].notified
  BY DEF NewCard, NoCard
<1>3. CASE Claim(c)
  <2>1. /\ card'[c] = NewCard /\ c \notin digest.mark /\ \A d \in Cards \ {c} : card'[d] = card[d]
        /\ UNCHANGED <<sweep, digest, announced, mishaps>>
    BY <1>0, <1>1, <1>3 DEF Claim
  <2> QED
    BY <1>2, <2>1, NewRow
<1>4. ASSUME NEW s \in Statuses, AddManual(c, s) PROVE AnnounceInv'
  <2>1. /\ card'[c] = [NewCard EXCEPT !.status = s, !.expires = FALSE] /\ c \notin digest.mark
        /\ \A d \in Cards \ {c} : card'[d] = card[d]
        /\ UNCHANGED <<sweep, digest, announced, mishaps>>
    BY <1>0, <1>1, <1>4 DEF AddManual
  <2>2. ~card'[c].closed /\ ~card'[c].notified
    BY <1>2, <2>1
  <2> QED
    BY <2>1, <2>2, NewRow
<1>5. CASE Expire(c)
  <2>1. /\ card'[c] = NoCard /\ c \notin digest.mark
        /\ \A d \in Cards \ {c} : card'[d] = card[d] /\ announced'[d] = announced[d]
        /\ UNCHANGED <<sweep, digest, mishaps>>
    BY <1>0, <1>1, <1>5 DEF Expire, Gone
  <2> QED
    BY <1>2, <2>1, NewRow
<1>6. ~Release(c)
  BY <1>0 DEF Release
<1>7. ASSUME NEW s \in Statuses, Move(c, s) PROVE AnnounceInv'
  <2>1. card' = [card EXCEPT ![c] = [card[c] EXCEPT !.status = s, !.expires = @ /\ s \notin Kept]]
    BY <1>0, <1>7 DEF Move, CardRow
  <2>2. UNCHANGED <<sweep, digest, announced, mishaps>>
    BY <1>7 DEF Move
  <2>3. \A d \in Cards : /\ card'[d].live = card[d].live /\ card'[d].misses = card[d].misses
                         /\ card'[d].closed = card[d].closed
                         /\ card'[d].notified = card[d].notified
                         /\ card'[d].expires => card[d].expires
    BY <1>0, <2>1 DEF CardRow
  <2> QED
    BY <2>2, <2>3, FlagsStay
<1>8. CASE Dismiss(c) \/ ClearBadge(c)
  <2>1. \E r \in {[card[c] EXCEPT !.suggestion = None],
                   [card[c] EXCEPT !.suggestion = None, !.dismissed = Remembered(c)]} :
          card' = [card EXCEPT ![c] = r]
    BY <1>0, <1>8 DEF Dismiss, ClearBadge, CardRow
  <2>2. \A d \in Cards : /\ card'[d].live = card[d].live /\ card'[d].misses = card[d].misses
                         /\ card'[d].closed = card[d].closed
                         /\ card'[d].notified = card[d].notified
                         /\ card'[d].expires = card[d].expires
    <3>1. PICK r \in {[card[c] EXCEPT !.suggestion = None],
                      [card[c] EXCEPT !.suggestion = None, !.dismissed = Remembered(c)]} :
            card' = [card EXCEPT ![c] = r]
      BY <2>1
    <3>2. /\ r.live = card[c].live /\ r.misses = card[c].misses /\ r.closed = card[c].closed
          /\ r.notified = card[c].notified /\ r.expires = card[c].expires
      <4>1. CASE r = [card[c] EXCEPT !.suggestion = None]
        BY <1>0, <4>1 DEF CardRow
      <4>2. CASE r = [card[c] EXCEPT !.suggestion = None, !.dismissed = Remembered(c)]
        BY <1>0, <4>2 DEF CardRow
      <4> QED
        BY <3>1, <4>1, <4>2
    <3>3. card'[c] = r /\ \A d \in Cards \ {c} : card'[d] = card[d]
      BY <1>0, <3>1
    <3> QED
      BY <3>2, <3>3
  <2>3. UNCHANGED <<sweep, digest, announced, mishaps>>
    BY <1>8 DEF Dismiss, ClearBadge
  <2> QED
    BY <2>2, <2>3, FlagsStay
<1>9. CASE Sent(c) \/ WebCrash(c) \/ Flip(c)
  <2>1. UNCHANGED <<card, sweep, digest, announced>> /\ (mishaps' = mishaps \/ mishaps' = mishaps + 1)
    BY <1>9 DEF Sent, WebCrash, Flip, Mishap
  <2> QED
    BY <2>1, FlagsStay
<1> QED
  BY <1>3, <1>4, <1>5, <1>6, <1>7, <1>8, <1>9 DEF User

\* What the two-strike machine makes of a card: its flag and its marker.
LEMMA SweptFlags ==
    ASSUME TypeOK, StrikeInv, NEW c \in sweep.cards
    PROVE  LET was == card[c]
               new == Swept(c)
           IN  /\ new.live = was.live /\ new.expires = was.expires
               /\ \/ /\ new.closed /\ new.notified = was.notified
                     /\ was.closed \/ was.misses # 0
                  \/ ~new.closed /\ ~new.notified /\ (new.misses = 0 \/ ~was.closed)
                  \/ new = was
<1>0. /\ c \in Cards /\ card[c] \in CardRow /\ sweep.misses[c] = card[c].misses
      /\ (c \in sweep.closed <=> card[c].closed) /\ card[c].misses \in 0 .. 2
  <2>1. c \in Cards /\ card[c] \in CardRow
    BY Rows DEF SweepRow, TypeOK
  <2> QED
    BY <2>1 DEF StrikeInv, CardRow
<1>1. ASSUME NEW n, NEW f \in BOOLEAN
      PROVE  LET new == Checked(c, n, f)
             IN  /\ new.live = card[c].live /\ new.expires = card[c].expires
                 /\ new.closed = f /\ new.misses = n
                 /\ f => new.notified = card[c].notified
                 /\ ~f => ~new.notified
  BY <1>0 DEF Checked, CardRow
<1>2. CASE sweep.verdict[c] = "miss"
  <2> DEFINE f == c \in sweep.closed \/ sweep.misses[c] >= 1
  <2>1. Swept(c) = Checked(c, Smaller(2, sweep.misses[c] + 1), f)
    BY <1>2 DEF Swept
  <2>2. f \in BOOLEAN /\ (f <=> (card[c].closed \/ card[c].misses # 0))
    BY <1>0
  <2> HIDE DEF f
  <2> QED
    BY <1>1, <2>1, <2>2
<1>3. CASE sweep.verdict[c] = "alive" /\ (sweep.misses[c] > 0 \/ c \in sweep.closed)
  <2>1. Swept(c) = Checked(c, 0, FALSE)
    BY <1>3 DEF Swept
  <2>2. LET new == Checked(c, 0, FALSE)
        IN  /\ new.live = card[c].live /\ new.expires = card[c].expires
            /\ ~new.closed /\ ~new.notified /\ new.misses = 0
    BY <1>1
  <2> QED
    BY <2>1, <2>2
<1>4. CASE /\ sweep.verdict[c] # "miss"
           /\ ~(sweep.verdict[c] = "alive" /\ (sweep.misses[c] > 0 \/ c \in sweep.closed))
  <2>1. Swept(c) = card[c]
    BY <1>4 DEF Swept
  <2> QED
    BY <2>1
<1> QED
  BY <1>2, <1>3, <1>4

LEMMA SweepWriteAnnounced ==
    ASSUME TypeOK, StrikeInv, AnnounceInv, NEW c \in Cards, NEW ok \in BOOLEAN, SweepWrite(c, ok)
    PROVE  AnnounceInv'
<1>0. /\ sweep \in SweepRow /\ card \in [Cards -> CardRow] /\ announced \in [Cards -> Nat]
      /\ mishaps \in Nat /\ digest.mark \subseteq Cards
  BY Rows DEF TypeOK, DigestRow
<1>1. /\ c \in sweep.cards /\ sweep.pc = "write" /\ digest' = digest
      /\ mishaps' = mishaps \/ mishaps' = mishaps + 1
      /\ \A d \in Cards \ {c} : card'[d] = card[d] /\ announced'[d] = announced[d]
  BY <1>0 DEF SweepWrite, Mishap
<1>2. /\ sweep'.cards \subseteq sweep.cards \ {c}
      /\ sweep'.pc = "idle" => sweep'.cards = {}
  BY <1>0, <1>1 DEF SweepWrite, IdleSweep, SweepRow
<1>3. /\ card'[c] = card[c] /\ announced'[c] = announced[c]
      \/ /\ card'[c] = Swept(c)
         /\ announced'[c] = IF Swept(c).closed /\ ~card[c].closed THEN 0 ELSE announced[c]
  BY <1>0 DEF SweepWrite
<1>4. /\ card'[c].live = card[c].live /\ card'[c].expires = card[c].expires
      /\ \/ /\ card'[c].closed /\ card'[c].notified = card[c].notified
            /\ card[c].closed /\ announced'[c] = announced[c]
         \/ /\ card'[c].closed /\ card'[c].notified = card[c].notified
            /\ ~card[c].closed /\ card[c].misses # 0 /\ announced'[c] = 0
         \/ /\ ~card'[c].closed /\ ~card'[c].notified /\ announced'[c] = announced[c]
            /\ card'[c].misses = 0 \/ ~card[c].closed
         \/ card'[c] = card[c] /\ announced'[c] = announced[c]
  BY <1>1, <1>3, SweptFlags
<1>5. Honest(c) /\ (c \in digest.mark => Pending(c)) /\ Live(c) /\ ~card[c].expires
  BY <1>1 DEF AnnounceInv, StrikeInv
<1>6. ~card[c].closed /\ card[c].misses # 0 => ~card[c].notified
  BY <1>5 DEF Honest
<1>7. announced[c] \in Nat
  BY <1>0
<1>8. Honest(c)'
  <2>1. HeldBack(c)' <=> card'[c].notified \/ (digest.pc = "mark" /\ c \in digest.mark)
    BY <1>1 DEF HeldBack
  <2> QED
    BY <1>0, <1>1, <1>4, <1>5, <1>6, <1>7, <2>1 DEF Honest, HeldBack, Live
<1>9. ASSUME c \in digest.mark PROVE Pending(c)'
  <2>1. Pending(c) /\ digest.laps # 0 /\ card[c].closed /\ c \notin sweep'.cards
    BY <1>1, <1>2, <1>5, <1>9 DEF AnnounceInv, Pending
  <2> QED
    BY <1>1, <1>4, <1>7, <2>1 DEF Pending, Live
<1>10. ASSUME NEW d \in Cards \ {c} PROVE Honest(d)'
  <2>1. Honest(d) /\ announced[d] \in Nat /\ (HeldBack(d)' <=> HeldBack(d))
    BY <1>0, <1>1 DEF AnnounceInv, HeldBack
  <2> QED
    BY <1>0, <1>1, <2>1 DEF Honest, Live
<1>11. ASSUME NEW d \in digest.mark, d # c PROVE Pending(d)'
  <2>1. Pending(d) /\ d \in Cards
    BY <1>0 DEF AnnounceInv
  <2> QED
    BY <1>1, <1>2, <1>11, <2>1 DEF Pending, Live
<1>12. digest.pc # "idle" /\ digest.laps = 0 => sweep'.cards = {}
  BY <1>2 DEF AnnounceInv
<1> QED
  BY <1>1, <1>2, <1>8, <1>9, <1>10, <1>11, <1>12 DEF AnnounceInv

LEMMA SweepStepAnnounced ==
    ASSUME TypeOK, StrikeInv, AnnounceInv, SweepStep \/ SweepCrash
    PROVE  AnnounceInv'
<1>0. sweep \in SweepRow /\ digest \in DigestRow
  BY Rows
<1>1. CASE SweepList
  <2>1. /\ sweep'.pc = "probe" /\ sweep'.cards = Listed
        /\ UNCHANGED <<card, announced, mishaps>>
    BY <1>1 DEF SweepList, IdleSweep
  <2>2. /\ digest'.pc = digest.pc /\ digest'.mark = digest.mark
        /\ digest.pc = "idle" \/ (digest.laps = 0 /\ digest'.laps = 1)
    BY <1>0, <1>1 DEF SweepList, DigestRow
  <2>3. ASSUME NEW c \in digest.mark PROVE Pending(c)' /\ digest.laps = 0
    BY <2>1, <2>2, <2>3 DEF AnnounceInv, Pending, Live
  <2>4. \A c \in Cards : Honest(c)'
    BY <2>1, <2>2 DEF AnnounceInv, Honest, HeldBack, Live
  <2> QED
    BY <2>1, <2>2, <2>3, <2>4 DEF AnnounceInv
<1>2. ASSUME sweep.pc # "idle", sweep'.pc # "idle" \/ sweep'.cards = {},
             sweep'.cards = sweep.cards \/ sweep'.cards = {},
             UNCHANGED <<card, digest, announced>>, mishaps' = mishaps \/ mishaps' = mishaps + 1
      PROVE  AnnounceInv'
  <2>0. mishaps \in Nat /\ announced \in [Cards -> Nat]
    BY DEF TypeOK
  <2>1. ASSUME NEW c \in Cards PROVE Honest(c)'
    <3>1. Honest(c) /\ (HeldBack(c)' <=> HeldBack(c)) /\ announced[c] \in Nat
      BY <1>2, <2>0 DEF AnnounceInv, HeldBack
    <3> QED
      BY <1>2, <2>0, <3>1 DEF Honest, Live
  <2>2. ASSUME NEW c \in digest.mark PROVE Pending(c)'
    BY <1>2 DEF AnnounceInv, Pending, Live
  <2> QED
    BY <1>2, <2>1, <2>2 DEF AnnounceInv
<1>3. CASE SweepGathered
  <2>1. sweep'.cards = sweep.cards /\ sweep'.pc = "write"
    BY <1>0, <1>3 DEF SweepGathered, SweepRow
  <2> QED
    BY <1>2, <1>3, <2>1 DEF SweepGathered
<1>4. ASSUME NEW c \in Cards, NEW v \in {"alive", "miss", "unknown"}, Probe(c, v) PROVE AnnounceInv'
  <2>1. sweep'.cards = sweep.cards /\ sweep'.pc = "probe"
    BY <1>0, <1>4 DEF Probe, SweepRow
  <2> QED
    BY <1>2, <1>4, <2>1 DEF Probe, Mishap
<1>5. CASE SweepCrash
  <2>1. sweep'.cards = {}
    BY <1>5 DEF SweepCrash, IdleSweep
  <2> QED
    BY <1>2, <1>5, <2>1 DEF SweepCrash, Mishap
<1> QED
  BY <1>1, <1>3, <1>4, <1>5, SweepWriteAnnounced DEF SweepStep

LEMMA DigestStepAnnounced ==
    ASSUME TypeOK, AnnounceInv, DigestStep \/ DigestCrash
    PROVE  AnnounceInv'
<1>0. /\ digest \in DigestRow /\ card \in [Cards -> CardRow] /\ announced \in [Cards -> Nat]
      /\ mishaps \in Nat /\ MaxMishaps \in Nat /\ digest.mark \subseteq Cards
      /\ IdleDigest.mark = {} /\ IdleDigest.pc = "idle"
  BY Rows, BoardAssumption DEF TypeOK, DigestRow, IdleDigest
<1>1. CASE DigestCompose
  <2>1. /\ digest'.pc = "send" /\ digest'.mark = Unannounced
        /\ digest'.laps = (IF sweep.pc = "idle" THEN 0 ELSE 1)
        /\ UNCHANGED <<card, sweep, announced, mishaps>> /\ digest.mark = {}
    BY <1>1 DEF DigestCompose, AnnounceInv
  <2>2. \A c \in Unannounced : Pending(c)'
    BY <2>1 DEF AnnounceInv, Pending, Honest, Unannounced, Live
  <2>3. \A c \in Cards : Honest(c)'
    BY <2>1 DEF AnnounceInv, Honest, HeldBack, Live
  <2> QED
    BY <2>1, <2>2, <2>3 DEF AnnounceInv
<1>2. CASE DigestSend(TRUE)
  <2>1. /\ digest.pc = "send" /\ digest'.pc = "mark" /\ digest'.mark = digest.mark
        /\ digest'.laps = digest.laps /\ UNCHANGED <<card, sweep, mishaps>>
    BY <1>0, <1>2 DEF DigestSend, DigestRow
  <2>2. \A c \in Cards : announced'[c] = IF c \in digest.mark
                                         THEN Smaller(announced[c] + 1, MaxMishaps + 2)
                                         ELSE announced[c]
    BY <1>2 DEF DigestSend
  <2>3. ASSUME NEW c \in digest.mark PROVE Pending(c)' /\ Honest(c)'
    <3>1. Pending(c) /\ ~card[c].notified /\ Honest(c) /\ announced[c] \in Nat
      BY <1>0, <2>1 DEF AnnounceInv, Pending
    <3>2. announced'[c] \in 1 .. announced[c] + 1
      BY <1>0, <2>2, <3>1 DEF Smaller
    <3>3. Pending(c)'
      BY <2>1, <3>1, <3>2 DEF Pending, Live
    <3>4. card[c].closed => announced[c] <= mishaps
      BY <1>0, <2>1, <3>1 DEF Honest, HeldBack
    <3>5. HeldBack(c)'
      BY <2>1 DEF HeldBack
    <3>6. Honest(c)'
      BY <1>0, <2>1, <3>1, <3>2, <3>4, <3>5 DEF Honest, Live
    <3> QED
      BY <3>3, <3>6
  <2>4. ASSUME NEW c \in Cards, c \notin digest.mark PROVE Honest(c)'
    BY <2>1, <2>2, <2>4 DEF AnnounceInv, Honest, HeldBack, Live
  <2> QED
    BY <2>1, <2>3, <2>4 DEF AnnounceInv
\* A digest that is given up has cost a mishap.
<1>3. CASE DigestSend(FALSE) \/ DigestCrash
  <2>1. digest' = IdleDigest /\ mishaps' = mishaps + 1 /\ UNCHANGED <<card, sweep>>
    BY <1>3 DEF DigestSend, DigestCrash, Mishap
  <2>2. \A c \in Cards : announced'[c] = announced[c]
    BY <1>3 DEF DigestSend, DigestCrash
  <2>3. ASSUME NEW c \in Cards PROVE Honest(c)'
    <3>1. Honest(c) /\ announced[c] \in Nat
      BY <1>0 DEF AnnounceInv
    <3> QED
      BY <1>0, <2>1, <2>2, <3>1 DEF Honest, HeldBack, Live
  <2> QED
    BY <1>0, <2>1, <2>3 DEF AnnounceInv
<1>4. ASSUME NEW c \in Cards, DigestMark(c) PROVE AnnounceInv'
  <2>1. /\ digest.pc = "mark" /\ c \in digest.mark /\ digest'.mark = digest.mark \ {c}
        /\ \/ digest'.pc = "mark" /\ digest'.laps = digest.laps
           \/ digest' = IdleDigest
        /\ UNCHANGED <<sweep, announced, mishaps>>
    BY <1>0, <1>4 DEF DigestMark, DigestRow
  <2>2. Pending(c) /\ Honest(c)
    BY <2>1 DEF AnnounceInv
  <2>3. card' = [card EXCEPT ![c] = Marked(c)]
    BY <1>4, <2>2 DEF DigestMark, Pending
  <2>4. /\ card'[c].live = card[c].live /\ card'[c].expires = card[c].expires
        /\ card'[c].closed = card[c].closed /\ card'[c].misses = card[c].misses
        /\ card'[c].notified
        /\ \A d \in Cards \ {c} : card'[d] = card[d]
    BY <1>0, <2>3 DEF Marked, CardRow
  <2>5. Honest(c)'
    <3>1. HeldBack(c) /\ HeldBack(c)'
      BY <2>1, <2>4 DEF HeldBack
    <3> QED
      BY <2>1, <2>2, <2>4, <3>1 DEF Honest, Pending, Live
  <2>6. ASSUME NEW d \in Cards \ {c} PROVE Honest(d)'
    <3>1. HeldBack(d)' <=> HeldBack(d)
      <4>1. d \in digest.mark => digest' # IdleDigest
        BY <1>0, <2>1
      <4> QED
        BY <1>0, <2>1, <2>4, <4>1 DEF HeldBack
    <3> QED
      BY <2>1, <2>4, <3>1 DEF AnnounceInv, Honest, Live
  <2>7. ASSUME NEW d \in digest'.mark PROVE Pending(d)'
    <3>1. d \in digest.mark /\ d # c /\ digest' # IdleDigest
      BY <1>0, <2>1, <2>7
    <3> QED
      BY <1>0, <2>1, <2>4, <3>1 DEF AnnounceInv, Pending, Live
  <2> QED
    BY <1>0, <2>1, <2>5, <2>6, <2>7 DEF AnnounceInv
<1> QED
  BY <1>1, <1>2, <1>3, <1>4 DEF DigestStep

LEMMA AnnouncedKept ==
    ASSUME MaxReleases = 0, TypeOK, StrikeInv, AnnounceInv, [Next]_vars
    PROVE  AnnounceInv'
<1>0. card \in [Cards -> CardRow]
  BY DEF TypeOK
<1>1. ASSUME NEW s \in Mailers, MailStep(s) \/ MailFail(s) PROVE AnnounceInv'
  <2>1. /\ UNCHANGED <<sweep, digest, announced>>
        /\ mishaps' = mishaps \/ mishaps' = mishaps + 1
    BY <1>1 DEF MailStep, MailList, MailSearch, MailSkip, MailRead, MailEnd, MailFail, Mishap
  <2>2. \A d \in Cards : \E m : card'[d] \in {card[d], [card[d] EXCEPT !.suggestion = m]}
    BY <1>0, <1>1 DEF MailStep, MailList, MailSearch, MailSkip, MailRead, MailEnd, MailFail
  <2>3. \A d \in Cards : /\ card'[d].live = card[d].live /\ card'[d].misses = card[d].misses
                         /\ card'[d].closed = card[d].closed
                         /\ card'[d].notified = card[d].notified
                         /\ card'[d].expires = card[d].expires
    BY <1>0, <2>2 DEF CardRow
  <2> QED
    BY <2>1, <2>3, FlagsStay
<1>2. CASE Age \/ (\E l \in 0 .. MaxLag : Deliver(l)) \/ UNCHANGED vars
  <2>1. UNCHANGED <<card, sweep, digest, announced, mishaps>>
    BY <1>2 DEF Age, Deliver, vars
  <2> QED
    BY <2>1, FlagsStay
<1> QED
  BY <1>1, <1>2, CardStepAnnounced, SweepStepAnnounced, DigestStepAnnounced DEF Next

\* A closure is announced once, and once more for every crash and failed send, and a marker on a
\* flagged card is of its present closure, for any cards, any order of the writes of the sweep,
\* the digest and the user, and any crashes, as long as no claim is released.
THEOREM OneAnnouncement == ASSUME MaxReleases = 0 PROVE Spec => []AnnouncedOnce
<1>1. Init => TypeOK /\ Started /\ StrikeInv /\ AnnounceInv
  <2>2. Init => TypeOK /\ Started /\ StrikeInv
    BY StartTyped DEF Init, IdleSweep, StrikeInv, TwoStrikes, NoCard, Live
  <2>3. Init => AnnounceInv
    BY DEF Init, AnnounceInv, Honest, IdleSweep, IdleDigest, NoCard
  <2> QED
    BY <2>2, <2>3
<1>2. TypeOK /\ Started /\ StrikeInv /\ AnnounceInv /\ [Next]_vars
        => TypeOK' /\ Started' /\ StrikeInv' /\ AnnounceInv'
  BY TypeStep, StrikesKept, AnnouncedKept
<1>3. TypeOK /\ AnnounceInv => AnnouncedOnce
  <2> SUFFICES ASSUME TypeOK, AnnounceInv, NEW c \in Cards
               PROVE  /\ card[c].closed => announced[c] <= 1 + mishaps
                      /\ card[c].closed /\ card[c].notified => announced[c] >= 1
    BY DEF AnnouncedOnce
  <2>1. Honest(c) /\ announced[c] \in Nat /\ mishaps \in Nat
    BY DEF AnnounceInv, TypeOK
  <2> QED
    BY <2>1 DEF Honest
<1> QED
  BY <1>1, <1>2, <1>3, PTL DEF Spec

=============================================================================
