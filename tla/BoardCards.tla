------------------------------ MODULE BoardCards ------------------------------
(***************************************************************************)
(* The triage card of a notified posting (a seen_jobs row) and its writers:*)
(* the user at the web UI (web/app.py, web/board.py), the poll cycle that  *)
(* claims and releases it, the daily sweep that detects closed postings    *)
(* (closed_check.py), the board digest that announces them                 *)
(* (board_digest.py, scheduler._board_digest) and the Gmail sweep that     *)
(* badges cards with suggestions (gmail_ingest.py).                        *)
(*                                                                         *)
(* Every store call is one transaction that reads, changes and writes one  *)
(* row, but the sweeps decide on the cards they listed when they started.  *)
(* Mail is numbered by its place in the inbox, and so is time: the         *)
(* watermark is the number of the last message delivered before the sweep  *)
(* that wrote it, and a window that reaches back some days starts after    *)
(* the newest message that is older than that.                             *)
(***************************************************************************)
EXTENDS Integers, Sequences, FiniteSets

CONSTANTS Cards,         \* the postings
          Statuses,      \* the triage statuses the user chooses from
          WithSweep,     \* whether the closed-posting sweep is run
          Mailers,       \* Gmail sweeps that may run at a time
          Inbox,         \* how many messages ever arrive, matching every card
          Rejections,    \* those that read like a rejection; the rest are receipts
          Overlap,       \* how far before the watermark a sweep looks (_WATERMARK_OVERLAP)
          MaxMessages,   \* gmail.max_messages_per_run
          KeepDismissed, \* dismissed ids a card remembers (20)
          MaxLag,        \* bound: how far a message's Date lies before its delivery
          MaxAge,        \* bound: messages that come to be older than a window
          MaxReleases,   \* bound: fan-outs in which every sink fails
          MaxFlips,      \* bound: postings taken down or put back
          MaxMishaps     \* bound: crashes, failed writes and unreliable probes

ASSUME BoardAssumption ==
    /\ Statuses \subseteq {"new", "interested", "applied", "interviewing", "offer",
                           "rejected", "ghosted", "dismissed"}
    /\ WithSweep \in BOOLEAN /\ Inbox \in Nat /\ Rejections \subseteq 1 .. Inbox
    /\ Overlap \in Nat /\ MaxMessages \in Nat \ {0} /\ KeepDismissed \in Nat \ {0}
    /\ MaxLag \in Nat /\ MaxAge \in Nat /\ MaxReleases \in Nat /\ MaxFlips \in Nat
    /\ MaxMishaps \in Nat

VARIABLES card,       \* the row of each posting
          sending,    \* cards whose alert is still being sent
          moving,     \* cards between the two transactions of a status change
          sweep,      \* the closed-posting sweep
          digest,     \* the board digest
          mail,       \* the Gmail sweeps
          watermark,  \* source_state["gmail"]
          delivered,  \* messages in the inbox
          lag,        \* how far the Date of each lies before its delivery
          old,        \* the newest message older than lookback_max_days
          young,      \* the newest one older than first_run_days, until the first sweep
          gone,       \* postings taken down by their boards
          strikes,    \* history: misses written since the card was last found alive
          announced,  \* history: digests that announced the card's present closure
          answered,   \* history: messages the user dismissed on the card
          examined,   \* history: messages some Gmail sweep read
          cut,        \* history: messages a truncated sweep left out
          lapsed,     \* history: messages that left the window before a sweep looked
          releases, flips, mishaps   \* count what the bounds bound

env == <<delivered, lag, old, young, gone>>
counts == <<releases, flips, mishaps>>
vars == <<card, sending, moving, sweep, digest, mail, watermark, env, strikes, announced,
          answered, examined, cut, lapsed, counts>>

Active == {"interested", "applied", "interviewing", "offer"}
Kept == Active \union {"rejected", "ghosted"}
None == 0
NeverSwept == -1   \* no watermark in source_state

Messages == 1 .. Inbox
Larger(a, b) == IF a > b THEN a ELSE b
Smaller(a, b) == IF a < b THEN a ELSE b
InSeq(s) == {s[i] : i \in 1 .. Len(s)}

NoCard == [live |-> FALSE, expires |-> FALSE, status |-> "new", misses |-> 0,
           closed |-> FALSE, notified |-> FALSE, suggestion |-> None, dismissed |-> <<>>]
NewCard == [NoCard EXCEPT !.live = TRUE, !.expires = TRUE]

CardRow == [live: BOOLEAN, expires: BOOLEAN, status: Statuses \union {"new"}, misses: 0 .. 2,
            closed: BOOLEAN, notified: BOOLEAN, suggestion: 0 .. Inbox,
            dismissed: Seq(Messages)]

IdleSweep == [pc |-> "idle", cards |-> {}, misses |-> [c \in Cards |-> 0], closed |-> {},
              verdict |-> [c \in Cards |-> "none"]]
IdleDigest == [pc |-> "idle", mark |-> {}, laps |-> 0]
IdleMail == [pc |-> "idle", cards |-> {}, status |-> [c \in Cards |-> "new"],
             badge |-> [c \in Cards |-> None], dismissed |-> [c \in Cards |-> {}],
             known |-> [c \in Cards |-> {}], from |-> 0, next |-> 0, last |-> 0, stamp |-> 0]

TypeOK ==
    /\ card \in [Cards -> CardRow]
    /\ sending \subseteq Cards /\ moving \subseteq Cards
    /\ sweep \in [pc: {"idle", "probe", "write"}, cards: SUBSET Cards,
                  misses: [Cards -> 0 .. 2], closed: SUBSET Cards,
                  verdict: [Cards -> {"none", "alive", "miss", "unknown"}]]
    /\ digest \in [pc: {"idle", "send", "mark"}, mark: SUBSET Cards, laps: 0 .. 1]
    /\ mail \in [Mailers -> [pc: {"idle", "search", "read"}, cards: SUBSET Cards,
                             status: [Cards -> Statuses \union {"new"}],
                             badge: [Cards -> 0 .. Inbox],
                             dismissed: [Cards -> SUBSET Messages],
                             known: [Cards -> SUBSET Messages],
                             from: 0 .. Inbox, next: 0 .. Inbox + 1, last: 0 .. Inbox,
                             stamp: 0 .. Inbox]]
    /\ watermark \in NeverSwept .. Inbox /\ delivered \in 0 .. Inbox
    /\ lag \in [Messages -> Nat] /\ old \in 0 .. delivered /\ young \in 0 .. delivered
    /\ gone \subseteq Cards
    /\ strikes \in [Cards -> Nat] /\ announced \in [Cards -> Nat]
    /\ answered \in [Cards -> SUBSET Messages]
    /\ examined \subseteq Messages /\ cut \subseteq Messages /\ lapsed \subseteq Messages
    /\ releases \in Nat /\ flips \in Nat /\ mishaps \in Nat

Init ==
    /\ card = [c \in Cards |-> NoCard]
    /\ sending = {} /\ moving = {}
    /\ sweep = IdleSweep /\ digest = IdleDigest
    /\ mail = [s \in Mailers |-> IdleMail]
    /\ watermark = NeverSwept /\ delivered = 0 /\ lag = [m \in Messages |-> 0]
    /\ old = 0 /\ young = 0 /\ gone = {}
    /\ strikes = [c \in Cards |-> 0] /\ announced = [c \in Cards |-> 0]
    /\ answered = [c \in Cards |-> {}]
    /\ examined = {} /\ cut = {} /\ lapsed = {}
    /\ releases = 0 /\ flips = 0 /\ mishaps = 0

Mishap == mishaps < MaxMishaps /\ mishaps' = mishaps + 1
Live(c) == card[c].live
Listed == {c \in Cards : Live(c) /\ card[c].status \in Active}

-----------------------------------------------------------------------------
(* The row's life *)

\* claim_for_notify: the row is on the board while its alert is being sent.
Claim(c) ==
    /\ ~Live(c)
    /\ card' = [card EXCEPT ![c] = NewCard]
    /\ sending' = sending \union {c}
    /\ UNCHANGED <<moving, sweep, digest, mail, watermark, env, strikes, announced, answered,
                   examined, cut, lapsed, counts>>

\* A hand-added posting: claimed with no alert, then moved.
AddManual(c, s) ==
    /\ ~Live(c) /\ s \in Active
    /\ card' = [card EXCEPT ![c] = [NewCard EXCEPT !.status = s, !.expires = FALSE]]
    /\ UNCHANGED <<sending, moving, sweep, digest, mail, watermark, env, strikes, announced,
                   answered, examined, cut, lapsed, counts>>

Sent(c) ==
    /\ c \in sending
    /\ sending' = sending \ {c}
    /\ UNCHANGED <<card, moving, sweep, digest, mail, watermark, env, strikes, announced,
                   answered, examined, cut, lapsed, counts>>

Gone(c) ==
    /\ card' = [card EXCEPT ![c] = NoCard]
    /\ sending' = sending \ {c}
    /\ strikes' = [strikes EXCEPT ![c] = 0]
    /\ announced' = [announced EXCEPT ![c] = 0]
    /\ answered' = [answered EXCEPT ![c] = {}]

\* release_claim: every sink failed, so the row is deleted.
Release(c) ==
    /\ c \in sending /\ releases < MaxReleases
    /\ releases' = releases + 1
    /\ Gone(c)
    /\ UNCHANGED <<moving, sweep, digest, mail, watermark, env, examined, cut, lapsed,
                   flips, mishaps>>

\* The ttl of a row the user never kept runs out.
Expire(c) ==
    /\ Live(c) /\ card[c].expires /\ c \notin sending
    /\ Gone(c)
    /\ UNCHANGED <<moving, sweep, digest, mail, watermark, env, examined, cut, lapsed, counts>>

-----------------------------------------------------------------------------
(* The user *)

\* /status, /bulk-status and /board/advance: set_status, which drops the ttl of a
\* kept status for good; then, in a second transaction, the badge is cleared.
Move(c, s) ==
    /\ Live(c) /\ c \notin moving
    /\ card' = [card EXCEPT ![c].status = s, ![c].expires = @ /\ s \notin Kept]
    /\ moving' = moving \union {c}
    /\ UNCHANGED <<sending, sweep, digest, mail, watermark, env, strikes, announced, answered,
                   examined, cut, lapsed, counts>>

ClearBadge(c) ==
    /\ c \in moving
    /\ moving' = moving \ {c}
    /\ card' = [card EXCEPT ![c].suggestion = None]
    /\ UNCHANGED <<sending, sweep, digest, mail, watermark, env, strikes, announced, answered,
                   examined, cut, lapsed, counts>>

WebCrash(c) ==
    /\ c \in moving /\ Mishap
    /\ moving' = moving \ {c}
    /\ UNCHANGED <<card, sending, sweep, digest, mail, watermark, env, strikes, announced,
                   answered, examined, cut, lapsed, releases, flips>>

\* The dismissed ids a card remembers: the newest KeepDismissed.
Newest(ids) == SubSeq(ids, Larger(1, Len(ids) - KeepDismissed + 1), Len(ids))

Remembered(c) == IF card[c].suggestion = None THEN card[c].dismissed
                 ELSE Newest(Append(card[c].dismissed, card[c].suggestion))

\* /board/dismiss-suggestion: whatever badge the row carries by now, if any.
Dismiss(c) ==
    /\ Live(c)
    /\ card' = [card EXCEPT ![c].suggestion = None, ![c].dismissed = Remembered(c)]
    /\ answered' = [answered EXCEPT ![c] = @ \union ({card[c].suggestion} \ {None})]
    /\ UNCHANGED <<sending, moving, sweep, digest, mail, watermark, env, strikes, announced,
                   examined, cut, lapsed, counts>>

-----------------------------------------------------------------------------
(* The sweep that detects closed postings, once a day *)

\* A digest is over in seconds and the sweeps are a day apart: it overlaps one of them
\* at most.
SweepList ==
    /\ WithSweep /\ sweep.pc = "idle" /\ Listed # {}
    /\ digest.pc = "idle" \/ digest.laps = 0
    /\ digest' = IF digest.pc = "idle" THEN digest ELSE [digest EXCEPT !.laps = 1]
    /\ sweep' = [IdleSweep EXCEPT !.pc = "probe", !.cards = Listed,
                                  !.misses = [c \in Cards |-> IF c \in Listed
                                                              THEN card[c].misses ELSE 0],
                                  !.closed = {c \in Listed : card[c].closed}]
    /\ UNCHANGED <<card, sending, moving, mail, watermark, env, strikes, announced, answered,
                   examined, cut, lapsed, counts>>

\* check_posting: what the board says; or an error, a soft 404, a flaky one.
Probe(c, v) ==
    /\ sweep.pc = "probe" /\ c \in sweep.cards /\ sweep.verdict[c] = "none"
    /\ IF v = (IF c \in gone THEN "miss" ELSE "alive") THEN UNCHANGED mishaps ELSE Mishap
    /\ sweep' = [sweep EXCEPT !.verdict[c] = v]
    /\ UNCHANGED <<card, sending, moving, digest, mail, watermark, env, strikes, announced,
                   answered, examined, cut, lapsed, releases, flips>>

SweepGathered ==
    /\ sweep.pc = "probe" /\ \A c \in sweep.cards : sweep.verdict[c] # "none"
    /\ sweep' = [sweep EXCEPT !.pc = "write"]
    /\ UNCHANGED <<card, sending, moving, digest, mail, watermark, env, strikes, announced,
                   answered, examined, cut, lapsed, counts>>

\* update_closed_check: no closed_at clears the flag and the announced marker.
Checked(c, misses, closed) ==
    [card[c] EXCEPT !.misses = misses, !.closed = closed, !.notified = @ /\ closed]

\* Mutants: one strike is enough; a first strike leaves the marker alone; an alive
\* posting keeps its strikes.
OneStrike(c) ==
    CASE sweep.verdict[c] = "miss" -> Checked(c, Smaller(2, sweep.misses[c] + 1), TRUE)
      [] sweep.verdict[c] = "alive" -> Checked(c, 0, FALSE)
      [] OTHER -> card[c]
MarkerKept(c) ==
    CASE sweep.verdict[c] = "miss" ->
            [card[c] EXCEPT !.misses = Smaller(2, sweep.misses[c] + 1),
                            !.closed = c \in sweep.closed \/ sweep.misses[c] >= 1]
      [] sweep.verdict[c] = "alive" -> Checked(c, 0, FALSE)
      [] OTHER -> card[c]
StrikesForgotten(c) ==
    CASE sweep.verdict[c] = "miss" -> Checked(c, sweep.misses[c], sweep.misses[c] >= 1)
      [] sweep.verdict[c] = "alive" -> Checked(c, 0, FALSE)
      [] OTHER -> card[c]

\* The two-strike machine, on the misses and the flag of the card as it was listed.
\* An alive card without strikes is not written.
Swept(c) ==
    CASE sweep.verdict[c] = "miss" ->
            Checked(c, Smaller(2, sweep.misses[c] + 1),
                       c \in sweep.closed \/ sweep.misses[c] >= 1)
      [] sweep.verdict[c] = "alive" /\ (sweep.misses[c] > 0 \/ c \in sweep.closed) ->
            Checked(c, 0, FALSE)
      [] OTHER -> card[c]

\* One card's verdict is written, or its write fails and is logged.
SweepWrite(c, ok) ==
    /\ sweep.pc = "write" /\ c \in sweep.cards
    /\ IF ok THEN UNCHANGED mishaps ELSE Mishap
    /\ LET rest == sweep.cards \ {c} IN
       sweep' = IF rest = {} THEN IdleSweep
                ELSE [sweep EXCEPT !.cards = rest, !.verdict[c] = "none",
                                   !.misses[c] = 0, !.closed = @ \ {c}]
    /\ IF ok /\ Live(c)
       THEN /\ card' = [card EXCEPT ![c] = Swept(c)]
            /\ strikes' = [strikes EXCEPT ![c] =
                             CASE sweep.verdict[c] = "miss" -> Smaller(2, @ + 1)
                               [] sweep.verdict[c] = "alive" -> 0
                               [] OTHER -> @]
            /\ announced' = [announced EXCEPT ![c] =
                               IF Swept(c).closed /\ ~card[c].closed THEN 0 ELSE @]
       ELSE UNCHANGED <<card, strikes, announced>>
    /\ UNCHANGED <<sending, moving, digest, mail, watermark, env, answered, examined, cut, lapsed,
                   releases, flips>>

SweepCrash ==
    /\ sweep.pc # "idle" /\ Mishap
    /\ sweep' = IdleSweep
    /\ UNCHANGED <<card, sending, moving, digest, mail, watermark, env, strikes, announced,
                   answered, examined, cut, lapsed, releases, flips>>

-----------------------------------------------------------------------------
(* The board digest *)

Unannounced == {c \in Cards : Live(c) /\ card[c].closed /\ ~card[c].notified}

\* compose_board_digest. A digest of stale cards and pending badges alone marks
\* nothing and is left out.
DigestCompose ==
    /\ digest.pc = "idle" /\ Unannounced # {}
    /\ digest' = [pc |-> "send", mark |-> Unannounced,
                 laps |-> IF sweep.pc = "idle" THEN 0 ELSE 1]
    /\ UNCHANGED <<card, sending, moving, sweep, mail, watermark, env, strikes, announced,
                   answered, examined, cut, lapsed, counts>>

\* A sink accepts it, or none does and nothing is marked ("tomorrow retries").
DigestSend(ok) ==
    /\ digest.pc = "send"
    /\ IF ok THEN UNCHANGED mishaps ELSE Mishap
    /\ digest' = IF ok THEN [digest EXCEPT !.pc = "mark"] ELSE IdleDigest
    /\ announced' = [c \in Cards |-> IF ok /\ c \in digest.mark
                                     THEN Smaller(announced[c] + 1, MaxMishaps + 2)
                                     ELSE announced[c]]
    /\ UNCHANGED <<card, sending, moving, sweep, mail, watermark, env, strikes, answered,
                   examined, cut, lapsed, releases, flips>>

\* mark_closed_notified, card by card.
Marked(c) == [card[c] EXCEPT !.notified = TRUE]

DigestMark(c) ==
    /\ digest.pc = "mark" /\ c \in digest.mark
    /\ LET rest == digest.mark \ {c} IN
       digest' = IF rest = {} THEN IdleDigest ELSE [digest EXCEPT !.mark = rest]
    /\ card' = [card EXCEPT ![c] = IF Live(c) THEN Marked(c) ELSE @]
    /\ UNCHANGED <<sending, moving, sweep, mail, watermark, env, strikes, announced, answered,
                   examined, cut, lapsed, counts>>

DigestCrash ==
    /\ digest.pc # "idle" /\ Mishap
    /\ digest' = IdleDigest
    /\ UNCHANGED <<card, sending, moving, sweep, mail, watermark, env, strikes, announced,
                   answered, examined, cut, lapsed, releases, flips>>

-----------------------------------------------------------------------------
(* The Gmail sweep, every hour, and by hand (docs/runbooks) *)

\* What a sweep begins from: the watermark, or without one the first-run window, but
\* nothing older than the lookback window (since, before the overlap is taken off it).
Since == Larger(IF watermark = NeverSwept THEN young ELSE watermark, old)

\* The cards are listed and the clock is read; with no active card the sweep returns
\* before it touches the watermark. SINCE goes by the day of delivery: what it finds
\* from before since - Overlap is dated before it too, and is passed over unread.
MailList(s) ==
    /\ mail[s].pc = "idle" /\ Listed # {}
    /\ lapsed' = lapsed \union {m \in Messages : watermark < m /\ m <= Since}
    /\ mail' = [mail EXCEPT ![s] =
         [pc |-> "search", cards |-> Listed,
          status |-> [c \in Cards |-> IF c \in Listed THEN card[c].status ELSE "new"],
          badge |-> [c \in Cards |-> IF c \in Listed THEN card[c].suggestion ELSE None],
          dismissed |-> [c \in Cards |-> IF c \in Listed THEN InSeq(card[c].dismissed)
                                                         ELSE {}],
          known |-> [c \in Cards |-> IF c \in Listed THEN answered[c] ELSE {}],
          from |-> Since, next |-> Larger(1, Since + 1 - Overlap), last |-> 0,
          stamp |-> delivered]]
    /\ UNCHANGED <<card, sending, moving, sweep, digest, watermark, env, strikes, announced,
                   answered, examined, cut, counts>>

\* The ids found since the watermark, the newest MaxMessages of them.
MailSearch(s) ==
    /\ mail[s].pc = "search"
    /\ LET first == Larger(mail[s].next, delivered + 1 - MaxMessages) IN
       /\ mail' = [mail EXCEPT ![s].pc = "read", ![s].next = first, ![s].last = delivered]
       /\ cut' = cut \union (mail[s].next .. first - 1)
    /\ UNCHANGED <<card, sending, moving, sweep, digest, watermark, env, strikes, announced,
                   answered, examined, lapsed, counts>>

\* Mutant: the dismissed list is not consulted.
SuggestsAgain(s, c, m) ==
    /\ m \in Rejections \/ mail[s].status[c] = "interested"
    /\ mail[s].badge[c] # m

\* Receipts move a card forward only; a dismissed message and the one the card
\* already carries are passed over. All of it is read from the listed card.
Suggests(s, c, m) ==
    /\ m \in Rejections \/ mail[s].status[c] = "interested"
    /\ m \notin mail[s].dismissed[c]
    /\ mail[s].badge[c] # m

\* Its Date is before since: SINCE found it by the day it was delivered.
TooOld(s, m) == m + Overlap <= mail[s].from + lag[m]

MailSkip(s) ==
    /\ mail[s].pc = "read" /\ mail[s].next <= mail[s].last /\ TooOld(s, mail[s].next)
    /\ mail' = [mail EXCEPT ![s].next = @ + 1]
    /\ UNCHANGED <<card, sending, moving, sweep, digest, watermark, env, strikes, announced,
                   answered, examined, cut, lapsed, counts>>

\* One message, for every listed card. An error skips the rest of the message.
MailRead(s, lost) ==
    LET m == mail[s].next
        badged == {c \in mail[s].cards : Suggests(s, c, m)} \ lost
    IN
    /\ mail[s].pc = "read" /\ m <= mail[s].last /\ ~TooOld(s, m)
    /\ lost \subseteq {c \in mail[s].cards : Suggests(s, c, m)}
    /\ IF lost = {} THEN UNCHANGED mishaps ELSE Mishap
    /\ card' = [c \in Cards |-> IF c \in badged /\ Live(c)
                                THEN [card[c] EXCEPT !.suggestion = m] ELSE card[c]]
    /\ mail' = [mail EXCEPT ![s].next = m + 1,
                            ![s].badge = [c \in Cards |-> IF c \in badged /\ Live(c)
                                                          THEN m ELSE @[c]]]
    /\ examined' = examined \union {m}
    /\ UNCHANGED <<sending, moving, sweep, digest, watermark, env, strikes, announced,
                   answered, cut, lapsed, releases, flips>>

\* Mutant: the watermark is the end of the sweep, not its start.
EndStamp(s) == delivered
Stamp(s) == mail[s].stamp

MailEnd(s) ==
    /\ mail[s].pc = "read" /\ mail[s].next > mail[s].last
    /\ watermark' = Stamp(s)
    /\ mail' = [mail EXCEPT ![s] = IdleMail]
    /\ UNCHANGED <<card, sending, moving, sweep, digest, env, strikes, announced, answered,
                   examined, cut, lapsed, counts>>

\* The connection fails or the process dies: the watermark stays put.
MailFail(s) ==
    /\ mail[s].pc # "idle" /\ Mishap
    /\ mail' = [mail EXCEPT ![s] = IdleMail]
    /\ UNCHANGED <<card, sending, moving, sweep, digest, watermark, env, strikes, announced,
                   answered, examined, cut, lapsed, releases, flips>>

-----------------------------------------------------------------------------
(* The world outside *)

\* A message may be dated well before it is delivered: a queue, a slow clock.
Deliver(l) ==
    /\ delivered < Inbox
    /\ delivered' = delivered + 1
    /\ lag' = [lag EXCEPT ![delivered + 1] = l]
    /\ UNCHANGED <<card, sending, moving, sweep, digest, mail, watermark, old, young, gone,
                   strikes, announced, answered, examined, cut, lapsed, counts>>

\* Days pass, with the sweep running or not.
Age ==
    /\ \/ /\ old < delivered /\ old < MaxAge
          /\ old' = old + 1 /\ UNCHANGED young
       \/ /\ young < delivered /\ young < MaxAge /\ watermark = NeverSwept
          /\ young' = young + 1 /\ UNCHANGED old
    /\ UNCHANGED <<card, sending, moving, sweep, digest, mail, watermark, delivered, lag, gone,
                   strikes, announced, answered, examined, cut, lapsed, counts>>

Flip(c) ==
    /\ flips < MaxFlips
    /\ flips' = flips + 1
    /\ gone' = IF c \in gone THEN gone \ {c} ELSE gone \union {c}
    /\ UNCHANGED <<card, sending, moving, sweep, digest, mail, watermark, delivered, lag, old,
                   young, strikes, announced, answered, examined, cut, lapsed, releases, mishaps>>

User(c) == (\E s \in Statuses : AddManual(c, s) \/ Move(c, s)) \/ Dismiss(c)

SweepStep ==
    \/ SweepList \/ SweepGathered
    \/ \E c \in Cards : \/ \E v \in {"alive", "miss", "unknown"} : Probe(c, v)
                        \/ \E ok \in BOOLEAN : SweepWrite(c, ok)

DigestStep ==
    \/ DigestCompose
    \/ \E ok \in BOOLEAN : DigestSend(ok)
    \/ \E c \in Cards : DigestMark(c)

MailStep(s) ==
    \/ MailList(s) \/ MailSearch(s) \/ MailSkip(s) \/ MailEnd(s)
    \/ \E lost \in SUBSET Cards : MailRead(s, lost)

Next ==
    \/ \E c \in Cards : \/ Claim(c) \/ Sent(c) \/ Release(c) \/ Expire(c)
                        \/ User(c) \/ ClearBadge(c) \/ WebCrash(c) \/ Flip(c)
    \/ SweepStep \/ SweepCrash \/ DigestStep \/ DigestCrash
    \/ \E s \in Mailers : MailStep(s) \/ MailFail(s)
    \/ \E l \in 0 .. MaxLag : Deliver(l)
    \/ Age

Spec == Init /\ [][Next]_vars

\* The scheduler runs its jobs again and again, each to its end; a digest is composed
\* only once the sink has a chance to accept it (a failed send is a mishap).
Fairness ==
    /\ WF_vars(SweepStep)
    /\ WF_vars(DigestStep)
    /\ \A s \in Mailers : WF_vars(MailStep(s))

FairSpec == Spec /\ Fairness

-----------------------------------------------------------------------------
(* Properties *)

\* A card is flagged closed only after two misses with no sign of life between them
\* ("two-strike state machine"): a single flaky probe never flags one.
TwoStrikes == \A c \in Cards : card[c].closed => strikes[c] >= 2

\* A closure is announced once (board_digest.py), a second time only after a crash or a
\* failed write, and the marker on a flagged card belongs to its present closure and not to
\* an earlier one ("a reappearing posting un-flags and re-arms the announcement"), even when
\* the posting is found alive again while its closure is being announced.
AnnouncedOnce ==
    \A c \in Cards : /\ card[c].closed => announced[c] <= 1 + mishaps
                    /\ card[c].closed /\ card[c].notified => announced[c] >= 1

\* A posting that stays down while its card stays active is flagged and announced.
GoneIsAnnounced ==
    \A c \in Cards : <>[](c \in gone /\ c \in Listed /\ card[c].status \in Active)
                       => <>(card[c].closed /\ announced[c] >= 1)

\* Messages dated further before their delivery than the overlap reaches back.
Late == {m \in DOMAIN lag : lag[m] > Overlap}

\* Every message up to the watermark was read by some sweep, whatever failed and however
\* sweeps overlap; but for what a truncated sweep left out, what came to be older than
\* the first-run or the lookback window with no sweep in between, and what is dated more
\* than the overlap before its delivery ("would otherwise be dropped forever").
MailIsRead == \A m \in 1 .. watermark : m \in examined \union cut \union lapsed \union Late

\* Not kept by the code, after an outage longer than lookback_max_days: a message above
\* the last watermark is searched by some sweep before the watermark passes it.
OutagesAreCaughtUp ==
    [][watermark # NeverSwept => \A m \in lapsed' \ lapsed : m \in examined]_vars

\* A message the user dismissed on a card is never put back on it by a sweep that
\* listed the card afterwards ("so the same email never re-suggests").
DismissalsRemembered ==
    [][\A c \in Cards, s \in DOMAIN mail :
          (mail[s].pc = "read" /\ mail'[s].badge[c] # mail[s].badge[c]
              /\ mail'[s].pc = "read") => mail'[s].badge[c] \notin mail[s].known[c]]_vars

\* Not kept by the code, for a dismissal during a sweep: "so the same email never
\* re-suggests".
NeverSuggestedAgain == \A c \in Cards : card[c].suggestion \notin answered[c]

\* Not kept by the code, for a move during a sweep: "forward-only receipts", a
\* receipt sits only on an interested card.
ReceiptsMoveForward ==
    \A c \in Cards : card[c].suggestion \in Messages \ Rejections /\ c \notin moving
                        => card[c].status = "interested"

\* Not kept by the code, while the alert is being sent: "Move a match to
\* Interested/Applied/Interviewing — that drops the TTL so it persists."
PursuedPersists == [][\A c \in Cards : Live(c) /\ card[c].status \in Kept => Live(c)']_vars
=============================================================================
