---------------------------- MODULE SourcesProofs ----------------------------
(***************************************************************************)
(* Proofs about the reading of a source, for any connectors, pages, caps,  *)
(* budgets and failures (MCSources is Fetching beside BoardSweep): nothing *)
(* a stored state hides from the next fetch is unaccounted for, a walk     *)
(* through shifting pages is complete, and the metered calls are counted;  *)
(* and that the sweep of the seed companies gives none up before its       *)
(* failures, for any number of runs at once.                               *)
(***************************************************************************)
EXTENDS MCSources, FiniteSetTheorems, TLAPS

-----------------------------------------------------------------------------
(* Sets and sequences *)

\* Fetching takes these from the community modules, and the proofs from the library.
LEMMA SameSets ==
    /\ \A S : Fetch!Cardinality(S) = Cardinality(S) /\ (Fetch!IsFiniteSet(S) <=> IsFiniteSet(S))
    /\ \A s : Fetch!ToSet(s) = {s[i] : i \in DOMAIN s}
    /\ \A s : Fetch!IsInjective(s) <=> \A i, j \in DOMAIN s : s[i] = s[j] => i = j
BY DEF Fetch!Cardinality, Cardinality, Fetch!IsFiniteSet, IsFiniteSet, Fetch!ToSet,
       Fetch!IsInjective

LEMMA Smaller == \A a, b \in Int : Fetch!Min({a, b}) = IF a <= b THEN a ELSE b
<1> SUFFICES ASSUME NEW a \in Int, NEW b \in Int
             PROVE  Fetch!Min({a, b}) = IF a <= b THEN a ELSE b
  OBVIOUS
<1>1. \E m \in {a, b} : \A y \in {a, b} : m <= y
  OBVIOUS
<1>2. Fetch!Min({a, b}) \in {a, b} /\ \A y \in {a, b} : Fetch!Min({a, b}) <= y
  BY <1>1 DEF Fetch!Min
<1> QED
  BY <1>2

LEMMA Larger == \A a, b \in Int : Fetch!Max({a, b}) = IF a >= b THEN a ELSE b
<1> SUFFICES ASSUME NEW a \in Int, NEW b \in Int
             PROVE  Fetch!Max({a, b}) = IF a >= b THEN a ELSE b
  OBVIOUS
<1>1. \E m \in {a, b} : \A y \in {a, b} : m >= y
  OBVIOUS
<1>2. Fetch!Max({a, b}) \in {a, b} /\ \A y \in {a, b} : Fetch!Max({a, b}) >= y
  BY <1>1 DEF Fetch!Max
<1> QED
  BY <1>2

\* The part of a list from one position to another, as far as the list goes.
LEMMA PartIs ==
    ASSUME NEW S, NEW s \in Seq(S), NEW first \in Nat \ {0}, NEW last \in Nat
    PROVE  LET got == Fetch!Part(s, first, last) IN
           /\ got \in Seq(S)
           /\ \A i \in DOMAIN got : i + first - 1 \in DOMAIN s /\ got[i] = s[i + first - 1]
           /\ \A i \in DOMAIN s : first <= i /\ i <= last =>
                  i - first + 1 \in DOMAIN got /\ got[i - first + 1] = s[i]
           /\ last < first \/ Len(s) < first => Len(got) = 0
           /\ first <= last /\ last <= Len(s) => Len(got) = last - first + 1
           /\ first <= Len(s) /\ Len(s) <= last => Len(got) = Len(s) - first + 1
<1> DEFINE end == Fetch!Min({last, Len(s)})
           got == SubSeq(s, first, end)
<1>1. end = IF last <= Len(s) THEN last ELSE Len(s)
  BY Smaller
<1>2. Fetch!Part(s, first, last) = got
  BY DEF Fetch!Part
<1> HIDE DEF end
<1>3. end \in Nat /\ end <= Len(s) /\ end <= last /\ Len(s) \in Nat
  BY <1>1
<1>4. /\ Len(got) = IF first <= end THEN end - first + 1 ELSE 0
      /\ \A i \in 1 .. Len(got) : got[i] = s[i + first - 1]
      /\ got \in Seq(S)
  BY <1>3
<1> HIDE DEF got
<1>5. DOMAIN got = 1 .. Len(got) /\ DOMAIN s = 1 .. Len(s)
  BY <1>4
<1>6. \A i \in DOMAIN s : first <= i /\ i <= last =>
          i - first + 1 \in DOMAIN got /\ got[i - first + 1] = s[i]
  <2> SUFFICES ASSUME NEW i \in DOMAIN s, first <= i, i <= last
               PROVE  i - first + 1 \in DOMAIN got /\ got[i - first + 1] = s[i]
    OBVIOUS
  <2>0. i \in 1 .. Len(s) /\ i <= end
    <3>1. i \in 1 .. Len(s) /\ i <= last
      BY <1>5
    <3> QED
      BY <1>1, <1>3, <3>1
  <2>1. i - first + 1 \in 1 .. Len(got)
    BY <1>3, <1>4, <2>0
  <2>2. (i - first + 1) + first - 1 = i
    BY <2>0
  <2> QED
    BY <1>4, <1>5, <2>1, <2>2
<1>7. \A i \in DOMAIN got : i + first - 1 \in DOMAIN s /\ got[i] = s[i + first - 1]
  BY <1>3, <1>4, <1>5
<1>8. /\ last < first \/ Len(s) < first => Len(got) = 0
      /\ first <= last /\ last <= Len(s) => Len(got) = last - first + 1
      /\ first <= Len(s) /\ Len(s) <= last => Len(got) = Len(s) - first + 1
  <2>1. first <= last /\ last <= Len(s) => end = last /\ first <= end
    BY <1>1
  <2>2. first <= Len(s) /\ Len(s) <= last => end = Len(s) /\ first <= end
    BY <1>1, <1>3
  <2>3. last < first \/ Len(s) < first => ~(first <= end)
    BY <1>3
  <2>4. first <= end => Len(got) = end - first + 1
    BY <1>4
  <2>5. ~(first <= end) => Len(got) = 0
    BY <1>4
  <2> QED
    BY <2>1, <2>2, <2>3, <2>4, <2>5
<1> QED
  BY <1>2, <1>4, <1>6, <1>7, <1>8

\* A list without one of its places.
LEMMA RemovedIs ==
    ASSUME NEW S, NEW s \in Seq(S), NEW k \in DOMAIN s
    PROVE  /\ Fetch!RemoveAt(s, k) \in Seq(S)
           /\ Len(Fetch!RemoveAt(s, k)) = Len(s) - 1
           /\ \A i \in 1 .. Len(s) - 1 :
                  Fetch!RemoveAt(s, k)[i] = IF i < k THEN s[i] ELSE s[i + 1]
<1> DEFINE a == SubSeq(s, 1, k - 1)
           b == SubSeq(s, k + 1, Len(s))
<1>1. k \in 1 .. Len(s) /\ Len(s) \in Nat
  OBVIOUS
<1>2. /\ a \in Seq(S) /\ Len(a) = k - 1 /\ \A i \in 1 .. k - 1 : a[i] = s[i]
      /\ b \in Seq(S) /\ Len(b) = Len(s) - k /\ \A i \in 1 .. Len(s) - k : b[i] = s[i + k]
  BY <1>1
<1>3. Fetch!RemoveAt(s, k) = a \o b
  BY DEF Fetch!RemoveAt
<1> HIDE DEF a, b
<1>4. /\ a \o b \in Seq(S) /\ Len(a \o b) = Len(s) - 1
      /\ \A i \in 1 .. Len(s) - 1 : (a \o b)[i] = IF i < k THEN a[i] ELSE b[i - (k - 1)]
  BY <1>1, <1>2, SMTT(30)
<1>5. \A i \in 1 .. Len(s) - 1 : i >= k => b[i - (k - 1)] = s[i + 1]
  <2> SUFFICES ASSUME NEW i \in 1 .. Len(s) - 1, i >= k
               PROVE  b[i - (k - 1)] = s[i + 1]
    OBVIOUS
  <2>1. i - (k - 1) \in 1 .. Len(s) - k /\ (i - (k - 1)) + k = i + 1
    BY <1>1
  <2> QED
    BY <1>2, <2>1
<1>6. \A i \in 1 .. Len(s) - 1 : i < k => a[i] = s[i]
  BY <1>1, <1>2
<1> QED
  BY <1>3, <1>4, <1>5, <1>6

\* A finite set as a list that has each of its elements once.
LEMMA AsListIs ==
    ASSUME NEW S, IsFiniteSet(S)
    PROVE  Fetch!SetToSeq(S) \in Seq(S) /\ Fetch!IsInjective(Fetch!SetToSeq(S))
<1> DEFINE n == Cardinality(S)
<1>1. n \in Nat /\ ExistsBijection(1 .. n, S)
  BY FS_CardinalityType
<1>2. PICK f \in [1 .. n -> S] : \A i, j \in 1 .. n : f[i] = f[j] => i = j
  BY <1>1 DEF ExistsBijection, Bijection, Injection, IsInjective
<1>3. Fetch!IsInjective(f)
  BY <1>2, SameSets
<1>4. Fetch!SetToSeq(S) \in [1 .. n -> S] /\ Fetch!IsInjective(Fetch!SetToSeq(S))
  BY <1>2, <1>3, SameSets DEF Fetch!SetToSeq
<1> QED
  BY <1>1, <1>4


-----------------------------------------------------------------------------
(* The types *)

StoreRow == [etag : Seq(Postings) \union {None}, mark : Nat, calls : 0 .. Budget,
             today : BOOLEAN, seen : Seq(Postings)]

FetchRow == [pc : {"idle", "fetch", "score", "decide"}, dry : BOOLEAN, at : Nat, total : Nat,
             out : SUBSET Postings, owed : SUBSET Postings, base : Nat, asked : Nat,
             today : BOOLEAN, mark : Nat, entries : SUBSET Postings, recent : SUBSET Postings,
             chosen : SUBSET Postings]

TypeInv ==
    /\ source \in Fetch!Sources
    /\ listing \in Seq(Postings) /\ Fetch!IsInjective(listing)
    /\ lastmod \in [Postings -> 0 .. MaxTime] /\ now \in 0 .. MaxTime
    /\ store \in StoreRow /\ fetch \in FetchRow
    /\ carried \in SUBSET Postings /\ fate \in [Postings -> Fetch!Fates]
    /\ made \in Nat /\ unbooked \in Nat

\* The watermarks are in the past, the ids seen differ, only the steps after a fetch carry
\* postings, and a fetch keeps to the budget with the calls it knows of.
PhaseInv ==
    /\ store.mark <= now /\ fetch.mark <= now /\ \A e \in Postings : lastmod[e] <= now
    /\ Fetch!IsInjective(store.seen) /\ Len(store.seen) <= SeenCap
    /\ carried # {} => fetch.pc \in {"score", "decide"}
    /\ fetch.chosen \subseteq fetch.recent /\ fetch.recent \subseteq fetch.entries
    /\ Fetch!Calls <= Budget

\* What the connectors are told apart by.
LEMMA SourceIs ==
    ASSUME SourcesAssumption, source \in Fetch!Sources
    PROVE  /\ source.kind \in {"conditional", "plain", "paged", "sitemap", "search", "metered"}
           /\ source.kind \in {"conditional", "plain"} => source.limit \in Nat
           /\ source.kind = "paged" =>
                  source.partial \in BOOLEAN /\ source.total \in {"each", "first", "none"}
<1>1. Fetch!Whole \in Nat /\ Limit \in Nat
  BY SameSets, FS_CardinalityType DEF SourcesAssumption, Fetch!FetchingAssumption, Fetch!Whole
<1> DEFINE One == [kind : {"conditional", "plain"}, limit : {Fetch!Whole, Limit}]
           Paged == [kind : {"paged"}, partial : BOOLEAN, total : {"each", "first", "none"}]
           Other == [kind : {"sitemap", "search", "metered"}]
<1>2. /\ Fetch!Greenhouse \in One /\ Fetch!Lever \in One /\ Fetch!Ashby \in One
      /\ Fetch!Workable \in One /\ Fetch!Rippling \in One /\ Fetch!Recruitee \in One
      /\ Fetch!Teamtailor \in One /\ Fetch!SmartRecruiters \in One /\ Fetch!Personio \in One
  BY DEF Fetch!Greenhouse, Fetch!Lever, Fetch!Ashby, Fetch!Workable, Fetch!Rippling,
         Fetch!Recruitee, Fetch!Teamtailor, Fetch!SmartRecruiters, Fetch!Personio
<1>3. /\ Fetch!SuccessFactors \in One /\ Fetch!Remotive \in One /\ Fetch!RemoteOk \in One
      /\ Fetch!HackerNews \in One /\ Fetch!Avature \in One
  BY DEF Fetch!SuccessFactors, Fetch!Remotive, Fetch!RemoteOk, Fetch!HackerNews, Fetch!Avature
<1>4. /\ Fetch!Workday \in Paged /\ Fetch!OracleCloud \in Paged /\ Fetch!Taleo \in Paged
      /\ Fetch!Eightfold \in Paged /\ Fetch!TalentBrew \in Paged /\ Fetch!ICims \in Paged
  BY DEF Fetch!Workday, Fetch!OracleCloud, Fetch!Taleo, Fetch!Eightfold, Fetch!TalentBrew,
         Fetch!ICims
<1>5. Fetch!Phenom \in Other /\ Fetch!HiringCafe \in Other /\ Fetch!Adzuna \in Other
  BY DEF Fetch!Phenom, Fetch!HiringCafe, Fetch!Adzuna
<1>6. source \in One \/ source \in Paged \/ source \in Other
  <2> HIDE DEF One, Paged, Other
  <2> QED
    BY <1>2, <1>3, <1>4, <1>5 DEF Fetch!Sources
<1> QED
  BY <1>1, <1>6

\* A source with no stored state, and the locals of no fetch.
LEMMA Blanks ==
    ASSUME SourcesAssumption
    PROVE  /\ Fetch!Quiet \in FetchRow /\ Fetch!NoState \in StoreRow
           /\ \A out \in SUBSET Postings :
                  [Fetch!Quiet EXCEPT !.pc = "score", !.out = out] \in FetchRow
           /\ [Fetch!Quiet EXCEPT !.pc = "decide"] \in FetchRow
           /\ Fetch!NoState.mark = 0 /\ Fetch!NoState.seen = <<>>
<1>1. Fetch!Quiet \in FetchRow
  BY DEF Fetch!Quiet, FetchRow
<1>2. 0 \in 0 .. Budget /\ <<>> \in Seq(Postings) /\ None \in Seq(Postings) \union {None}
  BY DEF SourcesAssumption, Fetch!FetchingAssumption
<1>3. Fetch!NoState \in StoreRow
  BY <1>2 DEF Fetch!NoState, StoreRow
<1>4. \A out \in SUBSET Postings : [Fetch!Quiet EXCEPT !.pc = "score", !.out = out] \in FetchRow
  BY <1>1 DEF FetchRow
<1>5. [Fetch!Quiet EXCEPT !.pc = "decide"] \in FetchRow
  BY <1>1 DEF FetchRow
<1> QED
  BY <1>1, <1>3, <1>4, <1>5 DEF Fetch!NoState

\* What is left of a fetch when it ends: nothing, or what it returned.
Rested(row) ==
    /\ row.pc # "fetch" /\ row.at = 0 /\ row.base = 0 /\ row.asked = 0 /\ row.mark = 0
    /\ row.owed = {}
    /\ row.entries = {} /\ row.recent = {} /\ row.chosen = {} /\ row.today

LEMMA AtRest ==
    /\ Rested(Fetch!Quiet) /\ Fetch!Quiet.pc = "idle"
    /\ \A out : LET row == [Fetch!Quiet EXCEPT !.pc = "score", !.out = out] IN
          Rested(row) /\ row.pc = "score" /\ row.out = out
    /\ LET row == [Fetch!Quiet EXCEPT !.pc = "decide"] IN Rested(row) /\ row.pc = "decide"
BY DEF Fetch!Quiet, Rested

\* A posting that got lost stays lost, and one that was decided stays so.
LEMMA Losing ==
    ASSUME fate \in [Postings -> Fetch!Fates], NEW how \in [Postings -> Fetch!Fates],
           Fetch!Lose(how)
    PROVE  /\ fate' \in [Postings -> Fetch!Fates]
           /\ \A e \in Postings : /\ fate[e] # "open" => fate'[e] = fate[e]
                                  /\ fate[e] = "open" => fate'[e] = how[e]
BY DEF Fetch!Lose

\* And so do those of a set.
LEMMA LosingAll ==
    ASSUME fate \in [Postings -> Fetch!Fates], NEW S, NEW how \in Fetch!Fates,
           Fetch!LoseAll(S, how)
    PROVE  /\ fate' \in [Postings -> Fetch!Fates]
           /\ \A e \in Postings : /\ fate[e] # "open" => fate'[e] = fate[e]
                                  /\ fate[e] = "open" /\ e \in S => fate'[e] = how
<1>1. [e \in Postings |-> IF e \in S THEN how ELSE "open"] \in [Postings -> Fetch!Fates]
  BY DEF Fetch!Fates
<1> QED
  BY <1>1, Losing DEF Fetch!LoseAll

Typed == TypeInv /\ PhaseInv

\* What the end of a fetch does to the rows.
LEMMA FinishIs ==
    ASSUME SourcesAssumption, NEW out \in SUBSET Postings, NEW new, NEW fine,
           Fetch!Finish(out, new, fine)
    PROVE  /\ UNCHANGED <<source, listing, lastmod, now, changes, made>>
           /\ \/ /\ store' = new /\ fetch' = [Fetch!Quiet EXCEPT !.pc = "score", !.out = out]
                 /\ carried' = {e \in out : fate[e] # "decided"} /\ UNCHANGED unbooked
              \/ /\ store' = store /\ Fetch!Mishap /\ Fetch!CallsLost
                 /\ fetch' = [Fetch!Quiet EXCEPT !.pc = "score", !.out = out]
                 /\ carried' = {e \in out : fate[e] # "decided"}
              \/ /\ store' = store /\ fetch' = Fetch!Quiet /\ carried' = carried
                 /\ Fetch!CallsLost
           /\ fetch' \in FetchRow
BY Blanks DEF Fetch!Finish, Fetch!world

\* The end of a fetch: what it stores is a row, and it carries only what it returned.
LEMMA FinishTyped ==
    ASSUME SourcesAssumption, Typed, NEW out \in SUBSET Postings, NEW new \in StoreRow, NEW fine,
           fetch.pc = "fetch", Fetch!Finish(out, new, fine),
           new.mark <= now, Fetch!IsInjective(new.seen), Len(new.seen) <= SeenCap,
           fate' \in [Postings -> Fetch!Fates]
    PROVE  Typed'
<1>0. fetch.asked \in Nat /\ unbooked \in Nat /\ now \in Nat
  BY DEF Typed, TypeInv, FetchRow
<1>1. unbooked' \in Nat
  <2>1. unbooked' = unbooked \/ unbooked' = unbooked + fetch.asked \/ unbooked' = unbooked + 0
    BY FinishIs DEF Fetch!CallsLost
  <2> QED
    BY <1>0, <2>1
<1>2. store' \in StoreRow /\ store'.mark <= now /\ Fetch!IsInjective(store'.seen)
      /\ Len(store'.seen) <= SeenCap
  BY FinishIs DEF Typed, TypeInv, PhaseInv
<1>r. fetch' = Fetch!Quiet \/ fetch' = [Fetch!Quiet EXCEPT !.pc = "score", !.out = out]
  BY FinishIs
<1>3. /\ carried' \in SUBSET Postings /\ carried = {}
      /\ carried' # {} => fetch'.pc \in {"score", "decide"}
  <2>1. carried = {} /\ carried \in SUBSET Postings
    BY DEF Typed, TypeInv, PhaseInv
  <2>2. \/ carried' = carried
        \/ /\ carried' = {e \in out : fate[e] # "decided"}
           /\ fetch' = [Fetch!Quiet EXCEPT !.pc = "score", !.out = out]
    BY FinishIs
  <2> QED
    BY <2>1, <2>2, AtRest
<1>4. Rested(fetch')
  <2>1. Rested([Fetch!Quiet EXCEPT !.pc = "score", !.out = out])
    BY AtRest
  <2> QED
    BY <1>r, <2>1, AtRest
<1>5. fetch' \in FetchRow /\ UNCHANGED <<source, listing, lastmod, now, changes, made>>
  BY FinishIs
<1>6. fetch'.mark <= now /\ fetch'.chosen = {} /\ fetch'.recent = {} /\ Fetch!Calls' <= Budget
  BY <1>0, <1>4 DEF Rested, Fetch!Calls, SourcesAssumption, Fetch!FetchingAssumption
<1>7. TypeInv'
  BY <1>1, <1>2, <1>3, <1>5 DEF Typed, TypeInv
<1>8. PhaseInv'
  BY <1>2, <1>3, <1>5, <1>6 DEF Typed, PhaseInv
<1> QED
  BY <1>7, <1>8 DEF Typed

\* A step that leaves the vendor and the stored row alone.
LEMMA Moved ==
    ASSUME Typed, UNCHANGED <<source, listing, lastmod, now, store>>,
           fetch' \in FetchRow, fetch'.mark <= now, fetch'.chosen \subseteq fetch'.recent,
           fetch'.recent \subseteq fetch'.entries, Fetch!Calls' <= Budget,
           carried' \in SUBSET Postings,
           carried' # {} => fetch'.pc \in {"score", "decide"},
           fate' \in [Postings -> Fetch!Fates], made' \in Nat, unbooked' \in Nat
    PROVE  Typed'
<1>1. TypeInv'
  BY DEF Typed, TypeInv
<1>2. PhaseInv'
  BY DEF Typed, PhaseInv
<1> QED
  BY <1>1, <1>2 DEF Typed

\* A fetch that ends with nothing.
LEMMA Stopped ==
    ASSUME SourcesAssumption, Typed, UNCHANGED <<source, listing, lastmod, now, store>>,
           fetch' = Fetch!Quiet, carried' = {}, fate' \in [Postings -> Fetch!Fates],
           made' \in Nat, unbooked' \in Nat
    PROVE  Typed'
<1>1. Rested(fetch') /\ fetch' \in FetchRow
  BY AtRest, Blanks
<1>2. now \in Nat
  BY DEF Typed, TypeInv
<1>3. Fetch!Calls' <= Budget
  BY <1>1 DEF Rested, Fetch!Calls, SourcesAssumption, Fetch!FetchingAssumption
<1> QED
  BY <1>1, <1>2, <1>3, Moved DEF Rested

\* While a request is out nothing is carried.
LEMMA EmptyHanded == ASSUME Typed, fetch.pc \in {"idle", "fetch"} PROVE carried = {}
BY DEF Typed, PhaseInv

\* The operations keep the types, one by one.
LEMMA StartTyped ==
    ASSUME SourcesAssumption, Typed, NEW dry \in BOOLEAN, Fetch!Start(dry) PROVE Typed'
<1>1. /\ UNCHANGED <<source, listing, lastmod, now, store, carried, fate, made, unbooked>>
      /\ fetch' = [Fetch!Quiet EXCEPT !.pc = "fetch", !.dry = dry,
                       !.owed = IF source.kind = "paged" THEN Fetch!Listed ELSE {},
                       !.base = IF store.today THEN store.calls ELSE 0]
      /\ carried = {}
  BY EmptyHanded DEF Fetch!Start, Fetch!world
<1>2. Fetch!Listed \in SUBSET Postings
  BY SameSets DEF Fetch!Listed, Typed, TypeInv
<1>3. store.calls \in Nat /\ store.calls <= Budget /\ Budget \in Nat
  BY DEF Typed, TypeInv, StoreRow, SourcesAssumption, Fetch!FetchingAssumption
<1>4. fetch' \in FetchRow
  <2> DEFINE owed == IF source.kind = "paged" THEN Fetch!Listed ELSE {}
             base == IF store.today THEN store.calls ELSE 0
  <2>1. owed \in SUBSET Postings /\ base \in Nat
    BY <1>2, <1>3
  <2>2. fetch' = [Fetch!Quiet EXCEPT !.pc = "fetch", !.dry = dry, !.owed = owed, !.base = base]
    BY <1>1
  <2> HIDE DEF owed, base
  <2> QED
    BY <2>1, <2>2, Blanks DEF FetchRow
<1>5. fetch'.mark = 0 /\ fetch'.chosen = {} /\ fetch'.recent = {} /\ fetch'.entries = {}
  BY <1>1, AtRest, Blanks DEF Rested, FetchRow
<1>6. now \in Nat /\ carried \in SUBSET Postings /\ fate \in [Postings -> Fetch!Fates]
      /\ made \in Nat /\ unbooked \in Nat
  BY DEF Typed, TypeInv
<1>7. Fetch!Calls' <= Budget
  <2>1. fetch'.asked = 0 /\ fetch'.base \in {0, store.calls}
    BY <1>1, AtRest, Blanks DEF Rested, FetchRow
  <2> QED
    BY <1>3, <2>1 DEF Fetch!Calls
<1> QED
  BY <1>1, <1>4, <1>5, <1>6, <1>7, Moved

LEMMA FailsTyped ==
    ASSUME SourcesAssumption, Typed,
           Fetch!FetchFails \/ Fetch!NotModified \/ Fetch!FirstQueryFails
    PROVE  Typed'
<1>1. /\ UNCHANGED <<source, listing, lastmod, now, store, carried, fate>>
      /\ fetch' = Fetch!Quiet /\ fetch.pc = "fetch"
  BY DEF Fetch!FetchFails, Fetch!NotModified, Fetch!FirstQueryFails, Fetch!world, Fetch!MayAsk,
         Fetch!Fetching
<1>2. made' \in Nat /\ unbooked' \in Nat
  <2>1. made \in Nat /\ unbooked \in Nat
    BY DEF Typed, TypeInv
  <2>2. \/ UNCHANGED <<made, unbooked>>
        \/ \E answered \in {0, 1} : made' = made + answered /\ unbooked' = unbooked + answered
    BY DEF Fetch!FetchFails, Fetch!NotModified, Fetch!FirstQueryFails, Fetch!AnswerLost
  <2> QED
    BY <2>1, <2>2
<1>3. carried = {} /\ fate' \in [Postings -> Fetch!Fates]
  BY <1>1, EmptyHanded DEF Typed, TypeInv
<1> QED
  BY <1>1, <1>2, <1>3, Stopped

\* What one request returns of the listing.
LEMMA WindowIs ==
    ASSUME SourcesAssumption, Typed, source.kind \in {"conditional", "plain"}
    PROVE  Fetch!Window \in Seq(Postings) /\ Fetch!ToSet(Fetch!Window) \subseteq Postings
<1>1. source.limit \in Nat /\ listing \in Seq(Postings)
  BY SourceIs DEF Typed, TypeInv
<1>2. Fetch!Window \in Seq(Postings)
  <2>1. \A n \in Nat : Fetch!Part(listing, 1, n) \in Seq(Postings)
    BY <1>1, PartIs
  <2> QED
    BY <1>1, <2>1 DEF Fetch!Window
<1> QED
  BY <1>2, SameSets

\* And a page of it.
LEMMA PageIs ==
    ASSUME SourcesAssumption, Typed, NEW at \in Nat
    PROVE  Fetch!Page(at) \in Seq(Postings) /\ Fetch!ToSet(Fetch!Page(at)) \subseteq Postings
<1>0. PageSize \in Nat /\ listing \in Seq(Postings)
  BY DEF Typed, TypeInv, SourcesAssumption, Fetch!FetchingAssumption
<1>1. at * PageSize + 1 \in Nat \ {0} /\ (at + 1) * PageSize \in Nat
  <2>1. at * PageSize \in Nat /\ (at + 1) * PageSize \in Nat
    BY <1>0
  <2> QED
    BY <2>1
<1>2. Fetch!Page(at) \in Seq(Postings)
  BY <1>0, <1>1, PartIs DEF Fetch!Page
<1> QED
  BY <1>2, SameSets

LEMMA FetchModifiedTyped ==
    ASSUME SourcesAssumption, Typed, Fetch!FetchModified PROVE Typed'
<1> DEFINE out == Fetch!ToSet(Fetch!Window)
           new == [store EXCEPT !.etag = Fetch!Window]
<1>1. fetch.pc = "fetch" /\ source.kind = "conditional" /\ Fetch!Finish(out, new, TRUE) /\
      fate' = fate
  BY DEF Fetch!FetchModified, Fetch!Fetching
<1>2. Fetch!Window \in Seq(Postings) /\ out \in SUBSET Postings
  BY <1>1, WindowIs
<1>3. store \in StoreRow
  BY DEF Typed, TypeInv
<1>4. new \in StoreRow /\ new.mark = store.mark /\ new.seen = store.seen
  BY <1>2, <1>3 DEF StoreRow
<1>5. /\ store.mark <= now /\ Fetch!IsInjective(store.seen) /\ Len(store.seen) <= SeenCap
      /\ fate' \in [Postings -> Fetch!Fates]
  BY <1>1 DEF Typed, TypeInv, PhaseInv
<1> HIDE DEF new, out
<1> QED
  BY <1>1, <1>2, <1>4, <1>5, FinishTyped

\* A fetch that ends with the row as it was.
LEMMA UnstoredTyped ==
    ASSUME SourcesAssumption, Typed, NEW out \in SUBSET Postings, NEW fine, fetch.pc = "fetch",
           Fetch!Finish(out, store, fine), fate' = fate
    PROVE  Typed'
<1>1. /\ store \in StoreRow /\ store.mark <= now /\ Fetch!IsInjective(store.seen)
      /\ Len(store.seen) <= SeenCap /\ fate' \in [Postings -> Fetch!Fates]
  BY DEF Typed, TypeInv, PhaseInv
<1> QED
  BY <1>1, FinishTyped

LEMMA FetchPlainTyped ==
    ASSUME SourcesAssumption, Typed, NEW missed, Fetch!FetchPlain(missed) PROVE Typed'
<1>1. /\ fetch.pc = "fetch" /\ source.kind = "plain" /\ fate' = fate
      /\ Fetch!Finish(Fetch!ToSet(Fetch!Window) \ missed, store, missed = {})
  BY DEF Fetch!FetchPlain, Fetch!Fetching
<1>2. Fetch!ToSet(Fetch!Window) \ missed \in SUBSET Postings
  BY <1>1, WindowIs
<1> QED
  BY <1>1, <1>2, UnstoredTyped

\* A fetch that goes on.
LEMMA GoesOn ==
    ASSUME Typed, UNCHANGED <<source, listing, lastmod, now, store, carried, fate>>,
           fetch.pc = "fetch", fetch' \in FetchRow, fetch'.pc = "fetch",
           fetch'.mark <= now, fetch'.chosen \subseteq fetch'.recent,
           fetch'.recent \subseteq fetch'.entries, Fetch!Calls' <= Budget,
           made' \in Nat, unbooked' \in Nat
    PROVE  Typed'
<1>1. carried = {} /\ fate \in [Postings -> Fetch!Fates] /\ carried \in SUBSET Postings
  BY EmptyHanded DEF Typed, TypeInv
<1> QED
  BY <1>1, Moved

LEMMA FetchPageTyped == ASSUME SourcesAssumption, Typed, Fetch!FetchPage PROVE Typed'
<1> DEFINE at == fetch.at
           out == fetch.out \union Fetch!ToSet(Fetch!Page(at))
<1>1. fetch \in FetchRow /\ at \in Nat /\ fetch.out \in SUBSET Postings
      /\ made \in Nat /\ unbooked \in Nat /\ fetch.total \in Nat /\ Len(listing) \in Nat
  BY DEF Typed, TypeInv, FetchRow
<1>2. out \in SUBSET Postings
  BY <1>1, PageIs
<1>3. /\ fetch.pc = "fetch" /\ fate' = fate
      /\ \/ Fetch!Finish(out, store, TRUE)
         \/ /\ fetch' = [fetch EXCEPT !.at = at + 1, !.out = out, !.total = Fetch!Total(at)]
            /\ UNCHANGED <<source, listing, lastmod, now, store, carried, made, unbooked>>
  BY DEF Fetch!FetchPage, Fetch!Fetching, Fetch!world
<1>4. Fetch!Total(at) \in Nat
  BY <1>1 DEF Fetch!Total
<1> HIDE DEF out, at
<1>5. CASE Fetch!Finish(out, store, TRUE)
  BY <1>2, <1>3, <1>5, UnstoredTyped
<1>6. CASE /\ fetch' = [fetch EXCEPT !.at = at + 1, !.out = out, !.total = Fetch!Total(at)]
           /\ UNCHANGED <<source, listing, lastmod, now, store, carried, made, unbooked>>
  <2>1. /\ fetch' \in FetchRow /\ fetch'.pc = fetch.pc /\ fetch'.mark = fetch.mark
        /\ fetch'.chosen = fetch.chosen /\ fetch'.recent = fetch.recent
        /\ fetch'.entries = fetch.entries
        /\ fetch'.base = fetch.base /\ fetch'.asked = fetch.asked
    <3> DEFINE total == Fetch!Total(at)
               next == at + 1
    <3>1. total \in Nat /\ next \in Nat
      BY <1>1, <1>4
    <3>2. fetch' = [fetch EXCEPT !.at = next, !.out = out, !.total = total]
      BY <1>6
    <3> HIDE DEF total, next
    <3> QED
      BY <1>1, <1>2, <3>1, <3>2 DEF FetchRow
  <2>2. /\ fetch.mark <= now /\ fetch.chosen \subseteq fetch.recent
        /\ fetch.recent \subseteq fetch.entries /\ Fetch!Calls <= Budget
    BY DEF Typed, PhaseInv
  <2>3. Fetch!Calls' <= Budget
    BY <2>1, <2>2 DEF Fetch!Calls
  <2> QED
    BY <1>1, <1>3, <1>6, <2>1, <2>2, <2>3, GoesOn
<1> QED
  BY <1>3, <1>5, <1>6

LEMMA PageFailsTyped == ASSUME SourcesAssumption, Typed, Fetch!PageFails PROVE Typed'
<1>1. fetch.pc = "fetch" /\ fate' = fate /\ Fetch!Finish(fetch.out, store, FALSE)
  BY DEF Fetch!PageFails, Fetch!Fetching
<1>2. fetch.out \in SUBSET Postings
  BY DEF Typed, TypeInv, FetchRow
<1> QED
  BY <1>1, <1>2, UnstoredTyped

LEMMA ReadSitemapTyped ==
    ASSUME SourcesAssumption, Typed, NEW missing, Fetch!ReadSitemap(missing) PROVE Typed'
<1> DEFINE entries == Fetch!Listed \ missing
           recent == {e \in entries : lastmod[e] > 0 /\ Fetch!Recent(e)}
<1>1. /\ fetch.pc = "fetch"
      /\ UNCHANGED <<source, listing, lastmod, now, store, carried, fate, made, unbooked>>
      /\ \/ fetch' = Fetch!Quiet
         \/ \E chosen \in SUBSET recent, mark \in 0 .. MaxTime :
                /\ Fetch!NewMark(entries, mark)
                /\ fetch' = [fetch EXCEPT !.at = 1, !.mark = mark, !.entries = entries,
                                          !.recent = recent, !.chosen = chosen]
  BY DEF Fetch!ReadSitemap, Fetch!Fetching, Fetch!world
<1>2. /\ carried = {} /\ fate \in [Postings -> Fetch!Fates] /\ made \in Nat /\ unbooked \in Nat
      /\ fetch \in FetchRow
  BY <1>1, EmptyHanded DEF Typed, TypeInv
<1>3. entries \in SUBSET Postings /\ recent \subseteq entries
  BY SameSets DEF Fetch!Listed, Typed, TypeInv
<1>4. CASE fetch' = Fetch!Quiet
  BY <1>1, <1>2, <1>4, Stopped
<1>5. ASSUME NEW chosen \in SUBSET recent, NEW mark \in 0 .. MaxTime,
             Fetch!NewMark(entries, mark),
             fetch' = [fetch EXCEPT !.at = 1, !.mark = mark, !.entries = entries,
                                    !.recent = recent, !.chosen = chosen]
      PROVE  Typed'
  <2>1. mark <= now
    <3>1. mark = store.mark \/ \E e \in entries : mark = lastmod[e]
      BY <1>5 DEF Fetch!NewMark
    <3> QED
      BY <1>3, <3>1 DEF Typed, PhaseInv
  <2> HIDE DEF entries, recent
  <2>2. mark \in Nat
    BY DEF SourcesAssumption, Fetch!FetchingAssumption
  <2>3. /\ fetch' \in FetchRow /\ fetch'.mark = mark /\ fetch'.entries = entries
        /\ fetch'.recent = recent /\ fetch'.chosen = chosen /\ fetch'.pc = fetch.pc
        /\ fetch'.base = fetch.base /\ fetch'.asked = fetch.asked
    BY <1>2, <1>3, <1>5, <2>2 DEF FetchRow
  <2>4. Fetch!Calls' <= Budget
    BY <2>3 DEF Fetch!Calls, Typed, PhaseInv
  <2> QED
    BY <1>1, <1>2, <1>3, <1>5, <2>1, <2>3, <2>4, GoesOn
<1> HIDE DEF entries, recent
<1> QED
  BY <1>1, <1>4, <1>5

LEMMA ReadJobsTyped ==
    ASSUME SourcesAssumption, Typed, NEW missed, Fetch!ReadJobs(missed) PROVE Typed'
<1> DEFINE out == (fetch.chosen \ missed) \intersect Fetch!Listed
           new == [store EXCEPT !.mark = fetch.mark]
<1>1. fetch.pc = "fetch" /\ Fetch!Finish(out, new, missed = {})
  BY DEF Fetch!ReadJobs, Fetch!Fetching
<1>2. fate' \in [Postings -> Fetch!Fates]
  <2>1. fate \in [Postings -> Fetch!Fates]
    BY DEF Typed, TypeInv
  <2>2. fate' = fate \/ \E how \in [Postings -> Fetch!Fates] : Fetch!Lose(how)
    <3> DEFINE left == Fetch!Listed \ out
               how == [e \in Postings |->
                CASE e \in left \intersect (fetch.recent \ fetch.chosen) -> "truncated"
                  [] e \in left \intersect fetch.chosen /\ Fetch!Behind(e) -> "detail"
                  [] e \in left \intersect (fetch.entries \ fetch.recent) /\
                  Fetch!Behind(e) -> "old"
                  [] e \in left \ fetch.entries /\ Fetch!Behind(e) -> "sitemap"
                  [] OTHER -> "open"]
    <3>1. fate' = fate \/ Fetch!Lose(how)
      BY DEF Fetch!ReadJobs
    <3> HIDE DEF left
    <3>2. how \in [Postings -> Fetch!Fates]
      <4> SUFFICES ASSUME NEW e \in Postings PROVE how[e] \in Fetch!Fates
        OBVIOUS
      <4> QED
        BY DEF Fetch!Fates
    <3> HIDE DEF how
    <3> QED
      BY <3>1, <3>2
  <2> QED
    BY <2>1, <2>2, Losing
<1>3. /\ out \in SUBSET Postings /\ store \in StoreRow /\ fetch.mark \in Nat /\ fetch.mark <= now
      /\ Fetch!IsInjective(store.seen) /\ Len(store.seen) <= SeenCap
  BY DEF Typed, TypeInv, PhaseInv, FetchRow
<1>4. new \in StoreRow /\ new.mark = fetch.mark /\ new.seen = store.seen
  BY <1>3 DEF StoreRow
<1> HIDE DEF new, out
<1> QED
  BY <1>1, <1>2, <1>3, <1>4, FinishTyped

\* What a query finds.
LEMMA AnswerIs ==
    ASSUME Typed, NEW q PROVE Fetch!Answer(q) \in SUBSET Postings
<1>1. listing \in Seq(Postings)
  BY DEF Typed, TypeInv
<1>2. \A i \in DOMAIN listing : listing[i] \in Postings
  BY <1>1
<1>3. \A x \in Fetch!Answer(q) : \E i \in DOMAIN listing : x = listing[i] /\
      listing[i] \in Queries[q]
  BY DEF Fetch!Answer
<1> QED
  BY <1>2, <1>3

LEMMA SearchTyped == ASSUME SourcesAssumption, Typed, Fetch!Search PROVE Typed'
<1> DEFINE out == fetch.out \union Fetch!Answer(fetch.at + 1)
<1>1. fetch \in FetchRow /\ fetch.at \in Nat /\ out \in SUBSET Postings
      /\ made \in Nat /\ unbooked \in Nat
  BY AnswerIs DEF Typed, TypeInv, FetchRow
<1>2. /\ fetch.pc = "fetch" /\ fate' = fate
      /\ \/ \E kept \in SUBSET (out \ Active) : Fetch!Finish(kept, store, TRUE)
         \/ /\ fetch' = [fetch EXCEPT !.at = @ + 1, !.out = out]
            /\ UNCHANGED <<source, listing, lastmod, now, store, carried, made, unbooked>>
  BY DEF Fetch!Search, Fetch!Fetching, Fetch!world
<1> HIDE DEF out
<1>3. CASE \E kept \in SUBSET (out \ Active) : Fetch!Finish(kept, store, TRUE)
  <2>1. PICK kept \in SUBSET (out \ Active) : Fetch!Finish(kept, store, TRUE)
    BY <1>3
  <2> QED
    BY <1>1, <1>2, <2>1, UnstoredTyped
<1>4. CASE /\ fetch' = [fetch EXCEPT !.at = @ + 1, !.out = out]
           /\ UNCHANGED <<source, listing, lastmod, now, store, carried, made, unbooked>>
  <2>1. /\ fetch' \in FetchRow /\ fetch'.pc = fetch.pc /\ fetch'.mark = fetch.mark
        /\ fetch'.chosen = fetch.chosen /\ fetch'.recent = fetch.recent
        /\ fetch'.entries = fetch.entries
        /\ fetch'.base = fetch.base /\ fetch'.asked = fetch.asked
    <3> DEFINE next == fetch.at + 1
    <3>1. next \in Nat /\ fetch' = [fetch EXCEPT !.at = next, !.out = out]
      BY <1>1, <1>4
    <3> HIDE DEF next
    <3> QED
      BY <1>1, <3>1 DEF FetchRow
  <2>2. /\ fetch.mark <= now /\ fetch.chosen \subseteq fetch.recent
        /\ fetch.recent \subseteq fetch.entries /\ Fetch!Calls <= Budget
    BY DEF Typed, PhaseInv
  <2>3. Fetch!Calls' <= Budget
    BY <2>1, <2>2 DEF Fetch!Calls
  <2> QED
    BY <1>1, <1>2, <1>4, <2>1, <2>2, <2>3, GoesOn
<1> QED
  BY <1>2, <1>3, <1>4

LEMMA QueryTyped ==
    ASSUME SourcesAssumption, Typed, Fetch!Query \/ Fetch!QueryFails PROVE Typed'
<1>1. /\ fetch \in FetchRow /\ made \in Nat /\ unbooked \in Nat
      /\ fetch.mark <= now /\ fetch.chosen \subseteq fetch.recent
      /\ fetch.recent \subseteq fetch.entries
  BY DEF Typed, TypeInv, PhaseInv
<1>2. /\ fetch.pc = "fetch"
      /\ UNCHANGED <<source, listing, lastmod, now, store, carried, fate>>
      /\ made' = made \/ made' = made + 1
      /\ unbooked' = unbooked \/ unbooked' = unbooked + 1
  BY DEF Fetch!Query, Fetch!QueryFails, Fetch!MayAsk, Fetch!Fetching, Fetch!world
<1>3. Fetch!Answer(fetch.at + 1) \in SUBSET Postings /\ Len(Queries) \in Nat
  BY AnswerIs DEF SourcesAssumption, Fetch!FetchingAssumption
<1>4. \/ fetch' = [fetch EXCEPT !.asked = @ + 1, !.at = @ + 1,
                                !.out = @ \union Fetch!Answer(fetch.at + 1)]
      \/ fetch' = [fetch EXCEPT !.at = Len(Queries), !.asked = @ + 1]
      \/ fetch' = [fetch EXCEPT !.at = Len(Queries)]
  BY DEF Fetch!Query, Fetch!QueryFails
<1>5. /\ fetch' \in FetchRow /\ fetch'.pc = fetch.pc /\ fetch'.mark = fetch.mark
      /\ fetch'.chosen = fetch.chosen /\ fetch'.recent = fetch.recent
      /\ fetch'.entries = fetch.entries /\ fetch'.base = fetch.base
      /\ fetch'.asked = fetch.asked \/ fetch'.asked = fetch.asked + 1
  <2> DEFINE found == Fetch!Answer(fetch.at + 1)
             n == Len(Queries)
  <2>1. found \in SUBSET Postings /\ n \in Nat
    BY <1>3
  <2> DEFINE more == fetch.asked + 1
             next == fetch.at + 1
             all == fetch.out \union found
  <2>2. more \in Nat /\ more = fetch.asked + 1 /\ next \in Nat /\ all \in SUBSET Postings
    BY <1>1, <2>1 DEF FetchRow
  <2>3. \/ fetch' = [fetch EXCEPT !.asked = more, !.at = next, !.out = all]
        \/ fetch' = [fetch EXCEPT !.at = n, !.asked = more]
        \/ fetch' = [fetch EXCEPT !.at = n]
    BY <1>4
  <2> HIDE DEF found, n, more, next, all
  <2>4. CASE fetch' = [fetch EXCEPT !.asked = more, !.at = next, !.out = all]
    BY <1>1, <2>2, <2>4 DEF FetchRow
  <2>5. CASE fetch' = [fetch EXCEPT !.at = n, !.asked = more]
    BY <1>1, <2>1, <2>2, <2>5 DEF FetchRow
  <2>6. CASE fetch' = [fetch EXCEPT !.at = n]
    BY <1>1, <2>1, <2>6 DEF FetchRow
  <2> QED
    BY <2>3, <2>4, <2>5, <2>6
<1>6. made' \in Nat /\ unbooked' \in Nat
  BY <1>1, <1>2
<1>7. Fetch!Calls' <= Budget
  <2>1. Fetch!Calls < Budget /\ Budget \in Nat
    BY DEF Fetch!Query, Fetch!QueryFails, Fetch!MayAsk, SourcesAssumption, Fetch!FetchingAssumption
  <2>2. fetch.base \in Nat /\ fetch.asked \in Nat
    BY <1>1 DEF FetchRow
  <2> QED
    BY <1>5, <2>1, <2>2 DEF Fetch!Calls
<1> QED
  BY <1>1, <1>2, <1>5, <1>6, <1>7, GoesOn

\* The end of a list.
LEMMA LatestIs ==
    ASSUME NEW S, NEW s \in Seq(S), NEW n \in Nat
    PROVE  /\ Fetch!Latest(s, n) \in Seq(S) /\ Len(Fetch!Latest(s, n)) <= n
           /\ Fetch!IsInjective(s) => Fetch!IsInjective(Fetch!Latest(s, n))
           /\ \A i \in DOMAIN Fetch!Latest(s, n) : \E j \in DOMAIN s : Fetch!Latest(s, n)[i] = s[j]
<1> DEFINE first == Fetch!Max({1, Len(s) + 1 - n})
           got == SubSeq(s, first, Len(s))
<1>1. first = IF 1 >= Len(s) + 1 - n THEN 1 ELSE Len(s) + 1 - n
  BY Larger
<1>2. Fetch!Latest(s, n) = got
  BY DEF Fetch!Latest
<1> HIDE DEF first
<1>3. first \in Nat \ {0} /\ first <= Len(s) + 1 /\ Len(s) \in Nat /\ Len(s) - first + 1 <= n
  BY <1>1
<1>4. /\ got \in Seq(S) /\ Len(got) = Len(s) - first + 1
      /\ \A i \in 1 .. Len(got) : got[i] = s[i + first - 1] /\ i + first - 1 \in DOMAIN s
  BY <1>3
<1> HIDE DEF got
<1>5. DOMAIN got = 1 .. Len(got)
  BY <1>4
<1>6. Fetch!IsInjective(s) => Fetch!IsInjective(got)
  <2> SUFFICES ASSUME Fetch!IsInjective(s), NEW i \in DOMAIN got, NEW j \in DOMAIN got,
                      got[i] = got[j]
               PROVE  i = j
    BY SameSets
  <2>1. s[i + first - 1] = s[j + first - 1] /\ i + first - 1 \in DOMAIN s /\
        j + first - 1 \in DOMAIN s
    BY <1>4, <1>5
  <2>2. i + first - 1 = j + first - 1
    BY <2>1, SameSets
  <2> QED
    BY <1>3, <1>5, <2>2
<1> QED
  BY <1>2, <1>3, <1>4, <1>5, <1>6

\* The ids seen, with new ones.
LEMMA SeenIs ==
    ASSUME SourcesAssumption, Typed, NEW new \in SUBSET Postings,
           new \intersect Fetch!ToSet(store.seen) = {}
    PROVE  LET seen == Fetch!Latest(store.seen \o Fetch!SetToSeq(new), SeenCap) IN
           /\ seen \in Seq(Postings) /\ Fetch!IsInjective(seen) /\ Len(seen) <= SeenCap
           /\ Fetch!ToSet(seen) \subseteq Fetch!ToSet(store.seen) \union new
<1> DEFINE old == store.seen
           list == Fetch!SetToSeq(new)
           all == old \o list
<1>1. old \in Seq(Postings) /\ Fetch!IsInjective(old) /\ SeenCap \in Nat /\ IsFiniteSet(new)
  BY FS_Subset, SameSets
  DEF Typed, TypeInv, PhaseInv, StoreRow, SourcesAssumption, Fetch!FetchingAssumption
<1>2. list \in Seq(new) /\ Fetch!IsInjective(list)
  BY <1>1, AsListIs
<1> HIDE DEF old, list
<1>3. all \in Seq(Postings)
  BY <1>1, <1>2
<1>4. \A i \in DOMAIN all : \/ i \in DOMAIN old /\ all[i] = old[i]
                           \/ /\ i \notin DOMAIN old /\ i - Len(old) \in DOMAIN list
                              /\ all[i] = list[i - Len(old)] /\ all[i] \in new
  <2> SUFFICES ASSUME NEW i \in DOMAIN all
               PROVE  \/ i \in DOMAIN old /\ all[i] = old[i]
                      \/ /\ i \notin DOMAIN old /\ i - Len(old) \in DOMAIN list
                         /\ all[i] = list[i - Len(old)] /\ all[i] \in new
    OBVIOUS
  <2>1. /\ i \in 1 .. Len(old) + Len(list)
        /\ all[i] = IF i <= Len(old) THEN old[i] ELSE list[i - Len(old)]
    BY <1>1, <1>2
  <2> HIDE DEF all
  <2>2. CASE i <= Len(old)
    BY <1>1, <2>1, <2>2
  <2>3. CASE ~(i <= Len(old))
    <3>1. i - Len(old) \in DOMAIN list /\ i \notin DOMAIN old
      BY <1>1, <1>2, <2>1, <2>3
    <3> QED
      BY <1>2, <2>1, <2>3, <3>1
  <2> QED
    BY <2>2, <2>3
<1>5. \A i \in DOMAIN old : old[i] \notin new
  BY SameSets DEF old
<1>6. Fetch!IsInjective(all)
  <2> SUFFICES ASSUME NEW i \in DOMAIN all, NEW j \in DOMAIN all, all[i] = all[j] PROVE i = j
    BY SameSets
  <2>1. i \in Int /\ j \in Int /\ Len(old) \in Int
    BY <1>1, <1>3
  <2> HIDE DEF all
  <2>2. CASE i \in DOMAIN old
    BY <1>1, <1>4, <1>5, <2>2, SameSets
  <2>3. CASE i \notin DOMAIN old
    <3>1. j \notin DOMAIN old
      BY <1>4, <1>5, <2>3
    <3>2. i - Len(old) = j - Len(old)
      BY <1>2, <1>4, <2>3, <3>1, SameSets
    <3> QED
      BY <2>1, <3>2
  <2> QED
    BY <2>2, <2>3
<1>7. \A i \in DOMAIN all : all[i] \in Fetch!ToSet(store.seen) \union new
  BY <1>4, SameSets DEF old
<1> DEFINE seen == Fetch!Latest(all, SeenCap)
<1> HIDE DEF all
<1>8. /\ seen \in Seq(Postings) /\ Fetch!IsInjective(seen) /\ Len(seen) <= SeenCap
      /\ \A i \in DOMAIN seen : \E j \in DOMAIN all : seen[i] = all[j]
  BY <1>1, <1>3, <1>6, LatestIs
<1> HIDE DEF seen
<1>9. Fetch!ToSet(seen) \subseteq Fetch!ToSet(store.seen) \union new
  BY <1>7, <1>8, SameSets
<1> QED
  BY <1>8, <1>9 DEF seen, all, old, list

LEMMA ResolveTyped ==
    ASSUME SourcesAssumption, Typed, NEW unresolved, Fetch!Resolve(unresolved) PROVE Typed'
<1> DEFINE new == fetch.out \ Fetch!ToSet(store.seen)
           out == new \ (Active \ unresolved)
           seen == Fetch!Latest(store.seen \o Fetch!SetToSeq(new), SeenCap)
           row == [store EXCEPT !.calls = Fetch!Calls, !.today = fetch.today, !.seen = seen]
<1>1. /\ fetch.pc = "fetch" /\ source.kind = "metered"
      /\ Fetch!Finish(out, row, unresolved = {})
      /\ fate' = fate \/ Fetch!LoseAll(new \ out, "direct")
  BY DEF Fetch!Resolve, Fetch!Fetching
<1>2. store \in StoreRow /\ fetch \in FetchRow /\ new \in SUBSET Postings /\ out \in SUBSET Postings
  BY DEF Typed, TypeInv, FetchRow
<1>3. new \intersect Fetch!ToSet(store.seen) = {}
  OBVIOUS
<1> HIDE DEF new
<1>4. seen \in Seq(Postings) /\ Fetch!IsInjective(seen) /\ Len(seen) <= SeenCap
  BY <1>2, <1>3, SeenIs
<1>5. fate' \in [Postings -> Fetch!Fates]
  <2>1. fate \in [Postings -> Fetch!Fates] /\ "direct" \in Fetch!Fates
    BY DEF Typed, TypeInv, Fetch!Fates
  <2> QED
    BY <1>1, <2>1, LosingAll
<1>6. Fetch!Calls \in 0 .. Budget
  BY <1>2 DEF Fetch!Calls, Typed, PhaseInv, FetchRow, SourcesAssumption, Fetch!FetchingAssumption
<1> HIDE DEF out, seen
<1>7. row \in StoreRow /\ row.mark = store.mark /\ row.seen = seen
  BY <1>2, <1>4, <1>6 DEF StoreRow, FetchRow
<1>8. store.mark <= now
  BY DEF Typed, PhaseInv
<1> HIDE DEF row
<1> QED
  BY <1>1, <1>2, <1>4, <1>5, <1>7, <1>8, FinishTyped

LEMMA CapTyped == ASSUME SourcesAssumption, Typed, Fetch!CapForScoring PROVE Typed'
<1>1. /\ store \in StoreRow /\ carried \in SUBSET Postings /\ now \in Nat
      /\ fate \in [Postings -> Fetch!Fates] /\ "deferred" \in Fetch!Fates
  BY DEF Typed, TypeInv, Fetch!Fates
<1>2. PICK kept \in SUBSET carried :
          /\ carried' = kept
          /\ store' = IF kept = carried THEN store ELSE Fetch!WithoutHint
          /\ Fetch!LoseAll((carried \ kept) \intersect Fetch!ToSet(store.seen), "deferred")
  BY DEF Fetch!CapForScoring
<1>3. /\ fetch' = [Fetch!Quiet EXCEPT !.pc = "decide"]
      /\ UNCHANGED <<source, listing, lastmod, now, made, unbooked>>
  BY DEF Fetch!CapForScoring, Fetch!world
<1>4. /\ store' \in StoreRow /\ store'.mark \in {0, store.mark} /\ store'.seen = store.seen
  BY <1>1, <1>2 DEF StoreRow, Fetch!WithoutHint
<1>5. fetch' \in FetchRow /\ Rested(fetch') /\ fetch'.pc = "decide"
  BY <1>3, AtRest, Blanks
<1>6. fate' \in [Postings -> Fetch!Fates]
  BY <1>1, <1>2, LosingAll
<1>7. Fetch!Calls' <= Budget
  BY <1>5 DEF Rested, Fetch!Calls, SourcesAssumption, Fetch!FetchingAssumption
<1>8. TypeInv'
  BY <1>1, <1>2, <1>3, <1>4, <1>5, <1>6 DEF Typed, TypeInv
<1>9. PhaseInv'
  BY <1>1, <1>3, <1>4, <1>5, <1>7 DEF Typed, PhaseInv, Rested
<1> QED
  BY <1>8, <1>9 DEF Typed

LEMMA DecideTyped ==
    ASSUME SourcesAssumption, Typed, NEW released, Fetch!Decide(released) PROVE Typed'
<1>1. /\ carried' = {} /\ fetch' = Fetch!Quiet
      /\ UNCHANGED <<source, listing, lastmod, now, store, made, unbooked>>
      /\ fate' = [e \in Postings |-> IF e \in carried \ released THEN "decided"
                                     ELSE IF e \in released THEN "released" ELSE fate[e]]
  BY DEF Fetch!Decide, Fetch!world
<1>2. fate \in [Postings -> Fetch!Fates] /\ made \in Nat /\ unbooked \in Nat
  BY DEF Typed, TypeInv
<1>3. fate' \in [Postings -> Fetch!Fates]
  BY <1>1, <1>2 DEF Fetch!Fates
<1> QED
  BY <1>1, <1>2, <1>3, Stopped

LEMMA CrashTyped == ASSUME SourcesAssumption, Typed, Fetch!Crash PROVE Typed'
<1>1. /\ fetch' = Fetch!Quiet /\ carried' = {}
      /\ Fetch!LoseAll(carried, "crashed")
      /\ unbooked' = unbooked \/ Fetch!CallsLost
      /\ UNCHANGED <<source, listing, lastmod, now, store, made>>
  BY DEF Fetch!Crash, Fetch!world
<1>2. /\ fate \in [Postings -> Fetch!Fates] /\ "crashed" \in Fetch!Fates
      /\ made \in Nat /\ unbooked \in Nat /\ fetch.asked \in Nat
  BY DEF Typed, TypeInv, Fetch!Fates, FetchRow
<1>3. fate' \in [Postings -> Fetch!Fates]
  BY <1>1, <1>2, LosingAll
<1>4. unbooked' \in Nat
  <2>1. unbooked' = unbooked \/ unbooked' = unbooked + fetch.asked \/ unbooked' = unbooked + 0
    BY <1>1 DEF Fetch!CallsLost
  <2> QED
    BY <1>2, <2>1
<1> QED
  BY <1>1, <1>2, <1>3, <1>4, Stopped

LEMMA PublishTyped ==
    ASSUME SourcesAssumption, Typed, NEW e \in Postings, NEW date \in 0 .. MaxTime,
           Fetch!Publish(e, date)
    PROVE  Typed'
<1>1. /\ listing' = <<e>> \o listing /\ lastmod' = [lastmod EXCEPT ![e] = date]
      /\ UNCHANGED <<source, now, store, carried, fate, made, unbooked>>
      /\ e \notin Fetch!Listed
      /\ date <= now \/ date = 0
      /\ fetch' = fetch \/ fetch' = [fetch EXCEPT !.owed = {}]
  BY DEF Fetch!Publish
<1>2. listing \in Seq(Postings) /\ fetch \in FetchRow /\ now \in Nat
      /\ \A i, j \in DOMAIN listing : listing[i] = listing[j] => i = j
  BY SameSets DEF Typed, TypeInv
<1>3. /\ listing' \in Seq(Postings) /\ Len(listing') = Len(listing) + 1 /\ listing'[1] = e
      /\ \A i \in 1 .. Len(listing) : listing'[i + 1] = listing[i]
  BY <1>1, <1>2
<1>4. Fetch!IsInjective(listing)'
  <2> SUFFICES ASSUME NEW i \in DOMAIN listing', NEW j \in DOMAIN listing',
                      listing'[i] = listing'[j]
               PROVE  i = j
    BY SameSets
  <2>1. i \in 1 .. Len(listing) + 1 /\ j \in 1 .. Len(listing) + 1
    BY <1>2, <1>3
  <2>2. \A k \in 1 .. Len(listing) + 1 :
            k # 1 => k - 1 \in DOMAIN listing /\ listing'[k] = listing[k - 1]
                     /\ listing'[k] \in Fetch!Listed
    <3> SUFFICES ASSUME NEW k \in 1 .. Len(listing) + 1, k # 1
                 PROVE  k - 1 \in DOMAIN listing /\ listing'[k] = listing[k - 1]
                        /\ listing'[k] \in Fetch!Listed
      OBVIOUS
    <3>1. k - 1 \in 1 .. Len(listing) /\ (k - 1) + 1 = k
      BY <1>2
    <3>2. listing'[k] = listing[k - 1] /\ k - 1 \in DOMAIN listing
      BY <1>2, <1>3, <3>1
    <3> QED
      BY <3>2, SameSets DEF Fetch!Listed
  <2>3. i = 1 /\ j # 1 => FALSE
    BY <1>1, <1>3, <2>1, <2>2
  <2>4. j = 1 /\ i # 1 => FALSE
    BY <1>1, <1>3, <2>1, <2>2
  <2>5. i # 1 /\ j # 1 => i - 1 = j - 1
    BY <1>2, <2>1, <2>2
  <2> QED
    BY <2>1, <2>3, <2>4, <2>5
<1>5. /\ fetch' \in FetchRow /\ fetch'.pc = fetch.pc /\ fetch'.mark = fetch.mark
      /\ fetch'.chosen = fetch.chosen /\ fetch'.recent = fetch.recent
      /\ fetch'.entries = fetch.entries
      /\ fetch'.base = fetch.base /\ fetch'.asked = fetch.asked
  BY <1>1, <1>2 DEF FetchRow
<1>6. lastmod' \in [Postings -> 0 .. MaxTime] /\ \A q \in Postings : lastmod'[q] <= now
  BY <1>1, <1>2 DEF Typed, TypeInv, PhaseInv
<1>7. TypeInv'
  BY <1>1, <1>3, <1>4, <1>5, <1>6 DEF Typed, TypeInv
<1>8. PhaseInv'
  BY <1>1, <1>5, <1>6 DEF Typed, PhaseInv, Fetch!Calls
<1> QED
  BY <1>7, <1>8 DEF Typed

LEMMA TakeDownTyped ==
    ASSUME SourcesAssumption, Typed, NEW e \in Postings, Fetch!TakeDown(e) PROVE Typed'
<1>1. /\ lastmod' = [lastmod EXCEPT ![e] = 0]
      /\ UNCHANGED <<source, now, store, carried, fate, made, unbooked>>
      /\ fetch' = [fetch EXCEPT !.owed = {}]
  BY DEF Fetch!TakeDown
<1>2. PICK k \in DOMAIN listing : listing' = Fetch!RemoveAt(listing, k)
  BY DEF Fetch!TakeDown
<1>3. listing \in Seq(Postings) /\ fetch \in FetchRow /\ now \in Nat
      /\ \A i, j \in DOMAIN listing : listing[i] = listing[j] => i = j
  BY SameSets DEF Typed, TypeInv
<1>4. /\ listing' \in Seq(Postings) /\ Len(listing') = Len(listing) - 1
      /\ \A i \in 1 .. Len(listing) - 1 :
             listing'[i] = IF i < k THEN listing[i] ELSE listing[i + 1]
  BY <1>2, <1>3, RemovedIs
<1>5. Fetch!IsInjective(listing)'
  <2> SUFFICES ASSUME NEW i \in DOMAIN listing', NEW j \in DOMAIN listing',
                      listing'[i] = listing'[j]
               PROVE  i = j
    BY SameSets
  <2> DEFINE old(m) == IF m < k THEN m ELSE m + 1
  <2>1. i \in 1 .. Len(listing) - 1 /\ j \in 1 .. Len(listing) - 1 /\ k \in 1 .. Len(listing)
    BY <1>3, <1>4
  <2>2. old(i) \in DOMAIN listing /\ old(j) \in DOMAIN listing
    BY <1>3, <2>1
  <2>3. listing'[i] = listing[old(i)] /\ listing'[j] = listing[old(j)]
    BY <1>4, <2>1
  <2>4. old(i) = old(j)
    <3> HIDE DEF old
    <3> QED
      BY <1>3, <2>2, <2>3
  <2> QED
    BY <2>1, <2>4
<1>6. /\ fetch' \in FetchRow /\ fetch'.pc = fetch.pc /\ fetch'.mark = fetch.mark
      /\ fetch'.chosen = fetch.chosen /\ fetch'.recent = fetch.recent
      /\ fetch'.entries = fetch.entries
      /\ fetch'.base = fetch.base /\ fetch'.asked = fetch.asked
  BY <1>1, <1>3 DEF FetchRow
<1>7. lastmod' \in [Postings -> 0 .. MaxTime] /\ \A q \in Postings : lastmod'[q] <= now
  <2>1. 0 \in 0 .. MaxTime
    BY DEF SourcesAssumption, Fetch!FetchingAssumption
  <2>2. lastmod \in [Postings -> 0 .. MaxTime] /\ \A q \in Postings : lastmod[q] <= now
    BY DEF Typed, TypeInv, PhaseInv
  <2> QED
    BY <1>1, <1>3, <2>1, <2>2
<1>8. TypeInv'
  BY <1>1, <1>4, <1>5, <1>6, <1>7 DEF Typed, TypeInv
<1>9. PhaseInv'
  BY <1>1, <1>6, <1>7 DEF Typed, PhaseInv, Fetch!Calls
<1> QED
  BY <1>8, <1>9 DEF Typed

LEMMA TickTyped == ASSUME SourcesAssumption, Typed, Fetch!Tick PROVE Typed'
<1>1. /\ now' = now + 1 /\ now < MaxTime
      /\ UNCHANGED <<source, listing, lastmod, store, fetch, carried, fate, made, unbooked>>
  BY DEF Fetch!Tick
<1>2. now \in 0 .. MaxTime /\ MaxTime \in Nat /\ store.mark \in Nat /\ fetch.mark \in Nat
      /\ \A e \in Postings : lastmod[e] \in Nat
  BY DEF Typed, TypeInv, StoreRow, FetchRow, SourcesAssumption, Fetch!FetchingAssumption
<1>3. now' \in 0 .. MaxTime
  BY <1>1, <1>2
<1>4. TypeInv'
  BY <1>1, <1>3 DEF Typed, TypeInv
<1>5. PhaseInv'
  BY <1>1, <1>2 DEF Typed, PhaseInv, Fetch!Calls
<1> QED
  BY <1>4, <1>5 DEF Typed

LEMMA NewDayTyped == ASSUME SourcesAssumption, Typed, Fetch!NewDay PROVE Typed'
<1>1. /\ made' = 0 /\ unbooked' = 0 /\ store' = [store EXCEPT !.today = FALSE]
      /\ fetch' = [fetch EXCEPT !.today = fetch.pc # "fetch"]
      /\ UNCHANGED <<source, listing, lastmod, now, carried, fate>>
  BY DEF Fetch!NewDay, Fetch!world
<1>2. store \in StoreRow /\ fetch \in FetchRow
  BY DEF Typed, TypeInv
<1>3. store' \in StoreRow /\ store'.mark = store.mark /\ store'.seen = store.seen
  BY <1>1, <1>2 DEF StoreRow
<1>4. /\ fetch' \in FetchRow /\ fetch'.pc = fetch.pc /\ fetch'.mark = fetch.mark
      /\ fetch'.chosen = fetch.chosen /\ fetch'.recent = fetch.recent
      /\ fetch'.entries = fetch.entries
      /\ fetch'.base = fetch.base /\ fetch'.asked = fetch.asked
  BY <1>1, <1>2 DEF FetchRow
<1>5. TypeInv'
  BY <1>1, <1>3, <1>4 DEF Typed, TypeInv
<1>6. PhaseInv'
  BY <1>1, <1>3, <1>4 DEF Typed, PhaseInv, Fetch!Calls
<1> QED
  BY <1>5, <1>6 DEF Typed

-----------------------------------------------------------------------------
(* A step is of one operation *)

\* The operations a behaviour of Fetching is made of.
LEMMA StepIs ==
    ASSUME Fetch!Next
    PROVE  \/ \E dry \in BOOLEAN : Fetch!Start(dry)
           \/ Fetch!FetchFails \/ Fetch!NotModified \/ Fetch!FirstQueryFails
           \/ Fetch!FetchModified \/ \E S : Fetch!FetchPlain(S)
           \/ Fetch!FetchPage \/ Fetch!PageFails
           \/ \E S : Fetch!ReadSitemap(S) \/ Fetch!ReadJobs(S)
           \/ Fetch!Search \/ Fetch!Query \/ Fetch!QueryFails
           \/ \E S : Fetch!Resolve(S)
           \/ Fetch!CapForScoring \/ \E S : Fetch!Decide(S)
           \/ Fetch!Crash
           \/ \E e \in Postings, date \in 0 .. MaxTime : Fetch!Publish(e, date)
           \/ \E e \in Postings : Fetch!TakeDown(e)
           \/ Fetch!Tick \/ Fetch!NewDay
<1>1. CASE Fetch!Cycle
  BY <1>1, Zenon DEF Fetch!Cycle, Fetch!Request
<1>2. CASE Fetch!Failure
  BY <1>2, Zenon DEF Fetch!Failure
<1>3. CASE Fetch!World
  BY <1>3, Zenon DEF Fetch!World
<1> QED
  BY <1>1, <1>2, <1>3 DEF Fetch!Next

\* And so every step does.
LEMMA FetchTyped == ASSUME SourcesAssumption, Typed, Fetch!Next PROVE Typed'
<1>1. (\E dry \in BOOLEAN : Fetch!Start(dry)) => Typed'
  BY StartTyped
<1>2. Fetch!FetchFails \/ Fetch!NotModified \/ Fetch!FirstQueryFails => Typed'
  BY FailsTyped
<1>3. Fetch!FetchModified \/ (\E S : Fetch!FetchPlain(S)) => Typed'
  BY FetchModifiedTyped, FetchPlainTyped
<1>4. Fetch!FetchPage \/ Fetch!PageFails => Typed'
  BY FetchPageTyped, PageFailsTyped
<1>5. (\E S : Fetch!ReadSitemap(S) \/ Fetch!ReadJobs(S)) => Typed'
  BY ReadSitemapTyped, ReadJobsTyped
<1>6. Fetch!Search \/ Fetch!Query \/ Fetch!QueryFails => Typed'
  BY SearchTyped, QueryTyped
<1>7. (\E S : Fetch!Resolve(S)) => Typed'
  BY ResolveTyped
<1>8. Fetch!CapForScoring \/ (\E S : Fetch!Decide(S)) \/ Fetch!Crash => Typed'
  BY CapTyped, DecideTyped, CrashTyped
<1>9. (\E e \in Postings, date \in 0 .. MaxTime : Fetch!Publish(e, date)) => Typed'
  BY PublishTyped
<1>10. (\E e \in Postings : Fetch!TakeDown(e)) => Typed'
  BY TakeDownTyped
<1>11. Fetch!Tick \/ Fetch!NewDay => Typed'
  BY TickTyped, NewDayTyped
<1> QED
  BY <1>1, <1>2, <1>3, <1>4, <1>5, <1>6, <1>7, <1>8, <1>9, <1>10, <1>11, StepIs

-----------------------------------------------------------------------------
(* The invariant *)

\* The calls of the day that the stored row counts, and those of the fetch that is on.
Booked == IF store.today THEN store.calls ELSE 0
Mine == IF fetch.pc = "fetch" /\ fetch.today THEN fetch.asked ELSE 0

BooksInv ==
    /\ fetch.pc = "fetch" => IF fetch.today THEN fetch.base = Booked ELSE ~store.today
    /\ fetch.pc # "fetch" \/ fetch.at = 0 \/ source.kind # "metered" => fetch.asked = 0
    /\ made = unbooked + Booked + Mine

Accounted(e) == fate[e] # "open" \/ e \in carried

\* What the stored row tells the next fetch to leave out.
HiddenInv ==
    /\ source.kind = "conditional" /\ store.etag # None =>
           \A e \in Fetch!ToSet(store.etag) : Accounted(e)
    /\ source.kind = "metered" => \A e \in Fetch!ToSet(store.seen) : Accounted(e)
    /\ source.kind = "sitemap" =>
           \A e \in Fetch!Listed :
               lastmod[e] > 0 /\ lastmod[e] + Overlap < store.mark => Accounted(e)

\* A posting a walk owes has been returned or is still ahead of it, and a total that was
\* read is right as long as the walk owes anything.
WalkInv ==
    fetch.pc = "fetch" /\ source.kind = "paged" =>
        /\ fetch.owed \subseteq Fetch!Listed
        /\ \A i \in DOMAIN listing :
               listing[i] \in fetch.owed => listing[i] \in fetch.out \/ i > fetch.at * PageSize
        /\ source.total = "first" /\ fetch.at > 0 /\ fetch.owed # {} => fetch.total = Len(listing)

FetchInv == Typed /\ BooksInv /\ HiddenInv /\ WalkInv /\ fetchMishaps \in Nat

-----------------------------------------------------------------------------
(* The calls of a day *)

\* A step that asks nothing and neither begins nor ends a fetch.
LEMMA BooksKept ==
    ASSUME BooksInv, UNCHANGED <<source, made, unbooked>>,
           store'.calls = store.calls, store'.today = store.today,
           fetch'.pc = fetch.pc, fetch'.base = fetch.base, fetch'.asked = fetch.asked,
           fetch.pc = "fetch" => fetch'.today = fetch.today,
           source.kind # "metered" \/ fetch'.at = fetch.at
    PROVE  BooksInv'
BY DEF BooksInv, Booked, Mine

\* A fetch that ends, with its calls booked or lost.
LEMMA BooksEnded ==
    ASSUME Typed, BooksInv, UNCHANGED <<source, made>>, Rested(fetch'),
           Booked' \in Nat, unbooked' + Booked' = unbooked + Booked + Mine
    PROVE  BooksInv'
<1>1. fetch'.pc # "fetch" /\ fetch'.asked = 0 /\ Mine' = 0
  BY DEF Rested, Mine
<1>2. made = unbooked + Booked + Mine
  BY DEF BooksInv
<1>3. unbooked' + Booked' \in Nat
  <2>1. made \in Nat
    BY DEF Typed, TypeInv
  <2> QED
    BY <1>2, <2>1
<1>4. made' = (unbooked' + Booked') + Mine'
  BY <1>1, <1>2, <1>3
<1> QED
  BY <1>1, <1>4 DEF BooksInv

\* What is booked of a day is within the budget.
LEMMA BookedIs == ASSUME SourcesAssumption, Typed PROVE Booked \in 0 .. Budget /\ Mine \in Nat
<1>1. store.calls \in 0 .. Budget /\ fetch.asked \in Nat /\ Budget \in Nat
  BY DEF Typed, TypeInv, StoreRow, FetchRow, SourcesAssumption, Fetch!FetchingAssumption
<1> QED
  BY <1>1 DEF Booked, Mine

\* A fetch whose row goes unstored, or was not metered.
LEMMA BooksLost ==
    ASSUME SourcesAssumption, Typed, BooksInv, UNCHANGED <<source, made>>, Rested(fetch'),
           store'.calls = store.calls, store'.today = store.today,
           unbooked' = unbooked + Mine
    PROVE  BooksInv'
<1>1. Booked' = Booked
  BY DEF Booked
<1>2. Booked \in Nat /\ Mine \in Nat /\ unbooked \in Nat
  BY BookedIs DEF Typed, TypeInv, SourcesAssumption, Fetch!FetchingAssumption
<1>3. unbooked' + Booked' = unbooked + Booked + Mine
  BY <1>1, <1>2
<1> QED
  BY <1>1, <1>2, <1>3, BooksEnded

\* A fetch that ends with the row it computed: a metered one books its calls.
LEMMA FinishBooks ==
    ASSUME SourcesAssumption, Typed, BooksInv, NEW out \in SUBSET Postings, NEW new, NEW fine,
           fetch.pc = "fetch", Fetch!Finish(out, new, fine),
           \/ source.kind # "metered" /\ new.calls = store.calls /\ new.today = store.today
           \/ new.calls = Fetch!Calls /\ new.today = fetch.today
    PROVE  BooksInv'
<1>1. UNCHANGED <<source, made>>
  BY FinishIs
<1>2. Rested(fetch')
  <2>1. Rested([Fetch!Quiet EXCEPT !.pc = "score", !.out = out])
    BY AtRest
  <2> QED
    BY <2>1, FinishIs, AtRest
<1>3. /\ Booked \in Nat /\ Mine \in Nat /\ unbooked \in Nat /\ fetch.base \in Nat
      /\ fetch.asked \in Nat
  BY BookedIs DEF Typed, TypeInv, FetchRow, SourcesAssumption, Fetch!FetchingAssumption
<1>4. CASE store' = store /\ Fetch!CallsLost
  <2>1. unbooked' = unbooked + Mine
    BY <1>4 DEF Fetch!CallsLost, Mine
  <2> QED
    BY <1>1, <1>2, <1>4, <2>1, BooksLost
<1>5. CASE store' = new /\ unbooked' = unbooked
  <2>1. CASE source.kind # "metered" /\ new.calls = store.calls /\ new.today = store.today
    <3>1. Mine = 0 /\ unbooked' = unbooked + Mine
      BY <1>3, <1>5, <2>1 DEF Mine, BooksInv
    <3> QED
      BY <1>1, <1>2, <1>5, <2>1, <3>1, BooksLost
  <2>2. CASE new.calls = Fetch!Calls /\ new.today = fetch.today
    <3>1. CASE fetch.today
      <4>1. Booked' = Booked + Mine
        BY <1>5, <2>2, <3>1 DEF Booked, Mine, BooksInv, Fetch!Calls
      <4> QED
        BY <1>1, <1>2, <1>3, <1>5, <4>1, BooksEnded
    <3>2. CASE ~fetch.today
      <4>1. Booked' = 0 /\ Booked = 0 /\ Mine = 0
        BY <1>5, <2>2, <3>2 DEF Booked, Mine, BooksInv
      <4> QED
        BY <1>1, <1>2, <1>3, <1>5, <4>1, BooksEnded
    <3> QED
      BY <3>1, <3>2
  <2> QED
    BY <2>1, <2>2
<1> QED
  BY <1>4, <1>5, FinishIs

\* Every call is booked, in the fetch that is on, or lost for good.
LEMMA FetchBooks == ASSUME SourcesAssumption, Typed, BooksInv, Fetch!Next PROVE BooksInv'
<1>0. /\ store \in StoreRow /\ fetch \in FetchRow /\ made \in Nat /\ unbooked \in Nat
      /\ Booked \in Nat /\ Mine \in Nat
  BY BookedIs DEF Typed, TypeInv, SourcesAssumption, Fetch!FetchingAssumption
<1>1. ASSUME NEW dry \in BOOLEAN, Fetch!Start(dry) PROVE BooksInv'
  <2>1. /\ UNCHANGED <<source, store, made, unbooked>> /\ fetch.pc = "idle"
        /\ fetch'.pc = "fetch" /\ fetch'.today /\ fetch'.asked = 0 /\ fetch'.base = Booked
    BY <1>1 DEF Fetch!Start, Fetch!world, Fetch!Quiet, Booked
  <2>2. Mine = 0 /\ Mine' = 0 /\ Booked' = Booked
    BY <2>1 DEF Mine, Booked
  <2> QED
    BY <2>1, <2>2 DEF BooksInv
<1>2. ASSUME Fetch!FetchFails \/ Fetch!NotModified PROVE BooksInv'
  <2>1. /\ UNCHANGED <<source, store, made, unbooked>> /\ fetch' = Fetch!Quiet
        /\ fetch.pc = "fetch" /\ source.kind # "metered"
    BY <1>2 DEF Fetch!FetchFails, Fetch!NotModified, Fetch!world, Fetch!Fetching
  <2>2. Mine = 0 /\ unbooked' = unbooked + Mine
    BY <1>0, <2>1 DEF Mine, BooksInv
  <2> QED
    BY <2>1, <2>2, BooksLost, AtRest
<1>3. ASSUME Fetch!FirstQueryFails PROVE BooksInv'
  <2>1. /\ UNCHANGED <<source, store>> /\ fetch' = Fetch!Quiet /\ fetch.at = 0
    BY <1>3 DEF Fetch!FirstQueryFails, Fetch!world
  <2>2. PICK answered \in {0, 1} : made' = made + answered /\ unbooked' = unbooked + answered
    BY <1>3 DEF Fetch!FirstQueryFails, Fetch!AnswerLost
  <2>3. Mine = 0 /\ Mine' = 0 /\ Booked' = Booked /\ Rested(fetch')
    BY <2>1, AtRest DEF Mine, BooksInv, Booked, Rested
  <2>4. made' = unbooked' + Booked' + Mine'
    BY <1>0, <2>2, <2>3 DEF BooksInv
  <2> QED
    BY <2>3, <2>4 DEF BooksInv, Rested
<1>4. ASSUME Fetch!FetchModified PROVE BooksInv'
  <2>1. /\ fetch.pc = "fetch" /\ source.kind = "conditional"
        /\ Fetch!Finish(Fetch!ToSet(Fetch!Window), [store EXCEPT !.etag = Fetch!Window], TRUE)
    BY <1>4 DEF Fetch!FetchModified, Fetch!Fetching
  <2>2. LET new == [store EXCEPT !.etag = Fetch!Window] IN
            new.calls = store.calls /\ new.today = store.today
    BY <1>0 DEF StoreRow
  <2>3. Fetch!ToSet(Fetch!Window) \in SUBSET Postings
    BY <2>1, WindowIs
  <2> QED
    BY <2>1, <2>2, <2>3, FinishBooks
<1>5. ASSUME NEW S, Fetch!FetchPlain(S) PROVE BooksInv'
  <2>1. /\ fetch.pc = "fetch" /\ source.kind = "plain"
        /\ Fetch!Finish(Fetch!ToSet(Fetch!Window) \ S, store, S = {})
    BY <1>5 DEF Fetch!FetchPlain, Fetch!Fetching
  <2>2. Fetch!ToSet(Fetch!Window) \ S \in SUBSET Postings
    BY <2>1, WindowIs
  <2> QED
    BY <2>1, <2>2, FinishBooks
<1>6. ASSUME Fetch!FetchPage \/ Fetch!PageFails PROVE BooksInv'
  <2> DEFINE out == fetch.out \union Fetch!ToSet(Fetch!Page(fetch.at))
  <2>1. out \in SUBSET Postings /\ fetch.out \in SUBSET Postings
    BY <1>0, PageIs DEF FetchRow
  <2> HIDE DEF out
  <2>2. /\ fetch.pc = "fetch" /\ source.kind = "paged"
        /\ \/ Fetch!Finish(out, store, TRUE) \/ Fetch!Finish(fetch.out, store, FALSE)
           \/ /\ fetch' = [fetch EXCEPT !.at = fetch.at + 1, !.out = out,
                                        !.total = Fetch!Total(fetch.at)]
              /\ UNCHANGED <<source, store, made, unbooked>>
    BY <1>6 DEF Fetch!FetchPage, Fetch!PageFails, Fetch!Fetching, Fetch!world, out
  <2>3. CASE Fetch!Finish(out, store, TRUE) \/ Fetch!Finish(fetch.out, store, FALSE)
    BY <2>1, <2>2, <2>3, FinishBooks
  <2>4. CASE /\ fetch' = [fetch EXCEPT !.at = fetch.at + 1, !.out = out,
                                      !.total = Fetch!Total(fetch.at)]
             /\ UNCHANGED <<source, store, made, unbooked>>
    <3>1. /\ fetch'.pc = fetch.pc /\ fetch'.base = fetch.base /\ fetch'.asked = fetch.asked
          /\ fetch'.today = fetch.today
      BY <1>0, <2>4 DEF FetchRow
    <3> QED
      BY <2>2, <2>4, <3>1, BooksKept
  <2> QED
    BY <2>2, <2>3, <2>4
<1>7. ASSUME NEW S, Fetch!ReadSitemap(S) PROVE BooksInv'
  <2>1. UNCHANGED <<source, store, made, unbooked>> /\ source.kind = "sitemap"
    BY <1>7 DEF Fetch!ReadSitemap, Fetch!Fetching, Fetch!world
  <2> DEFINE b == Fetch!Listed \ S
             c == {e \in b : lastmod[e] > 0 /\ Fetch!Recent(e)}
  <2>2. \/ fetch' = Fetch!Quiet
        \/ \E d \in SUBSET c, a \in 0 .. MaxTime :
               fetch' = [fetch EXCEPT !.at = 1, !.mark = a, !.entries = b, !.recent = c,
                                      !.chosen = d]
    BY <1>7 DEF Fetch!ReadSitemap
  <2> HIDE DEF b, c
  <2>3. CASE fetch' = Fetch!Quiet
    <3>1. Mine = 0 /\ unbooked' = unbooked + Mine
      BY <1>0, <2>1 DEF Mine, BooksInv
    <3> QED
      BY <2>1, <2>3, <3>1, BooksLost, AtRest
  <2>4. ASSUME NEW d, NEW a,
               fetch' = [fetch EXCEPT !.at = 1, !.mark = a, !.entries = b, !.recent =
               c, !.chosen = d]
        PROVE  BooksInv'
    <3>1. /\ fetch'.pc = fetch.pc /\ fetch'.base = fetch.base /\ fetch'.asked = fetch.asked
          /\ fetch'.today = fetch.today
      BY <1>0, <2>4 DEF FetchRow
    <3> QED
      BY <2>1, <3>1, BooksKept
  <2> QED
    BY <2>2, <2>3, <2>4
<1>8. ASSUME NEW S, Fetch!ReadJobs(S) PROVE BooksInv'
  <2> DEFINE out == (fetch.chosen \ S) \intersect Fetch!Listed
             new == [store EXCEPT !.mark = fetch.mark]
  <2>1. fetch.pc = "fetch" /\ source.kind = "sitemap" /\ Fetch!Finish(out, new, S = {})
    BY <1>8 DEF Fetch!ReadJobs, Fetch!Fetching
  <2>2. out \in SUBSET Postings /\ new.calls = store.calls /\ new.today = store.today
    BY <1>0 DEF StoreRow, FetchRow
  <2> HIDE DEF out, new
  <2> QED
    BY <2>1, <2>2, FinishBooks
<1>9. ASSUME Fetch!Search PROVE BooksInv'
  <2> DEFINE all == fetch.out \union Fetch!Answer(fetch.at + 1)
  <2>1. /\ fetch.pc = "fetch" /\ source.kind = "search"
        /\ \/ \E kept \in SUBSET (all \ Active) : Fetch!Finish(kept, store, TRUE)
           \/ /\ fetch' = [fetch EXCEPT !.at = @ + 1, !.out = all]
              /\ UNCHANGED <<source, store, made, unbooked>>
    BY <1>9 DEF Fetch!Search, Fetch!Fetching, Fetch!world
  <2>2. all \in SUBSET Postings
    BY <1>0, AnswerIs DEF FetchRow
  <2> HIDE DEF all
  <2>3. ASSUME NEW kept \in SUBSET (all \ Active), Fetch!Finish(kept, store, TRUE) PROVE BooksInv'
    BY <2>1, <2>2, <2>3, FinishBooks
  <2>4. CASE /\ fetch' = [fetch EXCEPT !.at = @ + 1, !.out = all]
             /\ UNCHANGED <<source, store, made, unbooked>>
    <3>1. /\ fetch'.pc = fetch.pc /\ fetch'.base = fetch.base /\ fetch'.asked = fetch.asked
          /\ fetch'.today = fetch.today
      BY <1>0, <2>4 DEF FetchRow
    <3> QED
      BY <2>1, <2>4, <3>1, BooksKept
  <2> QED
    BY <2>1, <2>3, <2>4
<1>10. ASSUME Fetch!Query \/ Fetch!QueryFails PROVE BooksInv'
  <2>1. /\ UNCHANGED <<source, store>> /\ fetch.pc = "fetch" /\ fetch.at < Len(Queries)
        /\ \/ /\ made' = made + 1
              /\ unbooked' = IF fetch.today THEN unbooked ELSE unbooked + 1
              /\ \/ fetch' = [fetch EXCEPT !.asked = @ + 1, !.at = @ + 1,
                                          !.out = @ \union Fetch!Answer(fetch.at + 1)]
                 \/ fetch' = [fetch EXCEPT !.at = Len(Queries), !.asked = @ + 1]
           \/ /\ UNCHANGED <<made, unbooked>>
              /\ fetch.at > 0 /\ fetch' = [fetch EXCEPT !.at = Len(Queries)]
    BY <1>10 DEF Fetch!Query, Fetch!QueryFails, Fetch!MayAsk, Fetch!Fetching, Fetch!world
  <2>2. fetch.at \in Nat /\ fetch.asked \in Nat /\ Len(Queries) \in Nat
    BY <1>0 DEF FetchRow, SourcesAssumption, Fetch!FetchingAssumption
  <2>3. /\ fetch'.pc = "fetch" /\ fetch'.base = fetch.base /\ fetch'.today = fetch.today
        /\ fetch'.at \in {fetch.at + 1, Len(Queries)}
        /\ \/ fetch'.asked = fetch.asked + 1 /\ made' = made + 1
              /\ unbooked' = IF fetch.today THEN unbooked ELSE unbooked + 1
           \/ fetch'.asked = fetch.asked /\ UNCHANGED <<made, unbooked>>
    <3> DEFINE n == Len(Queries)
               found == Fetch!Answer(fetch.at + 1)
    <3> HIDE DEF n, found
    <3>1. \/ /\ made' = made + 1
             /\ unbooked' = IF fetch.today THEN unbooked ELSE unbooked + 1
             /\ \/ fetch' = [fetch EXCEPT !.asked = @ + 1, !.at = @ + 1, !.out = @ \union found]
                \/ fetch' = [fetch EXCEPT !.at = n, !.asked = @ + 1]
          \/ UNCHANGED <<made, unbooked>> /\ fetch' = [fetch EXCEPT !.at = n]
      BY <2>1 DEF n, found
    <3>2. /\ fetch'.pc = "fetch" /\ fetch'.base = fetch.base /\ fetch'.today = fetch.today
          /\ fetch'.at \in {fetch.at + 1, n}
          /\ \/ fetch'.asked = fetch.asked + 1 /\ made' = made + 1
                /\ unbooked' = IF fetch.today THEN unbooked ELSE unbooked + 1
             \/ fetch'.asked = fetch.asked /\ UNCHANGED <<made, unbooked>>
      BY <1>0, <2>1, <3>1 DEF FetchRow
    <3> QED
      BY <3>2 DEF n
  <2>4. fetch'.at # 0 /\ (fetch.at = 0 => fetch.asked = 0)
    BY <2>1, <2>2, <2>3 DEF BooksInv
  <2>5. Booked' = Booked
    BY <2>1 DEF Booked
  <2>6. made' = unbooked' + Booked' + Mine'
    BY <1>0, <2>1, <2>2, <2>3, <2>5, SMTT(30) DEF BooksInv, Mine
  <2>7. source.kind = "metered" /\ source' = source
    BY <1>10, <2>1 DEF Fetch!Query, Fetch!QueryFails, Fetch!MayAsk, Fetch!Fetching
  <2> QED
    BY <2>1, <2>3, <2>4, <2>5, <2>6, <2>7 DEF BooksInv
<1>11. ASSUME NEW S, Fetch!Resolve(S) PROVE BooksInv'
  <2> DEFINE new == fetch.out \ Fetch!ToSet(store.seen)
             out == new \ (Active \ S)
             seen == Fetch!Latest(store.seen \o Fetch!SetToSeq(new), SeenCap)
             row == [store EXCEPT !.calls = Fetch!Calls, !.today = fetch.today, !.seen = seen]
  <2>1. fetch.pc = "fetch" /\ Fetch!Finish(out, row, S = {})
    BY <1>11 DEF Fetch!Resolve, Fetch!Fetching
  <2>2. out \in SUBSET Postings
    BY <1>0 DEF FetchRow
  <2> HIDE DEF new, seen
  <2>3. row.calls = Fetch!Calls /\ row.today = fetch.today
    BY <1>0 DEF StoreRow
  <2> HIDE DEF out, row
  <2> QED
    BY <2>1, <2>2, <2>3, FinishBooks
<1>12. ASSUME Fetch!CapForScoring PROVE BooksInv'
  <2>1. /\ UNCHANGED <<source, made, unbooked>> /\ fetch.pc = "score"
        /\ fetch' = [Fetch!Quiet EXCEPT !.pc = "decide"]
        /\ store' = store \/ store' = Fetch!WithoutHint
    BY <1>12 DEF Fetch!CapForScoring, Fetch!world
  <2>2. store'.calls = store.calls /\ store'.today = store.today
    BY <1>0, <2>1 DEF Fetch!WithoutHint, StoreRow
  <2>3. Mine = 0 /\ unbooked' = unbooked + Mine
    BY <1>0, <2>1 DEF Mine
  <2> QED
    BY <2>1, <2>2, <2>3, BooksLost, AtRest
<1>13. ASSUME NEW S, Fetch!Decide(S) PROVE BooksInv'
  <2>1. UNCHANGED <<source, store, made, unbooked>> /\ fetch.pc = "decide" /\ fetch' = Fetch!Quiet
    BY <1>13 DEF Fetch!Decide, Fetch!world
  <2>2. Mine = 0 /\ unbooked' = unbooked + Mine
    BY <1>0, <2>1 DEF Mine
  <2> QED
    BY <2>1, <2>2, BooksLost, AtRest
<1>14. ASSUME Fetch!Crash PROVE BooksInv'
  <2>1. /\ UNCHANGED <<source, store, made>> /\ fetch' = Fetch!Quiet
        /\ IF fetch.pc = "fetch" THEN Fetch!CallsLost ELSE unbooked' = unbooked
    BY <1>14 DEF Fetch!Crash, Fetch!world
  <2>2. unbooked' = unbooked + Mine
    BY <1>0, <2>1 DEF Mine, Fetch!CallsLost
  <2> QED
    BY <2>1, <2>2, BooksLost, AtRest
<1>15. ASSUME \/ \E e \in Postings, date \in 0 .. MaxTime : Fetch!Publish(e, date)
              \/ \E e \in Postings : Fetch!TakeDown(e)
              \/ Fetch!Tick
       PROVE  BooksInv'
  <2>1. /\ UNCHANGED <<source, store, made, unbooked>>
        /\ fetch' = fetch \/ fetch' = [fetch EXCEPT !.owed = {}]
    BY <1>15 DEF Fetch!Publish, Fetch!TakeDown, Fetch!Tick
  <2>2. /\ fetch'.pc = fetch.pc /\ fetch'.base = fetch.base /\ fetch'.asked = fetch.asked
        /\ fetch'.today = fetch.today /\ fetch'.at = fetch.at
    BY <1>0, <2>1 DEF FetchRow
  <2> QED
    BY <2>1, <2>2, BooksKept
<1>16. ASSUME Fetch!NewDay PROVE BooksInv'
  <2>1. /\ source' = source /\ made' = 0 /\ unbooked' = 0
        /\ store' = [store EXCEPT !.today = FALSE]
        /\ fetch' = [fetch EXCEPT !.today = fetch.pc # "fetch"]
    BY <1>16 DEF Fetch!NewDay, Fetch!world
  <2>2. /\ ~store'.today /\ fetch'.pc = fetch.pc /\ fetch'.at = fetch.at
        /\ fetch'.asked = fetch.asked /\ (fetch.pc = "fetch" => ~fetch'.today)
    BY <1>0, <2>1 DEF StoreRow, FetchRow
  <2>3. Booked' = 0 /\ Mine' = 0
    BY <2>2 DEF Booked, Mine
  <2> QED
    BY <2>1, <2>2, <2>3 DEF BooksInv
<1> QED
  BY <1>1, <1>2, <1>3, <1>4, <1>5, <1>6, <1>7, <1>8, <1>9, <1>10, <1>11, <1>12, <1>13, <1>14, <1>15,
     <1>16, StepIs

-----------------------------------------------------------------------------
(* What a stored row hides *)

\* A step that accounts for what was accounted for, and makes the row hide nothing more.
LEMMA HiddenKept ==
    ASSUME Typed, HiddenInv, source' = source,
           \A e \in Postings : Accounted(e) => Accounted(e)',
           store'.etag = store.etag, store'.mark = store.mark, store'.seen = store.seen,
           \A e \in Fetch!Listed' :
               lastmod'[e] > 0 /\ lastmod'[e] + Overlap < store.mark =>
                   e \in Fetch!Listed /\ lastmod'[e] = lastmod[e]
    PROVE  HiddenInv'
<1>1. /\ Fetch!Listed \subseteq Postings /\ Fetch!ToSet(store.seen) \subseteq Postings
      /\ store.etag # None => Fetch!ToSet(store.etag) \subseteq Postings
  BY SameSets DEF Typed, TypeInv, StoreRow, Fetch!Listed
<1>2. source.kind = "conditional" /\ store.etag # None =>
          \A e \in Fetch!ToSet(store.etag) : Accounted(e)'
  BY <1>1 DEF HiddenInv
<1>3. source.kind = "metered" => \A e \in Fetch!ToSet(store.seen) : Accounted(e)'
  BY <1>1 DEF HiddenInv
<1>4. source.kind = "sitemap" =>
          \A e \in Fetch!Listed' :
              lastmod'[e] > 0 /\ lastmod'[e] + Overlap < store.mark => Accounted(e)'
  BY <1>1 DEF HiddenInv
<1>5. Fetch!ToSet(store'.etag) = Fetch!ToSet(store.etag) /\
      Fetch!ToSet(store'.seen) = Fetch!ToSet(store.seen)
  OBVIOUS
<1> QED
  BY <1>2, <1>3, <1>4, <1>5 DEF HiddenInv

\* One that keeps the row and the listing too.
LEMMA HiddenStill ==
    ASSUME Typed, HiddenInv, UNCHANGED <<source, listing, lastmod, store>>,
           \A e \in Postings : Accounted(e) => Accounted(e)'
    PROVE  HiddenInv'
<1>1. Fetch!Listed' = Fetch!Listed
  BY DEF Fetch!Listed
<1> QED
  BY <1>1, HiddenKept

\* What was fetched is carried on, unless it was decided before, and nothing was carried.
LEMMA FinishAccounts ==
    ASSUME SourcesAssumption, Typed, NEW out \in SUBSET Postings, NEW new, NEW fine,
           fetch.pc = "fetch", Fetch!Finish(out, new, fine),
           \A e \in Postings : fate[e] # "open" => fate'[e] = fate[e]
    PROVE  /\ \A e \in Postings : Accounted(e) => Accounted(e)'
           /\ store' = new => store' = store \/ \A e \in out : Accounted(e)'
<1>1. carried = {}
  BY EmptyHanded
<1>2. \A e \in Postings : Accounted(e) => Accounted(e)'
  BY <1>1 DEF Accounted
<1>3. CASE store' = store
  BY <1>2, <1>3
<1>4. CASE carried' = {e \in out : fate[e] # "decided"}
  <2>1. \A e \in out : Accounted(e)'
    <3> SUFFICES ASSUME NEW e \in out PROVE Accounted(e)'
      OBVIOUS
    <3>1. CASE fate[e] = "decided"
      BY <3>1 DEF Accounted
    <3>2. CASE fate[e] # "decided"
      BY <1>4, <3>2 DEF Accounted
    <3> QED
      BY <3>1, <3>2
  <2> QED
    BY <1>2, <2>1
<1> QED
  BY <1>3, <1>4, FinishIs

\* A fetch that ends with the row as it was.
LEMMA UnstoredHides ==
    ASSUME SourcesAssumption, Typed, HiddenInv, NEW out \in SUBSET Postings, NEW fine,
           fetch.pc = "fetch", Fetch!Finish(out, store, fine), fate' = fate
    PROVE  HiddenInv'
<1>1. \A e \in Postings : Accounted(e) => Accounted(e)'
  BY FinishAccounts
<1>2. UNCHANGED <<source, listing, lastmod, store>>
  BY FinishIs
<1> QED
  BY <1>1, <1>2, HiddenStill

\* The ETag that is stored hides what was just returned.
LEMMA FetchModifiedHides ==
    ASSUME SourcesAssumption, Typed, HiddenInv, Fetch!FetchModified PROVE HiddenInv'
<1> DEFINE win == Fetch!Window
           out == Fetch!ToSet(win)
           new == [store EXCEPT !.etag = win]
<1>1. /\ fetch.pc = "fetch" /\ source.kind = "conditional" /\ Fetch!Finish(out, new, TRUE)
      /\ fate' = fate
  BY DEF Fetch!FetchModified, Fetch!Fetching
<1>2. out \in SUBSET Postings /\ win \in Seq(Postings) /\ store \in StoreRow
  BY <1>1, WindowIs DEF Typed, TypeInv
<1> HIDE DEF win
<1>3. new.etag = win /\ new.mark = store.mark /\ new.seen = store.seen
  BY <1>2 DEF StoreRow
<1> HIDE DEF new
<1>4. /\ \A e \in Postings : Accounted(e) => Accounted(e)'
      /\ store' = new => store' = store \/ \A e \in out : Accounted(e)'
  <2> HIDE DEF out
  <2> QED
    BY <1>1, <1>2, FinishAccounts
<1>5. UNCHANGED <<source, listing, lastmod>> /\ (store' = new \/ store' = store)
  <2> HIDE DEF out
  <2> QED
    BY <1>1, <1>2, FinishIs
<1>6. CASE store' = store
  BY <1>4, <1>5, <1>6, HiddenStill
<1>7. CASE store' = new /\ \A e \in out : Accounted(e)'
  BY <1>1, <1>3, <1>5, <1>7 DEF HiddenInv
<1> QED
  BY <1>4, <1>5, <1>6, <1>7

\* The watermark that is stored hides what was returned, or lost in a way that has a name.
LEMMA ReadJobsHides ==
    ASSUME SourcesAssumption, Typed, HiddenInv, NEW missed, Fetch!ReadJobs(missed) PROVE HiddenInv'
<1> DEFINE out == (fetch.chosen \ missed) \intersect Fetch!Listed
           new == [store EXCEPT !.mark = fetch.mark]
           left == Fetch!Listed \ out
           how == [e \in Postings |->
                CASE e \in left \intersect (fetch.recent \ fetch.chosen) -> "truncated"
                  [] e \in left \intersect fetch.chosen /\ Fetch!Behind(e) -> "detail"
                  [] e \in left \intersect (fetch.entries \ fetch.recent) /\
                  Fetch!Behind(e) -> "old"
                  [] e \in left \ fetch.entries /\ Fetch!Behind(e) -> "sitemap"
                  [] OTHER -> "open"]
<1>1. /\ fetch.pc = "fetch" /\ source.kind = "sitemap" /\ Fetch!Finish(out, new, missed = {})
      /\ IF fetch'.pc = "idle" THEN fate' = fate ELSE Fetch!Lose(how)
  BY DEF Fetch!ReadJobs, Fetch!Fetching
<1>2. /\ out \in SUBSET Postings /\ store \in StoreRow /\ fate \in [Postings -> Fetch!Fates]
      /\ left \in SUBSET Postings
  BY SameSets DEF Typed, TypeInv, FetchRow, Fetch!Listed
<1>3. /\ how \in [Postings -> Fetch!Fates]
      /\ \A e \in left : Fetch!Behind(e) => how[e] # "open"
  <2>1. fetch.chosen \subseteq fetch.recent /\ fetch.recent \subseteq fetch.entries
    BY DEF Typed, PhaseInv
  <2>2. left \in SUBSET Postings
    BY <1>2
  <2> HIDE DEF left
  <2>3. ASSUME NEW e \in Postings PROVE how[e] \in Fetch!Fates
    BY DEF Fetch!Fates
  <2>4. ASSUME NEW e \in left, Fetch!Behind(e) PROVE how[e] # "open"
    <3>1. \/ e \in fetch.recent \ fetch.chosen \/ e \in fetch.chosen
          \/ e \in fetch.entries \ fetch.recent \/ e \notin fetch.entries
      OBVIOUS
    <3> QED
      BY <2>1, <2>2, <2>4, <3>1
  <2> QED
    BY <2>3, <2>4
<1> HIDE DEF how
<1>4. \A e \in Postings : fate[e] # "open" => fate'[e] = fate[e]
  BY <1>1, <1>2, <1>3, Losing
<1>5. /\ \A e \in Postings : Accounted(e) => Accounted(e)'
      /\ store' = new => store' = store \/ \A e \in out : Accounted(e)'
  <2> HIDE DEF out, new
  <2> QED
    BY <1>1, <1>2, <1>4, FinishAccounts
<1>6. /\ UNCHANGED <<source, listing, lastmod>>
      /\ \/ store' = store
         \/ store' = new /\ fetch' = [Fetch!Quiet EXCEPT !.pc = "score", !.out = out]
  <2> HIDE DEF out, new
  <2> QED
    BY <1>1, <1>2, FinishIs
<1>7. CASE store' = store
  BY <1>5, <1>6, <1>7, HiddenStill
<1>8. CASE store' = new /\ store' # store
  <2>1. fetch'.pc = "score"
    BY <1>6, <1>8, AtRest
  <2>2. \A e \in left : Fetch!Behind(e) => fate'[e] # "open"
    <3> HIDE DEF left
    <3>1. \A e \in Postings : fate[e] = "open" => fate'[e] = how[e]
      BY <1>1, <1>2, <1>3, <2>1, Losing
    <3> QED
      BY <1>2, <1>3, <1>4, <3>1
  <2>3. Fetch!Listed' = Fetch!Listed
    BY <1>6 DEF Fetch!Listed
  <2>4. \A e \in Fetch!Listed : e \in out \/ e \in left
    OBVIOUS
  <2>5. \A e \in Fetch!Listed :
            lastmod[e] > 0 /\ lastmod[e] + Overlap < store'.mark => Accounted(e)'
    <3> HIDE DEF out, left, new
    <3> QED
      BY <1>5, <1>8, <2>2, <2>4 DEF Fetch!Behind, Accounted
  <2> HIDE DEF out, new, left
  <2> QED
    BY <1>1, <1>6, <2>3, <2>5 DEF HiddenInv
<1> QED
  BY <1>6, <1>7, <1>8

\* The ids that are stored were seen before, returned, or lead to a board polled directly.
LEMMA ResolveHides ==
    ASSUME SourcesAssumption, Typed, HiddenInv, NEW unresolved, Fetch!Resolve(unresolved)
    PROVE  HiddenInv'
<1> DEFINE new == fetch.out \ Fetch!ToSet(store.seen)
           out == new \ (Active \ unresolved)
           seen == Fetch!Latest(store.seen \o Fetch!SetToSeq(new), SeenCap)
           row == [store EXCEPT !.calls = Fetch!Calls, !.today = fetch.today, !.seen = seen]
<1>1. /\ fetch.pc = "fetch" /\ source.kind = "metered"
      /\ Fetch!Finish(out, row, unresolved = {})
      /\ IF store' = store THEN fate' = fate ELSE Fetch!LoseAll(new \ out, "direct")
  BY DEF Fetch!Resolve, Fetch!Fetching
<1>2. /\ store \in StoreRow /\ new \in SUBSET Postings /\ out \in SUBSET Postings
      /\ fate \in [Postings -> Fetch!Fates] /\ "direct" \in Fetch!Fates
  BY DEF Typed, TypeInv, FetchRow, Fetch!Fates
<1>3. new \intersect Fetch!ToSet(store.seen) = {}
  OBVIOUS
<1>o. \A e \in new : e \in out \/ e \in new \ out
  OBVIOUS
<1> HIDE DEF new
<1>4. Fetch!ToSet(seen) \subseteq Fetch!ToSet(store.seen) \union new
  BY <1>2, <1>3, SeenIs
<1> HIDE DEF out, seen
<1>5. row.seen = seen
  BY <1>2 DEF StoreRow
<1> HIDE DEF row
<1>6. /\ \A e \in Postings : fate[e] # "open" => fate'[e] = fate[e]
      /\ store' # store => \A e \in new \ out : fate'[e] # "open"
  <2>1. CASE store' = store
    BY <1>1, <2>1
  <2>2. CASE store' # store
    <3>1. \A e \in Postings : /\ fate[e] # "open" => fate'[e] = fate[e]
                              /\ fate[e] = "open" /\ e \in new \ out => fate'[e] = "direct"
      BY <1>1, <1>2, <2>2, LosingAll
    <3>2. ASSUME NEW e \in new \ out PROVE fate'[e] # "open"
      <4>1. e \in Postings
        BY <1>2
      <4> QED
        BY <3>1, <4>1
    <3> QED
      BY <3>1, <3>2
  <2> QED
    BY <2>1, <2>2
<1>7. /\ \A e \in Postings : Accounted(e) => Accounted(e)'
      /\ store' = row => store' = store \/ \A e \in out : Accounted(e)'
  BY <1>1, <1>2, <1>6, FinishAccounts
<1>8. UNCHANGED <<source, listing, lastmod>> /\ (store' = row \/ store' = store)
  BY <1>1, <1>2, FinishIs
<1>9. CASE store' = store
  BY <1>7, <1>8, <1>9, HiddenStill
<1>10. CASE store' = row /\ store' # store
  <2>1. \A e \in new : Accounted(e)'
    BY <1>6, <1>7, <1>10, <1>o DEF Accounted
  <2>2. \A e \in Fetch!ToSet(store.seen) : Accounted(e)'
    <3>1. Fetch!ToSet(store.seen) \subseteq Postings
      BY <1>2, SameSets DEF StoreRow
    <3> QED
      BY <1>1, <1>7, <3>1 DEF HiddenInv
  <2>3. \A e \in Fetch!ToSet(store'.seen) : Accounted(e)'
    BY <1>4, <1>5, <1>10, <2>1, <2>2
  <2> QED
    BY <1>1, <1>8, <2>3 DEF HiddenInv
<1> QED
  BY <1>8, <1>9, <1>10

\* The hints go with the first match that is deferred; of the ids the fate is recorded.
LEMMA CapHides == ASSUME SourcesAssumption, Typed, HiddenInv, Fetch!CapForScoring PROVE HiddenInv'
<1>1. /\ store \in StoreRow /\ carried \in SUBSET Postings
      /\ fate \in [Postings -> Fetch!Fates] /\ "deferred" \in Fetch!Fates
      /\ Fetch!ToSet(store.seen) \subseteq Postings
  BY SameSets DEF Typed, TypeInv, Fetch!Fates, StoreRow
<1>2. PICK kept \in SUBSET carried :
          /\ carried' = kept
          /\ store' = IF kept = carried THEN store ELSE Fetch!WithoutHint
          /\ Fetch!LoseAll((carried \ kept) \intersect Fetch!ToSet(store.seen), "deferred")
  BY DEF Fetch!CapForScoring
<1>3. UNCHANGED <<source, listing, lastmod>>
  BY DEF Fetch!CapForScoring, Fetch!world
<1> DEFINE dropped == (carried \ kept) \intersect Fetch!ToSet(store.seen)
<1>4. \A e \in Postings : fate[e] # "open" => fate'[e] = fate[e]
  BY <1>1, <1>2, LosingAll
<1>5. \A e \in Postings : fate[e] = "open" /\ e \in dropped => fate'[e] = "deferred"
  BY <1>1, <1>2, LosingAll
<1>6. CASE kept = carried
  <2>1. \A e \in Postings : Accounted(e) => Accounted(e)'
    BY <1>2, <1>4, <1>6 DEF Accounted
  <2> QED
    BY <1>2, <1>3, <1>6, <2>1, HiddenStill
<1>7. CASE kept # carried
  <2>1. store'.etag = None /\ store'.mark = 0 /\ store'.seen = store.seen
    BY <1>1, <1>2, <1>7 DEF Fetch!WithoutHint, StoreRow
  <2>2. ASSUME NEW e \in Fetch!ToSet(store.seen), Accounted(e) PROVE Accounted(e)'
    <3>1. e \in Postings
      BY <1>1
    <3>2. CASE fate[e] # "open"
      BY <1>4, <3>1, <3>2 DEF Accounted
    <3>3. CASE fate[e] = "open" /\ e \in kept
      BY <1>2, <3>3 DEF Accounted
    <3>4. CASE fate[e] = "open" /\ e \notin kept
      <4>1. e \in dropped
        BY <2>2, <3>4 DEF Accounted
      <4>2. fate'[e] = "deferred"
        BY <1>5, <3>1, <3>4, <4>1
      <4> QED
        BY <4>2 DEF Accounted
    <3> QED
      BY <3>2, <3>3, <3>4
  <2>3. source.kind = "metered" => \A e \in Fetch!ToSet(store'.seen) : Accounted(e)'
    BY <2>1, <2>2 DEF HiddenInv
  <2>4. \A e \in Fetch!Listed' :
            ~(lastmod'[e] > 0 /\ lastmod'[e] + Overlap < store'.mark)
    <3>1. Fetch!Listed' = Fetch!Listed /\ lastmod' = lastmod
      BY <1>3 DEF Fetch!Listed
    <3>2. \A e \in Fetch!Listed : lastmod[e] \in Nat
      BY SameSets
      DEF Typed, TypeInv, Fetch!Listed, SourcesAssumption, Fetch!FetchingAssumption
    <3>3. Overlap \in Nat
      BY DEF SourcesAssumption, Fetch!FetchingAssumption
    <3> QED
      BY <2>1, <3>1, <3>2, <3>3
  <2> QED
    BY <1>3, <2>1, <2>3, <2>4 DEF HiddenInv
<1> QED
  BY <1>6, <1>7

\* A new posting has a date the overlap allows for.
LEMMA PublishHides ==
    ASSUME SourcesAssumption, Typed, HiddenInv, NEW e \in Postings, NEW date \in 0 .. MaxTime,
           Fetch!Publish(e, date)
    PROVE  HiddenInv'
<1>1. /\ listing' = <<e>> \o listing /\ lastmod' = [lastmod EXCEPT ![e] = date]
      /\ UNCHANGED <<source, store, carried, fate>>
      /\ date = 0 \/ date + Overlap >= now
  BY DEF Fetch!Publish
<1>2. listing \in Seq(Postings) /\ lastmod \in [Postings -> 0 .. MaxTime]
  BY DEF Typed, TypeInv
<1>3. Fetch!Listed' = Fetch!Listed \union {e}
  <2>1. \A i \in 1 .. Len(listing) + 1 : listing'[i] = IF i = 1 THEN e ELSE listing[i - 1]
    BY <1>1, <1>2
  <2>2. DOMAIN listing' = 1 .. Len(listing) + 1 /\ DOMAIN listing = 1 .. Len(listing) /\
        Len(listing) \in Nat
    BY <1>1, <1>2
  <2>3. \A i \in 1 .. Len(listing) : i + 1 \in 1 .. Len(listing) + 1 /\ listing'[i + 1] = listing[i]
    BY <2>1, <2>2
  <2>4. \A i \in 1 .. Len(listing) + 1 : i = 1 \/ i - 1 \in 1 .. Len(listing)
    BY <2>2
  <2>5. 1 \in 1 .. Len(listing) + 1
    BY <2>2
  <2>6. Fetch!Listed = {listing[i] : i \in 1 .. Len(listing)}
    BY <2>2, SameSets DEF Fetch!Listed
  <2>7. Fetch!Listed' = {listing'[i] : i \in 1 .. Len(listing) + 1}
    BY <2>2, SameSets DEF Fetch!Listed
  <2>8. Fetch!Listed \subseteq Fetch!Listed' /\ e \in Fetch!Listed'
    BY <2>1, <2>3, <2>5, <2>6, <2>7
  <2>9. Fetch!Listed' \subseteq Fetch!Listed \union {e}
    BY <2>1, <2>4, <2>6, <2>7
  <2> QED
    BY <2>8, <2>9
<1>4. ASSUME NEW x \in Fetch!Listed', lastmod'[x] > 0, lastmod'[x] + Overlap < store.mark
      PROVE  x \in Fetch!Listed /\ lastmod'[x] = lastmod[x]
  <2>1. CASE x = e
    <3>1. lastmod'[x] = date
      BY <1>1, <1>2, <2>1
    <3>2. /\ store.mark <= now /\ now \in Nat /\ store.mark \in Nat /\ Overlap \in Nat
          /\ date \in Nat
      BY DEF Typed, TypeInv, PhaseInv, StoreRow, SourcesAssumption, Fetch!FetchingAssumption
    <3> QED
      BY <1>1, <1>4, <3>1, <3>2
  <2>2. CASE x # e
    <3>1. x \in Fetch!Listed /\ Fetch!Listed \subseteq Postings
      BY <1>2, <1>3, <2>2, SameSets DEF Fetch!Listed
    <3> QED
      BY <1>1, <1>2, <2>2, <3>1
  <2> QED
    BY <2>1, <2>2
<1>5. \A x \in Postings : Accounted(x) => Accounted(x)'
  BY <1>1 DEF Accounted
<1>6. source' = source /\ store'.etag = store.etag /\ store'.mark = store.mark /\
      store'.seen = store.seen
  BY <1>1
<1> QED
  BY <1>4, <1>5, <1>6, HiddenKept

\* A posting that is gone is hidden from nobody.
LEMMA TakeDownHides ==
    ASSUME SourcesAssumption, Typed, HiddenInv, NEW e \in Postings, Fetch!TakeDown(e)
    PROVE  HiddenInv'
<1>1. /\ lastmod' = [lastmod EXCEPT ![e] = 0]
      /\ UNCHANGED <<source, store, carried, fate>>
  BY DEF Fetch!TakeDown
<1>2. PICK k \in DOMAIN listing : listing' = Fetch!RemoveAt(listing, k)
  BY DEF Fetch!TakeDown
<1>3. listing \in Seq(Postings) /\ lastmod \in [Postings -> 0 .. MaxTime]
  BY DEF Typed, TypeInv
<1>4. Fetch!Listed' \subseteq Fetch!Listed
  <2>1. /\ listing' \in Seq(Postings) /\ Len(listing') = Len(listing) - 1
        /\ \A i \in 1 .. Len(listing) - 1 :
               listing'[i] = IF i < k THEN listing[i] ELSE listing[i + 1]
    BY <1>2, <1>3, RemovedIs
  <2>2. DOMAIN listing' = 1 .. Len(listing) - 1 /\ DOMAIN listing = 1 .. Len(listing) /\
        Len(listing) \in Nat
    BY <1>3, <2>1
  <2>3. \A i \in 1 .. Len(listing) - 1 : i \in 1 .. Len(listing) /\ i + 1 \in 1 .. Len(listing)
    BY <2>2
  <2>4. ASSUME NEW i \in DOMAIN listing' PROVE \E j \in DOMAIN listing : listing'[i] = listing[j]
    BY <2>1, <2>2, <2>3
  <2> QED
    BY <2>4, SameSets DEF Fetch!Listed
<1>5. ASSUME NEW x \in Fetch!Listed', lastmod'[x] > 0
      PROVE  x \in Fetch!Listed /\ lastmod'[x] = lastmod[x]
  <2>1. x \in Fetch!Listed /\ Fetch!Listed \subseteq Postings
    BY <1>3, <1>4, SameSets DEF Fetch!Listed
  <2>2. x # e
    BY <1>1, <1>3, <1>5
  <2> QED
    BY <1>1, <1>3, <2>1, <2>2
<1>6. \A x \in Postings : Accounted(x) => Accounted(x)'
  BY <1>1 DEF Accounted
<1>7. source' = source /\ store'.etag = store.etag /\ store'.mark = store.mark /\
      store'.seen = store.seen
  BY <1>1
<1> QED
  BY <1>5, <1>6, <1>7, HiddenKept

\* Nothing that a row comes to hide is unaccounted for.
LEMMA FetchHides == ASSUME SourcesAssumption, Typed, HiddenInv, Fetch!Next PROVE HiddenInv'
<1>0. /\ store \in StoreRow /\ fetch \in FetchRow /\ fate \in [Postings -> Fetch!Fates]
      /\ carried \in SUBSET Postings
  BY DEF Typed, TypeInv
<1>1. ASSUME \/ \E dry \in BOOLEAN : Fetch!Start(dry)
             \/ Fetch!FetchFails \/ Fetch!NotModified \/ Fetch!FirstQueryFails
             \/ \E S : Fetch!ReadSitemap(S)
             \/ Fetch!Query \/ Fetch!QueryFails \/ Fetch!Tick
      PROVE  HiddenInv'
  <2>1. UNCHANGED <<source, listing, lastmod, store, carried, fate>>
    BY <1>1
    DEF Fetch!Start, Fetch!FetchFails, Fetch!NotModified, Fetch!FirstQueryFails, Fetch!ReadSitemap,
        Fetch!Query, Fetch!QueryFails, Fetch!Tick, Fetch!world
  <2>2. \A e \in Postings : Accounted(e) => Accounted(e)'
    BY <2>1 DEF Accounted
  <2> QED
    BY <2>1, <2>2, HiddenStill
<1>2. ASSUME NEW S, Fetch!FetchPlain(S) PROVE HiddenInv'
  <2>1. /\ fetch.pc = "fetch" /\ source.kind = "plain" /\ fate' = fate
        /\ Fetch!Finish(Fetch!ToSet(Fetch!Window) \ S, store, S = {})
    BY <1>2 DEF Fetch!FetchPlain, Fetch!Fetching
  <2>2. Fetch!ToSet(Fetch!Window) \ S \in SUBSET Postings
    BY <2>1, WindowIs
  <2> QED
    BY <2>1, <2>2, UnstoredHides
<1>3. ASSUME Fetch!FetchPage \/ Fetch!PageFails \/ Fetch!Search PROVE HiddenInv'
  <2> DEFINE page == fetch.out \union Fetch!ToSet(Fetch!Page(fetch.at))
             all == fetch.out \union Fetch!Answer(fetch.at + 1)
  <2>1. page \in SUBSET Postings /\ fetch.out \in SUBSET Postings /\ all \in SUBSET Postings
    BY <1>0, PageIs, AnswerIs DEF FetchRow
  <2>2. /\ fetch.pc = "fetch" /\ fate' = fate
        /\ \/ Fetch!Finish(page, store, TRUE) \/ Fetch!Finish(fetch.out, store, FALSE)
           \/ \E kept \in SUBSET (all \ Active) : Fetch!Finish(kept, store, TRUE)
           \/ UNCHANGED <<source, listing, lastmod, store, carried>>
    BY <1>3 DEF Fetch!FetchPage, Fetch!PageFails, Fetch!Search, Fetch!Fetching, Fetch!world
  <2> HIDE DEF page, all
  <2>3. CASE Fetch!Finish(page, store, TRUE) \/ Fetch!Finish(fetch.out, store, FALSE)
    BY <2>1, <2>2, <2>3, UnstoredHides
  <2>4. ASSUME NEW kept \in SUBSET (all \ Active), Fetch!Finish(kept, store, TRUE) PROVE HiddenInv'
    BY <2>1, <2>2, <2>4, UnstoredHides
  <2>5. CASE UNCHANGED <<source, listing, lastmod, store, carried>>
    <3>1. \A e \in Postings : Accounted(e) => Accounted(e)'
      BY <2>2, <2>5 DEF Accounted
    <3> QED
      BY <2>5, <3>1, HiddenStill
  <2> QED
    BY <2>2, <2>3, <2>4, <2>5
<1>4. ASSUME NEW S, Fetch!Decide(S) PROVE HiddenInv'
  <2>1. /\ UNCHANGED <<source, listing, lastmod, store>> /\ S \subseteq carried
        /\ fate' = [e \in Postings |-> IF e \in carried \ S THEN "decided"
                                       ELSE IF e \in S THEN "released" ELSE fate[e]]
    BY <1>4 DEF Fetch!Decide, Fetch!world
  <2>2. \A e \in Postings : Accounted(e) => Accounted(e)'
    BY <2>1 DEF Accounted
  <2> QED
    BY <2>1, <2>2, HiddenStill
<1>5. ASSUME Fetch!Crash PROVE HiddenInv'
  <2>1. UNCHANGED <<source, listing, lastmod, store>> /\ Fetch!LoseAll(carried, "crashed")
    BY <1>5 DEF Fetch!Crash, Fetch!world
  <2>2. "crashed" \in Fetch!Fates
    BY DEF Fetch!Fates
  <2>3. \A e \in Postings : fate[e] # "open" => fate'[e] = fate[e]
    BY <1>0, <2>1, <2>2, LosingAll
  <2>4. \A e \in Postings : fate[e] = "open" /\ e \in carried => fate'[e] = "crashed"
    BY <1>0, <2>1, <2>2, LosingAll
  <2>5. \A e \in Postings : Accounted(e) => Accounted(e)'
    BY <2>3, <2>4 DEF Accounted
  <2> QED
    BY <2>1, <2>5, HiddenStill
<1>6. ASSUME Fetch!NewDay PROVE HiddenInv'
  <2>1. /\ UNCHANGED <<source, listing, lastmod, carried, fate>>
        /\ store' = [store EXCEPT !.today = FALSE]
    BY <1>6 DEF Fetch!NewDay, Fetch!world
  <2>2. store'.etag = store.etag /\ store'.mark = store.mark /\ store'.seen = store.seen
    BY <1>0, <2>1 DEF StoreRow
  <2>3. Fetch!Listed' = Fetch!Listed
    BY <2>1 DEF Fetch!Listed
  <2>4. \A e \in Postings : Accounted(e) => Accounted(e)'
    BY <2>1 DEF Accounted
  <2> QED
    BY <2>1, <2>2, <2>3, <2>4, HiddenKept
<1>7. (\E S : Fetch!ReadSitemap(S) \/ Fetch!ReadJobs(S)) => HiddenInv'
  BY <1>1, ReadJobsHides
<1>8. (\E S : Fetch!Resolve(S)) => HiddenInv'
  BY ResolveHides
<1>9. (\E S : Fetch!Decide(S)) \/ (\E S : Fetch!FetchPlain(S)) => HiddenInv'
  BY <1>2, <1>4
<1>10. (\E e \in Postings, date \in 0 .. MaxTime : Fetch!Publish(e, date)) => HiddenInv'
  BY PublishHides
<1>11. (\E e \in Postings : Fetch!TakeDown(e)) => HiddenInv'
  BY TakeDownHides
<1> QED
  BY <1>1, <1>3, <1>5, <1>6, <1>7, <1>8, <1>9, <1>10, <1>11, FetchModifiedHides, CapHides, StepIs

-----------------------------------------------------------------------------
(* A walk through pages that shift *)

\* What a page has of the listing: everything between its ends.
LEMMA PageHas ==
    ASSUME SourcesAssumption, Typed, NEW at \in Nat
    PROVE  /\ at * PageSize \in Nat /\ (at + 1) * PageSize = at * PageSize + PageSize
           /\ \A i \in DOMAIN listing :
                  at * PageSize < i /\ i <= (at + 1) * PageSize =>
                      listing[i] \in Fetch!ToSet(Fetch!Page(at))
           /\ Len(Fetch!Page(at)) < PageSize => Len(listing) < (at + 1) * PageSize
           /\ Fetch!Page(at) = <<>> => Len(listing) <= at * PageSize
<1> DEFINE first == at * PageSize
           got == Fetch!Page(at)
<1>1. PageSize \in Nat \ {0} /\ listing \in Seq(Postings)
  BY DEF Typed, TypeInv, SourcesAssumption, Fetch!FetchingAssumption
<1>2. first \in Nat /\ (at + 1) * PageSize = first + PageSize
  BY <1>1
<1>3. got = Fetch!Part(listing, first + 1, first + PageSize)
  BY <1>2 DEF Fetch!Page
<1> HIDE DEF first, got
<1>4. /\ got \in Seq(Postings)
      /\ \A i \in DOMAIN listing : first + 1 <= i /\ i <= first + PageSize =>
             i - (first + 1) + 1 \in DOMAIN got /\ got[i - (first + 1) + 1] = listing[i]
      /\ Len(listing) < first + 1 => Len(got) = 0
      /\ first + PageSize <= Len(listing) => Len(got) = (first + PageSize) - (first + 1) + 1
      /\ first + 1 <= Len(listing) /\ Len(listing) <= first + PageSize =>
             Len(got) = Len(listing) - (first + 1) + 1
  <2> DEFINE lo == first + 1
             hi == first + PageSize
  <2>1. lo \in Nat \ {0} /\ hi \in Nat
    BY <1>1, <1>2
  <2>2. got = Fetch!Part(listing, lo, hi)
    BY <1>3
  <2> HIDE DEF lo, hi
  <2>3. got \in Seq(Postings)
    BY <1>1, <2>1, <2>2, PartIs
  <2>4. \A i \in DOMAIN listing : lo <= i /\ i <= hi =>
            i - lo + 1 \in DOMAIN got /\ got[i - lo + 1] = listing[i]
    BY <1>1, <2>1, <2>2, PartIs
  <2>5. Len(listing) < lo => Len(got) = 0
    BY <1>1, <2>1, <2>2, PartIs
  <2>6. lo <= hi /\ hi <= Len(listing) => Len(got) = hi - lo + 1
    <3>1. Fetch!Part(listing, lo, hi) = got
      BY <2>2
    <3> HIDE DEF got
    <3>2. lo <= hi /\ hi <= Len(listing) => Len(Fetch!Part(listing, lo, hi)) = hi - lo + 1
      BY <1>1, <2>1, PartIs
    <3> QED
      BY <3>1, <3>2
  <2>7. lo <= Len(listing) /\ Len(listing) <= hi => Len(got) = Len(listing) - lo + 1
    <3>1. Fetch!Part(listing, lo, hi) = got
      BY <2>2
    <3>2. lo <= Len(listing) /\ Len(listing) <= hi =>
              Len(Fetch!Part(listing, lo, hi)) = Len(listing) - lo + 1
      BY <1>1, <2>1, PartIs
    <3> QED
      BY <3>1, <3>2
  <2>8. lo <= hi
    BY <1>1, <1>2 DEF lo, hi
  <2> QED
    BY <2>3, <2>4, <2>5, <2>6, <2>7, <2>8 DEF lo, hi
<1>5. Len(got) = IF Len(listing) <= first THEN 0
                 ELSE IF first + PageSize <= Len(listing) THEN PageSize ELSE Len(listing) - first
  BY <1>1, <1>2, <1>4, SMTT(30)
<1>6. ASSUME NEW i \in DOMAIN listing, first < i, i <= first + PageSize
      PROVE  listing[i] \in Fetch!ToSet(got)
  <2>1. first + 1 <= i
    BY <1>1, <1>2, <1>6
  <2>2. i - (first + 1) + 1 \in DOMAIN got /\ got[i - (first + 1) + 1] = listing[i]
    BY <1>4, <1>6, <2>1
  <2> QED
    BY <2>2, SameSets
<1>7. Len(got) < PageSize => Len(listing) < first + PageSize
  BY <1>1, <1>2, <1>5
<1>8. got = <<>> => Len(listing) <= first
  <2>1. got = <<>> => Len(got) = 0
    OBVIOUS
  <2> QED
    BY <1>1, <1>2, <1>5, <2>1
<1> QED
  BY <1>2, <1>6, <1>7, <1>8 DEF first, got

\* A step that ends the fetch, or that is none of a walk.
LEMMA WalkEnded == ASSUME fetch'.pc # "fetch" \/ source'.kind # "paged" PROVE WalkInv'
BY DEF WalkInv

\* A walk begins ahead of all it owes.
LEMMA StartWalks ==
    ASSUME SourcesAssumption, Typed, NEW dry \in BOOLEAN, Fetch!Start(dry) PROVE WalkInv'
<1>1. /\ UNCHANGED <<source, listing>>
      /\ fetch'.owed = IF source.kind = "paged" THEN Fetch!Listed ELSE {}
      /\ fetch'.at = 0
  BY DEF Fetch!Start, Fetch!world, Fetch!Quiet
<1>2. Fetch!Listed' = Fetch!Listed
  BY <1>1 DEF Fetch!Listed
<1>3. \A i \in DOMAIN listing : i > fetch'.at * PageSize
  <2>1. listing \in Seq(Postings) /\ PageSize \in Nat
    BY DEF Typed, TypeInv, SourcesAssumption, Fetch!FetchingAssumption
  <2>2. 0 * PageSize = 0
    BY <2>1
  <2> QED
    BY <1>1, <2>1, <2>2
<1>4. fetch'.owed \subseteq Fetch!Listed' \/ source.kind # "paged"
  BY <1>1, <1>2
<1>5. ~(fetch'.at > 0)
  BY <1>1
<1> QED
  BY <1>1, <1>3, <1>4, <1>5 DEF WalkInv

\* A page that is not the last brings it past all it returned.
LEMMA FetchPageWalks ==
    ASSUME SourcesAssumption, Typed, WalkInv, Fetch!FetchPage PROVE WalkInv'
<1> DEFINE at == fetch.at
           page == Fetch!ToSet(Fetch!Page(at))
           total == Fetch!Total(at)
<1>1. /\ fetch.pc = "fetch" /\ source.kind = "paged"
      /\ \/ Fetch!Finish(fetch.out \union page, store, TRUE)
         \/ /\ fetch' = [fetch EXCEPT !.at = at + 1, !.out = fetch.out \union page, !.total = total]
            /\ UNCHANGED <<source, listing>>
  BY DEF Fetch!FetchPage, Fetch!Fetching, Fetch!world
<1>2. /\ fetch \in FetchRow /\ at \in Nat /\ fetch.out \union page \in SUBSET Postings
      /\ listing \in Seq(Postings) /\ PageSize \in Nat
  BY PageIs DEF Typed, TypeInv, FetchRow, SourcesAssumption, Fetch!FetchingAssumption
<1>3. CASE Fetch!Finish(fetch.out \union page, store, TRUE)
  <2>1. fetch'.pc # "fetch"
    BY <1>2, <1>3, FinishIs, AtRest
  <2> QED
    BY <2>1, WalkEnded
<1>4. CASE /\ fetch' = [fetch EXCEPT !.at = at + 1, !.out = fetch.out \union page, !.total = total]
           /\ UNCHANGED <<source, listing>>
  <2> DEFINE next == at + 1
  <2>1. \A i \in DOMAIN listing : at * PageSize < i /\ i <= next * PageSize => listing[i] \in page
    BY <1>2, PageHas
  <2>2. total = Fetch!Total(at) /\ (total = Len(listing) \/ total = fetch.total)
        /\ (at = 0 => total = Len(listing))
    BY DEF Fetch!Total
  <2>3. source.total = "first" /\ fetch.owed # {} => total = Len(listing)
    BY <1>1, <1>2, <2>2 DEF WalkInv
  <2>4. Fetch!Listed' = Fetch!Listed
    BY <1>4 DEF Fetch!Listed
  <2> HIDE DEF page, total
  <2>5. /\ fetch'.owed = fetch.owed /\ fetch'.at = next /\ fetch'.total = total
        /\ fetch'.out = fetch.out \union page
    BY <1>2, <1>4 DEF FetchRow
  <2>6. next * PageSize \in Nat /\ at * PageSize \in Nat
    BY <1>2
  <2>7. ASSUME NEW i \in DOMAIN listing, listing[i] \in fetch.owed
        PROVE  listing[i] \in fetch.out \union page \/ i > next * PageSize
    <3>1. listing[i] \in fetch.out \/ i > at * PageSize
      BY <1>1, <2>7 DEF WalkInv
    <3>2. i \in Nat
      BY <1>2
    <3> HIDE DEF next, at
    <3> QED
      BY <2>1, <2>6, <3>1, <3>2
  <2> HIDE DEF next
  <2>8. fetch'.owed \subseteq Fetch!Listed'
    BY <1>1, <2>4, <2>5 DEF WalkInv
  <2> QED
    BY <1>4, <2>3, <2>5, <2>7, <2>8 DEF WalkInv
<1> QED
  BY <1>1, <1>3, <1>4

\* A new posting pushes what is ahead further ahead.
LEMMA PublishWalks ==
    ASSUME SourcesAssumption, Typed, WalkInv, NEW e \in Postings, NEW date \in 0 .. MaxTime,
           Fetch!Publish(e, date)
    PROVE  WalkInv'
<1>1. /\ listing' = <<e>> \o listing /\ source' = source /\ e \notin Fetch!Listed
      /\ fetch' = IF source.kind = "paged" /\ (source.total = "first"
                                                \/ Len(listing) >= PageSize * MaxPages)
                  THEN [fetch EXCEPT !.owed = {}] ELSE fetch
  BY DEF Fetch!Publish
<1>2. /\ fetch \in FetchRow /\ fetch.at \in Nat /\ listing \in Seq(Postings) /\ PageSize \in Nat
  BY DEF Typed, TypeInv, FetchRow, SourcesAssumption, Fetch!FetchingAssumption
<1>3. CASE fetch' = [fetch EXCEPT !.owed = {}]
  <2>1. fetch'.owed = {}
    BY <1>2, <1>3 DEF FetchRow
  <2> QED
    BY <2>1 DEF WalkInv
<1>4. CASE fetch' = fetch /\ (source.kind = "paged" => source.total # "first")
  <2>1. \A i \in 1 .. Len(listing) + 1 : listing'[i] = IF i = 1 THEN e ELSE listing[i - 1]
    BY <1>1, <1>2
  <2>2. /\ DOMAIN listing' = 1 .. Len(listing) + 1 /\ DOMAIN listing = 1 .. Len(listing)
        /\ Len(listing) \in Nat /\ fetch.at * PageSize \in Nat
    BY <1>1, <1>2
  <2>3. \A i \in 1 .. Len(listing) : i + 1 \in 1 .. Len(listing) + 1 /\ listing'[i + 1] = listing[i]
    BY <2>1, <2>2
  <2>4. Fetch!Listed \subseteq Fetch!Listed'
    BY <2>2, <2>3, SameSets DEF Fetch!Listed
  <2>5. ASSUME fetch.pc = "fetch", source.kind = "paged",
               NEW i \in DOMAIN listing', listing'[i] \in fetch.owed
        PROVE  listing'[i] \in fetch.out \/ i > fetch.at * PageSize
    <3>1. i # 1
      BY <1>1, <2>1, <2>2, <2>5 DEF WalkInv
    <3>2. i - 1 \in DOMAIN listing /\ listing'[i] = listing[i - 1] /\ i \in Nat
      BY <2>1, <2>2, <2>5, <3>1
    <3>3. listing[i - 1] \in fetch.out \/ i - 1 > fetch.at * PageSize
      BY <2>5, <3>2 DEF WalkInv
    <3> QED
      BY <2>2, <3>2, <3>3
  <2> QED
    BY <1>1, <1>4, <2>4, <2>5 DEF WalkInv
<1> QED
  BY <1>1, <1>3, <1>4

\* No step puts behind a walk what it owes.
LEMMA FetchWalks == ASSUME SourcesAssumption, Typed, WalkInv, Fetch!Next PROVE WalkInv'
<1>0. fetch \in FetchRow /\ fetch.out \in SUBSET Postings
  BY DEF Typed, TypeInv, FetchRow
<1>1. ASSUME \/ Fetch!FetchFails \/ Fetch!NotModified \/ Fetch!FirstQueryFails
             \/ Fetch!CapForScoring \/ \E S : Fetch!Decide(S)
             \/ Fetch!Crash
      PROVE  WalkInv'
  <2>1. fetch' = Fetch!Quiet \/ fetch' = [Fetch!Quiet EXCEPT !.pc = "decide"]
    BY <1>1 DEF Fetch!FetchFails, Fetch!NotModified, Fetch!FirstQueryFails, Fetch!CapForScoring,
                Fetch!Decide, Fetch!Crash
  <2> QED
    BY <2>1, AtRest, WalkEnded
<1>2. ASSUME \/ Fetch!FetchModified \/ \E S : Fetch!FetchPlain(S)
             \/ \E S : Fetch!ReadSitemap(S) \/ Fetch!ReadJobs(S)
             \/ Fetch!Search \/ Fetch!Query \/ Fetch!QueryFails
             \/ \E S : Fetch!Resolve(S)
             \/ Fetch!Tick \/ Fetch!NewDay
      PROVE  WalkInv'
  <2>1. source.kind # "paged"
    BY <1>2, ZenonT(30)
    DEF Fetch!FetchModified, Fetch!FetchPlain, Fetch!ReadSitemap, Fetch!ReadJobs,
        Fetch!Search, Fetch!Query, Fetch!QueryFails, Fetch!MayAsk, Fetch!Resolve,
        Fetch!Tick, Fetch!NewDay, Fetch!Fetching
  <2>2. source' = source
    BY <1>2 DEF Fetch!FetchModified, Fetch!FetchPlain, Fetch!ReadSitemap, Fetch!ReadJobs,
                Fetch!Search, Fetch!Query, Fetch!QueryFails, Fetch!Resolve, Fetch!Tick,
                Fetch!NewDay, Fetch!Finish, Fetch!world
  <2>3. source'.kind # "paged"
    BY <2>1, <2>2
  <2> QED
    BY <2>3, WalkEnded, SMTT(30)
<1>3. ASSUME Fetch!PageFails PROVE WalkInv'
  <2>1. Fetch!Finish(fetch.out, store, FALSE)
    BY <1>3 DEF Fetch!PageFails
  <2>2. fetch'.pc # "fetch"
    BY <1>0, <2>1, FinishIs, AtRest
  <2> QED
    BY <2>2, WalkEnded
<1>4. ASSUME NEW e \in Postings, Fetch!TakeDown(e) PROVE WalkInv'
  <2>1. fetch' = [fetch EXCEPT !.owed = {}]
    BY <1>4 DEF Fetch!TakeDown
  <2>2. fetch'.owed = {}
    BY <1>0, <2>1 DEF FetchRow
  <2> QED
    BY <2>2 DEF WalkInv
<1>5. (\E dry \in BOOLEAN : Fetch!Start(dry)) => WalkInv'
  BY StartWalks
<1>6. (\E e \in Postings, date \in 0 .. MaxTime : Fetch!Publish(e, date)) => WalkInv'
  BY PublishWalks
<1> QED
  BY <1>1, <1>2, <1>3, <1>4, <1>5, <1>6, FetchPageWalks, StepIs

\* The mishaps of a behaviour only mount.
LEMMA MishapsMount ==
    ASSUME Fetch!Next PROVE UNCHANGED fetchMishaps \/ fetchMishaps' = fetchMishaps + 1
<1>1. \A fine : Fetch!MishapUnless(fine) => UNCHANGED fetchMishaps \/
      fetchMishaps' = fetchMishaps + 1
  BY DEF Fetch!MishapUnless, Fetch!Mishap
<1>2. Fetch!Mishap => fetchMishaps' = fetchMishaps + 1
  BY DEF Fetch!Mishap
<1>3. \A out, new, fine :
          Fetch!Finish(out, new, fine) => UNCHANGED fetchMishaps \/ fetchMishaps' = fetchMishaps + 1
  BY <1>1, <1>2 DEF Fetch!Finish
<1>4. \/ UNCHANGED fetchMishaps \/ Fetch!Mishap
      \/ \E fine : Fetch!MishapUnless(fine)
      \/ \E out, new, fine : Fetch!Finish(out, new, fine)
  <2>1. \/ \E dry \in BOOLEAN : Fetch!Start(dry)
        \/ \E S : Fetch!ReadSitemap(S)
        \/ \E S : Fetch!Decide(S)
        => \E fine : Fetch!MishapUnless(fine)
    BY DEF Fetch!Start, Fetch!ReadSitemap, Fetch!Decide
  <2>2. Fetch!FetchFails \/ Fetch!FirstQueryFails \/ Fetch!QueryFails \/ Fetch!Crash => Fetch!Mishap
    BY DEF Fetch!FetchFails, Fetch!FirstQueryFails, Fetch!QueryFails, Fetch!Crash
  <2>3. \/ Fetch!FetchModified \/ \E S : Fetch!FetchPlain(S)
        \/ Fetch!PageFails \/ \E S : Fetch!ReadJobs(S)
        \/ \E S : Fetch!Resolve(S)
        => \E out, new, fine : Fetch!Finish(out, new, fine)
    BY DEF Fetch!FetchModified, Fetch!FetchPlain, Fetch!PageFails, Fetch!ReadJobs, Fetch!Resolve
  <2>4. Fetch!FetchPage \/ Fetch!Search
        => UNCHANGED fetchMishaps \/ \E out, new, fine : Fetch!Finish(out, new, fine)
    BY DEF Fetch!FetchPage, Fetch!Search
  <2>5. \/ Fetch!NotModified \/ Fetch!Query \/ Fetch!CapForScoring
        \/ \E e \in Postings, date \in 0 .. MaxTime : Fetch!Publish(e, date)
        \/ \E e \in Postings : Fetch!TakeDown(e)
        \/ Fetch!Tick \/ Fetch!NewDay
        => UNCHANGED fetchMishaps
    BY DEF Fetch!NotModified, Fetch!Query, Fetch!CapForScoring, Fetch!Publish, Fetch!TakeDown,
           Fetch!Tick, Fetch!NewDay
  <2> QED
    BY <2>1, <2>2, <2>3, <2>4, <2>5, StepIs
<1> QED
  BY <1>1, <1>2, <1>3, <1>4

-----------------------------------------------------------------------------
(* The theorem of the fetches *)

\* The invariant holds at first, and every step keeps it, of either part.
LEMMA FetchStarts == ASSUME SourcesAssumption, SourcesInit PROVE FetchInv
<1>1. /\ source \in Fetch!Sources /\ listing = <<>> /\ now = FirstRun
      /\ lastmod = [e \in Postings |-> 0] /\ fate = [e \in Postings |-> "open"]
      /\ store = Fetch!NoState /\ fetch = Fetch!Quiet /\ carried = {}
      /\ made = 0 /\ unbooked = 0 /\ fetchMishaps = 0
  BY DEF SourcesInit, Fetch!Init
<1>2. /\ MaxTime \in Nat /\ FirstRun \in Nat /\ FirstRun <= MaxTime /\ Budget \in Nat
      /\ SeenCap \in Nat
  BY DEF SourcesAssumption, Fetch!FetchingAssumption
<1>3. TypeInv
  <2>1. listing \in Seq(Postings) /\ Fetch!IsInjective(listing)
    BY <1>1, SameSets
  <2>2. fate \in [Postings -> Fetch!Fates]
    BY <1>1 DEF Fetch!Fates
  <2>3. lastmod \in [Postings -> 0 .. MaxTime] /\ now \in 0 .. MaxTime
    BY <1>1, <1>2
  <2> QED
    BY <1>1, <2>1, <2>2, <2>3, Blanks DEF TypeInv
<1>4. PhaseInv
  <2>1. store.mark = 0 /\ store.seen = <<>> /\ Rested(fetch)
    BY <1>1, Blanks, AtRest
  <2>2. Fetch!IsInjective(store.seen) /\ Len(store.seen) <= SeenCap
    BY <1>2, <2>1, SameSets
  <2>3. Fetch!Calls <= Budget
    BY <1>2, <2>1 DEF Rested, Fetch!Calls
  <2> QED
    BY <1>1, <1>2, <2>1, <2>2, <2>3 DEF PhaseInv, Rested
<1>5. BooksInv
  <2>1. fetch.pc = "idle" /\ fetch.asked = 0 /\ ~store.today
    BY <1>1 DEF Fetch!Quiet, Fetch!NoState
  <2> QED
    BY <1>1, <2>1 DEF BooksInv, Booked, Mine
<1>6. HiddenInv
  <2>1. store.etag = None /\ store.seen = <<>> /\ DOMAIN <<>> = {}
    BY <1>1 DEF Fetch!NoState
  <2>2. Fetch!ToSet(store.seen) = {} /\ Fetch!Listed = {}
    BY <1>1, <2>1, SameSets DEF Fetch!Listed
  <2> QED
    BY <2>1, <2>2 DEF HiddenInv
<1>7. WalkInv
  BY <1>1, AtRest DEF WalkInv
<1> QED
  BY <1>1, <1>3, <1>4, <1>5, <1>6, <1>7 DEF FetchInv, Typed

LEMMA FetchStands == ASSUME FetchInv, UNCHANGED fetchVars PROVE FetchInv'
BY DEF FetchInv, Typed, TypeInv, PhaseInv, BooksInv, HiddenInv, WalkInv, fetchVars, Booked, Mine,
       Accounted, Fetch!Listed, Fetch!Calls

LEMMA FetchStep ==
    ASSUME SourcesAssumption, FetchInv, [SourcesNext]_<<part, vars, fetchVars>> PROVE FetchInv'
<1>1. Fetch!Next \/ UNCHANGED fetchVars
  BY DEF SourcesNext
<1>2. CASE Fetch!Next
  <2>1. fetchMishaps' \in Nat
    BY <1>2, MishapsMount DEF FetchInv
  <2> QED
    BY <1>2, <2>1, FetchTyped, FetchBooks, FetchHides, FetchWalks DEF FetchInv
<1>3. CASE UNCHANGED fetchVars
  BY <1>3, FetchStands
<1> QED
  BY <1>1, <1>2, <1>3

\* What the invariant is for.
LEMMA FetchTypes == ASSUME SourcesAssumption, FetchInv PROVE Fetch!TypeOK
<1>1. TypeInv /\ PhaseInv /\ BooksInv
  BY DEF FetchInv, Typed
<1>2. /\ store \in StoreRow /\ fetch \in FetchRow /\ carried \in SUBSET Postings
      /\ fate \in [Postings -> Fetch!Fates] /\ listing \in Seq(Postings)
      /\ made \in Nat /\ unbooked \in Nat /\ now \in Nat
  BY <1>1 DEF TypeInv
<1>3. Fetch!Listed \subseteq Postings
  BY <1>2, SameSets DEF Fetch!Listed
<1>4. store.etag = None \/ Fetch!ToSet(store.etag) \subseteq Postings
  BY <1>2, SameSets DEF StoreRow
<1>5. store.mark \in 0 .. now /\ store.calls \in 0 .. Budget /\ store.today \in BOOLEAN
  BY <1>1, <1>2 DEF StoreRow, PhaseInv
<1>6. /\ fetch.pc \in {"idle", "fetch", "score", "decide"} /\ fetch.out \subseteq Postings
      /\ fetch.entries \subseteq Postings
  BY <1>2 DEF FetchRow
<1>7. unbooked \in 0 .. made
  <2>1. Booked \in Nat /\ Mine \in Nat
    BY BookedIs DEF FetchInv, SourcesAssumption, Fetch!FetchingAssumption
  <2> QED
    BY <1>1, <1>2, <2>1 DEF BooksInv
<1> QED
  BY <1>1, <1>2, <1>3, <1>4, <1>5, <1>6, <1>7 DEF TypeInv, PhaseInv, Fetch!TypeOK

\* A posting that is skipped is hidden by the row.
LEMMA NothingIsHidden == ASSUME SourcesAssumption, FetchInv PROVE Fetch!SkippedIsAccounted
<1> SUFFICES ASSUME NEW e \in Fetch!Listed, Fetch!Skipped(e) PROVE Accounted(e)
  BY DEF Fetch!SkippedIsAccounted, Accounted
<1>1. HiddenInv /\ Typed
  BY DEF FetchInv
<1>2. /\ source.kind = "conditional" => store.etag = Fetch!Window /\ e \in Fetch!ToSet(Fetch!Window)
      /\ source.kind = "sitemap" => store.mark > 0 /\ lastmod[e] > 0 /\ ~Fetch!Recent(e)
      /\ source.kind = "metered" => e \in Fetch!ToSet(store.seen)
      /\ source.kind \in {"conditional", "sitemap", "metered"}
  BY DEF Fetch!Skipped
<1>3. CASE source.kind = "conditional"
  <2>1. store.etag # None
    BY <1>1, <1>2, <1>3, WindowIs DEF SourcesAssumption, Fetch!FetchingAssumption
  <2> QED
    BY <1>1, <1>2, <1>3, <2>1 DEF HiddenInv
<1>4. CASE source.kind = "sitemap"
  <2>1. /\ e \in Postings /\ lastmod[e] \in Nat /\ Overlap \in Nat /\ store.mark \in Nat
    BY <1>1, SameSets
    DEF Typed, TypeInv, StoreRow, Fetch!Listed, SourcesAssumption, Fetch!FetchingAssumption
  <2>2. lastmod[e] + Overlap < store.mark
    BY <1>2, <1>4, <2>1 DEF Fetch!Recent
  <2> QED
    BY <1>1, <1>2, <1>4, <2>2 DEF HiddenInv
<1>5. CASE source.kind = "metered"
  BY <1>1, <1>2, <1>5 DEF HiddenInv
<1> QED
  BY <1>2, <1>3, <1>4, <1>5

\* What is booked and what the fetch has asked make the calls of the day.
LEMMA TheBudgetHolds == ASSUME SourcesAssumption, FetchInv PROVE Fetch!BudgetHolds
<1>1. /\ made = unbooked + Booked + Mine /\ unbooked \in Nat /\ Booked \in 0 .. Budget
      /\ Mine \in Nat
      /\ Fetch!Calls <= Budget /\ Budget \in Nat
  BY BookedIs
  DEF FetchInv, Typed, TypeInv, PhaseInv, BooksInv, SourcesAssumption, Fetch!FetchingAssumption
<1>2. Booked + Mine <= Budget
  <2>1. CASE fetch.pc = "fetch" /\ fetch.today
    BY <1>1, <2>1 DEF FetchInv, BooksInv, Mine, Fetch!Calls
  <2>2. CASE ~(fetch.pc = "fetch" /\ fetch.today)
    BY <1>1, <2>2 DEF Mine
  <2> QED
    BY <2>1, <2>2
<1> QED
  BY <1>1, <1>2 DEF Fetch!BudgetHolds

\* The last page of a walk reaches all it still owes.
LEMMA WalksAreComplete ==
    ASSUME SourcesAssumption, FetchInv, [SourcesNext]_<<part, vars, fetchVars>>,
           fetch.pc = "fetch", fetch'.pc = "score", source.kind = "paged",
           fetchMishaps' = fetchMishaps, Len(listing) <= PageSize * MaxPages
    PROVE  fetch.owed \subseteq fetch'.out
<1> DEFINE at == fetch.at
           page == Fetch!ToSet(Fetch!Page(at))
           out == fetch.out \union page
<1>1. /\ Typed /\ WalkInv /\ at \in Nat /\ fetch \in FetchRow /\ listing \in Seq(Postings)
      /\ fetchMishaps \in Nat /\ PageSize \in Nat \ {0} /\ MaxPages \in Nat
  BY DEF FetchInv, Typed, TypeInv, FetchRow, SourcesAssumption, Fetch!FetchingAssumption
<1>2. ~Fetch!Mishap
  BY <1>1 DEF Fetch!Mishap
<1>3. /\ Fetch!Page(at) = <<>> \/ Fetch!LastPage(at)
      /\ Fetch!Finish(out, store, TRUE)
  <2>1. Fetch!Next
    BY DEF SourcesNext, fetchVars
  <2>2. fetch'.pc \notin {"idle", "fetch", "decide"}
    OBVIOUS
  <2>3. fetch' # Fetch!Quiet /\ fetch' # [Fetch!Quiet EXCEPT !.pc = "decide"]
    BY <2>2, AtRest
  <2>4. ~Fetch!PageFails
    BY <1>2 DEF Fetch!PageFails, Fetch!Finish, Fetch!MishapUnless
  <2>5. /\ ~Fetch!Start(TRUE) /\ ~Fetch!Start(FALSE)
        /\ ~Fetch!FetchFails /\ ~Fetch!NotModified /\ ~Fetch!FirstQueryFails
        /\ ~Fetch!CapForScoring /\ ~Fetch!Crash /\ \A S : ~Fetch!Decide(S)
    BY <2>3
    DEF Fetch!Start, Fetch!FetchFails, Fetch!NotModified, Fetch!FirstQueryFails,
    Fetch!CapForScoring,
        Fetch!Crash, Fetch!Decide
  <2>6. /\ ~Fetch!FetchModified /\ ~Fetch!Search /\ ~Fetch!Query /\ ~Fetch!QueryFails
        /\ ~Fetch!Tick /\ ~Fetch!NewDay
        /\ \A S : /\ ~Fetch!FetchPlain(S) /\ ~Fetch!ReadSitemap(S) /\ ~Fetch!ReadJobs(S)
                  /\ ~Fetch!Resolve(S)
    BY DEF Fetch!FetchModified, Fetch!FetchPlain, Fetch!ReadSitemap, Fetch!ReadJobs, Fetch!Search,
           Fetch!Query, Fetch!QueryFails, Fetch!MayAsk, Fetch!Resolve, Fetch!Tick, Fetch!NewDay,
           Fetch!Fetching
  <2>7. ASSUME NEW e, NEW date, Fetch!Publish(e, date) \/ Fetch!TakeDown(e) PROVE FALSE
    <3>1. fetch' = fetch \/ fetch' = [fetch EXCEPT !.owed = {}]
      BY <2>7 DEF Fetch!Publish, Fetch!TakeDown
    <3>2. fetch'.pc = fetch.pc
      BY <1>1, <3>1 DEF FetchRow
    <3> QED
      BY <3>2
  <2>8. Fetch!FetchPage
    BY <2>1, <2>4, <2>5, <2>6, <2>7, StepIs
  <2>9. fetch' # [fetch EXCEPT !.at = at + 1, !.out = out, !.total = Fetch!Total(at)]
    <3> SUFFICES ASSUME fetch' = [fetch EXCEPT !.at = at + 1, !.out = out,
                        !.total = Fetch!Total(at)]
                 PROVE  FALSE
      OBVIOUS
    <3>1. fetch'.pc = fetch.pc
      BY <1>1 DEF FetchRow
    <3> QED
      BY <3>1
  <2> QED
    BY <2>8, <2>9 DEF Fetch!FetchPage
<1>4. out \in SUBSET Postings
  BY <1>1, PageIs DEF FetchRow
<1>5. fetch'.out = out
  <2> HIDE DEF out
  <2>1. fetch' = [Fetch!Quiet EXCEPT !.pc = "score", !.out = out] \/ fetch' = Fetch!Quiet
    BY <1>3, <1>4, FinishIs
  <2>2. [Fetch!Quiet EXCEPT !.pc = "score", !.out = out].out = out
    BY AtRest
  <2> QED
    BY <2>1, <2>2, AtRest
<1>6. /\ at * PageSize \in Nat /\ (at + 1) * PageSize = at * PageSize + PageSize
      /\ \A i \in DOMAIN listing :
             at * PageSize < i /\ i <= (at + 1) * PageSize => listing[i] \in page
      /\ Len(Fetch!Page(at)) < PageSize => Len(listing) < (at + 1) * PageSize
      /\ Fetch!Page(at) = <<>> => Len(listing) <= at * PageSize
  BY <1>1, PageHas
<1>7. ASSUME fetch.owed # {}
      PROVE  Len(listing) <= (at + 1) * PageSize
  <2>0. Len(listing) \in Nat
    BY <1>1
  <2>1. CASE Fetch!Page(at) = <<>> \/ Len(Fetch!Page(at)) < PageSize
    BY <1>1, <1>6, <2>0, <2>1
  <2>2. CASE source.total # "none" /\ (at + 1) * PageSize >= Fetch!Total(at)
    <3>1. source.total \in {"each", "first"}
      BY <1>1, <2>2, SourceIs DEF Typed, TypeInv
    <3>2. Fetch!Total(at) = Len(listing)
      BY <1>1, <1>7, <3>1 DEF Fetch!Total, WalkInv
    <3> QED
      BY <2>2, <3>2
  <2>3. CASE at + 1 = MaxPages
    <3>1. PageSize * MaxPages = (at + 1) * PageSize
      BY <1>1, <2>3
    <3> QED
      BY <3>1
  <2> QED
    BY <1>3, <2>1, <2>2, <2>3 DEF Fetch!LastPage
<1>8. ASSUME NEW e \in fetch.owed PROVE e \in out
  <2>1. e \in Fetch!Listed
    BY <1>1 DEF WalkInv
  <2>2. PICK i \in DOMAIN listing : listing[i] = e
    BY <2>1, SameSets DEF Fetch!Listed
  <2>3. listing[i] \in fetch.out \/ i > at * PageSize
    BY <1>1, <2>2 DEF WalkInv
  <2>4. i <= (at + 1) * PageSize
    <3>1. i \in Nat /\ i <= Len(listing) /\ Len(listing) \in Nat
      BY <1>1
    <3>2. Len(listing) <= (at + 1) * PageSize /\ (at + 1) * PageSize \in Nat
      BY <1>1, <1>6, <1>7
    <3> QED
      BY <3>1, <3>2
  <2> QED
    BY <1>6, <2>2, <2>3, <2>4
<1> QED
  BY <1>5, <1>8

\* MCSources!FetchesAccount: however a source is read and whatever fails or changes
\* meanwhile, nothing its stored state hides is unaccounted for, an undisturbed walk returns
\* what was listed all along, and the metered calls of a day are within the budget but for
\* those no stored row knows of.
THEOREM SourcesAccount == SourcesSpec => FetchesAccount
<1> DEFINE Walk ==
        fetch.pc = "fetch" /\ fetch'.pc = "score" /\ source.kind = "paged"
        /\ fetchMishaps' = fetchMishaps /\ Len(listing) <= PageSize * MaxPages
        => fetch.owed \subseteq fetch'.out
<1>1. SourcesInit => FetchInv
  BY FetchStarts, SourcesAssumption
<1>2. FetchInv /\ [SourcesNext]_<<part, vars, fetchVars>> => FetchInv'
  BY FetchStep, SourcesAssumption
<1>3. FetchInv => Fetch!TypeOK /\ Fetch!SkippedIsAccounted /\ Fetch!BudgetHolds
  BY FetchTypes, NothingIsHidden, TheBudgetHolds, SourcesAssumption
<1>4. FetchInv /\ [SourcesNext]_<<part, vars, fetchVars>> => [Walk]_(Fetch!vars)
  BY WalksAreComplete, SourcesAssumption
<1>5. Fetch!WalkIsComplete <=> [][Walk]_(Fetch!vars)
  BY DEF Fetch!WalkIsComplete
<1> HIDE DEF Walk
<1> QED
  BY <1>1, <1>2, <1>3, <1>4, <1>5, PTL DEF SourcesSpec, FetchesAccount

-----------------------------------------------------------------------------
(* The sweep of the seed companies *)

\* A row counts no more failures than were written of its domain, and all of those it takes
\* to be quarantined.
RowsInv ==
    /\ DOMAIN boards = Domains /\ DOMAIN failed = Domains
    /\ \A d \in Domains : /\ DOMAIN boards[d] = {"status", "streak", "due", "family"}
                          /\ boards[d].streak \in Nat /\ failed[d] \in Nat
                          /\ boards[d].streak <= failed[d]
                          /\ boards[d].status = "quarantined" => boards[d].streak >= Quarantine

\* A verdict is of the company at the head of the queue, and none of them is to give it up.
RunsInv ==
    /\ DOMAIN run = Runners /\ DOMAIN verdict = Runners
    /\ answers \in [Domains -> {"postings", "empty"}]
    /\ \A r \in Runners :
           /\ DOMAIN run[r] = {"pc", "queue", "status"}
           /\ run[r].pc = "idle" => run[r].queue = <<>>
           /\ verdict[r] # NoVerdict =>
                  /\ run[r].queue # <<>>
                  /\ Head(run[r].queue) \in Domains => verdict[r].status # "quarantined"

SweepInv == RowsInv /\ RunsInv

\* What a look at a company can come to.
LEMMA VerdictIs ==
    \A urls, answer : FingerprintUrls(urls, answer).status # "quarantined"
BY DEF FingerprintUrls, Verdict, Status

\* A step that writes no row.
LEMMA RowsKept == ASSUME RowsInv, UNCHANGED <<boards, failed>> PROVE RowsInv'
BY DEF RowsInv, Domains

\* A step that writes one row.
LEMMA RowIs ==
    ASSUME RowsInv, NEW d, NEW row, NEW bad \in BOOLEAN, NEW throttled,
           Put(d, row), Wrote(d, bad, throttled),
           d \in Domains => /\ DOMAIN row = {"status", "streak", "due", "family"}
                            /\ row.streak = 0 \/ (bad /\ row.streak = boards[d].streak + 1)
                            /\ row.status = "quarantined" => row.streak >= Quarantine
    PROVE  RowsInv'
<1>1. /\ boards' = [boards EXCEPT ![d] = row]
      /\ failed' = [failed EXCEPT ![d] = IF bad THEN @ + 1 ELSE 0]
  BY DEF Put, Wrote
<1>2. DOMAIN boards' = Domains /\ DOMAIN failed' = Domains
  BY <1>1 DEF RowsInv
<1>3. Domains' = Domains
  BY DEF Domains
<1>4. ASSUME NEW x \in Domains
      PROVE  /\ DOMAIN boards'[x] = {"status", "streak", "due", "family"}
             /\ boards'[x].streak \in Nat /\ failed'[x] \in Nat /\ boards'[x].streak <= failed'[x]
             /\ boards'[x].status = "quarantined" => boards'[x].streak >= Quarantine
  <2>1. CASE x = d
    <3>1. boards'[x] = row /\ failed'[x] = IF bad THEN failed[x] + 1 ELSE 0
      BY <1>1, <2>1 DEF RowsInv
    <3>2. failed[x] \in Nat /\ boards[x].streak \in Nat /\ boards[x].streak <= failed[x]
      BY DEF RowsInv
    <3> QED
      BY <2>1, <3>1, <3>2
  <2>2. CASE x # d
    <3>1. boards'[x] = boards[x] /\ failed'[x] = failed[x]
      BY <1>1, <2>2 DEF RowsInv
    <3> QED
      BY <3>1 DEF RowsInv
  <2> QED
    BY <2>1, <2>2
<1> QED
  BY <1>2, <1>3, <1>4 DEF RowsInv

\* A failure more makes a row the streak of which counts it.
LEMMA FailingIs ==
    ASSUME RowsInv, NEW d \in Domains, NEW status, status # "quarantined"
    PROVE  LET row == Failing(d, status) IN
           /\ DOMAIN row = {"status", "streak", "due", "family"}
           /\ row.streak = boards[d].streak + 1
           /\ row.status = "quarantined" => row.streak >= Quarantine
BY DEF Failing, RowsInv

\* A verdict is written down as one more failure, or as none.
LEMMA JudgeRows ==
    ASSUME RowsInv, RunsInv, NEW r \in Runners, Judge(r) PROVE RowsInv'
<1> DEFINE d == Head(run[r].queue)
           v == verdict[r]
<1>1. Validate(r, d, v) \/ Sweep(r, d, v)
  BY DEF Judge
<1>2. d \in Domains => v.status # "quarantined"
  BY DEF RunsInv, Judge
<1> HIDE DEF d, v
<1>3. CASE UNCHANGED <<boards, failed>>
  BY <1>3, RowsKept
<1>4. CASE Put(d, Matched(v.board)) /\ Wrote(d, FALSE, FALSE)
  <2> DEFINE row == Matched(v.board)
  <2>1. DOMAIN row = {"status", "streak", "due", "family"} /\ row.streak = 0 /\ row.status = "ok"
    BY DEF Matched
  <2> HIDE DEF row
  <2>2. Put(d, row) /\ Wrote(d, FALSE, FALSE)
    BY <1>4 DEF row
  <2> QED
    BY <2>1, <2>2, RowIs
<1>5. CASE Put(d, Failing(d, "candidate")) /\ Wrote(d, TRUE, v.throttled)
  <2> DEFINE row == Failing(d, "candidate")
  <2>1. d \in Domains => /\ DOMAIN row = {"status", "streak", "due", "family"}
                         /\ row.streak = boards[d].streak + 1
                         /\ row.status = "quarantined" => row.streak >= Quarantine
    BY FailingIs
  <2> HIDE DEF row
  <2>2. Put(d, row) /\ Wrote(d, TRUE, v.throttled)
    BY <1>5 DEF row
  <2> QED
    BY <2>1, <2>2, RowIs
<1>6. CASE Put(d, Missed(d, v.status)) /\ Wrote(d, v.status = "error", v.throttled)
  <2> DEFINE row == Missed(d, v.status)
             bad == v.status = "error"
  <2>1. ASSUME d \in Domains
        PROVE  /\ DOMAIN row = {"status", "streak", "due", "family"}
               /\ row.streak = 0 \/ (bad /\ row.streak = boards[d].streak + 1)
               /\ row.status = "quarantined" => row.streak >= Quarantine
    <3>1. CASE bad
      <4> DEFINE worse == Failing(d, "error")
      <4>1. /\ DOMAIN worse = {"status", "streak", "due", "family"}
            /\ worse.streak = boards[d].streak + 1
            /\ worse.status = "quarantined" => worse.streak >= Quarantine
        BY <2>1, FailingIs
      <4>2. row = [worse EXCEPT !.family = None]
        BY <3>1 DEF Missed
      <4> HIDE DEF worse, row
      <4> QED
        BY <3>1, <4>1, <4>2
    <3>2. CASE ~bad
      BY <1>2, <2>1, <3>2 DEF Missed
    <3> QED
      BY <3>1, <3>2
  <2>2. Put(d, row) /\ Wrote(d, bad, v.throttled) /\ bad \in BOOLEAN
    BY <1>6
  <2> HIDE DEF row, bad
  <2> QED
    BY <2>1, <2>2, RowIs
<1> QED
  BY <1>1, <1>3, <1>4, <1>5, <1>6 DEF Validate, Sweep

\* Every writer of a row keeps its count.
LEMMA SweepRows == ASSUME RowsInv, RunsInv, Next PROVE RowsInv'
<1>1. ASSUME NEW r \in Runners, StartRun(r) \/ StartSweep(r) \/ Look(r) \/ Finish(r) PROVE RowsInv'
  BY <1>1, RowsKept, ZenonT(30) DEF StartRun, StartSweep, Look, Finish
<1>2. ASSUME NEW d \in Domains, Sight(d) \/ Flip(d) PROVE RowsInv'
  BY <1>2, RowsKept DEF Sight, Flip
<1>3. ASSUME NEW d \in Domains,
             \/ Stage(d) /\ boards'[d].streak = 0
             \/ Age(d) /\ boards'[d].streak = boards[d].streak,
             DOMAIN boards' = Domains, failed' = failed,
             DOMAIN boards'[d] = {"status", "streak", "due", "family"},
             boards'[d].status = "quarantined" => boards'[d].streak >= Quarantine,
             \A x \in Domains : x # d => boards'[x] = boards[x]
      PROVE  RowsInv'
  <2>1. Domains' = Domains
    BY DEF Domains
  <2>2. ASSUME NEW x \in Domains
        PROVE  /\ DOMAIN boards'[x] = {"status", "streak", "due", "family"}
               /\ boards'[x].streak \in Nat /\ failed'[x] \in Nat /\ boards'[x].streak <= failed'[x]
               /\ boards'[x].status = "quarantined" => boards'[x].streak >= Quarantine
    <3>1. CASE x = d
      BY <1>3, <3>1 DEF RowsInv
    <3>2. CASE x # d
      BY <1>3, <3>2 DEF RowsInv
    <3> QED
      BY <3>1, <3>2
  <2> QED
    BY <1>3, <2>1, <2>2 DEF RowsInv
<1>4. ASSUME NEW d \in Domains, Stage(d) PROVE RowsInv'
  <2> DEFINE row == [status |-> "candidate", streak |-> 0, due |-> FALSE,
                     family |-> Parsed(Links[d][1]).family]
  <2>1. boards' = [boards EXCEPT ![d] = row] /\ failed' = failed
    BY <1>4 DEF Stage, Put
  <2>2. DOMAIN row = {"status", "streak", "due", "family"} /\ row.streak = 0 /\
        row.status = "candidate"
    OBVIOUS
  <2> HIDE DEF row
  <2>3. boards'[d] = row /\ DOMAIN boards' = Domains
    BY <2>1 DEF RowsInv
  <2>4. \A x \in Domains : x # d => boards'[x] = boards[x]
    BY <2>1 DEF RowsInv
  <2> QED
    BY <1>3, <1>4, <2>1, <2>2, <2>3, <2>4
<1>5. ASSUME NEW d \in Domains, Age(d) PROVE RowsInv'
  <2>1. boards' = [boards EXCEPT ![d].due = TRUE] /\ failed' = failed
    BY <1>5 DEF Age
  <2>2. /\ boards'[d] = [boards[d] EXCEPT !.due = TRUE] /\ DOMAIN boards' = Domains
        /\ \A x \in Domains : x # d => boards'[x] = boards[x]
    BY <2>1 DEF RowsInv
  <2>3. /\ DOMAIN boards'[d] = {"status", "streak", "due", "family"}
        /\ boards'[d].streak = boards[d].streak /\ boards'[d].status = boards[d].status
    BY <2>2 DEF RowsInv
  <2>4. boards[d].status = "quarantined" => boards[d].streak >= Quarantine
    BY DEF RowsInv
  <2> QED
    BY <1>3, <1>5, <2>1, <2>2, <2>3, <2>4
<1> QED
  BY <1>1, <1>2, <1>4, <1>5, JudgeRows, SMTT(30) DEF Next, Step

\* Every step of a runner keeps its verdict to the company it looked at.
LEMMA SweepRuns == ASSUME RunsInv, Next PROVE RunsInv'
<1>0. Domains' = Domains /\ NoVerdict' = NoVerdict
  BY DEF Domains, NoVerdict
<1>1. ASSUME NEW d \in Domains, Sight(d) \/ Stage(d) \/ Age(d) PROVE RunsInv'
  <2>1. UNCHANGED <<run, verdict, answers>>
    BY <1>1 DEF Sight, Stage, Age
  <2> QED
    BY <1>0, <2>1 DEF RunsInv
<1>2. ASSUME NEW d \in Domains, Flip(d) PROVE RunsInv'
  <2>1. UNCHANGED <<run, verdict>> /\ answers' \in [Domains -> {"postings", "empty"}]
    BY <1>2 DEF Flip, RunsInv
  <2> QED
    BY <1>0, <2>1 DEF RunsInv
<1>3. ASSUME NEW r \in Runners, NEW mine, NEW found, UNCHANGED answers,
             run' = [run EXCEPT ![r] = mine] \/ (run' = run /\ mine = run[r]),
             verdict' = [verdict EXCEPT ![r] = found] \/ (verdict' = verdict /\ found = verdict[r]),
             DOMAIN mine = {"pc", "queue", "status"}, mine.pc = "idle" => mine.queue = <<>>,
             found # NoVerdict => /\ mine.queue # <<>>
                                  /\ Head(mine.queue) \in Domains => found.status # "quarantined"
      PROVE  RunsInv'
  <2>1. DOMAIN run' = Runners /\ DOMAIN verdict' = Runners
    BY <1>3 DEF RunsInv
  <2>2. ASSUME NEW x \in Runners
        PROVE  /\ DOMAIN run'[x] = {"pc", "queue", "status"}
               /\ run'[x].pc = "idle" => run'[x].queue = <<>>
               /\ verdict'[x] # NoVerdict =>
                      /\ run'[x].queue # <<>>
                      /\ Head(run'[x].queue) \in Domains => verdict'[x].status # "quarantined"
    <3>1. CASE x = r
      <4>1. run'[x] = mine /\ verdict'[x] = found
        BY <1>3, <3>1 DEF RunsInv
      <4> QED
        BY <1>3, <4>1
    <3>2. CASE x # r
      <4>1. run'[x] = run[x] /\ verdict'[x] = verdict[x]
        BY <1>3, <3>2 DEF RunsInv
      <4> QED
        BY <4>1 DEF RunsInv
    <3> QED
      BY <3>1, <3>2
  <2> QED
    BY <1>0, <1>3, <2>1, <2>2 DEF RunsInv
<1>4. ASSUME NEW r \in Runners, StartRun(r) PROVE RunsInv'
  <2> DEFINE staged == SetToSeq({d \in Domains : boards[d].status = "candidate"})
  <2>1. PICK n \in 0 .. Len(staged) :
            run' = [run EXCEPT ![r] = [Idle EXCEPT !.pc = "validate",
                                                   !.queue = SubSeq(staged, 1, n)]]
    BY <1>4, ZenonT(30) DEF StartRun
  <2> DEFINE mine == [Idle EXCEPT !.pc = "validate", !.queue = SubSeq(staged, 1, n)]
  <2>2. DOMAIN mine = {"pc", "queue", "status"} /\ mine.pc = "validate"
    BY DEF Idle
  <2>3. verdict[r] = NoVerdict /\ verdict' = verdict /\ answers' = answers
    BY <1>4 DEF StartRun, RunsInv
  <2>4. run' = [run EXCEPT ![r] = mine]
    BY <2>1
  <2> HIDE DEF mine
  <2> QED
    BY <1>3, <2>2, <2>3, <2>4, ZenonT(30)
<1>5. ASSUME NEW r \in Runners, StartSweep(r) PROVE RunsInv'
  <2>1. PICK queue : run' = [run EXCEPT ![r] = [pc |-> "sweep", queue |-> queue,
                                              status |-> [d \in Domains |-> boards[d].status]]]
    BY <1>5 DEF StartSweep
  <2> DEFINE mine == [pc |-> "sweep", queue |-> queue,
                      status |-> [d \in Domains |-> boards[d].status]]
  <2>2. DOMAIN mine = {"pc", "queue", "status"} /\ mine.pc = "sweep"
    OBVIOUS
  <2>3. verdict[r] = NoVerdict /\ verdict' = verdict /\ answers' = answers
    BY <1>5 DEF StartSweep, RunsInv
  <2>4. run' = [run EXCEPT ![r] = mine]
    BY <2>1
  <2> HIDE DEF mine
  <2> QED
    BY <1>3, <2>2, <2>3, <2>4
<1>6. ASSUME NEW r \in Runners, Look(r) PROVE RunsInv'
  <2> DEFINE d == Head(run[r].queue)
  <2>1. PICK answer \in {answers[d], "throttled", "broken"} :
            verdict' = [verdict EXCEPT ![r] = Fingerprinted[d][answer]]
    BY <1>6 DEF Look
  <2> DEFINE found == Fingerprinted[d][answer]
  <2>2. d \in Domains => found.status # "quarantined"
    <3> SUFFICES ASSUME d \in Domains PROVE found.status # "quarantined"
      OBVIOUS
    <3>1. answer \in {"postings", "empty", "throttled", "broken"}
      BY DEF RunsInv
    <3> HIDE DEF d
    <3>2. found.status = FingerprintUrls(Links[d], [f \in Families |-> answer]).status
      BY <3>1 DEF Fingerprinted
    <3> QED
      BY <3>2, VerdictIs
  <2>3. /\ run' = run /\ run[r].queue # <<>> /\ answers' = answers
        /\ DOMAIN run[r] = {"pc", "queue", "status"} /\ (run[r].pc = "idle" => run[r].queue = <<>>)
    BY <1>6 DEF Look, RunsInv
  <2>4. verdict' = [verdict EXCEPT ![r] = found]
    BY <2>1
  <2> HIDE DEF found
  <2> QED
    BY <1>3, <2>2, <2>3, <2>4
<1>7. ASSUME NEW r \in Runners, Judge(r) PROVE RunsInv'
  <2> DEFINE mine == [run[r] EXCEPT !.queue = Tail(run[r].queue)]
  <2>1. /\ verdict' = [verdict EXCEPT ![r] = NoVerdict] /\ answers' = answers
        /\ run' = [run EXCEPT ![r] = mine]
    BY <1>7 DEF Judge
  <2>2. DOMAIN mine = {"pc", "queue", "status"} /\ mine.pc # "idle"
    BY <1>7 DEF Judge, RunsInv
  <2> HIDE DEF mine
  <2> QED
    BY <1>3, <2>1, <2>2
<1>8. ASSUME NEW r \in Runners, Finish(r) PROVE RunsInv'
  <2>1. /\ verdict' = [verdict EXCEPT ![r] = NoVerdict] /\ answers' = answers
        /\ run' = [run EXCEPT ![r] = Idle]
    BY <1>8 DEF Finish
  <2>2. DOMAIN Idle = {"pc", "queue", "status"} /\ Idle.queue = <<>>
    BY DEF Idle
  <2> QED
    BY <1>3, <2>1, <2>2
<1> QED
  BY <1>1, <1>2, <1>4, <1>5, <1>6, <1>7, <1>8 DEF Next, Step

\* BoardSweep!QuarantineIsEarned: however many runs are beside each other and whatever they
\* listed, and however the writes of validation, sweep and staging follow each other, a
\* company is quarantined only after that many failures in a row were written of it.
THEOREM QuarantineEarned == SourcesSpec => []QuarantineIsEarned
<1>1. SourcesInit => SweepInv
  <2> SUFFICES ASSUME SourcesInit PROVE SweepInv
    OBVIOUS
  <2>1. /\ boards = [d \in Domains |-> NoRow] /\ run = [r \in Runners |-> Idle]
        /\ verdict = [r \in Runners |-> NoVerdict] /\ failed = [d \in Domains |-> 0]
        /\ answers \in [Domains -> {"postings", "empty"}]
    BY DEF SourcesInit, Init
  <2>2. RowsInv
    BY <2>1 DEF RowsInv, NoRow
  <2>3. RunsInv
    BY <2>1 DEF RunsInv, Idle
  <2> QED
    BY <2>2, <2>3 DEF SweepInv
<1>2. SweepInv /\ [SourcesNext]_<<part, vars, fetchVars>> => SweepInv'
  <2> SUFFICES ASSUME SweepInv, [SourcesNext]_<<part, vars, fetchVars>> PROVE SweepInv'
    OBVIOUS
  <2>1. CASE Next
    BY <2>1, SweepRows, SweepRuns DEF SweepInv
  <2>2. CASE UNCHANGED vars
    BY <2>2 DEF vars, SweepInv, RowsInv, RunsInv, Domains, NoVerdict
  <2> QED
    BY <2>1, <2>2 DEF SourcesNext
<1>3. SweepInv => QuarantineIsEarned
  <2>1. Quarantine \in Nat
    BY SourcesAssumption DEF SweepAssumption
  <2> QED
    BY <2>1 DEF SweepInv, RowsInv, QuarantineIsEarned
<1> QED
  BY <1>1, <1>2, <1>3, PTL DEF SourcesSpec
=============================================================================
