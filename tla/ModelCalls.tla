------------------------------ MODULE ModelCalls ------------------------------
(***************************************************************************)
(* What the program makes of a model's answer: relevance scores            *)
(* (src/src/relevance.py), gaps (src/src/gaps.py), coach cards             *)
(* (src/src/coach.py) and plain objects (src/src/llm/structured.py), each  *)
(* through three providers; and when a feature has a provider at all       *)
(* (src/src/llm/providers.py, src/src/handler.py).  Pure functions.        *)
(*                                                                         *)
(* A call is [raised, blocks, text]: an error or None; the tool blocks of  *)
(* an Anthropic answer; the text of another's, None if it is empty.  A     *)
(* text is [whole, braced], what it decodes to as a whole and between its  *)
(* outer braces.  An object maps its keys to values [kind, n, items].      *)
(***************************************************************************)
EXTENDS Integers, Sequences, FiniteSets, SequencesExt

CONSTANT None

Providers == {"anthropic", "gemini", "ollama"}

NoObject == [kind |-> "none", fields |-> <<>>]
Has(obj, key) == obj.kind = "object" /\ key \in DOMAIN obj.fields

\* The result of a feature: a value, or the error it failed open with.
Answered(value) == [value |-> value, error |-> None, raises |-> FALSE]
Fallback(error) == [value |-> None, error |-> error, raises |-> FALSE]
Malformed == Fallback("MalformedResponse")

\* _extract_json_object: the first candidate that decodes to an object.
Extract(text) ==
    LET candidates == <<text.whole, text.braced>>
        i == SelectInSeq(candidates, LAMBDA c : c.kind = "object")
    IN IF text = None \/ i = 0 THEN NoObject ELSE candidates[i]

\* The first block of a feature's own tool: the loops break at it, well formed or not.
ToolInput(blocks, tool) ==
    LET i == SelectInSeq(blocks, LAMBDA b : b.tool = tool)
    IN IF i = 0 THEN NoObject ELSE blocks[i].input

-----------------------------------------------------------------------------
(* Relevance *)

\* Mutant: a score is taken as the model gave it.
Unclamped(obj) ==
    IF ~Has(obj, "score") \/ obj.fields.score.kind # "number" THEN Malformed
    ELSE Answered(obj.fields.score.n)

\* The score of a tool's input: int(), and the bounds.  An infinite number is neither a
\* TypeError nor a ValueError.
ScoreOfInput(obj) ==
    CASE ~Has(obj, "score") -> Malformed
      [] Has(obj, "score") /\ obj.fields.score.kind = "infinite" ->
           [Fallback("OverflowError") EXCEPT !.raises = TRUE]
      [] Has(obj, "score") /\ obj.fields.score.kind = "number" ->
           LET n == obj.fields.score.n IN Answered(IF n < 0 THEN 0 ELSE IF n > 10 THEN 10 ELSE n)
      [] OTHER -> Malformed

\* _parse_score_json
ScoreOfText(text) ==
    LET obj == Extract(text)
    IN CASE ~Has(obj, "score") -> Malformed
         [] Has(obj, "score") /\ obj.fields.score.kind = "infinite" ->
              [Fallback("OverflowError") EXCEPT !.raises = TRUE]
         [] Has(obj, "score") /\ obj.fields.score.kind = "number" ->
              LET n == obj.fields.score.n IN Answered(IF n < 0 THEN 0 ELSE IF n > 10 THEN 10 ELSE n)
         [] OTHER -> Malformed

ScoreByAnthropic(call) ==
    IF call.raised # None THEN Fallback(call.raised)
    ELSE ScoreOfInput(ToolInput(call.blocks, "record_relevance"))
ScoreByGemini(call) ==
    IF call.raised # None THEN Fallback(call.raised) ELSE ScoreOfText(call.text)

OllamaMaxAttempts == 3

\* Mutant: the last attempt is not made.
GivesUpEarly(calls) ==
    LET made == SubSeq(calls, 1, OllamaMaxAttempts - 1)
        i == SelectInSeq(made, LAMBDA c : c.raised = None)
    IN IF i = 0 THEN Fallback(Last(made).raised) ELSE ScoreOfText(made[i].text)

\* OllamaRelevanceScorer.score: only a call that raises is tried again.
ScoreByOllama(calls) ==
    LET made == SubSeq(calls, 1, OllamaMaxAttempts)
        i == SelectInSeq(made, LAMBDA c : c.raised = None)
    IN IF i = 0 THEN Fallback(Last(made).raised) ELSE ScoreOfText(made[i].text)

Score(provider, calls) ==
    CASE provider = "anthropic" -> ScoreByAnthropic(Head(calls))
      [] provider = "gemini" -> ScoreByGemini(Head(calls))
      [] provider = "ollama" -> ScoreByOllama(calls)

-----------------------------------------------------------------------------
(* Gaps *)

\* Mutant: the list is cut before the blanks are dropped, and the blanks of the rest kept.
UncleanSkills(value, most) == IF Len(value.items) <= most THEN value.items ELSE SubSeq(value.items, 1, most)

\* Skills as they are listed, without the blanks; kept[i] is what is left of the first i.
Clean(items) ==
    LET kept[i \in 0 .. Len(items)] ==
            IF i = 0 THEN <<>>
            ELSE IF items[i] = "blank" THEN kept[i - 1] ELSE Append(kept[i - 1], items[i])
    IN kept[Len(items)]

\* _skills_from_list: without blanks, and no more than the most.
Skills(value, most) ==
    LET clean == Clean(value.items)
    IN IF Len(clean) <= most THEN clean ELSE SubSeq(clean, 1, most)

GapsOfInput(obj, most) ==
    IF ~Has(obj, "missing_skills") \/ obj.fields.missing_skills.kind # "list" THEN Malformed
    ELSE Answered(Skills(obj.fields.missing_skills, most))

\* _parse_missing_skills
GapsOfText(text, most) == GapsOfInput(Extract(text), most)

GapsByAnthropic(call, most) ==
    IF call.raised # None THEN Fallback(call.raised)
    ELSE GapsOfInput(ToolInput(call.blocks, "record_gaps"), most)
GapsByGemini(call, most) ==
    IF call.raised # None THEN Fallback(call.raised) ELSE GapsOfText(call.text, most)
GapsByOllama(call, most) ==
    IF call.raised # None THEN Fallback(call.raised) ELSE GapsOfText(call.text, most)
Gaps(provider, call, most) ==
    CASE provider = "anthropic" -> GapsByAnthropic(call, most)
      [] provider = "gemini" -> GapsByGemini(call, most)
      [] provider = "ollama" -> GapsByOllama(call, most)

-----------------------------------------------------------------------------
(* Coach: an item is "junk", "blank" or "card" *)

MaxCards == 7

\* _cards_from_list: what is no card of a known category and impact with its texts is
\* dropped.
Cards(value) ==
    LET valid == SelectSeq(value.items, LAMBDA c : c = "card")
    IN IF Len(valid) <= MaxCards THEN valid ELSE SubSeq(valid, 1, MaxCards)

\* _result_from_cards: no card left is an error.
ResultFromCards(cards) ==
    IF cards = <<>> THEN Fallback("EmptyRecommendations") ELSE Answered(cards)

CoachOfInput(obj) ==
    IF ~Has(obj, "recommendations") \/ obj.fields.recommendations.kind # "list" THEN Malformed
    ELSE ResultFromCards(Cards(obj.fields.recommendations))

\* parse_coach_json
CoachOfText(text) == CoachOfInput(Extract(text))

CoachByAnthropic(call) ==
    IF call.raised # None THEN Fallback(call.raised)
    ELSE CoachOfInput(ToolInput(call.blocks, "record_recommendations"))
CoachByGemini(call) ==
    IF call.raised # None THEN Fallback(call.raised) ELSE CoachOfText(call.text)
CoachByOllama(call) ==
    IF call.raised # None THEN Fallback(call.raised) ELSE CoachOfText(call.text)
Coach(provider, call) ==
    CASE provider = "anthropic" -> CoachByAnthropic(call)
      [] provider = "gemini" -> CoachByGemini(call)
      [] provider = "ollama" -> CoachByOllama(call)

-----------------------------------------------------------------------------
(* Objects: these callers are told of an error, and of an answer that is no object *)

JsonByAnthropic(call) == Answered(ToolInput(call.blocks, "respond"))
JsonByGemini(call) == Answered(Extract(call.text))
JsonByOllama(call) == Answered(Extract(call.text))

\* complete_json
CompleteJson(provider, call) ==
    CASE call.raised # None -> [Fallback(call.raised) EXCEPT !.raises = TRUE]
      [] call.raised = None /\ provider = "anthropic" -> JsonByAnthropic(call)
      [] call.raised = None /\ provider = "gemini" -> JsonByGemini(call)
      [] call.raised = None /\ provider = "ollama" -> JsonByOllama(call)

-----------------------------------------------------------------------------
(* Wiring: cfg is [enabled, provider, local, keys, profile, resume, gaps, coach], the last *)
(* two [enabled, provider], a provider None where the section names none *)

\* resolve
Resolve(cfg, feature) ==
    IF feature = "relevance" \/ cfg[feature].provider = None THEN cfg.provider
    ELSE cfg[feature].provider

\* Mutant: no Ollama needs a key.
NoOllamaKey(cfg, provider) == provider # "ollama"

\* needs_key: only a local Ollama needs none.
NeedsKey(cfg, provider) == ~(provider = "ollama" /\ cfg.local)

\* missing_key: the provider whose key is missing, or None.
MissingKey(cfg, feature) ==
    LET provider == Resolve(cfg, feature)
    IN IF NeedsKey(cfg, provider) /\ provider \notin cfg.keys THEN provider ELSE None

\* build_binding
Binding(cfg, feature) ==
    IF MissingKey(cfg, feature) # None THEN None ELSE Resolve(cfg, feature)

\* _build_relevance_scorer: the provider that scores, or None.
BuildScorer(cfg) == IF cfg.enabled /\ cfg.profile THEN Binding(cfg, "relevance") ELSE None
\* _build_gap_analyzer
BuildAnalyzer(cfg) == IF cfg.gaps.enabled /\ cfg.resume THEN Binding(cfg, "gaps") ELSE None
\* _build_coach
BuildCoach(cfg) == IF cfg.coach.enabled THEN Binding(cfg, "coach") ELSE None

\* readiness.check, of scoring: it asks the sources of the secrets, not the settings.
Warnings(cfg) ==
    {c \in {"llm_no_key", "llm_no_profile"} :
        /\ cfg.enabled
        /\ \/ c = "llm_no_key" /\ cfg.provider \notin cfg.keys
              /\ ~(cfg.provider = "ollama" /\ cfg.local)
           \/ c = "llm_no_profile" /\ ~cfg.profile}

\* probe_llm: a sample profile stands in for one that is not written yet.
ProbeLlm(cfg, calls) ==
    LET provider == BuildScorer([cfg EXCEPT !.profile = TRUE])
    IN provider # None /\ Score(provider, calls).error = None

-----------------------------------------------------------------------------
(* Properties *)

Bare(obj) == [raised |-> None, text |-> [whole |-> NoObject, braced |-> obj], blocks |-> <<>>]
Tooled(obj, tool) == [raised |-> None, text |-> None, blocks |-> <<[tool |-> tool, input |-> obj]>>]

\* One object means one thing, whichever provider it comes from and however it is wrapped: as
\* a tool's input or as text with words around it, it gives the same score, the same gaps,
\* the same cards and the same object.
ProvidersAgree(obj, most) ==
    \A provider \in {"gemini", "ollama"} :
       /\ Score(provider, [i \in 1 .. OllamaMaxAttempts |-> Bare(obj)])
            = Score("anthropic", <<Tooled(obj, "record_relevance")>>)
       /\ Gaps(provider, Bare(obj), most) = Gaps("anthropic", Tooled(obj, "record_gaps"), most)
       /\ Coach(provider, Bare(obj)) = Coach("anthropic", Tooled(obj, "record_recommendations"))
       /\ obj.kind # "other" =>
            CompleteJson(provider, Bare(obj)) = CompleteJson("anthropic", Tooled(obj, "respond"))

\* An annotation is an honest one: skills are at most as many as allowed, none of them blank,
\* none where the call failed, and no fewer than there is room for.
GapsAreClean(provider, call, most) ==
    LET gaps == Gaps(provider, call, most)
    IN gaps.error = None =>
         /\ Len(gaps.value) <= most /\ "blank" \notin ToSet(gaps.value)
         /\ \E obj \in {Extract(call.text), ToolInput(call.blocks, "record_gaps")} :
               /\ Has(obj, "missing_skills")
               /\ LET items == obj.fields.missing_skills.items IN
                  Len(gaps.value) < most =>
                    Len(gaps.value) = Cardinality({i \in DOMAIN items : items[i] # "blank"})

\* A posting goes out unscored only when nothing could be made of the model: of Ollama's
\* attempts every one failed, or the first that did not was malformed.
UnscoredIsEarned(calls) ==
    Len(calls) = OllamaMaxAttempts /\ ScoreByOllama(calls).error \notin {None, "OverflowError"} =>
        \/ \A i \in DOMAIN calls : calls[i].raised # None
        \/ \E i \in DOMAIN calls :
              /\ calls[i].raised = None /\ \A j \in 1 .. i - 1 : calls[j].raised # None
              /\ ScoreOfText(calls[i].text) = Malformed

\* The overview tells the truth about scoring (readiness.py): it warns exactly when scoring is
\* switched on and no scorer is built, and a test of the provider that succeeds means that
\* at most the profile is missing.  It stays silent about the gaps and the coach, so where
\* they name no provider of their own they are built whenever scoring is; and where they
\* do, their key is looked for and scoring's is not.
WarningsExplain(cfg, calls) ==
    LET Own(feature) == cfg[feature].provider
        built == [gaps |-> BuildAnalyzer(cfg), coach |-> BuildCoach(cfg)]
        wanted == {f \in {"gaps", "coach"} : cfg[f].enabled /\ (f = "gaps" => cfg.resume)}
    IN /\ Warnings(cfg) # {} <=> cfg.enabled /\ BuildScorer(cfg) = None
       /\ ProbeLlm(cfg, calls) => Warnings(cfg) \subseteq {"llm_no_profile"}
       /\ BuildScorer(cfg) # None =>
            \A f \in wanted : Own(f) = None => built[f] = BuildScorer(cfg)
       /\ \A f \in wanted : Own(f) # None /\ Own(f) \in cfg.keys => built[f] = Own(f)

\* Not kept by the code: a score that decodes to an infinite number raises out of the scorer,
\* which is said never to raise.
ScoreNeverRaises(provider, calls) == ~Score(provider, calls).raises
=============================================================================
