------------------------------ MODULE DeckReview ------------------------------
(***************************************************************************)
(* What happens to a deck after the validation agent: visual refinement    *)
(* (services/optimized_visual_refinement.py with the two services it       *)
(* calls) and quality scoring (agents/quality_scoring.py).  The pipeline   *)
(* runs them on the deck that DeckValidation leaves.                       *)
(*                                                                         *)
(* A point of a score is 70 units, so that every penalty is a whole number *)
(* and so is a seventh of four points.  The composite score is the sum of  *)
(* the five dimensions in the proportions 5 : 4 : 5 : 3 : 3.  Whether the  *)
(* texts of a deck have more jargon than the scorer lets pass is a choice: *)
(* a text is a number of words here.  Floating point is left out, and so   *)
(* are the recommendations: asyncio.run inside the running loop raises, so *)
(* those of the LLM never arrive.  Slides have distinct identifiers.       *)
(***************************************************************************)
EXTENDS DeckValidation, Integers

CONSTANTS TitleLimit,   \* MAX_TITLE_WORDS of the scorer
          BulletLimit,  \* its MAX_BULLETS
          WordLimit     \* its MAX_WORDS_PER_BULLET

\* The limits of the scorer are no lower than those of the validation agent.
ASSUME ReviewAssumption ==
  /\ TitleLimit \in Nat /\ MaxTitle <= TitleLimit /\ 2 <= TitleLimit
  /\ BulletLimit \in Nat /\ MaxBullets <= BulletLimit
  /\ WordLimit \in Nat /\ MaxWords <= WordLimit

VARIABLE score  \* composite score, 0 before

reviewVars == <<answer, given, deck, total, stage, valid, score>>

Count(S) == Cardinality(S)
Points(n) == 70 * n
Bounded(n) == IF n < Points(1) THEN Points(1) ELSE n
Penalty(p, n, most) == AtMost(p * n, most)
If(condition, n) == IF condition THEN n ELSE 0

-----------------------------------------------------------------------------
(* Selective enhancement, in tenths of a point.  Speaker notes are in the  *)
(* content by now, where the test does not look for them.                  *)

VisualQuality(s) ==
  LET bullets == Len(Bullets(s)) IN
  100 - If(~s.icon, 15) - If(s.highlight = 0, 15) - 10
      - If(bullets = 0, 20) - If(bullets > 5, 10) - If(s.title.words > 10, 5)
      - 3 * Count({k \in DOMAIN Bullets(s) : Bullets(s)[k].words > 15})

\* Neither the first nor the last slide.
NeedsRefinement(slides, i) == i \notin {1, Len(slides)} /\ VisualQuality(slides[i]) < 85

ToRefine(slides) == {i \in DOMAIN slides : NeedsRefinement(slides, i)}

\* What the answer to a batch says of a slide: its text may be an empty string.
\* A call that fails, or that leaves slides out, says nothing of them.
Said == {"nothing", "text", "empty"}

IconAnswers(slides) == [ToRefine(slides) -> Said]
HighlightAnswers(slides) == [ToRefine(slides) -> Said]

SaidOf(answers, i) == IF i \in DOMAIN answers THEN answers[i] ELSE "nothing"

\* Variant: an answer replaces the content of the slide.
RefinedAfresh(slides, icons, highlights) ==
  [i \in DOMAIN slides |->
     IF SaidOf(icons, i) = "text" THEN [slides[i] EXCEPT !.icon = TRUE, !.bullets = {<<>>}]
     ELSE slides[i]]

\* What is said replaces what the slide has.
Refined(slides, icons, highlights) ==
  [i \in DOMAIN slides |->
     [slides[i] EXCEPT !.icon = (SaidOf(icons, i) = "text") \/ (@ /\ SaidOf(icons, i) = "nothing"),
                       !.highlight = CASE SaidOf(highlights, i) = "text" -> 10
                                       [] SaidOf(highlights, i) = "empty" -> 0
                                       [] OTHER -> @]]

\* The statistics on which slides need better data, made after refinement, look
\* for labels in the entries of a chart: an object has none, and they raise.
ObjectChart(s) == s.type = "chart" /\ s.chart \in {"series", "opaque"}

-----------------------------------------------------------------------------
(* The five dimensions of a score.                                         *)

ScoredType(s) ==
  LET hinted == CASE s.hint = "centered" -> "title"
                  [] s.hint = "split-chart-right" -> "chart"
                  [] s.hint = "split-table-left" -> "table"
                  [] s.hint = "two-column" -> "comparison"
                  [] OTHER -> "content"
  IN IF s.type \in SchemaTypes \ {"content"} THEN s.type ELSE hinted

OfTypes(slides, types) == {i \in DOMAIN slides : ScoredType(slides[i]) \in types}
BulletCount(slides, S) == Sum([i \in DOMAIN slides |-> If(i \in S, Len(Bullets(slides[i])))])

ContentDepth(slides) ==
  LET n == Len(slides)
      content == OfTypes(slides, {"content", "chart", "table", "comparison"})
      empty == {i \in content : /\ Bullets(slides[i]) = <<>>
                                /\ slides[i].chart = "none" /\ slides[i].table = "none"}
      data == OfTypes(slides, {"chart", "table"})
  IN Bounded(Points(10) - If(10 * Count(content) < 6 * n, 140)
               - Penalty(35, Count(empty), 210)
               - If(content = {} \/ BulletCount(slides, content) < 2 * Count(content), 105)
               - If(100 * Count(data) < 15 * n, 70))

\* Four bullets already fill more than three quarters of a slide.
Dense(s) == 4 * Len(Bullets(s)) > 3 * BulletLimit

VisualAppeal(slides) ==
  LET n == Len(slides)
      type(i) == ScoredType(slides[i])
      dense == Count({i \in DOMAIN slides : Dense(slides[i])})
      visuals == Count({i \in DOMAIN slides : slides[i].icon})
                 + Count({i \in DOMAIN slides : slides[i].highlight # 0})
  IN Bounded(Points(10) - If(Count({type(i) : i \in DOMAIN slides}) < 2, 140)
               - If(\E i \in 1 .. n - 2 : type(i) = type(i + 1) /\ type(i) = type(i + 2), 105)
               - Penalty(35, dense, 140) - Penalty(21, dense, 105)
               - If(10 * visuals < 2 * n, 70))

Named(slides) == [i \in DOMAIN slides |-> slides[i].title.section]

\* The required sections, in the order of the first titles that name them.
FoundOrder(named) ==
  LET found[n \in 0 .. Len(named)] ==
        IF n = 0 THEN <<>>
        ELSE IF named[n] = 0 \/ Contains(found[n - 1], named[n]) THEN found[n - 1]
        ELSE Append(found[n - 1], named[n])
  IN found[Len(named)]

StructureCoherence(slides) ==
  LET found == FoundOrder(Named(slides))
      backward == Count({k \in 1 .. Len(found) - 1 : found[k + 1] < found[k]})
  IN Bounded(Points(10) - 40 * (7 - Len(found)) - Penalty(35, backward, 140)
               - If(ScoredType(slides[1]) # "title", 70)
               - If(Last(slides).title.section # 7, 35))

DataAccuracy(slides) ==
  LET charts == OfTypes(slides, {"chart"})
      tables == OfTypes(slides, {"table"})
      comparisons == OfTypes(slides, {"comparison"})
  IN Bounded(Points(10) - Penalty(70, Count({i \in charts : slides[i].chart = "none"}), 210)
               - Penalty(70, Count({i \in tables : slides[i].table = "none"}), 210)
               - Penalty(35, Count({i \in comparisons : slides[i].comparison = "none"}), 140)
               - If(\E i \in charts : slides[i].of = 0, 35))

\* Variant: the limit itself is too long.
LongAtLimit(s) == s.title.words >= TitleLimit

LongTitle(s) == s.title.words > TitleLimit

\* More than five words of jargon in titles and bullets cost a point.
Clarity(slides, jargon) ==
  LET long == Count({i \in DOMAIN slides : LongTitle(slides[i])})
      full == Count({i \in DOMAIN slides : Len(Bullets(slides[i])) > BulletLimit})
      wordy == Sum([i \in DOMAIN slides |->
                      Count({k \in DOMAIN Bullets(slides[i]) : Bullets(slides[i])[k].words > WordLimit})])
  IN Bounded(Points(10) - Penalty(21, long, 140) - Penalty(35, full, 140)
               - Penalty(14, wordy, 140) - If(jargon, 70))

CompositeScore(slides, jargon) ==
  5 * ContentDepth(slides) + 4 * VisualAppeal(slides) + 5 * StructureCoherence(slides)
  + 3 * DataAccuracy(slides) + 3 * Clarity(slides, jargon)

-----------------------------------------------------------------------------
ReviewInit == Init /\ score = 0

Validate == Next /\ UNCHANGED score

\* The slides share their contents with those that are refined, so that the deck
\* is refined also when the statistics fail the agent.
RefineInBatches ==
  /\ stage = "done"
  /\ Count(ToRefine(deck)) # 1
  /\ \E icons \in IconAnswers(deck), highlights \in HighlightAnswers(deck) :
       deck' = Refined(deck, icons, highlights)
  /\ stage' = IF \E k \in DOMAIN deck : ObjectChart(deck[k]) THEN "failed" ELSE "refined"
  /\ UNCHANGED <<answer, given, total, valid, score>>

\* One slide goes to visual_refinement_agent.refine_slide, which does not
\* exist; no answer is cached, because none ever came. The agent fails.
RefineAlone ==
  /\ stage = "done"
  /\ Count(ToRefine(deck)) = 1
  /\ stage' = "failed"
  /\ UNCHANGED <<answer, given, deck, total, valid, score>>

ScorePresentation ==
  /\ stage = "refined"
  /\ \E jargon \in BOOLEAN : score' = CompositeScore(deck, jargon)
  /\ stage' = "scored"
  /\ UNCHANGED <<answer, given, deck, total, valid>>

ReviewNext == Validate \/ RefineInBatches \/ RefineAlone \/ ScorePresentation

ReviewSpec == ReviewInit /\ [][ReviewNext]_reviewVars /\ WF_reviewVars(ReviewNext)

-----------------------------------------------------------------------------
(* Properties.                                                             *)

\* The two agents agree on what a good slide is: a deck that the validation
\* agent repaired without splitting a slide loses no point for its data, and for
\* its texts only the one for jargon, which no pass looks for, so that the LLM is
\* not asked again for what was just repaired.
RepairedDeckIsAccepted ==
  stage = "scored" /\ Len(deck) = Len(given) + 1
  => /\ DataAccuracy(deck) = Points(10)
     /\ \A jargon \in BOOLEAN : Clarity(deck, jargon) = Points(10) - If(jargon, Points(1))

\* What slide s shows of icon and highlight is there in t too.
KeepsLooks(s, t) == (s.icon => t.icon) /\ (s.highlight # 0 => t.highlight # 0)

\* Refinement takes nothing from a deck but icons and highlights, and of them
\* only those for which an answer has an empty text: without such an answer the
\* score does not fall, whichever calls fail and whichever slides are left out,
\* and with some it falls by a fifth of a point (4 of the 20 parts the composite
\* has), whatever the size of the deck.
RefinementPays ==
  [][stage = "done" =>
       \A jargon \in BOOLEAN :
         LET loss == CompositeScore(deck, jargon) - CompositeScore(deck', jargon) IN
         /\ loss <= 4 * Points(1)
         /\ (\A i \in DOMAIN deck : KeepsLooks(deck[i], deck'[i])) => loss <= 0]_reviewVars

=============================================================================
