---------------------------- MODULE DeckValidation ----------------------------
(***************************************************************************)
(* The answer of the LLM (_run_llm_provider in pipeline_orchestrator.py)   *)
(* and what the validation agent (agents/validation.py) makes of the deck  *)
(* in it.  validate() is a chain of passes over the slides, and one pass   *)
(* is one action.                                                          *)
(*                                                                         *)
(* A text is its number of words.  A bullet also has a name, so that it    *)
(* can be followed, and says whether it has a digit; a title has the number *)
(* of the required section it names, 0 for none.  The data of a chart,     *)
(* table or comparison is its shape, "made" when the agent invented it.    *)
(* Fields that no later decision reads (transition, speaker notes, layout  *)
(* instructions, which only give warnings, and metadata) are left out.     *)
(*                                                                         *)
(* Answers have the shapes below in any mixture and any place.  Fields of  *)
(* types the prompt does not ask for (a number as a title, say) raise in   *)
(* one of the passes and fail the agent; such answers are left out.        *)
(***************************************************************************)
EXTENDS Naturals, Sequences, FiniteSets, SequencesExt

CONSTANTS Answers,     \* what the LLM may return
          MaxTitle,    \* MAX_TITLE_WORDS, 8
          MaxBullets,  \* MAX_BULLETS, 4
          MinBullets,  \* MIN_BULLETS, 2
          MaxWords,    \* MAX_WORDS_PER_BULLET, 8
          MaxHighlight,\* 15 words
          MaxSubtitle, \* words in 60 characters
          DenseWords,  \* words at MAX_CONTENT_DENSITY
          DataWords    \* what the data of a slide adds to its density

VARIABLES answer, \* of the LLM
          given,  \* the deck of the LLM
          deck,   \* corrected_data["slides"]
          total,  \* corrected_data["total_slides"]
          stage,  \* the next pass
          valid   \* result of the last schema validation

vars == <<answer, given, deck, total, stage, valid>>

SlideTypes == {"title", "content", "chart", "table", "comparison", "metric"}

\* The enum of SLIDE_JSON_SCHEMA knows no metric slides.
SchemaTypes == SlideTypes \ {"metric"}

Hints == {"centered", "bullet-left", "split-chart-right", "split-table-left",
          "two-column", "highlight-metric"}

\* What a slide may hold when it comes from the LLM, and later.  A table is
\* "ragged" when rows are objects or do not fit its headers, and has "norows" or
\* only "stray" ones that are neither lists nor objects; of a comparison the
\* columns may be "hollow", without bullets, and so may a side of the old format.
Bullet == [name : Nat, words : Nat, digit : BOOLEAN]
Charts == {"none", "list", "series", "categories", "opaque", "made"}
Tables == {"none", "good", "ragged", "noheaders", "norows", "stray", "made"}
Comparisons == {"none", "columns", "hollow", "old", "oldhollow", "oneside", "made"}

Slide == [of : Nat, number : Nat, bare : BOOLEAN, type : SlideTypes \cup {"absent", "other"},
          hint : Hints \cup {"absent", "other"},
          title : [words : Nat, kind : {"plain", "chart", "table", "absent"}, section : 0 .. 7],
          bullets : SUBSET Seq(Bullet), chart : Charts, table : Tables, comparison : Comparisons,
          metric : BOOLEAN, highlight : Nat, subtitle : Nat, icon : BOOLEAN,
          root : [bullets : SUBSET Seq(Bullet), panel : Seq(Bullet), chart : Charts,
                  table : Tables, comparison : Comparisons, metric : BOOLEAN]]

\* A field holds one list of bullets at most.
OneList(lists) == \A l, m \in lists : l = m

\* Slides in their order, as an answer has them.  No bullet is an empty text: the
\* completeness pass drops such bullets of content slides.
SlidesGiven(slides) ==
  /\ slides \in Seq(Slide)
  /\ \A i \in DOMAIN slides :
        /\ slides[i].of = i
        /\ OneList(slides[i].bullets) /\ OneList(slides[i].root.bullets)
        /\ \A l \in slides[i].bullets \cup slides[i].root.bullets \cup {slides[i].root.panel} :
              \A k \in DOMAIN l : l[k].words > 0

ASSUME DeckAssumption ==
  /\ MaxTitle \in Nat /\ MaxBullets \in Nat /\ MaxWords \in Nat /\ MaxHighlight \in Nat
  /\ MaxSubtitle \in Nat
  /\ MinBullets \in 0 .. 4 /\ MinBullets <= MaxBullets
  /\ DenseWords \in Nat /\ DataWords \in Nat
  /\ \A a \in Answers : SlidesGiven(a.slides)

TypeToHint == [title |-> "centered", content |-> "bullet-left",
               chart |-> "split-chart-right", table |-> "split-table-left",
               comparison |-> "two-column", metric |-> "highlight-metric"]

-----------------------------------------------------------------------------
(* Optional bullets: {} when the field is absent, {s} when it is s.        *)

Bullets(s) == IF s.bullets = {} THEN <<>> ELSE CHOOSE b \in s.bullets : TRUE

MadeBullet(words) == [name |-> 0, words |-> words, digit |-> FALSE]
MadeBullets(n) == [i \in 1 .. n |-> MadeBullet(5)]

Sum(s) == LET sum[n \in 0 .. Len(s)] == IF n = 0 THEN 0 ELSE sum[n - 1] + s[n] IN sum[Len(s)]
AtMost(n, max) == IF n <= max THEN n ELSE max

FirstOf(s, n) == SubSeq(s, 1, AtMost(Len(s), n))
AfterFirst(s, n) == SubSeq(s, n + 1, Len(s))

NoRoot == [bullets |-> {}, panel |-> <<>>, chart |-> "none", table |-> "none",
           comparison |-> "none", metric |-> FALSE]

-----------------------------------------------------------------------------
(* _run_llm_provider.  Of an answer it matters whether its text is "whole" *)
(* (code fences are no part of it), stands "amid" other words or was "cut" *)
(* short; what holds the slides: an object that calls them slides, a bare  *)
(* "list", an object "nested" in another, a list "named" otherwise, or no  *)
(* such thing ("other"); the slides written in full; and whether the last  *)
(* brace that closes is "inside" a further one.  Other words have no       *)
(* braces.                                                                 *)

\* The text is loaded, or else what is between its first and its last brace,
\* or else that with its brackets closed, all lists before all objects, which
\* fits only when the last brace ends a slide.  Without its own brackets a list
\* is an object, if it had one, or nothing that can be loaded.
Loaded(a) ==
  LET objects == Len(a.slides) + IF a.inside THEN 1 ELSE 0 IN
  CASE a.text = "whole" -> a.holder
    [] a.holder = "list" -> IF objects = 1 THEN "other" ELSE "error"
    [] a.text = "cut" -> IF a.slides # <<>> /\ ~a.inside THEN a.holder ELSE "error"
    [] OTHER -> a.holder

\* Slides are looked for one level deep, by a key or by a first slide that has a
\* type.  An answer without any is a deck without any, and no error.
Understood(a) ==
  CASE Loaded(a) \in {"slides", "list", "nested"} -> a.slides
    [] Loaded(a) = "named" /\ a.slides # <<>> /\ a.slides[1].type # "absent" -> a.slides
    [] OTHER -> <<>>

-----------------------------------------------------------------------------
(* validate_schema: the required fields, the enums, and chart_data that is *)
(* an object.                                                              *)

SlideConforms(s) == /\ ~s.bare
                    /\ s.title.kind # "absent"
                    /\ s.type \in SchemaTypes
                    /\ s.hint \in Hints
                    /\ s.chart \notin {"list", "made"}

Conforms(slides) == Len(slides) >= 1 /\ \A i \in DOMAIN slides : SlideConforms(slides[i])

-----------------------------------------------------------------------------
(* normalise_slide_fields: fields at the root of a slide move into its     *)
(* content where the content has none: bullets where it has no such field, *)
(* even an empty one.  Tables without headers and comparisons with an      *)
(* empty side are refused at the root.  A table without rows comes from    *)
(* "table", where "table_data" is refused without rows.                    *)

Else(own, other) == IF own = "none" THEN other ELSE own

RootTable(r) == IF r.table = "noheaders" THEN "none" ELSE r.table
RootComparison(r) == IF r.comparison \in {"oneside", "oldhollow"} THEN "none" ELSE r.comparison

Normalised(s) ==
  LET moved == IF s.bullets = {} THEN s.root.bullets ELSE s.bullets
      empty == moved \in {{}, {<<>>}}
  IN [s EXCEPT !.bullets = IF empty /\ s.root.panel # <<>> THEN {s.root.panel} ELSE moved,
               !.chart = Else(@, s.root.chart),
               !.table = Else(@, RootTable(s.root)),
               !.comparison = Else(@, RootComparison(s.root)),
               !.metric = @ \/ s.root.metric,
               !.root = NoRoot]

-----------------------------------------------------------------------------
(* infer_slide_types: the first slide is the title slide and loses its     *)
(* data; of the rules for a content slide the last one that applies wins.  *)

HasDigits(s) == \E b \in Range(Bullets(s)) : b.digit

Inferred(s) ==
  IF s.title.kind = "table" /\ s.table = "none" THEN "table"
  ELSE IF s.title.kind = "chart" /\ s.chart = "none" /\ HasDigits(s) THEN "chart"
  ELSE IF s.metric THEN "metric"
  ELSE IF s.comparison # "none" THEN "comparison"
  ELSE IF s.table # "none" THEN "table"
  ELSE IF s.chart # "none" THEN "chart"
  ELSE s.type

TypeInferred(s, i) ==
  IF i = 1
  THEN [s EXCEPT !.type = "title", !.chart = "none", !.table = "none", !.comparison = "none"]
  ELSE IF s.type \in {"content", "absent"} THEN [s EXCEPT !.type = Inferred(s)]
  ELSE s

-----------------------------------------------------------------------------
(* auto_correct_missing_fields and auto_correct_wrong_types, for a deck    *)
(* that does not conform.  A chart that is not a list and a comparison     *)
(* that is not in columns are replaced here.                               *)

DefaultHint(type) == IF type \in {"title", "chart", "table", "comparison"}
                     THEN TypeToHint[type] ELSE "bullet-left"

KnownType(type) == IF type \in SlideTypes THEN type ELSE "content"

KnownHint(hint, type) == CASE hint = "absent" -> DefaultHint(type)
                           [] hint \notin Hints \cup {"absent"} -> "bullet-left"
                           [] OTHER -> hint

ListedChart(c, type) == IF type = "chart" /\ c # "list" THEN "made" ELSE c

HeadedTable(t, type) == IF type = "table" /\ t \in {"none", "noheaders"} THEN "made" ELSE t

ColumnComparison(c, type) ==
  IF type = "comparison" /\ c \notin {"columns", "hollow"} THEN "made" ELSE c

Corrected(s) ==
  LET type == KnownType(s.type) IN
  [s EXCEPT !.bare = FALSE,
            !.type = type,
            !.title = IF @.kind = "absent" THEN [words |-> 2, kind |-> "plain", section |-> 0] ELSE @,
            !.hint = KnownHint(@, type),
            !.chart = ListedChart(@, type),
            !.table = HeadedTable(@, type),
            !.comparison = ColumnComparison(@, type)]

-----------------------------------------------------------------------------
(* validate_content_completeness: what each type must have.                *)

EnoughBullets(s) ==
  LET b == Bullets(s) IN
  CASE s.type = "title" -> FirstOf(b, MaxBullets)
    [] s.type = "content" ->
         IF b = <<>> THEN <<MadeBullet(2 + s.title.words)>> \o MadeBullets(3)
         ELSE b \o MadeBullets(IF Len(b) < MinBullets THEN MinBullets - Len(b) ELSE 0)
    [] s.type \in {"chart", "metric"} -> IF b = <<>> THEN MadeBullets(3) ELSE b
    [] s.type \in {"table", "comparison"} -> IF b = <<>> THEN MadeBullets(2) ELSE b

\* Lists stay lists, {categories, series} stays, categories alone get values.
CompleteChart(c) == IF c \in {"none", "categories"} THEN "made" ELSE c
\* Rows are fitted to the headers, stray ones dropped.
CompleteTable(t) == CASE t \in {"none", "noheaders"} -> "made"
                      [] t = "ragged" -> "good"
                      [] t = "stray" -> "norows"
                      [] OTHER -> t

\* Variant: the old {left, right} format is not converted.
KeepOldComparison(c) == CASE c \in {"none", "oneside"} -> "made"
                          [] c = "hollow" -> "columns"
                          [] c = "oldhollow" -> "hollow"
                          [] OTHER -> c

\* Empty columns get bullets, sides of the old format become columns as they are.
CompleteComparison(c) == CASE c \in {"none", "oneside"} -> "made"
                           [] c \in {"old", "hollow"} -> "columns"
                           [] c = "oldhollow" -> "hollow"
                           [] OTHER -> c

CompleteSubtitle(n, bullets) == AtMost(IF n = 0 /\ bullets = <<>> THEN 5 ELSE n, MaxSubtitle)

Completed(s) ==
  [s EXCEPT !.hint = TypeToHint[s.type],
            !.bullets = {EnoughBullets(s)},
            !.chart = IF s.type = "chart" THEN CompleteChart(@) ELSE @,
            !.table = IF s.type = "table" THEN CompleteTable(@) ELSE @,
            !.comparison = IF s.type = "comparison" THEN CompleteComparison(@) ELSE @,
            !.metric = @ \/ s.type = "metric",
            !.subtitle = IF s.type = "title" THEN CompleteSubtitle(@, Bullets(s)) ELSE @,
            !.highlight = IF s.type # "title" /\ @ = 0 THEN 2 + s.title.words ELSE @]

-----------------------------------------------------------------------------
(* apply_content_constraints.                                              *)

ShownData(s) == \/ s.type = "chart" /\ s.chart # "none"
                \/ s.type = "table" /\ s.table # "none"
                \/ s.type = "comparison" /\ s.comparison # "none"

\* calculate_content_density, in words.
Density(s) == s.title.words + s.subtitle + s.highlight
              + Sum([i \in DOMAIN Bullets(s) |-> Bullets(s)[i].words])
              + (IF ShownData(s) THEN DataWords ELSE 0)

CutBullets(bs) == [i \in DOMAIN bs |-> [bs[i] EXCEPT !.words = AtMost(@, MaxWords)]]

\* enforce_content_density: a slide that is too dense loses the bullets after
\* the fourth before it could be split.
Reduced(s) ==
  IF Density(s) <= DenseWords THEN s
  ELSE [s EXCEPT !.title.words = AtMost(@, MaxTitle),
                 !.bullets = {FirstOf(CutBullets(Bullets(s)), MaxBullets)},
                 !.highlight = AtMost(@, MaxHighlight)]

\* parse_slide_content
Parsed(s) == [s EXCEPT !.title.words = AtMost(@, MaxTitle),
                       !.bullets = {FirstOf(CutBullets(Bullets(s)), MaxBullets)}]

\* Variant: the bullet at the limit falls between the two slides.
OverflowOffByOne(s) ==
  [of |-> 0, number |-> 0, bare |-> FALSE, type |-> s.type, hint |-> s.hint,
   title |-> [s.title EXCEPT !.words = @ + 1],
   bullets |-> {AfterFirst(CutBullets(Bullets(s)), MaxBullets + 1)},
   chart |-> "none", table |-> "none", comparison |-> "none", metric |-> FALSE,
   highlight |-> 0, subtitle |-> 0, icon |-> FALSE, root |-> NoRoot]

\* The slide for all the bullets that are left, as many as they are, with the
\* title of the slide before parse_slide_content cut it.
Overflow(s) ==
  [of |-> 0, number |-> 0, bare |-> FALSE, type |-> s.type, hint |-> s.hint,
   title |-> [s.title EXCEPT !.words = @ + 1],
   bullets |-> {AfterFirst(CutBullets(Bullets(s)), MaxBullets)},
   chart |-> "none", table |-> "none", comparison |-> "none", metric |-> FALSE,
   highlight |-> 0, subtitle |-> 0, icon |-> FALSE, root |-> NoRoot]

Split(s) == IF Len(Bullets(s)) <= MaxBullets THEN <<Parsed(s)>> ELSE <<Parsed(s), Overflow(s)>>

ThankYou == [of |-> 0, number |-> 0, bare |-> FALSE, type |-> "title", hint |-> "centered",
             title |-> [words |-> 2, kind |-> "plain", section |-> 0], bullets |-> {<<>>},
             chart |-> "none", table |-> "none", comparison |-> "none", metric |-> FALSE,
             highlight |-> 0, subtitle |-> 3, icon |-> TRUE, root |-> NoRoot]

Constrained(slides) ==
  LET all == Append(FlattenSeq([i \in DOMAIN slides |-> Split(Reduced(slides[i]))]), ThankYou)
  IN [i \in DOMAIN all |-> [all[i] EXCEPT !.number = i]]

-----------------------------------------------------------------------------
(* What becomes of a validated slide: the API flattens it                  *)
(* (_flatten_slide_for_frontend), SlideRenderer picks a component by it.   *)

\* A row is keyed by the headers, and loses the cells that have none; columns
\* come from a comparison that has them.
Flattened(s) ==
  [type    |-> s.type,
   bullets |-> Bullets(s),
   chart   |-> s.chart # "none",
   table   |-> s.table # "none",
   cells   |-> s.table \in {"good", "made"},
   columns |-> s.comparison \in {"columns", "made", "hollow"},
   metric  |-> s.metric]

\* Without its data a slide is shown as its bullets; no headers at all are an
\* empty list, which is data.
ShownAs(f) ==
  IF \/ f.type = "chart" /\ ~f.chart
     \/ f.type = "table" /\ ~f.table
     \/ f.type = "comparison" /\ ~f.columns
  THEN "content" ELSE f.type

-----------------------------------------------------------------------------
(* The LLM, then validate                                                  *)

Init == /\ answer \in Answers
        /\ given = <<>> /\ deck = <<>>
        /\ total = 0 /\ stage = "answer" /\ valid = FALSE

\* An answer that cannot be loaded fails the agent.
RunLLMProvider ==
  /\ stage = "answer"
  /\ IF Loaded(answer) = "error"
       THEN stage' = "failed" /\ UNCHANGED <<given, deck>>
       ELSE given' = Understood(answer) /\ deck' = given' /\ stage' = "normalise"
  /\ UNCHANGED <<answer, total, valid>>

NormaliseSlideFields ==
  /\ stage = "normalise"
  /\ deck' = [i \in DOMAIN deck |-> Normalised(deck[i])]
  /\ stage' = "infer"
  /\ UNCHANGED <<answer, given, total, valid>>

InferSlideTypes ==
  /\ stage = "infer"
  /\ deck' = [i \in DOMAIN deck |-> TypeInferred(deck[i], i)]
  /\ stage' = "correct"
  /\ UNCHANGED <<answer, given, total, valid>>

\* The corrections are for decks that do not conform, and for the whole deck.
AutoCorrect ==
  /\ stage = "correct"
  /\ deck' = IF Conforms(deck) THEN deck ELSE [i \in DOMAIN deck |-> Corrected(deck[i])]
  /\ stage' = "complete"
  /\ UNCHANGED <<answer, given, total, valid>>

ValidateContentCompleteness ==
  /\ stage = "complete"
  /\ deck' = [i \in DOMAIN deck |-> Completed(deck[i])]
  /\ stage' = "constrain"
  /\ UNCHANGED <<answer, given, total, valid>>

ApplyContentConstraints ==
  /\ stage = "constrain"
  /\ deck' = Constrained(deck)
  /\ total' = Len(deck')
  /\ valid' = Conforms(deck')
  /\ stage' = "done"
  /\ UNCHANGED <<answer, given>>

Next == \/ RunLLMProvider \/ NormaliseSlideFields \/ InferSlideTypes \/ AutoCorrect
        \/ ValidateContentCompleteness \/ ApplyContentConstraints

Spec == Init /\ [][Next]_vars /\ WF_vars(Next)

-----------------------------------------------------------------------------
(* Properties.                                                             *)

Done == stage = "done"
FinalOf(i) == CHOOSE k \in DOMAIN deck : deck[k].of = i

\* What the LLM gave is taken as it is: a table that has headers and nothing that
\* is a row, and sides of the old format that hold nothing.
GivenRowless(g) == {g.table, g.root.table} \cap {"norows", "stray"} # {}
GivenHollow(g) == g.comparison = "oldhollow"

\* A slide is shown as its type, with something in every place of it that the
\* answer g did not fill with nothing.
Renders(s, g) ==
  LET f == Flattened(s) IN
  /\ ShownAs(f) = s.type
  /\ s.type = "content" => Len(f.bullets) >= MinBullets
  /\ s.type = "chart" => s.chart # "categories"
  /\ s.type = "table" => f.cells \/ GivenRowless(g)
  /\ s.type = "comparison" => s.comparison # "hollow" \/ GivenHollow(g)
  /\ s.type = "metric" => f.metric

\* The client can show every slide of the validated deck as its type says,
\* and every slide has the layout of its type: whatever mixture of shapes and
\* places the LLM used, the passes leave none without a component, and nothing
\* is missing in a place but the rows of a table and the bullets of a side that
\* were missing in the answer.  The overflow slides, made after the last check
\* of their content, are excepted, and so is a chart given as an object, which
\* the passes and the API hand on although the component draws lists only.
EverySlideRenders ==
  \A k \in DOMAIN deck : /\ deck[k].of # 0 => Renders(deck[k], given[deck[k].of])
                         /\ deck[k].hint = TypeToHint[deck[k].type]

\* The deck opens with a title slide without data, the first of the LLM if it
\* gave any, closes with one, numbers its slides in order after the splits and
\* counts them.
DeckIsFramed ==
  /\ deck[1].type = "title" /\ deck[1].of = (IF given = <<>> THEN 0 ELSE 1)
  /\ deck[1].chart = "none" /\ deck[1].table = "none" /\ deck[1].comparison = "none"
  /\ Last(deck).type = "title"
  /\ \A k \in DOMAIN deck : deck[k].number = k
  /\ total = Len(deck)

\* Texts fit: bullets and titles are cut, on the overflow slides only bullets.
TextsFit ==
  \A k \in DOMAIN deck :
     /\ \A b \in Range(Bullets(deck[k])) : b.words <= MaxWords
     /\ deck[k].of # 0 => /\ deck[k].title.words <= MaxTitle
                          /\ Len(Bullets(deck[k])) <= MaxBullets

\* The passes leave a deck that can be shown, from whatever mixture of shapes the
\* answer is: a later pass (splits, numbers, the closing slide) undoes nothing an
\* earlier one did.
DeckIsPresentable == Done => EverySlideRenders /\ DeckIsFramed /\ TextsFit

Names(bs) == [i \in DOMAIN bs |-> bs[i].name]

\* The bullets the LLM gave a slide: those in its content, or else at its root,
\* or else in the panel of a chart or the badges of a title.
GivenBullets(s) == Names(IF Bullets(s) # <<>> THEN Bullets(s)
                         ELSE IF Bullets(s.root) # <<>> THEN Bullets(s.root)
                         ELSE s.root.panel)

\* The content has an empty list, and the list is at the root.
Shadowed(s) == s.bullets = {<<>>} /\ Bullets(s.root) # <<>>

\* The bullets on slide i and on the overflow slides right behind it.
ShownBullets(i) ==
  LET k == FinalOf(i)
      next == IF i = Len(given) THEN Len(deck) ELSE FinalOf(i + 1)
  IN Names(FlattenSeq([j \in 1 .. (next - k) |-> Bullets(deck[k + j - 1])]))

\* Slide i has all it was given, in order, on itself and on its overflow slide,
\* and a slide that is too dense or a title slide the first four.
AllShown(i) ==
  IF deck[i].type = "title" \/ Density(deck[i]) > DenseWords
  THEN IsPrefix(FirstOf(GivenBullets(given[i]), MaxBullets), ShownBullets(i)')
  ELSE IsPrefix(GivenBullets(given[i]), ShownBullets(i)')

\* No bullet is lost or moved between the answer of the LLM and the slides that
\* are shown, in whichever place it was given, but for those at the root of a
\* slide whose content has an empty list of its own.
BulletsSurvive ==
  [][ApplyContentConstraints => \A i \in DOMAIN given : ~Shadowed(given[i]) => AllShown(i)]_vars

=============================================================================
