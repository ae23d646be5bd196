---------------------------- MODULE StoryPlanning ----------------------------
(***************************************************************************)
(* What the LLM is told to write: the plan of the storyboarding agent      *)
(* (backend/app/agents/storyboarding.py) made from a template or from the  *)
(* words of the topic, and the prompt of the prompt engineering agent      *)
(* (prompt_engineering.py) that must hold the plan and what the other      *)
(* agents found within the size recommended for the provider.              *)
(*                                                                         *)
(* A slide of a template is its section and its type, a text is its number *)
(* of characters.                                                          *)
(***************************************************************************)
EXTENDS Integers, Sequences, SequencesExt, FiniteSetsExt

CONSTANTS
  Sections,       \* names of sections the templates use
  Types,          \* the types of slides the templates use
  MaxTemplate,    \* bound: slides of a template
  TextSizes       \* bound: sizes of the findings and of the data, in characters

ASSUME StoryAssumption == TextSizes \subseteq Nat /\ MaxTemplate \in Nat

VARIABLES
  step,           \* "storyboard", "prompt" or "done": the agent that is next
  template,       \* the slides of the template, <<>> without one
  plan,           \* the PresentationPlanJSON of the context, or NoPlan
  prompt          \* the OptimizedPrompt of the context, or NoPrompt

storyVars == <<step, template, plan, prompt>>

NoPlan == [total |-> 0, sections |-> <<>>]
NoPrompt == [tokens |-> 0]

-----------------------------------------------------------------------------
\* The slide types in the order of their enumeration.
SlideType == <<"title", "content", "chart", "table", "comparison", "metric">>

Complexity == {"simple", "moderate", "complex"}

\* analyze_topic_complexity, from the number of words of the topic and
\* whether it has one of the words that announce a long presentation.
TopicComplexity(words, signals) ==
  IF words < 10 /\ ~signals THEN "simple"
  ELSE IF words > 30 \/ signals THEN "complex"
  ELSE "moderate"

\* determine_optimal_slide_count: the count of the template within 5..25, or
\* a number for the complexity.
SlideCount(complexity, slides) ==
  IF slides # <<>> THEN Max({5, Min({25, Len(slides)})})
  ELSE CASE complexity = "simple" -> 7
         [] complexity = "moderate" -> 12
         [] complexity = "complex" -> 18

Section(name, types) == [name |-> name, types |-> types]
Repeat(type, n) == [i \in 1 .. n |-> type]

\* _generate_diverse_types with four different preferred types: it cycles.
DiverseTypes(count, preferred) ==
  [i \in 1 .. count |-> preferred[((i - 1) % Len(preferred)) + 1]]

\* The shares of allocate_slides_to_sections for what title and agenda leave.
Shares(remaining) ==
  LET problem  == Max({1, (remaining * 15) \div 100})
      analysis == Max({2, (remaining * 30) \div 100})
      evidence == Max({2, (remaining * 25) \div 100})
      advice   == Max({1, (remaining * 20) \div 100})
  IN [problem |-> problem, analysis |-> analysis, evidence |-> evidence, advice |-> advice,
      conclusion |-> Max({1, remaining - problem - analysis - evidence - advice})]

\* allocate_slides_to_sections without a template.
DefaultSections(total) ==
  LET share == Shares(total - 2) IN
  << Section("Title", <<"title">>),
     Section("Agenda", <<"content">>),
     Section("Problem", IF share.problem > 1 THEN <<"content", "chart">> ELSE <<"content">>),
     Section("Analysis", DiverseTypes(share.analysis, <<"content", "chart", "table", "metric">>)),
     Section("Evidence", DiverseTypes(share.evidence, <<"chart", "comparison", "table", "metric">>)),
     Section("Recommendations",
             IF share.advice > 1 THEN Append(Repeat("content", share.advice - 1), "comparison")
             ELSE <<"content">>),
     Section("Conclusion", Repeat("content", share.conclusion)) >>

\* A slide goes to the section of its name, which is made when it is the first.
Filed(sections, slide) ==
  IF \E k \in DOMAIN sections : sections[k].name = slide.section
    THEN [k \in DOMAIN sections |->
            IF sections[k].name = slide.section
              THEN Section(slide.section, Append(sections[k].types, slide.type))
              ELSE sections[k]]
    ELSE Append(sections, Section(slide.section, <<slide.type>>))

\* _allocate_from_template: the slides of a section move together.
TemplateSections(slides) ==
  LET filed[n \in 0 .. Len(slides)] ==
        IF n = 0 THEN <<>> ELSE Filed(filed[n - 1], slides[n])
  IN filed[Len(slides)]

AllTypes(sections) == FlattenSeq([k \in DOMAIN sections |-> sections[k].types])

\* The type that replaces a third one in a row: the first in the enumeration
\* that is another and no title.
Replacement(last) == SelectInSeq(SlideType, LAMBDA t : t # last /\ t # "title")

\* Variant: the type that replaces another is not remembered as the last one.
DiversifyStepKeepsCount(acc, type) ==
  IF acc.out # <<>> /\ type = acc.last
    THEN IF acc.run + 1 > 2
           THEN LET other == SlideType[Replacement(acc.last)] IN
                [out |-> Append(acc.out, other), run |-> 0, last |-> acc.last]
           ELSE [out |-> Append(acc.out, type), run |-> acc.run + 1, last |-> type]
    ELSE [out |-> Append(acc.out, type), run |-> 1, last |-> type]

\* The loop of enforce_visual_diversity over all the types of the deck, with
\* the types it has passed, how many in a row are equal, and which.
DiversifyStep(acc, type) ==
  IF acc.out # <<>> /\ type = acc.last
    THEN IF acc.run + 1 > 2
           THEN LET other == SlideType[Replacement(acc.last)] IN
                [out |-> Append(acc.out, other), run |-> 1, last |-> other]
           ELSE [out |-> Append(acc.out, type), run |-> acc.run + 1, last |-> type]
    ELSE [out |-> Append(acc.out, type), run |-> 1, last |-> type]

NothingPassed == [out |-> <<>>, run |-> 0, last |-> "title"]

Diversify(types) ==
  LET passed[n \in 0 .. Len(types)] ==
        IF n = 0 THEN NothingPassed ELSE DiversifyStep(passed[n - 1], types[n])
  IN passed[Len(types)].out

\* The rest of enforce_visual_diversity: each section gets its share back.
EnforceVisualDiversity(sections) ==
  LET all == Diversify(AllTypes(sections))
      before(k) == Len(AllTypes(SubSeq(sections, 1, k - 1)))
  IN [k \in DOMAIN sections |->
        Section(sections[k].name,
                SubSeq(all, before(k) + 1, before(k) + Len(sections[k].types)))]

\* generate_presentation_plan.
PresentationPlan(complexity, slides) ==
  LET total == SlideCount(complexity, slides)
      sections == IF slides # <<>> THEN TemplateSections(slides) ELSE DefaultSections(total)
  IN [total |-> total, sections |-> EnforceVisualDiversity(sections)]

-----------------------------------------------------------------------------
\* The template of each provider: characters of its system prompt and of its
\* user prompt around the texts, whether the findings and the data have a place
\* in it (the plan always has), and the tokens recommended for a prompt.
ClaudeTemplate == [system |-> 4080, user |-> 322, told |-> TRUE, recommended |-> 8000]
OpenAITemplate == [system |-> 1958, user |-> 239, told |-> TRUE, recommended |-> 6000]
GroqTemplate == [system |-> 1326, user |-> 144, told |-> TRUE, recommended |-> 4000]
LocalTemplate == [system |-> 309, user |-> 55, told |-> FALSE, recommended |-> 2000]

PromptTemplates == {ClaudeTemplate, OpenAITemplate, GroqTemplate, LocalTemplate}

\* _estimate_tokens.
EstimateTokens(chars) == chars \div 4

\* Variant: the limit is taken for a number of characters that it is not.
TruncateToTokenLimitByBytes(chars, limit) ==
  IF EstimateTokens(chars) <= limit THEN chars ELSE 3 + 8 * limit

\* _truncate_to_token_limit: the end of a text and three dots before it.
TruncateToTokenLimit(chars, limit) ==
  IF EstimateTokens(chars) <= limit THEN chars ELSE 3 + 4 * limit

\* _format_presentation_plan: the total, a line for each section and each slide.
FormatPlan(p) ==
  34 + 30 * Len(p.sections) + 15 * Len(AllTypes(p.sections))

\* _format_design_spec: its eleven lines, or nothing without a design.
FormatDesign(designed) == IF designed THEN 420 ELSE 0

\* generate_prompt, from the sizes of the findings and of the data.  A prompt
\* that is too long is built again with the data cut to what the rest leaves,
\* and without the lines of the design.
GeneratePrompt(tpl, p, research, data, designed) ==
  LET base    == tpl.user + FormatPlan(p) + (IF tpl.told THEN research ELSE 0)
      room(d) == IF tpl.told THEN d ELSE 0
      tokens(d) == EstimateTokens(tpl.system) + EstimateTokens(base + room(d))
      whole   == tokens(data + FormatDesign(designed))
      left    == tpl.recommended - tokens(0)
      kept    == IF left > 0 THEN TruncateToTokenLimit(data, left) ELSE 0
  IN IF whole <= tpl.recommended
       THEN [tokens |-> whole, limit |-> tpl.recommended, bare |-> tokens(0),
             data |-> data, design |-> designed]
       ELSE [tokens |-> tokens(kept), limit |-> tpl.recommended, bare |-> tokens(0),
             data |-> kept, design |-> FALSE]

-----------------------------------------------------------------------------
Templates == UNION {[1 .. n -> [section : Sections, type : Types]] : n \in 0 .. MaxTemplate}

StoryInit ==
  /\ step = "storyboard"
  /\ template \in Templates
  /\ plan = NoPlan
  /\ prompt = NoPrompt

\* _run_storyboarding, after the template was read; it is a local of that
\* method, and only the plan stays in the context.
Storyboard ==
  /\ step = "storyboard"
  /\ \E words \in {5, 20, 40}, signals \in BOOLEAN :
        plan' = PresentationPlan(TopicComplexity(words, signals), template)
  /\ step' = "prompt"
  /\ UNCHANGED <<template, prompt>>

\* _run_prompt_engineering, for whatever primary provider is configured.
WritePrompt ==
  /\ step = "prompt"
  /\ \E tpl \in PromptTemplates, research, data \in TextSizes, designed \in BOOLEAN :
        prompt' = GeneratePrompt(tpl, plan, research, data, designed)
  /\ step' = "done"
  /\ UNCHANGED <<template, plan>>

StoryNext == Storyboard \/ WritePrompt

StorySpec == StoryInit /\ [][StoryNext]_storyVars

-----------------------------------------------------------------------------
Planned == step \in {"prompt", "done"}

\* "Ensure visual diversity (max 2 consecutive slides of same type)", whatever
\* the template, over the borders of its sections; and nothing else of the
\* template is touched: a slide keeps its type unless the two planned before it
\* already have it, and every section keeps the number of its slides.
PlanFollowsTemplate ==
  Planned =>
    LET types == AllTypes(plan.sections)
        given == AllTypes(TemplateSections(template))
    IN /\ \A i \in 3 .. Len(types) : ~(types[i] = types[i - 1] /\ types[i] = types[i - 2])
       /\ template # <<>> =>
            /\ Len(types) = Len(template)
            /\ \A i \in DOMAIN types : types[i] # given[i] =>
                 /\ i > 2 /\ given[i] = types[i - 1] /\ given[i] = types[i - 2]
            /\ \A k \in DOMAIN plan.sections :
                 Len(plan.sections[k].types) =
                   Cardinality({i \in DOMAIN template : template[i].section = plan.sections[k].name})

\* A prompt is within the recommended size, up to the token that two roundings
\* may add, or it is without any data because the rest alone is too long.
PromptFits ==
  step = "done" => \/ prompt.tokens <= prompt.limit + 1
                   \/ prompt.data = 0 /\ prompt.bare >= prompt.limit

=============================================================================
