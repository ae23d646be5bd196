---------------------------- MODULE UpstreamAgents ----------------------------
(***************************************************************************)
(* The agents before the LLM, each with the time it has (run_with_budget,  *)
(* pipeline_orchestrator.py 407-421), the calls of a provider it makes and *)
(* what it falls back to when they fail: industry_classifier.py,           *)
(* design_agent.py, storyboarding.py, research.py, data_enrichment.py and  *)
(* their runners in the orchestrator, for executions about one topic that  *)
(* follow one another and share the findings kept in Redis.  Nothing checks *)
(* the answer of a provider against the shape it was asked for: the parser *)
(* is given a model and does not apply it.                                 *)
(*                                                                         *)
(* Time is in seconds and passes with the calls and the pauses between     *)
(* them.  A call answers, fails or hangs; a call that hangs ends only by a *)
(* timeout around it.  Redis answers or fails, and does not hang.          *)
(***************************************************************************)
EXTENDS Integers, Sequences

CONSTANTS
  Known,        \* industries of the classifier's table
  Ranged,       \* industries of the table of data ranges
  Novel,        \* an industry only the LLM names
  Number,       \* an answer that is no string, where an industry was asked for
  NONE,         \* no industry, or nothing kept
  Latencies,    \* bound: seconds after which a call answers or fails
  Lifetime      \* bound: ticks of the clock that Redis keeps findings

ASSUME UpstreamAssumption ==
  /\ Novel \notin Known /\ {NONE, Number} \cap (Known \cup {Novel}) = {} /\ NONE # Number
  /\ Ranged \subseteq Known
  /\ Latencies \subseteq 1 .. 29 /\ Lifetime \in Nat \ {0}

VARIABLES
  topic,        \* what keywords and embedding say of the topic, fixed
  agent,        \* the agent that runs, "idle", "done" or "failed"
  failedAt,     \* the agent that failed
  spent,        \* seconds the agent has used
  attempt,      \* 0 before the agent looks into Redis, then its attempt
  slow,         \* history: calls of this agent that were slow or hung
  fault,        \* history: "answer" or "database", when that made the agent raise
  industry,     \* detected_context["industry"]
  design,       \* where design_spec comes from
  research,     \* where research_findings come from
  enriched,     \* where enriched_data comes from
  kept          \* findings of the research agent in Redis, by industry

context == <<industry, design, research, enriched>>
vars == <<topic, agent, failedAt, spent, attempt, slow, fault, context, kept>>

Industries == Known \cup {Novel}
Pipeline == <<"classifier", "design", "storyboarding", "research", "enrichment", "prompt">>

\* Variant: the budget of the research agent before it was increased.
BudgetBefore == [classifier |-> 15, design |-> 20, storyboarding |-> 10,
                 research |-> 30, enrichment |-> 20, prompt |-> 5]

\* AGENT_LATENCY_BUDGETS, in seconds.
Budget == [classifier |-> 15, design |-> 20, storyboarding |-> 10,
           research |-> 60, enrichment |-> 20, prompt |-> 5]

\* TIMEOUT_SECONDS, MAX_RETRIES and BASE_BACKOFF_SECONDS of the research agent.
Timeout == 30
MaxRetries == 3
Backoff(k) == IF k = 1 THEN 2 ELSE 4      \* 2 * 2^(k - 1), after the first two

-----------------------------------------------------------------------------
\* What keyword_matching and semantic_similarity return for a topic, scores in
\* tenths; without an embedding model or a term of any table it is nobody's.
Match(scores) ==
  {[industry |-> NONE, score |-> 0]} \cup [industry : Known, score : scores]

Nothing == [source |-> "none", left |-> 0]
Findings(source) == [source |-> source, left |-> Lifetime]

\* The findings that the code has for some industries and for all others; what
\* is in them does not matter here.
CachedIndustryData == [i \in Known \cup {"default"} |-> "table"]
GetCachedData(i) == CachedIndustryData[IF i \in Known THEN i ELSE "default"]

\* The agent runs and has time left after so many more seconds.
InTime(seconds) == spent + seconds < Budget[agent]

NextOf(a) == LET k == CHOOSE i \in DOMAIN Pipeline : Pipeline[i] = a
             IN IF k = Len(Pipeline) THEN "done" ELSE Pipeline[k + 1]

\* _run_agent after the agent returned: the next one starts with a new budget.
Completes ==
  /\ agent' = NextOf(agent)
  /\ spent' = 0 /\ attempt' = 0 /\ slow' = 0
  /\ UNCHANGED <<topic, failedAt, fault>>

\* _run_agent after an exception: the budget was exceeded, or the agent raised.
Fails(why) ==
  /\ agent' = "failed"
  /\ failedAt' = agent
  /\ fault' = why
  /\ UNCHANGED <<topic, spent, attempt, context, kept>>

\* A call counts as slow when it takes more than a third of the timeout.
Count(seconds) == slow' = IF seconds > Timeout \div 3 THEN slow + 1 ELSE slow

\* The call of an agent that puts no timeout around it hangs, or outlasts the
\* budget: wait_for cancels the agent, and CancelledError passes by its
\* "except Exception" and its fallback.
CutOff ==
  \/ Fails(NONE) /\ slow' = slow + 1
  \/ \E l \in Latencies : ~InTime(l) /\ Fails(NONE) /\ Count(l)

\* A call answers in time and what becomes of the answer raises, outside the try
\* of the agent.
Raises == (\E l \in Latencies : InTime(l)) /\ Fails("answer") /\ UNCHANGED slow

-----------------------------------------------------------------------------
\* classify, by the keywords, by the embedding, or for want of both by the LLM
\* and when that fails by the better of the two.
ByTables ==
  IF topic.keyword.score >= 6 THEN topic.keyword.industry
  ELSE IF topic.semantic.score >= 8 THEN topic.semantic.industry
  ELSE NONE

BestGuess ==
  IF topic.semantic.score > topic.keyword.score THEN topic.semantic.industry
  ELSE topic.keyword.industry

Classified(i) ==
  /\ industry' = i
  /\ Completes
  /\ UNCHANGED <<design, research, enriched, kept>>

ClassifyByTables == agent = "classifier" /\ ByTables # NONE /\ Classified(ByTables)

\* An answer without an industry counts as none.  A number passes for one; a
\* list or an object raises in _select_template, which looks it up in a table.
ClassifyByLLM ==
  /\ agent = "classifier" /\ ByTables = NONE
  /\ \/ /\ \E l \in Latencies : InTime(l)
        /\ \E i \in Industries \cup {Number, BestGuess} : Classified(i)
     \/ Raises
     \/ CutOff

\* generate_design_spec: of the LLM, or on any failure of the built-in palettes;
\* an industry that is no string fails before the call.
Designed(source) ==
  /\ design' = source
  /\ Completes
  /\ UNCHANGED <<industry, research, enriched, kept>>

Design ==
  /\ agent = "design"
  /\ \/ industry \notin Industries /\ Designed("palette")
     \/ /\ industry \in Industries
        /\ \/ (\E l \in Latencies : InTime(l)) /\ \E source \in {"llm", "palette"} : Designed(source)
           \/ CutOff

\* _run_storyboarding: a query for a template, whose errors do not matter but
\* which may take the agent's time, and a plan, whose industry is a string
\* (StoryPlanning has the rest of it).
Storyboard ==
  /\ agent = "storyboarding"
  /\ \/ industry \in Industries /\ Completes /\ UNCHANGED <<context, kept>>
     \/ industry \notin Industries /\ Fails(NONE) /\ UNCHANGED slow
     \/ Fails("database") /\ UNCHANGED slow

-----------------------------------------------------------------------------

\* _run_research: what Redis still has of the topic and industry is taken.
TakeKept ==
  /\ research' = kept[industry].source
  /\ Completes
  /\ UNCHANGED <<industry, design, enriched, kept>>

ResearchHit ==
  /\ agent = "research" /\ attempt = 0 /\ kept[industry] # Nothing
  /\ TakeKept

\* A lookup that fails counts as a miss in the code; Redis answers here.
ResearchMiss ==
  /\ agent = "research" /\ attempt = 0 /\ kept[industry] = Nothing
  /\ attempt' = 1
  /\ UNCHANGED <<topic, agent, failedAt, spent, slow, fault, context, kept>>

\* The findings go to Redis whatever they are; a failure to store them is
\* ignored.
ResearchDone(source) ==
  /\ research' = source
  /\ kept' \in {kept, [kept EXCEPT ![industry] = Findings(source)]}
  /\ Completes
  /\ UNCHANGED <<industry, design, enriched>>

\* analyze_topic, one attempt: an answer is kept, also one with sections or
\* terms that are no strings; after an error or a timeout it pauses and tries
\* again, and after the last it takes the industry's findings from the table in
\* the code.
ResearchAnswered ==
  /\ agent = "research" /\ attempt > 0
  /\ \E l \in Latencies : InTime(l)
  /\ \E source \in {"llm", "malformed"} : ResearchDone(source)

ResearchGivesUp ==
  /\ agent = "research" /\ attempt = MaxRetries
  /\ \E l \in Latencies \cup {Timeout} : InTime(l)
  /\ ResearchDone(GetCachedData(industry))

ResearchRetries ==
  /\ agent = "research" /\ attempt \in 1 .. MaxRetries - 1
  /\ \E l \in Latencies \cup {Timeout} :
       /\ InTime(l + Backoff(attempt))
       /\ spent' = spent + l + Backoff(attempt)
       /\ Count(l)
  /\ attempt' = attempt + 1
  /\ UNCHANGED <<topic, agent, failedAt, fault, context, kept>>

\* The budget of the agent ends in a call or in the pause after it.
ResearchCutOff ==
  /\ agent = "research" /\ attempt > 0
  /\ \E l \in Latencies \cup {Timeout} :
       /\ ~InTime(l + (IF attempt < MaxRetries THEN Backoff(attempt) ELSE 0))
       /\ Count(l)
  /\ Fails(NONE)

-----------------------------------------------------------------------------
\* _run_data_enrichment: from the ranges of a known industry, from ranges the
\* LLM names, or from the general ones; or what Redis still has of either.  A
\* metric whose name is no string raises once its value is made.
Enrich(source) ==
  /\ enriched' = source
  /\ Completes
  /\ UNCHANGED <<industry, design, research, kept>>

IndustryDataRanges == [i \in Ranged |-> "ranges"]
EnrichmentOf(i) == IF i \in Ranged THEN {IndustryDataRanges[i]} ELSE {"llm", "general"}

DataEnrichment ==
  /\ agent = "enrichment"
  /\ \/ \E source \in EnrichmentOf(industry) : Enrich(source)
     \/ industry \notin Ranged /\ (Raises \/ CutOff)

\* _run_prompt_engineering (StoryPlanning has what it writes): it joins the
\* sections and the terms of the findings, and records the prompt with the
\* execution.
WritePrompt ==
  /\ agent = "prompt"
  /\ \/ research # "malformed" /\ Completes /\ UNCHANGED <<context, kept>>
     \/ research # "malformed" /\ Fails("database") /\ UNCHANGED slow
     \/ research = "malformed" /\ Fails(NONE) /\ UNCHANGED slow

\* Another execution about the topic: a retry, a regeneration, another user.
Start ==
  /\ agent \in {"idle", "done", "failed"}
  /\ agent' = Pipeline[1]
  /\ failedAt' = NONE /\ fault' = NONE
  /\ spent' = 0 /\ attempt' = 0 /\ slow' = 0
  /\ industry' = NONE /\ design' = "none" /\ research' = "none" /\ enriched' = "none"
  /\ UNCHANGED <<topic, kept>>

\* Redis drops what has reached its time to live.
Aged(k) == IF k.left <= 1 THEN Nothing ELSE [k EXCEPT !.left = @ - 1]

Tick ==
  /\ \E i \in Industries : kept[i] # Nothing
  /\ kept' = [i \in Industries |-> Aged(kept[i])]
  /\ UNCHANGED <<topic, agent, failedAt, spent, attempt, slow, fault, context>>

-----------------------------------------------------------------------------
Init ==
  /\ topic \in [keyword : Match({3, 6}), semantic : Match({5, 8})]
  /\ agent = "idle" /\ failedAt = NONE /\ fault = NONE
  /\ spent = 0 /\ attempt = 0 /\ slow = 0
  /\ industry = NONE /\ design = "none" /\ research = "none" /\ enriched = "none"
  /\ kept = [i \in Industries |-> Nothing]

Next ==
  \/ Start \/ ClassifyByTables \/ ClassifyByLLM \/ Design \/ Storyboard
  \/ ResearchHit \/ ResearchMiss \/ ResearchAnswered \/ ResearchRetries
  \/ ResearchGivesUp \/ ResearchCutOff
  \/ DataEnrichment \/ WritePrompt \/ Tick

Spec == Init /\ [][Next]_vars

-----------------------------------------------------------------------------
TypeOK ==
  /\ agent \in {"idle", "done", "failed"} \cup {Pipeline[k] : k \in DOMAIN Pipeline}
  /\ failedAt \in {NONE} \cup {Pipeline[k] : k \in DOMAIN Pipeline}
  /\ spent \in 0 .. 59 /\ attempt \in 0 .. MaxRetries /\ slow \in 0 .. MaxRetries
  /\ fault \in {NONE, "answer", "database"}
  /\ industry \in Industries \cup {Number, NONE}
  /\ design \in {"none", "llm", "palette"}
  /\ research \in {"none", "llm", "malformed", "table"}
  /\ enriched \in {"none", "ranges", "llm", "general"}
  /\ kept \in [Industries -> [source : {"none", "llm", "malformed", "table"}, left : 0 .. Lifetime]]

\* Whatever errors the providers answer with, an agent before the LLM has
\* something to fall back to.  It fails only when
\*  - it was kept waiting, the research agent twice: its budget has room for one
\*    timeout and the attempts after it;
\*  - nobody could name an industry for the plan, or what was named is no string;
\*  - an answer of another shape than was asked for raised at once, when the
\*    topic was in none of the tables; or, from the research agent, in the prompt;
\*  - the database failed.
FailuresExplained ==
  agent = "failed" =>
    \/ failedAt \in {"classifier", "design"} /\ slow >= 1
    \/ failedAt = "storyboarding" /\ industry \notin Industries
    \/ failedAt = "research" /\ slow >= 2
    \/ failedAt = "enrichment" /\ slow >= 1 /\ industry \notin Ranged
    \/ failedAt = "classifier" /\ fault = "answer" /\ ByTables = NONE
    \/ failedAt = "enrichment" /\ fault = "answer" /\ industry \notin Ranged
    \/ failedAt = "prompt" /\ research = "malformed"
    \/ failedAt \in {"storyboarding", "prompt"} /\ fault = "database"

=============================================================================
