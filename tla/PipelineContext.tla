--------------------------- MODULE PipelineContext ---------------------------
(***************************************************************************)
(* PipelineContext of agents/pipeline_orchestrator.py: what the agents of  *)
(* one run fill in, what a checkpoint stores, and what each agent does to  *)
(* it.                                                                     *)
(*                                                                         *)
(* An agent is its position in PIPELINE_SEQUENCE.  A slide deck is named   *)
(* by the number of the LLM call that produced it; 0 is "no slides".       *)
(***************************************************************************)
EXTENDS Integers, FiniteSets

CONSTANT Upstream  \* agents before llm_provider: classifier .. prompt_engineering (6)

ASSUME UpstreamAssumption == Upstream \in Nat \ {0}

-----------------------------------------------------------------------------
(* The agents, in the order of PIPELINE_SEQUENCE. *)

Classifier == 1
LLM        == Upstream + 1
Validation == Upstream + 2
Refinement == Upstream + 3
Scoring    == Upstream + 4
Agents     == 1..Scoring

MaxFeedback  == 2      \* "feedback_loop_count < 2"
NoSlides     == 0
CachedSlides == 0 - 1  \* a deck taken from the Slide_JSON cache

(* completed_agents is a list whose order is never read: done[a] is how    *)
(* many times a occurs in it.  failed: failed_agent or error_message is    *)
(* set.  raw and slides name the decks of raw_llm_output and               *)
(* validated_slides, scored the one quality_result is the score of.        *)
Context == [done: [Agents -> Nat], feedback: Nat, raw: Nat,
            slides: Int, scored: Int, failed: BOOLEAN]

EmptyContext == [done |-> [a \in Agents |-> 0], feedback |-> 0, raw |-> NoSlides,
                 slides |-> NoSlides, scored |-> NoSlides, failed |-> FALSE]

Done(c)    == {a \in Agents : c.done[a] > 0}
AllDone(c) == Done(c) = Agents

(* len(completed_agents): every occurrence of an agent counts.             *)
DoneLen(c) == Cardinality(UNION {{a} \X (1..c.done[a]) : a \in Agents})

\* Variant: the loop does not skip the completed agents.
NextAgentAgain(c, a) == \A b \in Agents : b < a => b \in Done(c)

(* The first agent of the sequence that is not in completed_agents.  The   *)
(* for loop never has to look back: agents leave completed_agents only     *)
(* while the last one runs.                                                *)
NextAgent(c, a) == a \notin Done(c) /\ \A b \in Agents : b < a => b \in Done(c)

(* The for loop has come to its end and agents are left: the feedback loop *)
(* has just taken them out.                                                *)
PassOver(c) == Scoring \in Done(c) /\ LLM \notin Done(c)

(* validated_slides or raw_llm_output or {} *)
BestSlides(c) == IF c.slides # NoSlides THEN c.slides ELSE c.raw

(* list.remove of each agent in the set that is present *)
Remove(done, S) == [a \in Agents |-> IF a \in S /\ done[a] > 0 THEN done[a] - 1 ELSE done[a]]

-----------------------------------------------------------------------------

\* Variant: the list of the agents to run again names the refinement.
RequeueRefinement(c) == [c EXCEPT !.feedback = @ + 1,
                                  !.done = Remove(@, {LLM, Refinement, Scoring})]

(* The feedback loop takes agents out of completed_agents, so that they    *)
(* run again.                                                              *)
Requeue(c) == [c EXCEPT !.feedback = @ + 1,
                        !.done = Remove(@, {LLM, Validation, Scoring})]

(* _run_quality_scoring, of a deck whose score is low or not.              *)
Score(c, low) ==
    LET scored == [c EXCEPT !.scored = c.slides]
    IN  IF low /\ c.feedback < MaxFeedback THEN Requeue(scored) ELSE scored

(* _dispatch: what agent a writes into the context.  (The refinement       *)
(* rewrites texts of the deck in place.)                                   *)
Output(c, a, low) ==
    CASE a = LLM        -> [c EXCEPT !.raw = @ + 1]
      [] a = Validation -> [c EXCEPT !.slides = c.raw]
      [] a = Scoring    -> Score(c, low)
      [] OTHER          -> c

(* _run_agent: the agent is dispatched, then appended to completed_agents. *)
RunAgent(c, a, low) == LET out == Output(c, a, low) IN [out EXCEPT !.done[a] = @ + 1]

-----------------------------------------------------------------------------
(* What holds of the contexts the pipeline builds. *)

(* An agent is completed only after all the agents before it, except that  *)
(* the feedback loop leaves the LLM and the validation to be run again     *)
(* behind the refinement and the scoring.                                  *)
InOrder(c) ==
    \A a, b \in Agents : a < b /\ b \in Done(c) =>
        \/ a \in Done(c)
        \/ c.feedback > 0 /\ a \in {LLM, Validation} /\ b \in {Refinement, Scoring}

(* No agent is listed twice: the length of the list and the set of its     *)
(* elements, which the task and the orchestrator test, say the same.       *)
NoRepeat(c) == \A a \in Agents : c.done[a] <= 1

=============================================================================
