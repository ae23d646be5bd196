------------------------- MODULE JobPipelineTheorems -------------------------
(***************************************************************************)
(* Theorems about JobPipeline, for every number of agents, jobs, faults,   *)
(* retries and cancellations: first what running an agent does to a        *)
(* context, then the life of a presentation, then the refinement of        *)
(* PipelineRuns, for one job.                                              *)
(***************************************************************************)
EXTENDS JobPipeline, FiniteSetTheorems, FunctionTheorems, TLAPS

(* Contexts. *)

USE UpstreamAssumption

LEMMA AgentOrder ==
    /\ Upstream \in Nat \ {0}
    /\ Scoring \in Agents /\ Refinement \in Agents /\ Validation \in Agents
    /\ LLM \in Agents /\ Classifier \in Agents
    /\ Agents \subseteq Nat \ {0}
    /\ LLM < Validation /\ Validation < Refinement /\ Refinement < Scoring
    /\ \A a \in Agents : a <= Scoring
BY DEF Agents, Scoring, Refinement, Validation, LLM, Classifier

(* The deck that the agents listed have made: a completed validation has    *)
(* left slides, and the LLM something to validate.  (A deck of the cache    *)
(* comes with all agents listed, and without an output of the LLM.)         *)
DeckFollows(c) ==
    /\ Validation \in Done(c) => c.slides # NoSlides
    /\ LLM \in Done(c) /\ Validation \notin Done(c) => c.raw > 0

LEMMA EmptyContextOK ==
    /\ EmptyContext \in Context
    /\ InOrder(EmptyContext) /\ NoRepeat(EmptyContext) /\ DeckFollows(EmptyContext)
BY AgentOrder DEF EmptyContext, Context, InOrder, NoRepeat, DeckFollows, Done, NoSlides

(* The list after the feedback loop has removed agents from it. *)
LEMMA RemoveType ==
    ASSUME NEW done \in [Agents -> Nat], NEW S
    PROVE  Remove(done, S) \in [Agents -> Nat]
BY DEF Remove

LEMMA RequeueType ==
    ASSUME NEW c \in Context
    PROVE  Requeue(c) \in Context
<1>1. \A n \in Nat, d \in [Agents -> Nat] : [c EXCEPT !.feedback = n, !.done = d] \in Context
  BY DEF Context
<1>2. Remove(c.done, {LLM, Validation, Scoring}) \in [Agents -> Nat]
  BY RemoveType DEF Context
<1>3. c.feedback + 1 \in Nat
  BY DEF Context
<1> QED
  BY <1>1, <1>2, <1>3 DEF Requeue

LEMMA ScoreType ==
    ASSUME NEW c \in Context, NEW low \in BOOLEAN
    PROVE  Score(c, low) \in Context
<1>1. [c EXCEPT !.scored = c.slides] \in Context
  BY DEF Context
<1> QED
  BY <1>1, RequeueType DEF Score

LEMMA OutputType ==
    ASSUME NEW c \in Context, NEW a \in Agents, NEW low \in BOOLEAN
    PROVE  Output(c, a, low) \in Context
<1>1. CASE a = LLM
  BY <1>1, AgentOrder DEF Output, Context
<1>2. CASE a = Validation
  BY <1>2, AgentOrder DEF Output, Context
<1>3. CASE a = Scoring
  BY <1>3, AgentOrder, ScoreType DEF Output
<1>4. CASE a \notin {LLM, Validation, Scoring}
  BY <1>4 DEF Output
<1> QED
  BY <1>1, <1>2, <1>3, <1>4

(* Running an agent yields a context again. *)
LEMMA RunAgentType ==
    ASSUME NEW c \in Context, NEW a \in Agents, NEW low \in BOOLEAN
    PROVE  RunAgent(c, a, low) \in Context
<1>1. Output(c, a, low) \in Context
  BY OutputType
<1> QED
  BY <1>1 DEF RunAgent, Context

(* The deck that a partial or a final result stores. *)
LEMMA BestSlidesType ==
    ASSUME NEW c \in Context
    PROVE  BestSlides(c) \in Int
BY DEF BestSlides, Context

(* Every agent but the scoring leaves the list to the final append. *)
LEMMA OutputKeepsDone ==
    ASSUME NEW c \in Context, NEW a \in Agents, NEW low \in BOOLEAN, a # Scoring
    PROVE  /\ Output(c, a, low).done = c.done
           /\ Output(c, a, low).feedback = c.feedback
           /\ Output(c, a, low).failed = c.failed
BY AgentOrder DEF Output, Context

(* The list after a run of the scoring, before the append. *)
LEMMA ScoreDone ==
    ASSUME NEW c \in Context, NEW low \in BOOLEAN
    PROVE  /\ Output(c, Scoring, low).failed = c.failed
           /\ \/ /\ Output(c, Scoring, low).done = c.done
                 /\ Output(c, Scoring, low).feedback = c.feedback
              \/ /\ Output(c, Scoring, low).done =
                        Remove(c.done, {LLM, Validation, Scoring})
                 /\ Output(c, Scoring, low).feedback = c.feedback + 1
<1>1. Output(c, Scoring, low) = Score(c, low)
  BY AgentOrder DEF Output
<1> DEFINE scored == [c EXCEPT !.scored = c.slides]
<1>2. scored \in Context /\ scored.done = c.done
         /\ scored.feedback = c.feedback /\ scored.failed = c.failed
  BY DEF Context
<1>3. Score(c, low) \in {scored, Requeue(scored)}
  BY DEF Score
<1>4. /\ Requeue(scored).done = Remove(scored.done, {LLM, Validation, Scoring})
      /\ Requeue(scored).feedback = scored.feedback + 1
      /\ Requeue(scored).failed = scored.failed
  <2> HIDE DEF scored
  <2> QED
    BY <1>2 DEF Requeue, Context
<1> QED
  BY <1>1, <1>2, <1>3, <1>4

(* The append. *)
LEMMA RunAgentDone ==
    ASSUME NEW c \in Context, NEW a \in Agents, NEW low \in BOOLEAN
    PROVE  /\ RunAgent(c, a, low).done = [Output(c, a, low).done EXCEPT ![a] = @ + 1]
           /\ RunAgent(c, a, low).feedback = Output(c, a, low).feedback
           /\ RunAgent(c, a, low).failed = Output(c, a, low).failed
<1>1. Output(c, a, low) \in Context
  BY OutputType
<1> QED
  BY <1>1 DEF RunAgent, Context

(* Running an agent never makes a context fail. *)
LEMMA RunAgentClean ==
    ASSUME NEW c \in Context, NEW a \in Agents, NEW low \in BOOLEAN
    PROVE  RunAgent(c, a, low).failed = c.failed
<1>1. Output(c, a, low).failed = c.failed
  <2>1. CASE a = Scoring
    BY <2>1, ScoreDone
  <2>2. CASE a # Scoring
    BY <2>2, OutputKeepsDone
  <2> QED
    BY <2>1, <2>2
<1> QED
  BY <1>1, RunAgentDone

(* Running the next agent keeps the deck what the list says.               *)
LEMMA RunAgentFollows ==
    ASSUME NEW c \in Context, NEW a \in Agents, NEW low \in BOOLEAN,
           NoRepeat(c), NextAgent(c, a), DeckFollows(c)
    PROVE  DeckFollows(RunAgent(c, a, low))
<1> DEFINE out == Output(c, a, low)
           r   == RunAgent(c, a, low)
<1>1. c.done \in [Agents -> Nat] /\ c.raw \in Nat /\ \A b \in Agents : c.done[b] <= 1
  BY DEF Context, NoRepeat
<1>2. out \in Context /\ out.done \in [Agents -> Nat]
  BY OutputType DEF Context
<1>3. r.slides = out.slides /\ r.raw = out.raw /\ r.done = [out.done EXCEPT ![a] = @ + 1]
  <2> HIDE DEF out
  <2> QED
    BY <1>2 DEF RunAgent, out, Context
<1>4. \A b \in Agents : b \in Done(r) <=> b = a \/ b \in Done(out)
  <2> HIDE DEF out, r
  <2> QED
    BY <1>2, <1>3 DEF Done
<1> HIDE DEF out, r
<1>5. CASE a = LLM
  <2>1. out.raw = c.raw + 1 /\ out.slides = c.slides /\ out.done = c.done
    BY <1>5, AgentOrder DEF out, Output, Context
  <2> QED
    BY <1>1, <1>3, <1>4, <1>5, <2>1, AgentOrder DEF DeckFollows, Done, r
<1>6. CASE a = Validation
  <2>1. out.slides = c.raw
    BY <1>6, AgentOrder DEF out, Output, Context
  <2>2. LLM \in Done(c) /\ Validation \notin Done(c)
    BY <1>6, AgentOrder DEF NextAgent
  <2> QED
    BY <1>1, <1>3, <1>4, <1>6, <2>1, <2>2, AgentOrder DEF DeckFollows, r, NoSlides
<1>7. CASE a = Scoring
  <2> DEFINE scored == [c EXCEPT !.scored = c.slides]
  <2>1. /\ scored \in Context /\ scored.slides = c.slides /\ scored.raw = c.raw
        /\ scored.done = c.done
    BY DEF Context
  <2>2. /\ Requeue(scored).slides = scored.slides /\ Requeue(scored).raw = scored.raw
        /\ Requeue(scored).done = Remove(scored.done, {LLM, Validation, Scoring})
    <3> HIDE DEF scored
    <3> QED
      BY <2>1 DEF Requeue, Context
  <2>3. out \in {scored, Requeue(scored)}
    BY <1>7, AgentOrder DEF out, Output, Score
  <2> HIDE DEF scored
  <2>4. CASE out = scored
    BY <1>3, <1>4, <1>7, <2>1, <2>4, AgentOrder DEF DeckFollows, Done, r
  <2>5. CASE out = Requeue(scored)
    <3>1. out.done = Remove(c.done, {LLM, Validation, Scoring})
      BY <2>1, <2>2, <2>5
    <3>2. LLM \notin Done(out) /\ Validation \notin Done(out)
      BY <1>1, <3>1, AgentOrder DEF Remove, Done
    <3> QED
      BY <1>4, <1>7, <3>2, AgentOrder DEF DeckFollows, r
  <2> QED
    BY <2>3, <2>4, <2>5
<1>8. CASE a \notin {LLM, Validation, Scoring}
  <2>1. out = c
    BY <1>8 DEF out, Output
  <2> QED
    BY <1>3, <1>4, <1>8, <2>1, AgentOrder DEF DeckFollows, r
<1> QED
  BY <1>5, <1>6, <1>7, <1>8

(* The length of a list without repetitions, which the task tests, says    *)
(* what its set, which the orchestrator tests, does.                       *)
LEMMA LengthIsSet ==
    ASSUME NEW c \in Context, NoRepeat(c)
    PROVE  DoneLen(c) = Scoring <=> AllDone(c)
<1> DEFINE Listed == UNION {{a} \X (1..c.done[a]) : a \in Agents}
           once   == [a \in Done(c) |-> <<a, 1>>]
<1>1. c.done \in [Agents -> Nat] /\ \A a \in Agents : c.done[a] \in {0, 1}
  BY DEF Context, NoRepeat
<1>2. Listed = {<<a, 1>> : a \in Done(c)}
  <2>1. \A a \in Agents : a \in Done(c) => 1..c.done[a] = {1}
    BY <1>1 DEF Done
  <2>2. \A a \in Agents : a \notin Done(c) => 1..c.done[a] = {}
    BY <1>1 DEF Done
  <2>3. ASSUME NEW a \in Agents, NEW o \in {a} \X (1..c.done[a])
        PROVE  a \in Done(c) /\ o = <<a, 1>>
    BY <2>1, <2>2, <2>3
  <2>4. ASSUME NEW a \in Done(c)
        PROVE  a \in Agents /\ <<a, 1>> \in {a} \X (1..c.done[a])
    BY <2>1 DEF Done
  <2> QED
    BY <2>3, <2>4
<1>3. IsFiniteSet(Agents) /\ Cardinality(Agents) = Scoring
  BY AgentOrder, FS_Interval DEF Agents, Scoring
<1>4. Done(c) \subseteq Agents /\ IsFiniteSet(Done(c))
  BY <1>3, FS_Subset DEF Done
<1>5. Cardinality(Listed) = Cardinality(Done(c))
  <2> HIDE DEF Listed
  <2>1. /\ once \in [Done(c) -> Listed]
        /\ \A a, b \in Done(c) : once[a] = once[b] => a = b
        /\ \A o \in Listed : \E a \in Done(c) : once[a] = o
    BY <1>2
  <2> HIDE DEF once
  <2>2. once \in Bijection(Done(c), Listed)
    BY <2>1, Fun_IsBij
  <2>3. ExistsBijection(Done(c), Listed)
    BY <2>2, Fun_ExistsBij
  <2> QED
    BY <1>4, <2>3, FS_Bijection
<1>6. Cardinality(Done(c)) = Cardinality(Agents) <=> Done(c) = Agents
  BY <1>3, <1>4, FS_Subset
<1> QED
  BY <1>3, <1>5, <1>6 DEF DoneLen, AllDone

(* Running the next agent of the sequence keeps the list in order and free *)
(* of repetitions.                                                         *)
LEMMA RunAgentKeepsOrder ==
    ASSUME NEW c \in Context, NEW a \in Agents, NEW low \in BOOLEAN,
           InOrder(c), NoRepeat(c), NextAgent(c, a)
    PROVE  InOrder(RunAgent(c, a, low)) /\ NoRepeat(RunAgent(c, a, low))
<1> DEFINE out == Output(c, a, low)
           r   == RunAgent(c, a, low)
<1>1. /\ c.done \in [Agents -> Nat] /\ c.feedback \in Nat
      /\ \A b \in Agents : c.done[b] \in {0, 1}
      /\ c.done[a] = 0
      /\ \A b \in Agents : b < a => c.done[b] = 1
  BY DEF Context, NoRepeat, NextAgent, Done
<1>2. r.done = [out.done EXCEPT ![a] = @ + 1] /\ r.feedback = out.feedback
  BY RunAgentDone
<1>3. CASE out.done = c.done /\ out.feedback = c.feedback
  <2>1. \A b \in Agents : r.done[b] = IF b = a THEN 1 ELSE c.done[b]
    BY <1>1, <1>2, <1>3
  <2>2. r.feedback = c.feedback
    BY <1>2, <1>3
  <2> HIDE DEF r, out
  <2>3. NoRepeat(r)
    BY <1>1, <2>1 DEF NoRepeat
  <2>4. Done(r) = Done(c) \cup {a}
    BY <1>1, <2>1 DEF Done
  <2>5. InOrder(r)
    BY <2>2, <2>4, AgentOrder DEF InOrder, NextAgent
  <2> QED
    BY <2>3, <2>5 DEF r
<1>4. CASE /\ a = Scoring
           /\ out.done = Remove(c.done, {LLM, Validation, Scoring})
           /\ out.feedback = c.feedback + 1
  <2>1. \A b \in Agents : r.done[b] = IF b \in {LLM, Validation} THEN 0 ELSE 1
    BY <1>1, <1>2, <1>4, AgentOrder DEF Remove
  <2>2. r.feedback > 0
    BY <1>1, <1>2, <1>4
  <2> HIDE DEF r, out
  <2>3. NoRepeat(r)
    BY <2>1 DEF NoRepeat
  <2>4. Done(r) = Agents \ {LLM, Validation}
    BY <2>1 DEF Done
  <2>5. \A x, y \in Agents : x < y /\ x \in {LLM, Validation} /\ y \notin {LLM, Validation}
            => y \in {Refinement, Scoring}
    BY AgentOrder DEF Agents, LLM, Validation, Refinement, Scoring
  <2>6. InOrder(r)
    BY <2>2, <2>4, <2>5 DEF InOrder
  <2> QED
    BY <2>3, <2>6 DEF r
<1> QED
  BY <1>3, <1>4, OutputKeepsDone, ScoreDone

-----------------------------------------------------------------------------
(* The life of a presentation. *)

USE JobsAssumption

LEMMA JobsAreRows == Jobs \subseteq Executions /\ 1 \in Jobs /\ 0 \notin Jobs
<1>1. 1 \in Jobs /\ 0 \notin Jobs
  BY DEF Jobs
<1> QED
  BY <1>1 DEF Executions

(* The changes of single fields that the tasks make to their contexts. *)
LEMMA ContextUpdates ==
    ASSUME NEW c \in Context
    PROVE  /\ [c EXCEPT !.failed = TRUE] \in Context
           /\ \A s \in Int : [c EXCEPT !.failed = TRUE, !.scored = s] \in Context
           /\ [c EXCEPT !.slides = CachedSlides, !.done = [a \in Agents |-> 1]] \in Context
           /\ c.scored \in Int /\ c.slides \in Int
<1>1. CachedSlides \in Int /\ [a \in Agents |-> 1] \in [Agents -> Nat]
  BY DEF CachedSlides
<1>2. \A s \in Int, d \in [Agents -> Nat] : [c EXCEPT !.slides = s, !.done = d] \in Context
  BY DEF Context
<1>3. [c EXCEPT !.slides = CachedSlides, !.done = [a \in Agents |-> 1]] \in Context
  BY <1>1, <1>2
<1>4. [c EXCEPT !.failed = TRUE] \in Context
  BY DEF Context
<1>5. \A s \in Int : [c EXCEPT !.failed = TRUE, !.scored = s] \in Context
  BY DEF Context
<1>6. c.scored \in Int /\ c.slides \in Int
  BY DEF Context
<1> QED
  BY <1>3, <1>4, <1>5, <1>6

LEMMA InitTypeOK == Init => TypeOK
<1> SUFFICES ASSUME Init PROVE TypeOK
  OBVIOUS
<1>1. /\ pres \in [status: PresStatus, slides: Int, scored: Int]
      /\ stream \in {"open", "complete", "error"} /\ regenReq \in BOOLEAN
  <2>1. NoSlides \in Int /\ "none" \in PresStatus
    BY DEF NoSlides, PresStatus, ExecStatus
  <2> QED
    BY <2>1 DEF Init
<1>2. /\ faults \in 0..MaxFaults /\ cancels \in 0..MaxCancels
      /\ retries \in [Jobs -> 0..MaxRetries] /\ late \in [Jobs -> Nat]
  BY DEF Init
<1>3. /\ execStatus \in [Executions -> ExecStatus] /\ ckpt \in [Executions -> Context]
      /\ ctx \in [Jobs -> Context]
  BY EmptyContextOK DEF Init, ExecStatus
<1>4. /\ pc \in [Jobs -> Inside \cup Outside]
      /\ cancelReq \in [Jobs -> {"idle", "checked", "flagged"}]
      /\ cancelFlag \in [Jobs -> BOOLEAN]
  BY DEF Init, Outside
<1>5. execOf \in [Jobs -> Executions] /\ key \in [Jobs -> Jobs] /\ idem \in [Jobs -> Jobs \cup {0}]
  BY JobsAreRows DEF Init
<1> QED
  BY <1>1, <1>2, <1>3, <1>4, <1>5 DEF TypeOK

-----------------------------------------------------------------------------

(* Every variable keeps its type: the statuses of the rows, the contexts   *)
(* and checkpoints, the position of each task.                             *)
LEMMA NextTypeOK == TypeOK /\ [Next]_vars => TypeOK'
<1> SUFFICES ASSUME TypeOK, [Next]_vars
             PROVE  TypeOK'
  OBVIOUS
<1> USE JobsAreRows DEF TypeOK, apiVars, redisVars, dbVars, workVars, msgVars, Goto, Fault, Publish,
        PresStatus, ExecStatus, Inside, Outside
<1>1. ASSUME NEW j \in Jobs, CreatePresentation(j) PROVE TypeOK'
  BY <1>1 DEF CreatePresentation
<1>2. ASSUME NEW j \in Jobs, RegenerateCommit(j) PROVE TypeOK'
  <2>1. key' \in [Jobs -> Jobs]
    BY <1>2 DEF RegenerateCommit
  <2> QED
    BY <1>2, <2>1 DEF RegenerateCommit
<1>3. ASSUME NEW j \in Jobs, Enqueue(j) PROVE TypeOK'
  BY <1>3 DEF Enqueue
<1>4. ASSUME NEW j \in Jobs, CancelCheck(j) PROVE TypeOK'
  BY <1>4 DEF CancelCheck
<1>5. ASSUME NEW j \in Jobs, CancelSignal(j) PROVE TypeOK'
  BY <1>5 DEF CancelSignal
<1>6. ASSUME NEW j \in Jobs, CancelCommit(j) PROVE TypeOK'
  BY <1>6 DEF CancelCommit
<1>7. ASSUME NEW j \in Jobs, Deliver(j) PROVE TypeOK'
  BY <1>7 DEF Deliver
<1>8. ASSUME NEW j \in Jobs, IgnoreDuplicate(j) PROVE TypeOK'
  BY <1>8 DEF IgnoreDuplicate
<1>9. ASSUME NEW j \in Jobs, MarkProcessing(j) PROVE TypeOK'
  BY <1>9 DEF MarkProcessing
<1>10. ASSUME NEW j \in Jobs, ReuseExecution(j) PROVE TypeOK'
  BY <1>10 DEF ReuseExecution, LatestRows
<1>11. ASSUME NEW j \in Jobs, NewExecution(j) PROVE TypeOK'
  BY <1>11, EmptyContextOK DEF NewExecution, Executions
<1>12. ASSUME NEW j \in Jobs, CacheHit(j) PROVE TypeOK'
  <2>1. ctx' \in [Jobs -> Context]
    BY <1>12, ContextUpdates DEF CacheHit
  <2> QED
    BY <1>12, <2>1 DEF CacheHit
<1>13. ASSUME NEW j \in Jobs, CacheMiss(j) PROVE TypeOK'
  BY <1>13 DEF CacheMiss
<1>14. ASSUME NEW j \in Jobs, LeaveLoop(j) PROVE TypeOK'
  BY <1>14 DEF LeaveLoop
<1>15. ASSUME NEW j \in Jobs, StopCancelled(j) PROVE TypeOK'
  <2>1. ctx' \in [Jobs -> Context]
    BY <1>15, ContextUpdates DEF StopCancelled
  <2> QED
    BY <1>15, <2>1 DEF StopCancelled
<1>16. ASSUME NEW j \in Jobs, StopBeforeAgent(j) PROVE TypeOK'
  <2>1. ctx' \in [Jobs -> Context]
    BY <1>16, ContextUpdates DEF StopBeforeAgent
  <2> QED
    BY <1>16, <2>1 DEF StopBeforeAgent
<1>17. ASSUME NEW j \in Jobs, PollAllows(j) PROVE TypeOK'
  BY <1>17 DEF PollAllows
<1>18. ASSUME NEW j \in Jobs, StartAgent(j) PROVE TypeOK'
  BY <1>18 DEF StartAgent
<1>19. ASSUME NEW j \in Jobs, AgentSucceeds(j) PROVE TypeOK'
  BY <1>19, RunAgentType DEF AgentSucceeds
<1>20. ASSUME NEW j \in Jobs, AgentFails(j) PROVE TypeOK'
  <2>1. ctx' \in [Jobs -> Context]
    <3>1. PICK s \in {ctx[j].scored, ctx[j].slides} :
              ctx' = [ctx EXCEPT ![j] = [ctx[j] EXCEPT !.failed = TRUE, !.scored = s]]
      BY <1>20 DEF AgentFails
    <3>2. [ctx[j] EXCEPT !.failed = TRUE, !.scored = s] \in Context
      BY ContextUpdates
    <3> QED
      BY <3>1, <3>2
  <2> QED
    BY <1>20, <2>1 DEF AgentFails
<1>21. ASSUME NEW j \in Jobs, PersistCheckpoint(j) PROVE TypeOK'
  BY <1>21 DEF PersistCheckpoint
<1>22. ASSUME NEW j \in Jobs, PersistPartial(j) PROVE TypeOK'
  BY <1>22, BestSlidesType DEF PersistPartial, Context
<1>23. ASSUME NEW j \in Jobs, FinalizeCommit(j) PROVE TypeOK'
  BY <1>23, BestSlidesType DEF FinalizeCommit, Outcome, Context
<1>24. ASSUME NEW j \in Jobs, FinalizePublish(j) PROVE TypeOK'
  BY <1>24 DEF FinalizePublish
<1>25. ASSUME NEW j \in Jobs, SafetyNet(j) PROVE TypeOK'
  BY <1>25 DEF SafetyNet
<1>26. ASSUME NEW j \in Jobs, RetryTask(j) PROVE TypeOK'
  BY <1>26 DEF RetryTask
<1>27. ASSUME NEW j \in Jobs, GiveUp(j) PROVE TypeOK'
  BY <1>27 DEF GiveUp
<1>28. ASSUME NEW j \in Jobs, ApiDies(j) PROVE TypeOK'
  BY <1>28 DEF ApiDies
<1>29. ASSUME NEW j \in Jobs, PersistFails(j) PROVE TypeOK'
  <2>1. ctx' \in [Jobs -> Context]
    BY <1>29, ContextUpdates DEF PersistFails
  <2> QED
    BY <1>29, <2>1 DEF PersistFails
<1>30. ASSUME NEW j \in Jobs, Raise(j) PROVE TypeOK'
  BY <1>30 DEF Raise
<1>31. ASSUME NEW j \in Jobs, CacheFinalizeFails(j) PROVE TypeOK'
  BY <1>31 DEF CacheFinalizeFails
<1>32. ASSUME NEW j \in Jobs, MarkProcessingFails(j) \/ ExceptFails(j) \/ OnFailureFails(j) PROVE TypeOK'
  <2>1. CASE MarkProcessingFails(j)
    BY <2>1 DEF MarkProcessingFails
  <2>2. CASE ExceptFails(j)
    BY <2>2 DEF ExceptFails
  <2>3. CASE OnFailureFails(j)
    BY <2>3 DEF OnFailureFails
  <2> QED
    BY <1>32, <2>1, <2>2, <2>3
<1>33. ASSUME NEW j \in Jobs, WorkerDies(j) PROVE TypeOK'
  BY <1>33, EmptyContextOK DEF WorkerDies
<1>34. ASSUME NEW j \in Jobs, FlagExpires(j) PROVE TypeOK'
  BY <1>34 DEF FlagExpires
<1>35. CASE RegenerateCheck
  BY <1>35 DEF RegenerateCheck
<1>36. CASE StreamExpires
  BY <1>36 DEF StreamExpires
<1>37. CASE UNCHANGED vars
  BY <1>37 DEF vars
<1>38. ASSUME NEW j \in Jobs, OnFailure(j) PROVE TypeOK'
  BY <1>38 DEF OnFailure
<1>39. ASSUME NEW j \in Jobs, PollFails(j) PROVE TypeOK'
  BY <1>39 DEF PollFails
<1>40. ASSUME NEW j \in Jobs, ClearFails(j) PROVE TypeOK'
  <2>1. ctx' \in [Jobs -> Context]
    BY <1>40, ContextUpdates DEF ClearFails
  <2> QED
    BY <1>40, <2>1 DEF ClearFails
<1> QED
  BY <1>1, <1>2, <1>3, <1>4, <1>5, <1>6, <1>7, <1>8, <1>9, <1>10, <1>11, <1>12, <1>13,
     <1>14, <1>15, <1>16, <1>17, <1>18, <1>19, <1>20, <1>21, <1>22, <1>23, <1>24, <1>25,
     <1>26, <1>27, <1>28, <1>29, <1>30, <1>31, <1>32, <1>33, <1>34, <1>35, <1>36, <1>37,
     <1>38, <1>39, <1>40
     DEF Next, Api, Work, Faulty, Settled

(* The statuses of the presentation and of its executions, the contexts,   *)
(* the checkpoints and the Redis keys always have the types of their       *)
(* columns and fields.                                                     *)
THEOREM TypeCorrect == Spec => []TypeOK
BY InitTypeOK, NextTypeOK, PTL DEF Spec

-----------------------------------------------------------------------------
(* The contexts and the checkpoints.                                       *)

(* The actions that write a context or a checkpoint. *)
ContextStep(j) ==
    \/ ReuseExecution(j) \/ NewExecution(j) \/ CacheHit(j) \/ StopCancelled(j)
    \/ StopBeforeAgent(j) \/ AgentSucceeds(j) \/ AgentFails(j)
    \/ PersistCheckpoint(j) \/ PersistFails(j) \/ ClearFails(j) \/ WorkerDies(j)

(* All other actions leave the contexts and the checkpoints alone. *)
LEMMA OtherSteps ==
    ASSUME [Next]_vars
    PROVE  UNCHANGED <<ctx, ckpt>> \/ \E j \in Jobs : ContextStep(j)
<1> USE DEF apiVars, redisVars, dbVars, workVars, msgVars
<1>1. ASSUME NEW j \in Jobs, Api(j) PROVE UNCHANGED <<ctx, ckpt>>
  BY <1>1 DEF Api, CreatePresentation, RegenerateCommit, Enqueue,
              CancelCheck, CancelSignal, CancelCommit
<1>2. ASSUME NEW j \in Jobs, Work(j) PROVE UNCHANGED <<ctx, ckpt>> \/ ContextStep(j)
  BY <1>2 DEF Work, ContextStep, Deliver, IgnoreDuplicate, MarkProcessing, CacheMiss, LeaveLoop,
              PollAllows, StartAgent, PersistPartial, FinalizeCommit, FinalizePublish,
              SafetyNet, RetryTask, GiveUp, OnFailure
<1>3. ASSUME NEW j \in Jobs, Faulty(j) PROVE UNCHANGED <<ctx, ckpt>> \/ ContextStep(j)
  BY <1>3 DEF Faulty, ContextStep, ApiDies, Raise, CacheFinalizeFails, MarkProcessingFails,
              PollFails, ExceptFails, OnFailureFails
<1>4. ASSUME NEW j \in Jobs, FlagExpires(j) PROVE UNCHANGED <<ctx, ckpt>>
  BY <1>4 DEF FlagExpires
<1>5. CASE RegenerateCheck \/ StreamExpires \/ Settled \/ UNCHANGED vars
  BY <1>5 DEF RegenerateCheck, StreamExpires, Settled, vars
<1> QED
  BY <1>1, <1>2, <1>3, <1>4, <1>5 DEF Next

(* What is good of a context does not depend on its score and its failure. *)
LEMMA OrderOfDone ==
    ASSUME NEW c, NEW d, d.done = c.done, d.feedback = c.feedback,
           d.slides = c.slides, d.raw = c.raw,
           InOrder(c), NoRepeat(c), DeckFollows(c)
    PROVE  InOrder(d) /\ NoRepeat(d) /\ DeckFollows(d)
BY DEF InOrder, NoRepeat, DeckFollows, Done

DecksFollow ==
    /\ \A j \in Jobs : DeckFollows(ctx[j])
    /\ \A e \in Executions : DeckFollows(ckpt[e])

OrderInv == TypeOK /\ ExecutionOrder /\ NoAgentTwice /\ DecksFollow

(* A step leaves every context in order, free of repetitions and with the  *)
(* deck its list says, if all of them were.                                *)
LEMMA NextOrder ==
    OrderInv /\ [Next]_vars => ExecutionOrder' /\ NoAgentTwice' /\ DecksFollow'
<1> SUFFICES ASSUME TypeOK, ExecutionOrder, NoAgentTwice, DecksFollow, [Next]_vars
             PROVE  ExecutionOrder' /\ NoAgentTwice' /\ DecksFollow'
  BY DEF OrderInv
<1> DEFINE Good(c) == InOrder(c) /\ NoRepeat(c) /\ DeckFollows(c)
<1>1. /\ \A i \in Jobs : Good(ctx[i]) /\ ctx[i] \in Context
      /\ \A e \in Executions : Good(ckpt[e]) /\ ckpt[e] \in Context
      /\ ctx \in [Jobs -> Context] /\ ckpt \in [Executions -> Context]
      /\ execOf \in [Jobs -> Executions]
  BY DEF TypeOK, ExecutionOrder, NoAgentTwice, DecksFollow
<1>2. SUFFICES /\ \A i \in Jobs : Good(ctx'[i])
               /\ \A e \in Executions : Good(ckpt'[e])
  BY DEF ExecutionOrder, NoAgentTwice, DecksFollow
<1>3. CASE UNCHANGED <<ctx, ckpt>>
  BY <1>1, <1>3
<1>4. ASSUME NEW j \in Jobs, NEW c \in Context, Good(c), ctx' = [ctx EXCEPT ![j] = c], ckpt' = ckpt
      PROVE  (\A i \in Jobs : Good(ctx'[i])) /\ (\A e \in Executions : Good(ckpt'[e]))
  <2> HIDE DEF Good
  <2> QED
    BY <1>1, <1>4
<1>5. ASSUME NEW j \in Jobs, ContextStep(j)
      PROVE  (\A i \in Jobs : Good(ctx'[i])) /\ (\A e \in Executions : Good(ckpt'[e]))
  <2> USE DEF apiVars, redisVars, dbVars, workVars, msgVars
  <2> HIDE DEF Good
  <2>1. CASE ReuseExecution(j)
    <3>1. PICK e \in Executions : ctx' = [ctx EXCEPT ![j] = ckpt[e]]
      BY <2>1, JobsAreRows DEF ReuseExecution, LatestRows
    <3> QED
      BY <3>1, <2>1, <1>1, <1>4 DEF ReuseExecution
  <2>2. CASE NewExecution(j)
    <3>1. Good(EmptyContext)
      BY EmptyContextOK DEF Good
    <3> QED
      BY <3>1, <2>2, EmptyContextOK, <1>4 DEF NewExecution
  <2>3. CASE CacheHit(j)
    <3> DEFINE c == [ctx[j] EXCEPT !.slides = CachedSlides, !.done = [a \in Agents |-> 1]]
    <3>1. c \in Context
      BY <1>1, ContextUpdates
    <3>2. c.done = [a \in Agents |-> 1] /\ c.slides = CachedSlides
      BY <1>1 DEF Context
    <3>3. ctx' = [ctx EXCEPT ![j] = c] /\ ckpt' = ckpt
      BY <2>3 DEF CacheHit
    <3> HIDE DEF c
    <3>4. Good(c)
      BY <3>2, AgentOrder DEF Good, InOrder, NoRepeat, DeckFollows, Done, CachedSlides, NoSlides
    <3> QED
      BY <3>1, <3>3, <3>4, <1>4
  <2>4. CASE StopCancelled(j) \/ StopBeforeAgent(j) \/ PersistFails(j)
    <3> DEFINE c == [ctx[j] EXCEPT !.failed = TRUE]
    <3>1. /\ c \in Context /\ c.done = ctx[j].done /\ c.feedback = ctx[j].feedback
          /\ c.slides = ctx[j].slides /\ c.raw = ctx[j].raw
      BY <1>1, ContextUpdates DEF Context
    <3>2. ctx' = [ctx EXCEPT ![j] = c] /\ ckpt' = ckpt
      BY <2>4 DEF StopCancelled, StopBeforeAgent, PersistFails
    <3> HIDE DEF c
    <3>3. Good(c)
      BY <3>1, <1>1, OrderOfDone DEF Good
    <3> QED
      BY <3>1, <3>2, <3>3, <1>4
  <2>5. CASE AgentSucceeds(j)
    <3>1. PICK a \in Agents, low \in BOOLEAN :
            NextAgent(ctx[j], a) /\ ctx' = [ctx EXCEPT ![j] = RunAgent(ctx[j], a, low)]
      BY <2>5 DEF AgentSucceeds
    <3>2. Good(RunAgent(ctx[j], a, low)) /\ RunAgent(ctx[j], a, low) \in Context
      BY <3>1, <1>1, RunAgentKeepsOrder, RunAgentFollows, RunAgentType DEF Good
    <3> QED
      BY <3>1, <3>2, <2>5, <1>4 DEF AgentSucceeds
  <2>6. CASE AgentFails(j)
    <3>1. PICK s \in {ctx[j].scored, ctx[j].slides} :
              ctx' = [ctx EXCEPT ![j] = [ctx[j] EXCEPT !.failed = TRUE, !.scored = s]]
      BY <2>6 DEF AgentFails
    <3> DEFINE c == [ctx[j] EXCEPT !.failed = TRUE, !.scored = s]
    <3>2. c \in Context
      BY <1>1, ContextUpdates
    <3>3. /\ c.done = ctx[j].done /\ c.feedback = ctx[j].feedback
          /\ c.slides = ctx[j].slides /\ c.raw = ctx[j].raw
      BY <1>1 DEF Context
    <3>4. ctx' = [ctx EXCEPT ![j] = c] /\ ckpt' = ckpt
      BY <3>1, <2>6 DEF AgentFails
    <3> HIDE DEF c
    <3>5. Good(c)
      BY <3>3, <1>1, OrderOfDone DEF Good
    <3> QED
      BY <3>2, <3>4, <3>5, <1>4
  <2>7. CASE PersistCheckpoint(j)
    <3>1. ckpt' = [ckpt EXCEPT ![execOf[j]] = ctx[j]] /\ ctx' = ctx
      BY <2>7 DEF PersistCheckpoint
    <3> QED
      BY <3>1, <1>1
  <2>9. CASE ClearFails(j)
    <3>1. ctx' = [ctx EXCEPT ![j] = [ctx[j] EXCEPT !.failed = TRUE]] /\ ckpt' = ckpt
      BY <2>9 DEF ClearFails
    <3> DEFINE c == [ctx[j] EXCEPT !.failed = TRUE]
    <3>2. c \in Context
      BY <1>1, ContextUpdates
    <3>3. /\ c.done = ctx[j].done /\ c.feedback = ctx[j].feedback
          /\ c.slides = ctx[j].slides /\ c.raw = ctx[j].raw
      BY <1>1 DEF Context
    <3>4. ctx' = [ctx EXCEPT ![j] = c] /\ ckpt' = ckpt
      BY <3>1
    <3> HIDE DEF c
    <3>5. Good(c)
      BY <3>3, <1>1, OrderOfDone DEF Good
    <3> QED
      BY <3>2, <3>4, <3>5, <1>4
  <2>8. CASE WorkerDies(j)
    <3>1. Good(EmptyContext)
      BY EmptyContextOK DEF Good
    <3> QED
      BY <3>1, <2>8, EmptyContextOK, <1>4 DEF WorkerDies
  <2> QED
    BY <1>5, <2>1, <2>2, <2>3, <2>4, <2>5, <2>6, <2>7, <2>8, <2>9 DEF ContextStep
<1> QED
  BY <1>3, <1>5, OtherSteps

LEMMA InitOrder == Init => ExecutionOrder /\ NoAgentTwice /\ DecksFollow
BY EmptyContextOK DEF Init, ExecutionOrder, NoAgentTwice, DecksFollow

(* Whatever is interrupted, redelivered, retried or run at the same time,  *)
(* no context and no checkpoint lists an agent before the agents it needs, *)
(* nor an agent twice, which would make the length of the list, tested by  *)
(* the task, say something else than its set, tested by _finalize.         *)
THEOREM ListsAreSound == Spec => []AgentListsSound
<1>1. Init => OrderInv
  BY InitTypeOK, InitOrder DEF OrderInv
<1>2. OrderInv /\ [Next]_vars => OrderInv'
  BY NextTypeOK, NextOrder DEF OrderInv
<1>3. OrderInv => AgentListsSound
  BY DEF OrderInv, AgentListsSound
<1> QED
  BY <1>1, <1>2, <1>3, PTL DEF Spec

-----------------------------------------------------------------------------
(* Checkpoints without a failure.                                          *)

(* No fault, or no cancellation, has happened yet. *)
Untroubled == cancels = 0 \/ faults = 0

(* A task that may still write a checkpoint has seen no failure.           *)
RunsClean ==
    Untroubled =>
        \A j \in Jobs : pc[j] \in {"lookup", "cachefin", "poll", "start", "running", "persist"}
                            => ~ctx[j].failed

(* Without a request there is no flag. *)
Flagless == cancels = 0 => \A j \in Jobs : cancelReq[j] = "idle" /\ ~cancelFlag[j]

CleanInv == TypeOK /\ Flagless /\ CleanCheckpoints /\ RunsClean

LEMMA NextFlagless == TypeOK /\ Flagless /\ [Next]_vars => Flagless'
<1> SUFFICES ASSUME TypeOK, Flagless, [Next]_vars, cancels' = 0, NEW i \in Jobs
             PROVE  cancelReq'[i] = "idle" /\ ~cancelFlag'[i]
  BY DEF Flagless
<1> USE DEF apiVars, redisVars, dbVars, workVars, msgVars, Goto
<1>1. /\ cancels \in Nat /\ cancelFlag \in [Jobs -> BOOLEAN]
      /\ cancelReq \in [Jobs -> {"idle", "checked", "flagged"}]
      /\ cancels = 0 => \A j \in Jobs : cancelReq[j] = "idle" /\ ~cancelFlag[j]
  BY JobsAssumption DEF TypeOK, Flagless
<1>2. ASSUME UNCHANGED <<cancels, cancelReq, cancelFlag>> PROVE cancelReq'[i] = "idle" /\ ~cancelFlag'[i]
  BY <1>1, <1>2
<1>3. ASSUME NEW j \in Jobs, Api(j) PROVE cancelReq'[i] = "idle" /\ ~cancelFlag'[i]
  <2>1. CASE CreatePresentation(j) \/ RegenerateCommit(j) \/ Enqueue(j)
    BY <1>2, <2>1 DEF CreatePresentation, RegenerateCommit, Enqueue
  <2>2. ~CancelCheck(j)
    BY <1>1 DEF CancelCheck
  <2>3. ~CancelSignal(j) /\ ~CancelCommit(j)
    BY <1>1 DEF CancelSignal, CancelCommit
  <2> QED
    BY <1>3, <2>1, <2>2, <2>3 DEF Api
<1>4. ASSUME NEW j \in Jobs, Work(j) PROVE cancelReq'[i] = "idle" /\ ~cancelFlag'[i]
  <2>1. CASE StopCancelled(j)
    BY <1>1, <2>1 DEF StopCancelled
  <2>2. CASE ~StopCancelled(j)
    <3>1. UNCHANGED <<cancels, cancelReq, cancelFlag>>
      BY <1>4, <2>2 DEF Work, Deliver, IgnoreDuplicate, MarkProcessing, ReuseExecution,
         NewExecution, CacheHit, CacheMiss, LeaveLoop, StopBeforeAgent, PollAllows, StartAgent,
         AgentSucceeds, AgentFails, PersistCheckpoint, PersistPartial, FinalizeCommit,
         FinalizePublish, SafetyNet, RetryTask, GiveUp, OnFailure
    <3> QED
      BY <1>2, <3>1
  <2> QED
    BY <2>1, <2>2
<1>5. ASSUME NEW j \in Jobs, Faulty(j) PROVE cancelReq'[i] = "idle" /\ ~cancelFlag'[i]
  <2>1. ~ClearFails(j)
    BY <1>1 DEF ClearFails
  <2>2. UNCHANGED <<cancels, cancelReq, cancelFlag>>
    BY <1>5, <2>1 DEF Faulty, ApiDies, PollFails, PersistFails, Raise, CacheFinalizeFails,
       MarkProcessingFails, ExceptFails, OnFailureFails, WorkerDies
  <2> QED
    BY <1>2, <2>2
<1>6. ASSUME NEW j \in Jobs, FlagExpires(j) PROVE cancelReq'[i] = "idle" /\ ~cancelFlag'[i]
  BY <1>1, <1>6 DEF FlagExpires
<1>7. CASE RegenerateCheck \/ StreamExpires \/ Settled \/ UNCHANGED vars
  <2>1. UNCHANGED <<cancels, cancelReq, cancelFlag>>
    BY <1>7 DEF RegenerateCheck, StreamExpires, Settled, vars
  <2> QED
    BY <1>2, <2>1
<1> QED
  BY <1>3, <1>4, <1>5, <1>6, <1>7 DEF Next

(* The two counters only grow. *)
LEMMA CountersGrow == TypeOK /\ [Next]_vars => cancels' >= cancels /\ faults' >= faults
<1> SUFFICES ASSUME TypeOK, [Next]_vars
             PROVE  cancels' >= cancels /\ faults' >= faults
  OBVIOUS
<1> USE DEF apiVars, redisVars, dbVars, workVars, msgVars, Fault
<1>1. cancels \in Nat /\ faults \in Nat
  BY JobsAssumption DEF TypeOK
<1>2. ASSUME NEW j \in Jobs, Api(j) PROVE cancels' >= cancels /\ faults' >= faults
  BY <1>1, <1>2 DEF Api, CreatePresentation, RegenerateCommit, Enqueue, CancelCheck,
     CancelSignal, CancelCommit
<1>3. ASSUME NEW j \in Jobs, Work(j) PROVE cancels' >= cancels /\ faults' >= faults
  BY <1>1, <1>3 DEF Work, Deliver, IgnoreDuplicate, MarkProcessing, ReuseExecution, NewExecution,
     CacheHit, CacheMiss, LeaveLoop, StopCancelled, StopBeforeAgent, PollAllows, StartAgent,
     AgentSucceeds, AgentFails, PersistCheckpoint, PersistPartial, FinalizeCommit,
     FinalizePublish, SafetyNet, RetryTask, GiveUp, OnFailure
<1>4. ASSUME NEW j \in Jobs, Faulty(j) PROVE cancels' >= cancels /\ faults' >= faults
  BY <1>1, <1>4 DEF Faulty, ApiDies, PollFails, ClearFails, PersistFails, Raise,
     CacheFinalizeFails, MarkProcessingFails, ExceptFails, OnFailureFails, WorkerDies
<1>5. CASE (\E j \in Jobs : FlagExpires(j)) \/ RegenerateCheck \/ StreamExpires \/ Settled
           \/ UNCHANGED vars
  BY <1>1, <1>5 DEF FlagExpires, RegenerateCheck, StreamExpires, Settled, vars
<1> QED
  BY <1>2, <1>3, <1>4, <1>5 DEF Next

LEMMA TroubleStays == TypeOK /\ [Next]_vars /\ Untroubled' => Untroubled
BY CountersGrow, JobsAssumption DEF Untroubled, TypeOK

LEMMA NextClean == CleanInv /\ [Next]_vars => CleanCheckpoints' /\ RunsClean'
<1> SUFFICES ASSUME CleanInv, [Next]_vars, Untroubled'
             PROVE  CleanCheckpoints' /\ RunsClean'
  BY DEF CleanCheckpoints, RunsClean, Untroubled
<1>0. Untroubled
  BY TroubleStays DEF CleanInv
<1> DEFINE Open == {"lookup", "cachefin", "poll", "start", "running", "persist"}
<1>1. /\ \A i \in Jobs : pc[i] \in Open => ~ctx[i].failed
      /\ \A e \in Executions : ~ckpt[e].failed
      /\ \A i \in Jobs : ctx[i] \in Context
      /\ ctx \in [Jobs -> Context] /\ ckpt \in [Executions -> Context]
      /\ pc \in [Jobs -> Inside \cup Outside] /\ execOf \in [Jobs -> Executions]
  BY <1>0 DEF CleanInv, TypeOK, CleanCheckpoints, RunsClean, Untroubled
<1>2. SUFFICES /\ \A i \in Jobs : pc'[i] \in Open => ~ctx'[i].failed
               /\ \A e \in Executions : ~ckpt'[e].failed
  BY DEF CleanCheckpoints, RunsClean
<1> HIDE DEF Open
<1>3. ~EmptyContext.failed
  BY DEF EmptyContext
(* a task moves on with a clean context, or leaves the loop *)
<1>4. ASSUME NEW j \in Jobs, NEW label, pc' = [pc EXCEPT ![j] = label],
             NEW c \in Context, ctx' = [ctx EXCEPT ![j] = c], ckpt' = ckpt,
             label \in Open => ~c.failed
      PROVE  (\A i \in Jobs : pc'[i] \in Open => ~ctx'[i].failed)
             /\ (\A e \in Executions : ~ckpt'[e].failed)
  BY <1>1, <1>4
<1>5. ASSUME NEW j \in Jobs, NEW label, pc' = [pc EXCEPT ![j] = label],
             ctx' = ctx, ckpt' = ckpt, label \in Open => pc[j] \in Open
      PROVE  (\A i \in Jobs : pc'[i] \in Open => ~ctx'[i].failed)
             /\ (\A e \in Executions : ~ckpt'[e].failed)
  BY <1>1, <1>5
<1> USE DEF apiVars, redisVars, dbVars, workVars, msgVars, Goto
<1>6. ASSUME UNCHANGED <<pc, ctx, ckpt>>
      PROVE  (\A i \in Jobs : pc'[i] \in Open => ~ctx'[i].failed)
             /\ (\A e \in Executions : ~ckpt'[e].failed)
  BY <1>1, <1>6
<1>7. ASSUME NEW j \in Jobs, Api(j)
      PROVE  (\A i \in Jobs : pc'[i] \in Open => ~ctx'[i].failed)
             /\ (\A e \in Executions : ~ckpt'[e].failed)
  <2>1. CASE CreatePresentation(j) \/ RegenerateCommit(j)
    BY <2>1, <1>5 DEF CreatePresentation, RegenerateCommit, Open
  <2>2. CASE Enqueue(j)
    BY <2>2, <1>5 DEF Enqueue, Open
  <2>3. CASE CancelCheck(j) \/ CancelSignal(j) \/ CancelCommit(j)
    BY <2>3, <1>6 DEF CancelCheck, CancelSignal, CancelCommit
  <2> QED
    BY <1>7, <2>1, <2>2, <2>3 DEF Api
<1>8. ASSUME NEW j \in Jobs, Work(j) \/ Faulty(j)
      PROVE  (\A i \in Jobs : pc'[i] \in Open => ~ctx'[i].failed)
             /\ (\A e \in Executions : ~ckpt'[e].failed)
  <2>1. CASE Deliver(j) \/ IgnoreDuplicate(j) \/ MarkProcessing(j) \/ RetryTask(j) \/ GiveUp(j)
             \/ OnFailure(j)
    BY <2>1, <1>5 DEF Deliver, IgnoreDuplicate, MarkProcessing, RetryTask, GiveUp, OnFailure, Open
  <2>2. CASE ReuseExecution(j)
    <3>1. PICK e \in Executions : ctx' = [ctx EXCEPT ![j] = ckpt[e]]
      BY <2>2, JobsAreRows DEF ReuseExecution, LatestRows
    <3>2. ckpt[e] \in Context /\ ~ckpt[e].failed
      BY <1>1
    <3> QED
      BY <3>1, <3>2, <2>2, <1>4 DEF ReuseExecution
  <2>3. CASE NewExecution(j)
    BY <2>3, <1>3, <1>4, EmptyContextOK DEF NewExecution
  <2>4. CASE CacheHit(j)
    <3> DEFINE c == [ctx[j] EXCEPT !.slides = CachedSlides, !.done = [a \in Agents |-> 1]]
    <3>1. c \in Context /\ c.failed = ctx[j].failed
      BY <1>1, ContextUpdates DEF Context
    <3>2. ctx' = [ctx EXCEPT ![j] = c] /\ ckpt' = ckpt /\ pc' = [pc EXCEPT ![j] = "cachefin"]
      BY <2>4 DEF CacheHit
    <3>3. ~ctx[j].failed
      BY <2>4, <1>1 DEF CacheHit, Open
    <3> HIDE DEF c
    <3> QED
      BY <3>1, <3>2, <3>3, <1>4
  <2>5. CASE CacheMiss(j) \/ PollAllows(j) \/ StartAgent(j)
    BY <2>5, <1>5 DEF CacheMiss, PollAllows, StartAgent, Open
  <2>6. CASE LeaveLoop(j) \/ PersistPartial(j) \/ FinalizeCommit(j) \/ FinalizePublish(j)
             \/ SafetyNet(j)
    BY <2>6, <1>5 DEF LeaveLoop, PersistPartial, FinalizeCommit, FinalizePublish, SafetyNet, Open
  <2>7. CASE StopCancelled(j) \/ StopBeforeAgent(j) \/ PersistFails(j)
    <3>1. PICK label \in {"finalize", "partial"} : pc' = [pc EXCEPT ![j] = label]
      BY <2>7 DEF StopCancelled, StopBeforeAgent, PersistFails
    <3>2. ctx' = [ctx EXCEPT ![j] = [ctx[j] EXCEPT !.failed = TRUE]] /\ ckpt' = ckpt
      BY <2>7 DEF StopCancelled, StopBeforeAgent, PersistFails
    <3>3. [ctx[j] EXCEPT !.failed = TRUE] \in Context /\ label \notin Open
      BY <1>1, ContextUpdates DEF Open
    <3> QED
      BY <3>1, <3>2, <3>3, <1>4
  <2>8. CASE AgentSucceeds(j)
    <3>1. PICK a \in Agents, low \in BOOLEAN : ctx' = [ctx EXCEPT ![j] = RunAgent(ctx[j], a, low)]
      BY <2>8 DEF AgentSucceeds
    <3>2. ~ctx[j].failed
      BY <2>8, <1>1 DEF AgentSucceeds, Open
    <3>3. RunAgent(ctx[j], a, low) \in Context /\ ~RunAgent(ctx[j], a, low).failed
      BY <3>2, <1>1, RunAgentType, RunAgentClean
    <3> QED
      BY <3>1, <3>3, <2>8, <1>4 DEF AgentSucceeds
  <2>9. CASE AgentFails(j)
    <3>1. PICK s \in {ctx[j].scored, ctx[j].slides} :
              ctx' = [ctx EXCEPT ![j] = [ctx[j] EXCEPT !.failed = TRUE, !.scored = s]]
      BY <2>9 DEF AgentFails
    <3>2. [ctx[j] EXCEPT !.failed = TRUE, !.scored = s] \in Context /\ "partial" \notin Open
      BY <1>1, ContextUpdates DEF Open
    <3>3. pc' = [pc EXCEPT ![j] = "partial"] /\ ckpt' = ckpt
      BY <2>9 DEF AgentFails
    <3> QED
      BY <3>1, <3>2, <3>3, <1>4
  <2>10. CASE PersistCheckpoint(j)
    <3>1. ~ctx[j].failed
      BY <2>10, <1>1 DEF PersistCheckpoint, Open
    <3>2. ckpt' = [ckpt EXCEPT ![execOf[j]] = ctx[j]] /\ ctx' = ctx
             /\ pc' = [pc EXCEPT ![j] = "poll"]
      BY <2>10, <3>1 DEF PersistCheckpoint
    <3> QED
      BY <3>1, <3>2, <1>1
  <2>11. CASE ApiDies(j) \/ PollFails(j) \/ Raise(j) \/ MarkProcessingFails(j)
              \/ ExceptFails(j) \/ OnFailureFails(j)
    BY <2>11, <1>5 DEF ApiDies, PollFails, Raise, MarkProcessingFails, ExceptFails, OnFailureFails, Open
  <2>14. ~ClearFails(j)
    <3>1. ClearFails(j) =>
             cancels' = cancels /\ faults' # 0 /\ cancelFlag[j] /\ cancels \in Nat
      BY JobsAssumption DEF ClearFails, Fault, CleanInv, TypeOK
    <3> QED
      BY <3>1 DEF Untroubled, CleanInv, Flagless
  <2>12. CASE CacheFinalizeFails(j)
    BY <2>12, <1>5 DEF CacheFinalizeFails, Open
  <2>13. CASE WorkerDies(j)
    BY <2>13, <1>3, <1>4, EmptyContextOK DEF WorkerDies
  <2> QED
    BY <1>8, <2>1, <2>2, <2>3, <2>4, <2>5, <2>6, <2>7, <2>8, <2>9, <2>10, <2>11, <2>12, <2>13, <2>14
       DEF Work, Faulty
<1>9. CASE (\E j \in Jobs : FlagExpires(j)) \/ RegenerateCheck \/ StreamExpires \/ Settled
           \/ UNCHANGED vars
  BY <1>9, <1>6 DEF FlagExpires, RegenerateCheck, StreamExpires, Settled, vars
<1> QED
  BY <1>7, <1>8, <1>9 DEF Next

(* No checkpoint records a failure, so a resumed run always gets to run    *)
(* the agents its checkpoint lacks; only after a cancellation and a fault, *)
(* of Redis where the flag is cleared, may one say that its run failed.    *)
THEOREM CheckpointsAreClean == Spec => []CleanCheckpoints
<1>1. Init => CleanInv
  BY InitTypeOK DEF Init, CleanInv, Flagless, CleanCheckpoints, RunsClean, EmptyContext
<1>2. CleanInv /\ [Next]_vars => CleanInv'
  BY NextTypeOK, NextFlagless, NextClean DEF CleanInv
<1>3. CleanInv => CleanCheckpoints
  BY DEF CleanInv
<1> QED
  BY <1>1, <1>2, <1>3, PTL DEF Spec

-----------------------------------------------------------------------------
(* Idempotency keys and cancellation.                                      *)

(* A job in a worker owns its key in Redis. *)
OwnsKey == \A j \in Jobs : pc[j] \in Inside => idem[key[j]] = j

LEMMA NextOwnsKey == TypeOK /\ OwnsKey /\ [Next]_vars => OwnsKey'
<1> SUFFICES ASSUME TypeOK, OwnsKey, [Next]_vars, NEW i \in Jobs, pc'[i] \in Inside
             PROVE  idem'[key'[i]] = i
  BY DEF OwnsKey
<1> USE DEF apiVars, redisVars, dbVars, workVars, msgVars, Goto, Inside
<1>1. /\ pc \in [Jobs -> Inside \cup Outside] /\ idem \in [Jobs -> Jobs \cup {0}]
      /\ key \in [Jobs -> Jobs]
      /\ pc[i] \in Inside => idem[key[i]] = i
  BY DEF TypeOK, OwnsKey
<1>2. ASSUME NEW j \in Jobs, Deliver(j) PROVE idem'[key'[i]] = i
  <2>1. idem[key[j]] \in {0, j} /\ idem' = [idem EXCEPT ![key[j]] = j]
          /\ pc' = [pc EXCEPT ![j] = "delivered"] /\ key' = key
    BY <1>2 DEF Deliver
  <2>2. CASE i = j
    BY <2>1, <2>2, <1>1
  <2>3. CASE i # j
    <3>1. pc[i] \in Inside
      BY <2>1, <2>3, <1>1
    <3>2. key[i] # key[j]
      BY <2>1, <2>3, <3>1, <1>1, JobsAreRows
    <3> QED
      BY <2>1, <3>1, <3>2, <1>1
  <2> QED
    BY <2>2, <2>3
<1>3. ASSUME NEW j \in Jobs, RegenerateCommit(j) PROVE idem'[key'[i]] = i
  <2>1. pc' = [pc EXCEPT ![j] = "committed"] /\ idem' = idem
    BY <1>3 DEF RegenerateCommit
  <2>2. i # j /\ pc[i] \in Inside
    BY <2>1, <1>1
  <2>3. key'[i] = key[i]
    BY <2>2, <1>1, <1>3 DEF RegenerateCommit
  <2> QED
    BY <2>1, <2>2, <2>3, <1>1
<1>4. ASSUME idem' = idem, key' = key, pc[i] \in Inside PROVE idem'[key'[i]] = i
  BY <1>1, <1>4
<1>5. ASSUME NEW j \in Jobs, Api(j) PROVE idem'[key'[i]] = i
  <2>1. CASE CreatePresentation(j) \/ Enqueue(j)
    BY <2>1, <1>1, <1>4 DEF CreatePresentation, Enqueue
  <2>2. CASE CancelCheck(j) \/ CancelSignal(j) \/ CancelCommit(j)
    BY <2>2, <1>4 DEF CancelCheck, CancelSignal, CancelCommit
  <2> QED
    BY <1>3, <1>5, <2>1, <2>2 DEF Api
<1>6. ASSUME NEW j \in Jobs, Work(j), ~Deliver(j) PROVE idem'[key'[i]] = i
  <2>1. idem' = idem /\ key' = key
    BY <1>6 DEF Work, IgnoreDuplicate, MarkProcessing, ReuseExecution, NewExecution, CacheHit,
       CacheMiss, LeaveLoop, StopCancelled, StopBeforeAgent, PollAllows, StartAgent,
       AgentSucceeds, AgentFails, PersistCheckpoint, PersistPartial, FinalizeCommit,
       FinalizePublish, SafetyNet, RetryTask, GiveUp, OnFailure
  <2>2. /\ pc[j] \in Inside \/ pc'[j] \notin Inside
        /\ \A l \in Jobs : l # j => pc'[l] = pc[l]
    BY <1>1, <1>6 DEF Work, IgnoreDuplicate, MarkProcessing, ReuseExecution, NewExecution,
       CacheHit, CacheMiss, LeaveLoop, StopCancelled, StopBeforeAgent, PollAllows, StartAgent,
       AgentSucceeds, AgentFails, PersistCheckpoint, PersistPartial, FinalizeCommit,
       FinalizePublish, SafetyNet, RetryTask, GiveUp, OnFailure
  <2> QED
    BY <2>1, <2>2, <1>4
<1>7. ASSUME NEW j \in Jobs, Faulty(j) PROVE idem'[key'[i]] = i
  <2>1. idem' = idem /\ key' = key
    BY <1>7 DEF Faulty, ApiDies, PersistFails, Raise, CacheFinalizeFails,
       MarkProcessingFails, PollFails, ClearFails, ExceptFails, OnFailureFails, WorkerDies
  <2>2. /\ pc[j] \in Inside \/ pc'[j] \notin Inside
        /\ \A l \in Jobs : l # j => pc'[l] = pc[l]
    BY <1>1, <1>7 DEF Faulty, ApiDies, PersistFails, Raise, CacheFinalizeFails,
       MarkProcessingFails, PollFails, ClearFails, ExceptFails, OnFailureFails, WorkerDies
  <2> QED
    BY <2>1, <2>2, <1>4
<1>8. CASE (\E j \in Jobs : FlagExpires(j)) \/ RegenerateCheck \/ StreamExpires \/ Settled
           \/ UNCHANGED vars
  BY <1>8, <1>4 DEF FlagExpires, RegenerateCheck, StreamExpires, Settled, vars
<1> QED
  BY <1>2, <1>5, <1>6, <1>7, <1>8 DEF Next

(* The idempotency key lets one job through: two requests of one key are   *)
(* never in workers at the same time, over crashes, retries and any        *)
(* number of regenerations.                                                *)
THEOREM KeysAreExclusive == Spec => []OneRunPerKey
<1>1. Init => OwnsKey
  BY DEF Init, OwnsKey, Inside
<1>2. OwnsKey => OneRunPerKey
  BY DEF OwnsKey, OneRunPerKey
<1> QED
  BY <1>1, <1>2, NextOwnsKey, TypeCorrect, PTL DEF Spec

(* A task about to start an agent has not started one since the flag was   *)
(* set: it polled before.                                                  *)
PolledBeforeStart ==
    \A j \in Jobs : /\ late[j] \in {0, 1}
                    /\ pc[j] = "start" /\ cancelFlag[j] => late[j] = 0

LEMMA NextPolled == TypeOK /\ PolledBeforeStart /\ [Next]_vars => PolledBeforeStart'
<1> SUFFICES ASSUME TypeOK, PolledBeforeStart, [Next]_vars, NEW i \in Jobs
             PROVE  /\ late'[i] \in {0, 1}
                    /\ pc'[i] = "start" /\ cancelFlag'[i] => late'[i] = 0
  BY DEF PolledBeforeStart
<1> USE DEF apiVars, redisVars, dbVars, workVars, msgVars, Goto
<1> DEFINE Goal == /\ late'[i] \in {0, 1}
                   /\ pc'[i] = "start" /\ cancelFlag'[i] => late'[i] = 0
<1>1. /\ pc \in [Jobs -> Inside \cup Outside] /\ late \in [Jobs -> Nat]
      /\ cancelFlag \in [Jobs -> BOOLEAN]
      /\ late[i] \in {0, 1} /\ (pc[i] = "start" /\ cancelFlag[i] => late[i] = 0)
  BY DEF TypeOK, PolledBeforeStart
<1>2. ASSUME NEW j \in Jobs, CancelSignal(j) \/ FlagExpires(j) \/ StopCancelled(j)
                              \/ PollFails(j) \/ ClearFails(j)
      PROVE  Goal
  <2>1. /\ late' = [late EXCEPT ![j] = 0]
        /\ \A l \in Jobs : l # j => cancelFlag'[l] = cancelFlag[l] /\ pc'[l] = pc[l]
    BY <1>1, <1>2 DEF CancelSignal, FlagExpires, StopCancelled, PollFails, ClearFails
  <2> QED
    BY <2>1, <1>1
<1>3. ASSUME NEW j \in Jobs, StartAgent(j) PROVE Goal
  BY <1>1, <1>3 DEF StartAgent
<1>4. ASSUME NEW j \in Jobs, PollAllows(j) PROVE Goal
  BY <1>1, <1>4 DEF PollAllows
<1>5. ASSUME UNCHANGED <<late, cancelFlag>>, pc'[i] = "start" => pc[i] = "start" PROVE Goal
  BY <1>1, <1>5
<1> HIDE DEF Goal
<1>6. ASSUME NEW j \in Jobs, Api(j), ~CancelSignal(j) PROVE Goal
  BY <1>1, <1>5, <1>6 DEF Api, CreatePresentation, RegenerateCommit, Enqueue, CancelCheck,
     CancelCommit
<1>7. ASSUME NEW j \in Jobs, Work(j), ~StopCancelled(j), ~StartAgent(j), ~PollAllows(j) PROVE Goal
  <2>1. UNCHANGED <<late, cancelFlag>>
    BY <1>7 DEF Work, Deliver, IgnoreDuplicate, MarkProcessing, ReuseExecution, NewExecution,
       CacheHit, CacheMiss, LeaveLoop, StopBeforeAgent, AgentSucceeds, AgentFails,
       PersistCheckpoint, PersistPartial, FinalizeCommit, FinalizePublish, SafetyNet,
       RetryTask, GiveUp, OnFailure
  <2>2. pc'[i] = "start" => pc[i] = "start"
    BY <1>1, <1>7 DEF Work, Deliver, IgnoreDuplicate, MarkProcessing, ReuseExecution,
       NewExecution, CacheHit, CacheMiss, LeaveLoop, StopBeforeAgent, AgentSucceeds, AgentFails,
       PersistCheckpoint, PersistPartial, FinalizeCommit, FinalizePublish, SafetyNet,
       RetryTask, GiveUp, OnFailure
  <2> QED
    BY <2>1, <2>2, <1>5
<1>8. ASSUME NEW j \in Jobs, Faulty(j), ~PollFails(j), ~ClearFails(j) PROVE Goal
  BY <1>1, <1>5, <1>8 DEF Faulty, ApiDies, PersistFails, Raise, CacheFinalizeFails,
     MarkProcessingFails, ExceptFails, OnFailureFails, WorkerDies
<1>9. CASE RegenerateCheck \/ StreamExpires \/ Settled \/ UNCHANGED vars
  <2>1. UNCHANGED <<late, cancelFlag, pc>>
    BY <1>9 DEF RegenerateCheck, StreamExpires, Settled, vars
  <2> QED
    BY <2>1, <1>5 DEF Goal
<1> QED
  BY <1>2, <1>3, <1>4, <1>6, <1>7, <1>8, <1>9 DEF Next, Api, Work, Goal

(* From the moment a cancellation flag is in Redis, the running job starts *)
(* at most the one agent it had polled for, whatever is lost or retried,   *)
(* and one more for every later poll during which Redis fails.             *)
THEOREM CancellationIsPrompt == Spec => []CancelStopsWithinOneAgent
<1>1. Init => PolledBeforeStart
  BY DEF Init, PolledBeforeStart
<1>2. TypeOK /\ PolledBeforeStart => CancelStopsWithinOneAgent
  BY DEF TypeOK, PolledBeforeStart, CancelStopsWithinOneAgent
<1> QED
  BY <1>1, <1>2, NextPolled, TypeCorrect, PTL DEF Spec

-----------------------------------------------------------------------------
(* One task at a time: the checkpoints are those of uninterrupted runs.    *)
(* With several jobs it is not so (two tasks can work in one execution),   *)
(* hence the assumption of a single job; everything else is arbitrary.     *)

OneJob == MaxJobs = 1

(* A row that nobody has inserted has no checkpoint. *)
FreshRows == \A e \in Executions : execStatus[e] = "none" => ckpt[e] = EmptyContext

(* The task works in a row that exists. *)
RowsExist ==
    \A j \in Jobs : pc[j] \in {"lookup", "cachefin", "poll", "start", "running", "persist"}
                        => execStatus[execOf[j]] # "none"

(* After a cache hit every agent counts as done. *)
CachedIsDone == \A j \in Jobs : pc[j] = "cachefin" => AllDone(ctx[j])

(* d is c, with a note perhaps that the run was asked to stop. *)
Noted(c, d) == \E noted \in BOOLEAN : d = [c EXCEPT !.failed = @ \/ noted]

(* Between two agents the context is the checkpoint, but for that note. *)
NothingAhead ==
    \A j \in Jobs :
        pc[j] \in {"lookup", "poll", "start", "running"} /\ ~AllDone(ctx[j]) =>
            Noted(ckpt[execOf[j]], ctx[j])

(* What is about to be persisted is the checkpoint and one more agent. *)
OneAgentAhead ==
    \A j \in Jobs : pc[j] = "persist" =>
        \E a \in Agents, low \in BOOLEAN :
            /\ NextAgent(ckpt[execOf[j]], a)
            /\ Noted(RunAgent(ckpt[execOf[j]], a, low), ctx[j])

RunInv == TypeOK /\ FreshRows /\ RowsExist /\ CachedIsDone /\ NothingAhead /\ OneAgentAhead

LEMMA NotedContexts ==
    ASSUME NEW c \in Context, NEW d, Noted(c, d)
    PROVE  /\ d \in Context /\ SameWork(c, d)
           /\ d.done = c.done /\ d.feedback = c.feedback /\ d.raw = c.raw
           /\ d.slides = c.slides /\ d.scored = c.scored
           /\ c.failed => d.failed
           /\ AllDone(d) <=> AllDone(c)
           /\ \A a \in Agents : NextAgent(d, a) <=> NextAgent(c, a)
<1>1. PICK noted \in BOOLEAN : d = [c EXCEPT !.failed = c.failed \/ noted]
  BY DEF Noted
<1>2. /\ d \in Context /\ d.failed = (c.failed \/ noted)
      /\ d.done = c.done /\ d.feedback = c.feedback /\ d.raw = c.raw
      /\ d.slides = c.slides /\ d.scored = c.scored
  BY <1>1 DEF Context
<1>3. SameWork(c, d)
  BY <1>1, <1>2 DEF SameWork
<1>4. Done(d) = Done(c)
  BY <1>2 DEF Done
<1> QED
  BY <1>2, <1>3, <1>4 DEF AllDone, NextAgent

LEMMA NotedSelf == ASSUME NEW c \in Context PROVE Noted(c, c)
<1>1. c = [c EXCEPT !.failed = c.failed \/ FALSE]
  BY DEF Context
<1> QED
  BY <1>1 DEF Noted

LEMMA NotedAgain ==
    ASSUME NEW c \in Context, NEW d, Noted(c, d)
    PROVE  Noted(c, [d EXCEPT !.failed = TRUE])
<1>1. PICK noted \in BOOLEAN : d = [c EXCEPT !.failed = c.failed \/ noted]
  BY DEF Noted
<1>2. [d EXCEPT !.failed = TRUE] = [c EXCEPT !.failed = c.failed \/ TRUE]
  BY <1>1 DEF Context
<1> QED
  BY <1>2 DEF Noted

(* No agent looks at the note. *)
LEMMA NotedRuns ==
    ASSUME NEW c \in Context, NEW d, Noted(c, d), NEW a \in Agents, NEW low \in BOOLEAN
    PROVE  Noted(RunAgent(c, a, low), RunAgent(d, a, low))
<1>1. PICK noted \in BOOLEAN : d = [c EXCEPT !.failed = c.failed \/ noted]
  BY DEF Noted
<1>2. /\ d \in Context /\ d.failed = (c.failed \/ noted)
      /\ d.done = c.done /\ d.feedback = c.feedback /\ d.raw = c.raw
      /\ d.slides = c.slides /\ d.scored = c.scored
  BY <1>1 DEF Context
<1> DEFINE p == Output(c, a, low)
           q == Output(d, a, low)
<1>3. p \in Context /\ q \in Context /\ p.failed = c.failed /\ q.failed = d.failed
  <2>1. p \in Context /\ q \in Context
    BY <1>2, OutputType
  <2>2. CASE a = Scoring
    BY <2>1, <2>2, <1>2, ScoreDone
  <2>3. CASE a # Scoring
    BY <2>1, <2>3, <1>2, OutputKeepsDone
  <2> QED
    BY <2>1, <2>2, <2>3
<1>4. /\ q.done = p.done /\ q.feedback = p.feedback /\ q.raw = p.raw
      /\ q.slides = p.slides /\ q.scored = p.scored
  BY <1>2 DEF Output, Score, Requeue, Context
<1> HIDE DEF p, q
<1>5. /\ RunAgent(c, a, low) = [p EXCEPT !.done[a] = @ + 1]
      /\ RunAgent(d, a, low) = [q EXCEPT !.done[a] = @ + 1]
  BY DEF RunAgent, p, q
<1>6. q = [p EXCEPT !.failed = p.failed \/ noted]
  BY <1>2, <1>3, <1>4 DEF Context
<1>7. [q EXCEPT !.done[a] = @ + 1]
        = [[p EXCEPT !.done[a] = @ + 1] EXCEPT !.failed = @ \/ noted]
  BY <1>3, <1>6 DEF Context
<1> QED
  BY <1>5, <1>7 DEF Noted

-----------------------------------------------------------------------------

LEMMA OnlyJob == OneJob => Jobs = {1}
BY DEF OneJob, Jobs

(* Rows are inserted and updated, never deleted. *)
LEMMA RowsStay ==
    ASSUME TypeOK, [Next]_vars, NEW e \in Executions, execStatus[e] # "none"
    PROVE  execStatus'[e] # "none"
<1> USE DEF apiVars, redisVars, dbVars, workVars, msgVars, Goto
<1>1. execStatus \in [Executions -> ExecStatus]
  BY DEF TypeOK
<1>2. ASSUME NEW j \in Jobs, Api(j) PROVE execStatus'[e] # "none"
  BY <1>1, <1>2 DEF Api, CreatePresentation, RegenerateCommit, Enqueue, CancelCheck,
     CancelSignal, CancelCommit
<1>3. ASSUME NEW j \in Jobs, Work(j) PROVE execStatus'[e] # "none"
  BY <1>1, <1>3 DEF Work, Deliver, IgnoreDuplicate, MarkProcessing, ReuseExecution, NewExecution,
     CacheHit, CacheMiss, LeaveLoop, StopCancelled, StopBeforeAgent, PollAllows, StartAgent,
     AgentSucceeds, AgentFails, PersistCheckpoint, PersistPartial, FinalizeCommit, Outcome,
     FinalizePublish, SafetyNet, RetryTask, GiveUp, OnFailure
<1>4. ASSUME NEW j \in Jobs, Faulty(j) PROVE execStatus'[e] # "none"
  BY <1>1, <1>4 DEF Faulty, ApiDies, PersistFails, Raise, CacheFinalizeFails,
     MarkProcessingFails, PollFails, ClearFails, ExceptFails, OnFailureFails, WorkerDies
<1>5. CASE (\E j \in Jobs : FlagExpires(j)) \/ RegenerateCheck \/ StreamExpires \/ Settled
           \/ UNCHANGED vars
  BY <1>5 DEF FlagExpires, RegenerateCheck, StreamExpires, Settled, vars
<1> QED
  BY <1>2, <1>3, <1>4, <1>5 DEF Next

LEMMA InitRunInv == Init => RunInv
<1> SUFFICES ASSUME Init PROVE RunInv
  OBVIOUS
<1>1. FreshRows
  BY DEF Init, FreshRows
<1>2. RowsExist /\ CachedIsDone /\ NothingAhead /\ OneAgentAhead
  BY DEF Init, RowsExist, CachedIsDone, NothingAhead, OneAgentAhead
<1> QED
  BY <1>1, <1>2, InitTypeOK DEF RunInv

(* An agent can be next only if not all are done. *)
LEMMA NextIsNotDone ==
    ASSUME NEW c, NEW a \in Agents, NextAgent(c, a)
    PROVE  ~AllDone(c)
BY DEF NextAgent, AllDone, Done

(* With one job, the invariant survives every step. *)
LEMMA NextRunInv == OneJob /\ RunInv /\ [Next]_vars => RunInv'
<1> SUFFICES ASSUME OneJob, RunInv, [Next]_vars
             PROVE  RunInv'
  OBVIOUS
<1> DEFINE Work0 == {"lookup", "cachefin", "poll", "start", "running", "persist"}
           Clean(j) == pc[j] \in {"lookup", "poll", "start", "running"} /\ ~AllDone(ctx[j])
<1>1. /\ Jobs = {1} /\ TypeOK
      /\ execStatus \in [Executions -> ExecStatus] /\ ckpt \in [Executions -> Context]
      /\ pc \in [Jobs -> Inside \cup Outside] /\ execOf \in [Jobs -> Executions]
      /\ ctx \in [Jobs -> Context] /\ execOf[1] \in Executions
      /\ 1 \in Executions
  BY OnlyJob, JobsAreRows DEF RunInv, TypeOK
<1>2. /\ \A e \in Executions : execStatus[e] = "none" => ckpt[e] = EmptyContext
      /\ pc[1] \in Work0 => execStatus[execOf[1]] # "none"
      /\ pc[1] = "cachefin" => AllDone(ctx[1])
      /\ Clean(1) => Noted(ckpt[execOf[1]], ctx[1])
      /\ pc[1] = "persist" => \E a \in Agents, low \in BOOLEAN :
             NextAgent(ckpt[execOf[1]], a) /\ Noted(RunAgent(ckpt[execOf[1]], a, low), ctx[1])
  BY <1>1 DEF RunInv, FreshRows, RowsExist, CachedIsDone, NothingAhead, OneAgentAhead
<1>3. TypeOK'
  BY <1>1, NextTypeOK
<1>4. \A e \in Executions : execStatus[e] # "none" => execStatus'[e] # "none"
  BY <1>1, RowsStay
<1>5. SUFFICES /\ \A e \in Executions : execStatus'[e] = "none" => ckpt'[e] = EmptyContext
               /\ pc'[1] \in Work0 => execStatus'[execOf'[1]] # "none"
               /\ pc'[1] = "cachefin" => AllDone(ctx'[1])
               /\ pc'[1] \in {"lookup", "poll", "start", "running"} /\ ~AllDone(ctx'[1])
                      => Noted(ckpt'[execOf'[1]], ctx'[1])
               /\ pc'[1] = "persist" => \E a \in Agents, low \in BOOLEAN :
                      NextAgent(ckpt'[execOf'[1]], a)
                      /\ Noted(RunAgent(ckpt'[execOf'[1]], a, low), ctx'[1])
  BY <1>1, <1>3 DEF RunInv, FreshRows, RowsExist, CachedIsDone, NothingAhead, OneAgentAhead
<1> DEFINE Goal == /\ \A e \in Executions : execStatus'[e] = "none" => ckpt'[e] = EmptyContext
                   /\ pc'[1] \in Work0 => execStatus'[execOf'[1]] # "none"
                   /\ pc'[1] = "cachefin" => AllDone(ctx'[1])
                   /\ pc'[1] \in {"lookup", "poll", "start", "running"} /\ ~AllDone(ctx'[1])
                          => Noted(ckpt'[execOf'[1]], ctx'[1])
                   /\ pc'[1] = "persist" => \E a \in Agents, low \in BOOLEAN :
                          NextAgent(ckpt'[execOf'[1]], a)
                          /\ Noted(RunAgent(ckpt'[execOf'[1]], a, low), ctx'[1])
<1> USE DEF apiVars, redisVars, dbVars, workVars, msgVars, Goto
(* the task leaves the loop, or is outside it *)
<1>6. ASSUME ckpt' = ckpt, pc'[1] \notin Work0 PROVE Goal
  BY <1>2, <1>4, <1>6
(* the task stays where its context is the checkpoint *)
<1>7. ASSUME ckpt' = ckpt, execOf' = execOf, ctx' = ctx,
             pc'[1] \in {"lookup", "poll", "start", "running"},
             \/ pc[1] \in {"lookup", "poll", "start", "running"}
             \/ pc[1] = "cachefin"
      PROVE  Goal
  BY <1>1, <1>2, <1>4, <1>7
<1>8. ASSUME UNCHANGED <<pc, ckpt, execOf, ctx>> PROVE Goal
  BY <1>1, <1>2, <1>4, <1>8
<1> HIDE DEF Goal
<1>9. ASSUME ReuseExecution(1) PROVE Goal
  <2>1. PICK e \in Executions : /\ execStatus[e] # "none"
                                /\ execOf' = [execOf EXCEPT ![1] = e]
                                /\ ctx' = [ctx EXCEPT ![1] = ckpt[e]]
    BY <1>1, <1>9 DEF ReuseExecution, LatestRows
  <2>2. pc'[1] = "lookup" /\ ckpt' = ckpt /\ execOf'[1] = e /\ ctx'[1] = ckpt[e]
    BY <1>1, <1>9, <2>1 DEF ReuseExecution
  <2> QED
    BY <1>1, <1>2, <1>4, <2>1, <2>2, NotedSelf DEF Goal
<1>10. ASSUME NewExecution(1) PROVE Goal
  <2>1. PICK e \in WorkerRows : /\ execStatus[e] = "none"
                                /\ execStatus' = [execStatus EXCEPT ![e] = "processing"]
                                /\ execOf' = [execOf EXCEPT ![1] = e]
                                /\ ctx' = [ctx EXCEPT ![1] = EmptyContext]
    BY <1>10 DEF NewExecution
  <2>2. e \in Executions
    BY DEF Executions
  <2>3. /\ pc'[1] = "lookup" /\ ckpt' = ckpt /\ execOf'[1] = e /\ ctx'[1] = EmptyContext
        /\ execStatus'[e] = "processing"
    BY <1>1, <1>10, <2>1, <2>2 DEF NewExecution
  <2> QED
    BY <1>2, <1>4, <2>1, <2>2, <2>3, NotedSelf, EmptyContextOK DEF Goal
<1>11. ASSUME CacheHit(1) PROVE Goal
  <2>1. AllDone([ctx[1] EXCEPT !.slides = CachedSlides, !.done = [a \in Agents |-> 1]])
    <3> DEFINE c == [ctx[1] EXCEPT !.slides = CachedSlides, !.done = [a \in Agents |-> 1]]
    <3>1. c.done = [a \in Agents |-> 1]
      BY <1>1 DEF Context
    <3> HIDE DEF c
    <3>2. AllDone(c)
      BY <3>1 DEF AllDone, Done
    <3> QED
      BY <3>2 DEF c
  <2>2. /\ pc'[1] = "cachefin" /\ pc[1] = "lookup" /\ UNCHANGED <<ckpt, execOf>>
        /\ ctx'[1] = [ctx[1] EXCEPT !.slides = CachedSlides, !.done = [a \in Agents |-> 1]]
    BY <1>1, <1>11 DEF CacheHit
  <2> QED
    BY <1>2, <1>4, <1>1, <2>1, <2>2 DEF Goal
<1>12. ASSUME AgentSucceeds(1) PROVE Goal
  <2>1. PICK a \in Agents, low \in BOOLEAN :
          NextAgent(ctx[1], a) /\ ctx' = [ctx EXCEPT ![1] = RunAgent(ctx[1], a, low)]
    BY <1>1, <1>12 DEF AgentSucceeds
  <2>2. /\ pc[1] = "running" /\ pc'[1] = "persist" /\ UNCHANGED <<ckpt, execOf>>
        /\ ctx'[1] = RunAgent(ctx[1], a, low)
    BY <1>1, <1>12, <2>1 DEF AgentSucceeds
  <2>3. Noted(ckpt[execOf[1]], ctx[1])
    BY <1>2, <2>1, <2>2, NextIsNotDone
  <2>4. /\ NextAgent(ckpt[execOf[1]], a)
        /\ Noted(RunAgent(ckpt[execOf[1]], a, low), ctx'[1])
    BY <1>1, <2>1, <2>2, <2>3, NotedRuns, NotedContexts
  <2> QED
    BY <1>1, <1>2, <1>4, <2>2, <2>4 DEF Goal
<1>13. ASSUME PersistCheckpoint(1) PROVE Goal
  <2>1. /\ pc[1] = "persist" /\ pc'[1] \in {"poll", "finalize"}
        /\ UNCHANGED <<execOf, ctx, execStatus>>
        /\ ckpt' = [ckpt EXCEPT ![execOf[1]] = ctx[1]]
    BY <1>1, <1>13 DEF PersistCheckpoint
  <2>2. /\ ckpt'[execOf[1]] = ctx[1]
        /\ \A e \in Executions : e # execOf[1] => ckpt'[e] = ckpt[e]
    BY <1>1, <2>1
  <2> QED
    BY <1>1, <1>2, <2>1, <2>2, NotedSelf DEF Goal
<1>14. ASSUME \/ CacheMiss(1) \/ PollAllows(1) \/ PollFails(1) \/ StartAgent(1)
              \/ CacheFinalizeFails(1)
       PROVE  Goal
  BY <1>1, <1>7, <1>14 DEF CacheMiss, PollAllows, PollFails, StartAgent, CacheFinalizeFails
<1>22. ASSUME ClearFails(1) PROVE Goal
  <2>1. /\ pc[1] = "poll" /\ pc'[1] = "start" /\ ~AllDone(ctx[1]) /\ UNCHANGED <<ckpt, execOf>>
        /\ ctx'[1] = [ctx[1] EXCEPT !.failed = TRUE]
    BY <1>1, <1>22 DEF ClearFails
  <2>2. Noted(ckpt[execOf[1]], ctx'[1])
    BY <1>1, <1>2, <2>1, NotedAgain
  <2> QED
    BY <1>1, <1>2, <1>4, <2>1, <2>2 DEF Goal
<1>15. ASSUME Api(1) PROVE Goal
  <2>1. CASE CreatePresentation(1) \/ RegenerateCommit(1) \/ Enqueue(1)
    BY <1>1, <1>6, <2>1 DEF CreatePresentation, RegenerateCommit, Enqueue
  <2>2. CASE CancelCheck(1) \/ CancelSignal(1) \/ CancelCommit(1)
    BY <1>8, <2>2 DEF CancelCheck, CancelSignal, CancelCommit
  <2> QED
    BY <1>15, <2>1, <2>2 DEF Api
<1>16. ASSUME \/ Deliver(1) \/ IgnoreDuplicate(1) \/ MarkProcessing(1) \/ LeaveLoop(1)
            \/ StopCancelled(1) \/ StopBeforeAgent(1) \/ AgentFails(1)
            \/ PersistPartial(1) \/ FinalizeCommit(1) \/ FinalizePublish(1)
            \/ SafetyNet(1) \/ RetryTask(1) \/ GiveUp(1) \/ OnFailure(1)
       PROVE  Goal
  <2>1. ckpt' = ckpt
    BY <1>16 DEF Deliver, IgnoreDuplicate, MarkProcessing, LeaveLoop, StopCancelled,
       StopBeforeAgent, AgentFails, PersistPartial, FinalizeCommit,
       FinalizePublish, SafetyNet, RetryTask, GiveUp, OnFailure
  <2>2. pc'[1] \notin Work0
    BY <1>1, <1>16 DEF Deliver, IgnoreDuplicate, MarkProcessing, LeaveLoop, StopCancelled,
       StopBeforeAgent, AgentFails, PersistPartial, FinalizeCommit,
       FinalizePublish, SafetyNet, RetryTask, GiveUp, OnFailure
  <2> QED
    BY <2>1, <2>2, <1>6
<1>17. ASSUME \/ ApiDies(1) \/ PersistFails(1) \/ Raise(1) \/ MarkProcessingFails(1)
              \/ ExceptFails(1) \/ OnFailureFails(1) \/ WorkerDies(1)
       PROVE  Goal
  BY <1>1, <1>6, <1>17 DEF ApiDies, PersistFails, Raise, MarkProcessingFails, ExceptFails,
     OnFailureFails, WorkerDies
<1>18. ASSUME FlagExpires(1) \/ RegenerateCheck \/ StreamExpires \/ Settled \/ UNCHANGED vars PROVE Goal
  <2>1. UNCHANGED <<pc, ckpt, execOf, ctx>>
    BY <1>18 DEF FlagExpires, RegenerateCheck, StreamExpires, Settled, vars
  <2> QED
    BY <2>1, <1>8
<1>19. Work(1) => Goal
  BY <1>9, <1>10, <1>11, <1>12, <1>13, <1>14, <1>16 DEF Work
<1>20. Faulty(1) => Goal
  BY <1>14, <1>17, <1>22 DEF Faulty
<1>21. Goal
  BY <1>1, <1>15, <1>18, <1>19, <1>20 DEF Next
<1> QED
  BY <1>21 DEF Goal

-----------------------------------------------------------------------------
(* The mapping. *)

(* The operators of PipelineRuns are those of PipelineContext. *)
LEMMA SameOperators ==
    /\ Uninterrupted!EmptyContext = EmptyContext
    /\ Uninterrupted!Agents = Agents
    /\ \A c, a : Uninterrupted!NextAgent(c, a) <=> NextAgent(c, a)
    /\ \A c, a, low : Uninterrupted!RunAgent(c, a, low) = RunAgent(c, a, low)
<1> USE DEF Uninterrupted!Agents, Uninterrupted!Scoring, Uninterrupted!NoSlides,
            Uninterrupted!LLM, Uninterrupted!Validation, Uninterrupted!Refinement,
            Agents, Scoring, NoSlides, LLM, Validation, Refinement
<1>1. Uninterrupted!EmptyContext = EmptyContext
  BY DEF Uninterrupted!EmptyContext, EmptyContext
<1>2. Uninterrupted!Agents = Agents
  OBVIOUS
<1>3. \A c, a : Uninterrupted!NextAgent(c, a) <=> NextAgent(c, a)
  BY DEF Uninterrupted!NextAgent, Uninterrupted!Done, NextAgent, Done
<1>4. \A c, a, low : Uninterrupted!Output(c, a, low) = Output(c, a, low)
  BY DEF Uninterrupted!Output, Uninterrupted!Score, Uninterrupted!Requeue,
         Uninterrupted!Remove, Uninterrupted!MaxFeedback,
         Output, Score, Requeue, Remove, MaxFeedback
<1>5. \A c, a, low : Uninterrupted!RunAgent(c, a, low) = RunAgent(c, a, low)
  BY <1>4 DEF Uninterrupted!RunAgent, RunAgent
<1> QED
  BY <1>1, <1>2, <1>3, <1>5

(* Every step of the pipeline saves one agent's work, or saves nothing. *)
LEMMA StepRefines ==
    OneJob /\ RunInv /\ [Next]_vars => [Uninterrupted!Next]_ckpt
<1> SUFFICES ASSUME OneJob, RunInv, [Next]_vars, ckpt' # ckpt
             PROVE  Uninterrupted!Next
  OBVIOUS
<1> USE DEF apiVars, redisVars, dbVars, workVars, msgVars
<1>1. Jobs = {1} /\ execOf[1] \in Executions /\ ckpt \in [Executions -> Context]
  BY OnlyJob DEF RunInv, TypeOK
<1>2. PersistCheckpoint(1)
  BY <1>1, OtherSteps DEF ContextStep, ReuseExecution, NewExecution, CacheHit, StopCancelled,
     StopBeforeAgent, AgentSucceeds, AgentFails, PersistFails, ClearFails, WorkerDies
<1>3. PICK a \in Agents, low \in BOOLEAN, noted \in BOOLEAN :
          /\ NextAgent(ckpt[execOf[1]], a)
          /\ ctx[1] = [RunAgent(ckpt[execOf[1]], a, low) EXCEPT !.failed = @ \/ noted]
  BY <1>1, <1>2 DEF RunInv, OneAgentAhead, PersistCheckpoint, Noted
<1>4. ckpt' = [ckpt EXCEPT ![execOf[1]] =
                  [RunAgent(ckpt[execOf[1]], a, low) EXCEPT !.failed = @ \/ noted]]
  BY <1>2, <1>3 DEF PersistCheckpoint
<1>5. /\ Uninterrupted!NextAgent(ckpt[execOf[1]], a)
      /\ Uninterrupted!RunAgent(ckpt[execOf[1]], a, low) = RunAgent(ckpt[execOf[1]], a, low)
      /\ a \in Uninterrupted!Agents
  BY <1>3, SameOperators
<1>6. ckpt' = [ckpt EXCEPT ![execOf[1]] =
                  Uninterrupted!Note(Uninterrupted!RunAgent(@, a, low), noted)]
  BY <1>4, <1>5 DEF Uninterrupted!Note
<1>7. Uninterrupted!Advance(execOf[1])
  BY <1>5, <1>6 DEF Uninterrupted!Advance
<1> QED
  BY <1>1, <1>7 DEF Uninterrupted!Next

(* With one job, crashes, redeliveries, retries, failed commits and        *)
(* cancellations do not show in the checkpoints: they are, at any time,    *)
(* those of a pipeline that ran its agents one after the other, with the   *)
(* note at most that it was asked to stop before the last of them.         *)
THEOREM CheckpointsAreRuns ==
    ASSUME OneJob
    PROVE  Spec => ImplementsRuns
<1>1. Init => Uninterrupted!Init
  BY SameOperators DEF Init, Uninterrupted!Init
<1>2. RunInv /\ [Next]_vars => RunInv'
  BY NextRunInv
<1>3. RunInv /\ [Next]_vars => [Uninterrupted!Next]_ckpt
  BY StepRefines
<1> QED
  BY <1>1, <1>2, <1>3, InitRunInv, PTL DEF Spec, ImplementsRuns, Uninterrupted!Spec

(* ... and losing a worker between two agents loses no work: but for such  *)
(* a note, the checkpoint is all the task had in memory.                   *)
THEOREM CrashesLoseNothing ==
    ASSUME OneJob
    PROVE  Spec => []CrashLosesNothing
<1>1. RunInv /\ [Next]_vars => RunInv'
  BY NextRunInv
<1>2. RunInv => CrashLosesNothing
  BY NotedContexts DEF RunInv, TypeOK, NothingAhead, CrashLosesNothing
<1> QED
  BY <1>1, <1>2, InitRunInv, PTL DEF Spec

-----------------------------------------------------------------------------
(* What a presentation is when its task is over.                           *)

(* Between the commit of _finalize and the safety net, which writes the    *)
(* status again, a complete run has its deck in the row.                   *)
StoredFollows ==
    \A j \in Jobs : pc[j] \in {"publish", "safety"} /\ AllDone(ctx[j]) => pres.slides # NoSlides

LEMMA CompleteHasDeck ==
    ASSUME NEW c \in Context, DeckFollows(c), AllDone(c)
    PROVE  BestSlides(c) # NoSlides
BY AgentOrder DEF DeckFollows, AllDone, BestSlides

LEMMA NextStored ==
    OneJob /\ OrderInv /\ CompletedHasSlides /\ StoredFollows /\ [Next]_vars
        => CompletedHasSlides' /\ StoredFollows'
<1> SUFFICES ASSUME OneJob, OrderInv, CompletedHasSlides, StoredFollows, [Next]_vars
             PROVE  CompletedHasSlides' /\ StoredFollows'
  OBVIOUS
<1> DEFINE Open == {"publish", "safety"}
           Goal == /\ pres'.status = "completed" => pres'.slides # NoSlides
                   /\ pc'[1] \in Open /\ AllDone(ctx'[1]) => pres'.slides # NoSlides
<1>1. /\ Jobs = {1} /\ ctx[1] \in Context /\ DeckFollows(ctx[1]) /\ NoRepeat(ctx[1])
      /\ pc \in [Jobs -> Inside \cup Outside]
      /\ pres \in [status: PresStatus, slides: Int, scored: Int]
  BY OnlyJob DEF OrderInv, TypeOK, DecksFollow, NoAgentTwice
<1>2. /\ pres.status = "completed" => pres.slides # NoSlides
      /\ pc[1] \in Open /\ AllDone(ctx[1]) => pres.slides # NoSlides
  BY <1>1 DEF CompletedHasSlides, StoredFollows
<1>3. SUFFICES Goal
  BY <1>1 DEF CompletedHasSlides, StoredFollows
<1> USE DEF apiVars, redisVars, dbVars, workVars, msgVars, Goto
(* the row keeps its deck, and is not completed again *)
<1>4. ASSUME pres'.slides = pres.slides, pres'.status # "completed" \/ pres' = pres,
             pc'[1] \notin Open \/ (pc[1] \in Open /\ ctx' = ctx)
      PROVE  Goal
  BY <1>2, <1>4
<1>5. ASSUME NEW status \in PresStatus, pres' = [pres EXCEPT !.status = status]
      PROVE  pres'.slides = pres.slides /\ pres'.status = status
  BY <1>1, <1>5
<1>6. ASSUME NEW status, NEW slides, NEW scored,
             pres' = [status |-> status, slides |-> slides, scored |-> scored]
      PROVE  pres'.status = status /\ pres'.slides = slides
  BY <1>6
<1> HIDE DEF Goal
<1>7. CASE Api(1)
  <2>1. CASE CreatePresentation(1) \/ RegenerateCommit(1)
    <3>1. pres' = [pres EXCEPT !.status = "queued"] /\ pc' = [pc EXCEPT ![1] = "committed"]
      BY <2>1 DEF CreatePresentation, RegenerateCommit
    <3> QED
      BY <1>1, <1>4, <1>5, <3>1 DEF PresStatus, ExecStatus
  <2>2. CASE CancelCommit(1)
    <3>1. pres' = [pres EXCEPT !.status = "cancelled"] /\ UNCHANGED <<pc, ctx>>
      BY <2>2 DEF CancelCommit
    <3> QED
      BY <1>4, <1>5, <3>1 DEF PresStatus, ExecStatus
  <2>3. CASE Enqueue(1) \/ CancelCheck(1) \/ CancelSignal(1)
    BY <1>1, <1>4, <2>3 DEF Enqueue, CancelCheck, CancelSignal
  <2> QED
    BY <1>7, <2>1, <2>2, <2>3 DEF Api
<1>8. CASE MarkProcessing(1) \/ RetryTask(1) \/ GiveUp(1) \/ OnFailure(1)
  <2>1. PICK status \in {"processing", "failed"} : pres' = [pres EXCEPT !.status = status]
    BY <1>8 DEF MarkProcessing, RetryTask, GiveUp, OnFailure
  <2>2. pc'[1] \notin Open
    BY <1>1, <1>8 DEF MarkProcessing, RetryTask, GiveUp, OnFailure
  <2> QED
    BY <1>4, <1>5, <2>1, <2>2 DEF PresStatus, ExecStatus
<1>9. CASE PersistPartial(1)
  <2>1. pres'.status = "failed" /\ pc'[1] \notin Open
    BY <1>1, <1>6, <1>9 DEF PersistPartial
  <2> QED
    BY <2>1 DEF Goal
<1>10. CASE FinalizeCommit(1)
  <2>1. /\ pres'.status = Outcome(ctx[1]) /\ pres'.slides = BestSlides(ctx[1])
        /\ ctx' = ctx
    BY <1>6, <1>10 DEF FinalizeCommit
  <2>2. AllDone(ctx[1]) => pres'.slides # NoSlides
    BY <1>1, <2>1, CompleteHasDeck
  <2> QED
    BY <2>1, <2>2 DEF Goal, Outcome
<1>11. CASE SafetyNet(1)
  <2>1. PICK status \in {"completed", "failed"} :
          /\ pres' = [pres EXCEPT !.status = status]
          /\ status = "completed" => DoneLen(ctx[1]) = Scoring
    BY <1>11 DEF SafetyNet
  <2>2. status = "completed" => AllDone(ctx[1])
    BY <1>1, <2>1, LengthIsSet
  <2>3. pc[1] = "safety" /\ pc'[1] = "acked"
    BY <1>1, <1>11 DEF SafetyNet
  <2>4. pres'.slides = pres.slides /\ pres'.status = status
    BY <1>5, <2>1 DEF PresStatus, ExecStatus
  <2> QED
    BY <1>2, <2>2, <2>3, <2>4 DEF Goal
<1>12. CASE FinalizePublish(1)
  BY <1>1, <1>4, <1>12 DEF FinalizePublish
<1>13. CASE \/ Deliver(1) \/ IgnoreDuplicate(1) \/ ReuseExecution(1) \/ NewExecution(1)
            \/ CacheHit(1) \/ CacheMiss(1) \/ LeaveLoop(1) \/ StopCancelled(1)
            \/ StopBeforeAgent(1) \/ PollAllows(1) \/ StartAgent(1) \/ AgentSucceeds(1)
            \/ AgentFails(1) \/ PersistCheckpoint(1)
  <2>1. pres' = pres
    BY <1>13 DEF Deliver, IgnoreDuplicate, ReuseExecution, NewExecution, CacheHit, CacheMiss,
       LeaveLoop, StopCancelled, StopBeforeAgent, PollAllows, StartAgent, AgentSucceeds,
       AgentFails, PersistCheckpoint
  <2>2. pc'[1] \notin Open
    BY <1>1, <1>13 DEF Deliver, IgnoreDuplicate, ReuseExecution, NewExecution, CacheHit, CacheMiss,
       LeaveLoop, StopCancelled, StopBeforeAgent, PollAllows, StartAgent, AgentSucceeds,
       AgentFails, PersistCheckpoint
  <2> QED
    BY <1>4, <2>1, <2>2
<1>14. CASE Faulty(1)
  <2>1. pres' = pres /\ pc'[1] \notin Open
    BY <1>1, <1>14 DEF Faulty, ApiDies, PollFails, ClearFails, PersistFails, Raise,
       CacheFinalizeFails, MarkProcessingFails, ExceptFails, OnFailureFails, WorkerDies
  <2> QED
    BY <1>4, <2>1
<1>15. CASE FlagExpires(1) \/ RegenerateCheck \/ StreamExpires \/ Settled \/ UNCHANGED vars
  BY <1>4, <1>15 DEF FlagExpires, RegenerateCheck, StreamExpires, Settled, vars
<1>16. CASE Work(1)
  BY <1>8, <1>9, <1>10, <1>11, <1>12, <1>13, <1>16 DEF Work
<1> QED
  BY <1>1, <1>7, <1>14, <1>15, <1>16 DEF Next

(* A completed presentation has slides, although the task writes completed *)
(* a second time, from the length of its list, and reads nothing for it    *)
(* (tasks.py 198-207).  With a second job it may be the slides of the      *)
(* other that the row has.                                                 *)
THEOREM CompletedIsNotEmpty ==
    ASSUME OneJob
    PROVE  Spec => []CompletedHasSlides
<1> DEFINE Inv == OrderInv /\ CompletedHasSlides /\ StoredFollows
<1>1. Init => Inv
  BY InitTypeOK, InitOrder DEF OrderInv, Init, CompletedHasSlides, StoredFollows
<1>2. Inv /\ [Next]_vars => Inv'
  BY NextTypeOK, NextOrder, NextStored DEF OrderInv
<1>3. Inv => CompletedHasSlides
  OBVIOUS
<1> QED
  BY <1>1, <1>2, <1>3, PTL DEF Spec

(* The rest of a presentation.  A task ends with a final status in the row *)
(* except when it is ignored, as another job has its key, or when it fails *)
(* and on_failure cannot write it (it counts as active here: the row waits *)
(* for it, for ever).  So the jobs are to have keys of their own, which    *)
(* two regenerations of one second do not.                                 *)
OwnKeys == \A j \in Jobs : key[j] = j

Waiting == pres.status \in {"queued", "processing"}
Active == {j \in Jobs : pc[j] \notin {"none", "acked"}}

KeysHeld ==
    /\ \A j \in Jobs : pc[j] = "none" => key[j] = j
    /\ \A k \in Jobs : idem[k] # 0 => key[idem[k]] = k /\ pc[idem[k]] # "none"

RestInv == KeysHeld /\ (OwnKeys /\ Waiting => Active # {})

LEMMA NextKeysHeld == TypeOK /\ KeysHeld /\ [Next]_vars => KeysHeld'
<1> SUFFICES ASSUME TypeOK, KeysHeld, [Next]_vars PROVE KeysHeld'
  OBVIOUS
<1> USE DEF apiVars, redisVars, dbVars, workVars, msgVars, Goto
<1>1. /\ pc \in [Jobs -> Inside \cup Outside] /\ idem \in [Jobs -> Jobs \cup {0}]
      /\ key \in [Jobs -> Jobs] /\ 0 \notin Jobs
  BY JobsAreRows DEF TypeOK
<1>2. ASSUME key' = key, \A k \in Jobs : idem'[k] \in {0, idem[k]},
             \A j \in Jobs : pc'[j] = "none" <=> pc[j] = "none"
      PROVE  KeysHeld'
  BY <1>1, <1>2 DEF KeysHeld
<1>3. ASSUME NEW j \in Jobs, RegenerateCommit(j) PROVE KeysHeld'
  <2>1. /\ pc[j] = "none" /\ pc' = [pc EXCEPT ![j] = "committed"] /\ idem' = idem
        /\ \A i \in Jobs : i # j => key'[i] = key[i]
    BY <1>1, <1>3 DEF RegenerateCommit, NextJob
  <2> QED
    BY <1>1, <2>1 DEF KeysHeld
<1>4. ASSUME NEW j \in Jobs, Deliver(j) PROVE KeysHeld'
  <2>1. /\ pc[j] = "queued" /\ pc' = [pc EXCEPT ![j] = "delivered"] /\ key' = key
        /\ idem' = [idem EXCEPT ![key[j]] = j]
    BY <1>4 DEF Deliver
  <2> QED
    BY <1>1, <2>1 DEF KeysHeld
<1>5. ASSUME NEW j \in Jobs, Api(j) PROVE KeysHeld'
  <2>1. CASE CreatePresentation(j) \/ Enqueue(j)
    BY <1>1, <2>1 DEF CreatePresentation, NextJob, Enqueue, KeysHeld
  <2>2. CASE CancelCheck(j) \/ CancelSignal(j) \/ CancelCommit(j)
    BY <1>1, <1>2, <2>2 DEF CancelCheck, CancelSignal, CancelCommit
  <2> QED
    BY <1>3, <1>5, <2>1, <2>2 DEF Api
<1>6. ASSUME NEW j \in Jobs, Work(j), ~Deliver(j) PROVE KeysHeld'
  <2>1. idem' = idem /\ key' = key
    BY <1>6 DEF Work, IgnoreDuplicate, MarkProcessing, ReuseExecution, NewExecution, CacheHit,
       CacheMiss, LeaveLoop, StopCancelled, StopBeforeAgent, PollAllows, StartAgent,
       AgentSucceeds, AgentFails, PersistCheckpoint, PersistPartial, FinalizeCommit,
       FinalizePublish, SafetyNet, RetryTask, GiveUp, OnFailure
  <2>2. pc[j] # "none" /\ pc'[j] # "none" /\ \A l \in Jobs : l # j => pc'[l] = pc[l]
    BY <1>1, <1>6 DEF Work, IgnoreDuplicate, MarkProcessing, ReuseExecution, NewExecution,
       CacheHit, CacheMiss, LeaveLoop, StopCancelled, StopBeforeAgent, PollAllows, StartAgent,
       AgentSucceeds, AgentFails, PersistCheckpoint, PersistPartial, FinalizeCommit,
       FinalizePublish, SafetyNet, RetryTask, GiveUp, OnFailure
  <2> QED
    BY <1>2, <2>1, <2>2
<1>7. ASSUME NEW j \in Jobs, Faulty(j) PROVE KeysHeld'
  <2>1. idem' = idem /\ key' = key
    BY <1>7 DEF Faulty, ApiDies, PersistFails, Raise, CacheFinalizeFails,
       MarkProcessingFails, PollFails, ClearFails, ExceptFails, OnFailureFails, WorkerDies
  <2>2. pc[j] # "none" /\ pc'[j] # "none" /\ \A l \in Jobs : l # j => pc'[l] = pc[l]
    BY <1>1, <1>7 DEF Faulty, ApiDies, PersistFails, Raise, CacheFinalizeFails,
       MarkProcessingFails, PollFails, ClearFails, ExceptFails, OnFailureFails, WorkerDies, Inside
  <2> QED
    BY <1>2, <2>1, <2>2
<1>8. CASE (\E j \in Jobs : FlagExpires(j)) \/ RegenerateCheck \/ StreamExpires \/ Settled
           \/ UNCHANGED vars
  BY <1>1, <1>2, <1>8 DEF FlagExpires, RegenerateCheck, StreamExpires, Settled, vars
<1> QED
  BY <1>4, <1>5, <1>6, <1>7, <1>8 DEF Next

LEMMA NextRestInv == TypeOK /\ RestInv /\ [Next]_vars => RestInv'
<1> SUFFICES ASSUME TypeOK, RestInv, [Next]_vars, OwnKeys', Waiting'
             PROVE  Active' # {}
  BY NextKeysHeld DEF RestInv
<1> USE DEF apiVars, redisVars, dbVars, workVars, msgVars, Goto
<1>1. /\ pc \in [Jobs -> Inside \cup Outside] /\ idem \in [Jobs -> Jobs \cup {0}]
      /\ key \in [Jobs -> Jobs] /\ pres \in [status: PresStatus, slides: Int, scored: Int]
      /\ KeysHeld
  BY DEF TypeOK, RestInv
(* who waits is waited for: by the job of the step or by another *)
<1>2. ASSUME NEW j \in Jobs, pc'[j] \notin {"none", "acked"} PROVE Active' # {}
  BY <1>2 DEF Active
<1>3. ASSUME pc' = pc, key' = key, pres' = pres PROVE Active' # {}
  BY <1>3 DEF Active, OwnKeys, Waiting, RestInv
<1>4. ASSUME NEW status \in PresStatus \ {"queued", "processing"}, pres' = [pres EXCEPT !.status = status]
      PROVE  FALSE
  BY <1>1, <1>4 DEF Waiting
<1> SUFFICES ASSUME Active' = {} PROVE FALSE
  OBVIOUS
<1>5. \A j \in Jobs : pc'[j] \in {"none", "acked"}
  BY <1>2
<1>6. ASSUME NEW j \in Jobs, Api(j) PROVE FALSE
  <2>1. CASE CreatePresentation(j) \/ RegenerateCommit(j) \/ Enqueue(j)
    BY <1>1, <1>5, <2>1 DEF CreatePresentation, RegenerateCommit, Enqueue
  <2>2. CASE CancelCheck(j) \/ CancelSignal(j)
    BY <1>2, <1>3, <1>5, <2>2 DEF CancelCheck, CancelSignal
  <2>3. CASE CancelCommit(j)
    BY <1>4, <2>3 DEF CancelCommit, PresStatus, ExecStatus
  <2> QED
    BY <1>6, <2>1, <2>2, <2>3 DEF Api
(* the only job of a key finds it free, or its own *)
<1>7. ASSUME NEW j \in Jobs, IgnoreDuplicate(j) PROVE FALSE
  <2>1. key' = key /\ key[j] = j
    BY <1>7 DEF IgnoreDuplicate, OwnKeys
  <2>2. idem[j] # 0 => key[idem[j]] = j /\ key[idem[j]] = idem[j]
    BY <1>1, <2>1 DEF KeysHeld, OwnKeys
  <2> QED
    BY <1>1, <1>7, <2>1, <2>2 DEF IgnoreDuplicate
<1>8. ASSUME NEW j \in Jobs, SafetyNet(j) \/ OnFailure(j) PROVE FALSE
  <2>1. PICK status \in {"completed", "failed"} : pres' = [pres EXCEPT !.status = status]
    BY <1>8 DEF SafetyNet, OnFailure
  <2> QED
    BY <1>4, <2>1 DEF PresStatus, ExecStatus
<1>9. ASSUME NEW j \in Jobs, Work(j), ~IgnoreDuplicate(j), ~SafetyNet(j), ~OnFailure(j) PROVE FALSE
  <2>1. pc'[j] \notin {"none", "acked"}
    BY <1>1, <1>9 DEF Work, Deliver, MarkProcessing, ReuseExecution, NewExecution,
       CacheHit, CacheMiss, LeaveLoop, StopCancelled, StopBeforeAgent, PollAllows, StartAgent,
       AgentSucceeds, AgentFails, PersistCheckpoint, PersistPartial, FinalizeCommit,
       FinalizePublish, RetryTask, GiveUp
  <2> QED
    BY <1>5, <2>1
<1>10. ASSUME NEW j \in Jobs, Faulty(j) PROVE FALSE
  <2>1. pc'[j] \notin {"none", "acked"}
    BY <1>1, <1>10 DEF Faulty, ApiDies, PollFails, ClearFails, PersistFails, Raise,
       CacheFinalizeFails, MarkProcessingFails, ExceptFails, OnFailureFails, WorkerDies
  <2> QED
    BY <1>5, <2>1
<1>11. CASE (\E j \in Jobs : FlagExpires(j)) \/ RegenerateCheck \/ StreamExpires \/ Settled
            \/ UNCHANGED vars
  BY <1>3, <1>5, <1>11 DEF FlagExpires, RegenerateCheck, StreamExpires, Settled, vars, Active
<1> QED
  BY <1>6, <1>7, <1>8, <1>9, <1>10, <1>11 DEF Next

(* When all tasks are over the presentation has a final status, whatever   *)
(* was cancelled, was delivered again or was asked for by a second request *)
(* on the way, and whatever failed but the very write of on_failure, as    *)
(* long as no two regenerations have one key.                              *)
THEOREM RestIsFinal == Spec => [](OwnKeys => RestsTerminal)
<1>1. Init => RestInv
  BY DEF Init, RestInv, KeysHeld, Waiting
<1>2. RestInv => (OwnKeys => RestsTerminal)
  BY DEF RestInv, Waiting, Active, RestsTerminal, Resting
<1> QED
  BY <1>1, <1>2, NextRestInv, TypeCorrect, PTL DEF Spec

(* With one job there is only one key. *)
COROLLARY RestOfOneJob ==
    ASSUME OneJob
    PROVE  Spec => []RestsTerminal
<1>1. TypeOK => OwnKeys
  BY OnlyJob DEF TypeOK, OwnKeys
<1> QED
  BY <1>1, RestIsFinal, TypeCorrect, PTL

(* Without cancellations nothing writes the row of an execution that is    *)
(* completed: the task works in one that is not, until its _finalize.      *)
InRun == {"lookup", "poll", "start", "running", "persist", "partial", "finalize", "cachefin"}

OpenInv ==
    cancels = 0 =>
        /\ \A j \in Jobs : pc[j] = "none" => execStatus[j] # "completed"
        /\ \A j \in Jobs : pc[j] \in InRun => execStatus[execOf[j]] # "completed"

LEMMA NextOpen ==
    OneJob /\ TypeOK /\ Flagless /\ OpenInv /\ [Next]_vars
        => /\ OpenInv'
           /\ cancels = 0 =>
                \A e \in Executions : execStatus[e] = "completed" => execStatus'[e] = "completed"
<1> DEFINE Goal == /\ pc'[1] = "none" => execStatus'[1] # "completed"
                   /\ pc'[1] \in InRun => execStatus'[execOf'[1]] # "completed"
                   /\ \A e \in Executions : execStatus[e] = "completed" => execStatus'[e] = "completed"
<1> SUFFICES ASSUME OneJob, TypeOK, Flagless, OpenInv, [Next]_vars, cancels = 0
             PROVE  Goal
  <2> SUFFICES ASSUME OneJob, TypeOK, OpenInv, [Next]_vars
               PROVE  /\ cancels' = 0 => cancels = 0
                      /\ Jobs = {1}
    BY DEF OpenInv
  <2> QED
    BY OnlyJob, CountersGrow, JobsAssumption DEF TypeOK
<1>1. /\ Jobs = {1} /\ 1 \in Executions /\ pc \in [Jobs -> Inside \cup Outside]
      /\ execOf \in [Jobs -> Executions] /\ execOf[1] \in Executions
      /\ execStatus \in [Executions -> ExecStatus]
      /\ cancelReq[1] = "idle"
      /\ pc[1] = "none" => execStatus[1] # "completed"
      /\ pc[1] \in InRun => execStatus[execOf[1]] # "completed"
  BY OnlyJob, JobsAreRows DEF TypeOK, OpenInv, Flagless
<1> USE DEF apiVars, redisVars, dbVars, workVars, msgVars, Goto
<1>2. ASSUME UNCHANGED execStatus, pc'[1] # "none" \/ pc' = pc,
             pc'[1] \notin InRun \/ (pc[1] \in InRun /\ execOf' = execOf)
      PROVE  Goal
  BY <1>1, <1>2
<1>3. ASSUME NEW e \in Executions, NEW status, execStatus[e] # "completed",
             execStatus' = [execStatus EXCEPT ![e] = status],
             pc'[1] # "none",
             pc'[1] \in InRun => execOf'[1] = e /\ status # "completed"
      PROVE  Goal
  BY <1>1, <1>3
<1> SUFFICES Goal
  OBVIOUS
<1> HIDE DEF Goal
<1>4. CASE Api(1)
  <2>1. CASE CreatePresentation(1) \/ RegenerateCommit(1)
    <3>1. /\ pc[1] = "none" /\ execStatus' = [execStatus EXCEPT ![1] = "queued"]
          /\ pc'[1] = "committed"
      BY <1>1, <2>1 DEF CreatePresentation, RegenerateCommit, NextJob
    <3> QED
      BY <1>1, <1>3, <3>1 DEF InRun
  <2>2. CASE Enqueue(1)
    BY <1>1, <1>2, <2>2 DEF Enqueue, InRun
  <2>3. CASE CancelCheck(1)
    BY <1>1, <1>2, <2>3 DEF CancelCheck
  <2>4. ~CancelSignal(1) /\ ~CancelCommit(1)
    BY <1>1 DEF CancelSignal, CancelCommit
  <2> QED
    BY <1>4, <2>1, <2>2, <2>3, <2>4 DEF Api
<1>5. CASE ReuseExecution(1)
  <2>1. PICK e \in Jobs : /\ execStatus[e] \in {"queued", "processing"}
                          /\ execOf' = [execOf EXCEPT ![1] = e]
    BY <1>5 DEF ReuseExecution, LatestRows
  <2>2. /\ UNCHANGED execStatus /\ pc'[1] = "lookup" /\ execOf'[1] = e
    BY <1>1, <1>5, <2>1 DEF ReuseExecution
  <2> QED
    BY <1>1, <2>1, <2>2 DEF Goal
<1>6. CASE NewExecution(1)
  <2>1. PICK e \in WorkerRows : /\ execStatus[e] = "none"
                                /\ execStatus' = [execStatus EXCEPT ![e] = "processing"]
                                /\ execOf' = [execOf EXCEPT ![1] = e]
    BY <1>6 DEF NewExecution
  <2>2. /\ pc'[1] = "lookup" /\ execOf'[1] = e /\ e \in Executions
    BY <1>1, <1>6, <2>1 DEF NewExecution, Executions
  <2> QED
    BY <1>3, <2>1, <2>2
<1>7. CASE StartAgent(1) \/ PersistPartial(1)
  <2>1. PICK status \in {"processing", "failed"} : execStatus' = [execStatus EXCEPT ![execOf[1]] = status]
    BY <1>7 DEF StartAgent, PersistPartial
  <2>2. /\ pc[1] \in InRun /\ pc'[1] # "none" /\ UNCHANGED execOf
    BY <1>1, <1>7 DEF StartAgent, PersistPartial, InRun
  <2> QED
    BY <1>1, <1>3, <2>1, <2>2
<1>8. CASE FinalizeCommit(1)
  <2>1. execStatus' = [execStatus EXCEPT ![execOf[1]] = Outcome(ctx[1])]
    BY <1>8 DEF FinalizeCommit
  <2>2. pc[1] \in InRun /\ pc'[1] = "publish" /\ UNCHANGED execOf
    BY <1>1, <1>8 DEF FinalizeCommit, InRun
  <2> QED
    BY <1>1, <1>3, <2>1, <2>2 DEF InRun
<1>9. CASE \/ CacheHit(1) \/ CacheMiss(1) \/ LeaveLoop(1) \/ StopCancelled(1)
           \/ StopBeforeAgent(1) \/ PollAllows(1) \/ PollFails(1) \/ ClearFails(1)
           \/ AgentSucceeds(1) \/ AgentFails(1)
           \/ PersistCheckpoint(1) \/ PersistFails(1) \/ CacheFinalizeFails(1)
  <2>1. /\ UNCHANGED <<execStatus, execOf>> /\ pc[1] \in InRun
    BY <1>9 DEF CacheHit, CacheMiss, LeaveLoop, StopCancelled, StopBeforeAgent, PollAllows,
       PollFails, ClearFails, AgentSucceeds, AgentFails, PersistCheckpoint, PersistFails,
       CacheFinalizeFails, InRun
  <2>2. pc'[1] # "none"
    BY <1>1, <1>9 DEF CacheHit, CacheMiss, LeaveLoop, StopCancelled, StopBeforeAgent, PollAllows,
       PollFails, ClearFails, AgentSucceeds, AgentFails, PersistCheckpoint, PersistFails,
       CacheFinalizeFails
  <2> QED
    BY <1>2, <2>1, <2>2
<1>10. CASE \/ Deliver(1) \/ IgnoreDuplicate(1) \/ MarkProcessing(1) \/ FinalizePublish(1)
            \/ SafetyNet(1) \/ RetryTask(1) \/ GiveUp(1) \/ OnFailure(1)
            \/ ApiDies(1) \/ Raise(1) \/ MarkProcessingFails(1) \/ ExceptFails(1)
            \/ OnFailureFails(1) \/ WorkerDies(1)
  <2>1. UNCHANGED execStatus
    BY <1>10 DEF Deliver, IgnoreDuplicate, MarkProcessing, FinalizePublish, SafetyNet, RetryTask,
       GiveUp, OnFailure, ApiDies, Raise, MarkProcessingFails, ExceptFails, OnFailureFails, WorkerDies
  <2>2. pc'[1] # "none" /\ pc'[1] \notin InRun
    BY <1>1, <1>10 DEF Deliver, IgnoreDuplicate, MarkProcessing, FinalizePublish, SafetyNet,
       RetryTask, GiveUp, OnFailure, ApiDies, Raise, MarkProcessingFails, ExceptFails,
       OnFailureFails, WorkerDies, InRun
  <2> QED
    BY <1>2, <2>1, <2>2
<1>11. CASE FlagExpires(1) \/ RegenerateCheck \/ StreamExpires \/ Settled \/ UNCHANGED vars
  <2>1. UNCHANGED <<execStatus, pc, execOf>>
    BY <1>11 DEF FlagExpires, RegenerateCheck, StreamExpires, Settled, vars
  <2> QED
    BY <1>2, <2>1
<1>12. CASE Work(1)
  BY <1>5, <1>6, <1>7, <1>8, <1>9, <1>10, <1>12 DEF Work
<1>13. CASE Faulty(1)
  BY <1>9, <1>10, <1>13 DEF Faulty
<1> QED
  BY <1>1, <1>4, <1>11, <1>12, <1>13 DEF Next

(* A completed execution is never reopened: a task that is delivered again *)
(* after its _finalize finds the row completed and inserts a new one.      *)
THEOREM CompletedStay ==
    ASSUME OneJob
    PROVE  Spec => CompletedExecutionsStay
<1>1. Init => TypeOK /\ Flagless /\ OpenInv
  BY InitTypeOK, JobsAreRows DEF Init, Flagless, OpenInv, InRun
<1>2. TypeOK /\ Flagless /\ OpenInv /\ [Next]_vars => TypeOK' /\ Flagless' /\ OpenInv'
  BY NextTypeOK, NextFlagless, NextOpen
<1>3. TypeOK /\ Flagless /\ OpenInv /\ [Next]_vars
        => [cancels = 0 => \A e \in Executions :
               execStatus[e] = "completed" => execStatus'[e] = "completed"]_vars
  BY NextOpen
<1> QED
  BY <1>1, <1>2, <1>3, PTL DEF Spec, CompletedExecutionsStay

=============================================================================
