----------------------------- MODULE JobPipeline -----------------------------
(***************************************************************************)
(* The life of one presentation: the API requests that create, regenerate  *)
(* and cancel it (api/v1/presentations.py), the Celery task that generates *)
(* it (worker/tasks.py) and the pipeline orchestrator the task runs        *)
(* (agents/pipeline_orchestrator.py), over the PostgreSQL rows and the     *)
(* Redis keys they share.  Several tasks of the presentation may run at    *)
(* once, a worker may die and its message be delivered again, a database   *)
(* call may fail, an agent may fail.                                       *)
(*                                                                         *)
(* PipelineContext defines the context the agents fill and what each of    *)
(* them does to it.                                                        *)
(***************************************************************************)
EXTENDS PipelineContext

CONSTANTS
    MaxJobs,     \* create and regenerate requests
    MaxFaults,   \* worker deaths, API deaths, database errors and failed polls, together
    MaxRetries,  \* max_retries of the task (2 in the code)
    MaxCancels   \* cancel requests

ASSUME JobsAssumption ==
    /\ MaxJobs \in Nat \ {0}
    /\ MaxFaults \in Nat
    /\ MaxRetries \in Nat
    /\ MaxCancels \in Nat

-----------------------------------------------------------------------------
(* A job is a create or regenerate request.  Its id is the id of the       *)
(* pipeline_executions row the request inserts, with started_at NULL, and  *)
(* of the Celery task.  The rows above MaxJobs are those that workers      *)
(* insert, with started_at set; every delivery of a task inserts at most   *)
(* one, so these rows never run out.                                       *)
Jobs       == 1..MaxJobs
WorkerRows == MaxJobs + 1 .. 2 * MaxJobs + MaxFaults
Executions == Jobs \cup WorkerRows

ExecStatus == {"none", "queued", "processing", "completed", "failed", "cancelled"}
PresStatus == ExecStatus

(* Where the task of a job is; unwritten: acknowledged, but on_failure     *)
(* could not write its status.                                             *)
Inside == {"delivered", "attach", "lookup", "poll", "start", "running", "persist",
           "partial", "finalize", "cachefin", "publish", "safety", "except", "failure"}
Outside == {"none", "committed", "lost", "queued", "acked", "unwritten"}

VARIABLES
    pres,       \* presentations row: status, slides, and the deck quality_score is of
    execStatus, \* pipeline_executions.status, by row
    ckpt,       \* agent_states row "_checkpoint", by execution (EmptyContext: no row)
    pc,         \* position of the task of a job
    execOf,     \* execution the task of a job works in
    ctx,        \* its PipelineContext
    retries,    \* request.retries of its Celery message
    key,        \* its idempotency key, named by the first job that has it
    idem,       \* Redis idempotency:<key> -> job, 0 if absent
    cancelFlag, \* Redis cancel:job:<job>
    late,       \* history: agents the job started since its flag was set or a poll failed
    cancelReq,  \* progress of a cancel request for the job
    regenReq,   \* a regenerate request has passed its status check
    stream,     \* first terminal event in the Redis stream of the presentation
    faults, cancels   \* used up of MaxFaults and MaxCancels

apiVars    == <<cancelReq, regenReq, cancels>>
redisVars  == <<idem, cancelFlag, late, stream>>
dbVars     == <<pres, execStatus, ckpt>>
workVars   == <<execOf, ctx>>
msgVars    == <<retries, key>>
vars == <<pc, pres, execStatus, ckpt, execOf, ctx, retries, key, idem, cancelFlag,
          late, cancelReq, regenReq, stream, faults, cancels>>

TypeOK ==
    /\ pres \in [status: PresStatus, slides: Int, scored: Int]
    /\ execStatus \in [Executions -> ExecStatus]
    /\ ckpt \in [Executions -> Context]
    /\ pc \in [Jobs -> Inside \cup Outside]
    /\ execOf \in [Jobs -> Executions]
    /\ ctx \in [Jobs -> Context]
    /\ retries \in [Jobs -> 0..MaxRetries]
    /\ key \in [Jobs -> Jobs]
    /\ idem \in [Jobs -> Jobs \cup {0}]
    /\ cancelFlag \in [Jobs -> BOOLEAN]
    /\ late \in [Jobs -> Nat]
    /\ cancelReq \in [Jobs -> {"idle", "checked", "flagged"}]
    /\ regenReq \in BOOLEAN
    /\ stream \in {"open", "complete", "error"}
    /\ faults \in 0..MaxFaults
    /\ cancels \in 0..MaxCancels

Init ==
    /\ pres = [status |-> "none", slides |-> NoSlides, scored |-> NoSlides]
    /\ execStatus = [e \in Executions |-> "none"]
    /\ ckpt = [e \in Executions |-> EmptyContext]
    /\ pc = [j \in Jobs |-> "none"]
    /\ execOf = [j \in Jobs |-> j]
    /\ ctx = [j \in Jobs |-> EmptyContext]
    /\ retries = [j \in Jobs |-> 0]
    /\ key = [j \in Jobs |-> j]
    /\ idem = [j \in Jobs |-> 0]
    /\ cancelFlag = [j \in Jobs |-> FALSE]
    /\ late = [j \in Jobs |-> 0]
    /\ cancelReq = [j \in Jobs |-> "idle"]
    /\ regenReq = FALSE
    /\ stream = "open"
    /\ faults = 0
    /\ cancels = 0

-----------------------------------------------------------------------------
(* Helpers *)

Goto(j, label) == pc' = [pc EXCEPT ![j] = label]

Fault == faults < MaxFaults /\ faults' = faults + 1

Publish(event) == stream' = IF stream = "open" THEN event ELSE stream

(* The jobs whose rows the next request may use, in order. *)
NextJob(j) == pc[j] = "none" /\ \A i \in Jobs : i < j => pc[i] # "none"

-----------------------------------------------------------------------------
(* API requests *)

\* POST /presentations: both rows are committed, then the task is enqueued.
CreatePresentation(j) ==
    /\ pres.status = "none"
    /\ NextJob(j)
    /\ pres' = [pres EXCEPT !.status = "queued"]
    /\ execStatus' = [execStatus EXCEPT ![j] = "queued"]
    /\ Goto(j, "committed")
    /\ UNCHANGED <<ckpt, workVars, msgVars, redisVars, apiVars, faults>>

\* POST /presentations/{id}/regenerate, up to its status check.
RegenerateCheck ==
    /\ ~regenReq
    /\ pres.status \notin {"none", "processing"}
    /\ \E j \in Jobs : NextJob(j)
    /\ regenReq' = TRUE
    /\ UNCHANGED <<pc, dbVars, workVars, msgVars, redisVars, cancelReq, cancels, faults>>

\* ... its commit.  The key is regen:<id>:<second>: a request of the same
\* second as the previous regeneration gets the same key.
RegenerateCommit(j) ==
    /\ regenReq
    /\ NextJob(j)
    /\ regenReq' = FALSE
    /\ pres' = [pres EXCEPT !.status = "queued"]
    /\ execStatus' = [execStatus EXCEPT ![j] = "queued"]
    /\ \E k \in {j} \cup {key[i] : i \in {i \in Jobs : i = j - 1 /\ i > 1}} :
         key' = [key EXCEPT ![j] = k]
    /\ Goto(j, "committed")
    /\ UNCHANGED <<ckpt, workVars, retries, redisVars, cancelReq, cancels, faults>>

\* apply_async(task_id = execution.id)
Enqueue(j) ==
    /\ pc[j] = "committed"
    /\ Goto(j, "queued")
    /\ UNCHANGED <<dbVars, workVars, msgVars, redisVars, apiVars, faults>>

\* The API process dies between the commit and the enqueue.
ApiDies(j) ==
    /\ pc[j] = "committed"
    /\ Fault
    /\ Goto(j, "lost")
    /\ UNCHANGED <<dbVars, workVars, msgVars, redisVars, apiVars>>

\* DELETE /jobs/{job_id}, up to its status check.
CancelCheck(j) ==
    /\ cancels < MaxCancels
    /\ cancelReq[j] = "idle"
    /\ execStatus[j] \in {"queued", "processing"}
    /\ cancels' = cancels + 1
    /\ cancelReq' = [cancelReq EXCEPT ![j] = "checked"]
    /\ UNCHANGED <<pc, dbVars, workVars, msgVars, redisVars, regenReq, faults>>

\* ... the Redis calls, before the commit: set_cancellation_flag, cancel_stream.
CancelSignal(j) ==
    /\ cancelReq[j] = "checked"
    /\ cancelReq' = [cancelReq EXCEPT ![j] = "flagged"]
    /\ cancelFlag' = [cancelFlag EXCEPT ![j] = TRUE]
    /\ late' = [late EXCEPT ![j] = 0]
    /\ Publish("error")
    /\ UNCHANGED <<pc, dbVars, workVars, msgVars, idem, regenReq, cancels, faults>>

\* ... the two updates, which do not look at the statuses again.
CancelCommit(j) ==
    /\ cancelReq[j] = "flagged"
    /\ cancelReq' = [cancelReq EXCEPT ![j] = "idle"]
    /\ execStatus' = [execStatus EXCEPT ![j] = "cancelled"]
    /\ pres' = [pres EXCEPT !.status = "cancelled"]
    /\ UNCHANGED <<pc, ckpt, workVars, msgVars, redisVars, regenReq, cancels, faults>>

\* The flag lives 300 s.  A running task polls it more often than that, so
\* it expires only while the task waits in the broker or after the task.
FlagExpires(j) ==
    /\ cancelFlag[j]
    /\ pc[j] \in Outside
    /\ cancelFlag' = [cancelFlag EXCEPT ![j] = FALSE]
    /\ late' = [late EXCEPT ![j] = 0]
    /\ UNCHANGED <<pc, dbVars, workVars, msgVars, idem, stream, apiVars, faults>>

\* The stream lives 300 s after its last event; running tasks keep adding events.
StreamExpires ==
    /\ stream # "open"
    /\ \A j \in Jobs : pc[j] \in Outside
    /\ stream' = "open"
    /\ UNCHANGED <<pc, dbVars, workVars, msgVars, idem, cancelFlag, late, apiVars, faults>>

-----------------------------------------------------------------------------
(* generate_presentation_task, before the orchestrator *)

\* Variant: the key is set without NX.
DeliverAnyway(j) ==
    /\ pc[j] = "queued"
    /\ idem' = [idem EXCEPT ![key[j]] = j]
    /\ Goto(j, "delivered")
    /\ UNCHANGED <<dbVars, workVars, msgVars, cancelFlag, late, stream, apiVars, faults>>

\* SET NX of the idempotency key; a redelivery or a retry finds its own job id.
Deliver(j) ==
    /\ pc[j] = "queued"
    /\ idem[key[j]] \in {0, j}
    /\ idem' = [idem EXCEPT ![key[j]] = j]
    /\ Goto(j, "delivered")
    /\ UNCHANGED <<dbVars, workVars, msgVars, cancelFlag, late, stream, apiVars, faults>>

\* Another job has the key: raise Ignore(), nothing is written.
IgnoreDuplicate(j) ==
    /\ pc[j] = "queued"
    /\ idem[key[j]] \notin {0, j}
    /\ Goto(j, "acked")
    /\ UNCHANGED <<dbVars, workVars, msgVars, redisVars, apiVars, faults>>

\* _update_presentation_status(processing)
MarkProcessing(j) ==
    /\ pc[j] = "delivered"
    /\ pres' = [pres EXCEPT !.status = "processing"]
    /\ Goto(j, "attach")
    /\ UNCHANGED <<execStatus, ckpt, workVars, msgVars, redisVars, apiVars, faults>>

(* _get_or_create_execution orders by started_at DESC.  PostgreSQL puts    *)
(* NULL first, so the row found is one of those the API inserted, any of   *)
(* them: they are all NULL.                                                *)
LatestRows == {e \in Jobs : execStatus[e] # "none"}

\* Variant: the checkpoint is not loaded.
ReuseExecutionAfresh(j) ==
    /\ pc[j] = "attach"
    /\ \E e \in LatestRows :
         /\ execStatus[e] \in {"queued", "processing"}
         /\ execOf' = [execOf EXCEPT ![j] = e]
         /\ ctx' = [ctx EXCEPT ![j] = EmptyContext]
    /\ Goto(j, "lookup")
    /\ UNCHANGED <<dbVars, msgVars, redisVars, apiVars, faults>>

\* Variant: a completed row is reused too.
ReuseCompletedExecution(j) ==
    /\ pc[j] = "attach"
    /\ \E e \in LatestRows :
         /\ execStatus[e] \in {"queued", "processing", "completed"}
         /\ execOf' = [execOf EXCEPT ![j] = e]
         /\ ctx' = [ctx EXCEPT ![j] = ckpt[e]]
    /\ Goto(j, "lookup")
    /\ UNCHANGED <<dbVars, msgVars, redisVars, apiVars, faults>>

\* The row found is queued or processing: reuse it, and load its checkpoint.
ReuseExecution(j) ==
    /\ pc[j] = "attach"
    /\ \E e \in LatestRows :
         /\ execStatus[e] \in {"queued", "processing"}
         /\ execOf' = [execOf EXCEPT ![j] = e]
         /\ ctx' = [ctx EXCEPT ![j] = ckpt[e]]
    /\ Goto(j, "lookup")
    /\ UNCHANGED <<dbVars, msgVars, redisVars, apiVars, faults>>

\* The row found is terminal: insert a new one; it has no checkpoint.
NewExecution(j) ==
    /\ pc[j] = "attach"
    /\ \E e \in LatestRows : execStatus[e] \notin {"queued", "processing"}
    /\ \E e \in WorkerRows :
         /\ execStatus[e] = "none"
         /\ \A f \in WorkerRows : f < e => execStatus[f] # "none"
         /\ execStatus' = [execStatus EXCEPT ![e] = "processing"]
         /\ execOf' = [execOf EXCEPT ![j] = e]
         /\ ctx' = [ctx EXCEPT ![j] = EmptyContext]
    /\ Goto(j, "lookup")
    /\ UNCHANGED <<pres, ckpt, msgVars, redisVars, apiVars, faults>>

\* The Slide_JSON cache is consulted when the checkpoint has a detected_context.
CacheHit(j) ==
    /\ pc[j] = "lookup"
    /\ Classifier \in Done(ctx[j])
    /\ ctx' = [ctx EXCEPT ![j].slides = CachedSlides,
                          ![j].done = [a \in Agents |-> 1]]
    /\ Goto(j, "cachefin")
    /\ UNCHANGED <<dbVars, execOf, msgVars, redisVars, apiVars, faults>>

CacheMiss(j) ==
    /\ pc[j] = "lookup"
    /\ Goto(j, "poll")
    /\ UNCHANGED <<dbVars, workVars, msgVars, redisVars, apiVars, faults>>

-----------------------------------------------------------------------------
(* PipelineOrchestrator.run *)

\* while set(completed_agents) != set(PIPELINE_SEQUENCE)
LeaveLoop(j) ==
    /\ pc[j] = "poll"
    /\ AllDone(ctx[j])
    /\ Goto(j, "finalize")
    /\ UNCHANGED <<dbVars, workVars, msgVars, redisVars, apiVars, faults>>

\* The poll between agents sees the flag, clears it and stops.
StopCancelled(j) ==
    /\ pc[j] = "poll"
    /\ ~AllDone(ctx[j])
    /\ cancelFlag[j]
    /\ cancelFlag' = [cancelFlag EXCEPT ![j] = FALSE]
    /\ late' = [late EXCEPT ![j] = 0]
    /\ ctx' = [ctx EXCEPT ![j].failed = TRUE]
    /\ Goto(j, "finalize")
    /\ UNCHANGED <<dbVars, execOf, msgVars, idem, stream, apiVars, faults>>

\* The time budget, checked before the flag, is spent, or the circuit
\* breaker of the agent, asked after it, is open.
StopBeforeAgent(j) ==
    /\ pc[j] = "poll"
    /\ ~AllDone(ctx[j])
    /\ ctx' = [ctx EXCEPT ![j].failed = TRUE]
    /\ Goto(j, "finalize")
    /\ UNCHANGED <<dbVars, execOf, msgVars, redisVars, apiVars, faults>>

\* Variant: the flag is not polled.
PollAllowsUnasked(j) ==
    /\ pc[j] = "poll"
    /\ ~AllDone(ctx[j])
    /\ Goto(j, "start")
    /\ UNCHANGED <<dbVars, workVars, msgVars, redisVars, apiVars, faults>>

PollAllows(j) ==
    /\ pc[j] = "poll"
    /\ ~AllDone(ctx[j])
    /\ ~cancelFlag[j]
    /\ Goto(j, "start")
    /\ UNCHANGED <<dbVars, workVars, msgVars, redisVars, apiVars, faults>>

\* Redis fails before the poll has read the flag, which is swallowed.
PollFails(j) ==
    /\ pc[j] = "poll"
    /\ ~AllDone(ctx[j])
    /\ Fault
    /\ late' = [late EXCEPT ![j] = 0]
    /\ Goto(j, "start")
    /\ UNCHANGED <<dbVars, workVars, msgVars, idem, cancelFlag, stream, apiVars>>

\* It fails while the flag is cleared, or after that: failed_agent is set
\* already, the break is skipped and the agent runs.
ClearFails(j) ==
    /\ pc[j] = "poll"
    /\ ~AllDone(ctx[j])
    /\ cancelFlag[j]
    /\ Fault
    /\ \E flag \in BOOLEAN : cancelFlag' = [cancelFlag EXCEPT ![j] = flag]
    /\ late' = [late EXCEPT ![j] = 0]
    /\ ctx' = [ctx EXCEPT ![j].failed = TRUE]
    /\ Goto(j, "start")
    /\ UNCHANGED <<dbVars, execOf, msgVars, idem, stream, apiVars>>

\* update_execution_status: processing, whatever the row said
StartAgent(j) ==
    /\ pc[j] = "start"
    /\ execStatus' = [execStatus EXCEPT ![execOf[j]] = "processing"]
    /\ late' = IF cancelFlag[j] THEN [late EXCEPT ![j] = @ + 1] ELSE late
    /\ Goto(j, "running")
    /\ UNCHANGED <<pres, ckpt, workVars, msgVars, idem, cancelFlag, stream, apiVars, faults>>

\* The agent runs within its budget and is appended to completed_agents.
AgentSucceeds(j) ==
    /\ pc[j] = "running"
    /\ \E a \in Agents, low \in BOOLEAN :
         /\ NextAgent(ctx[j], a)
         /\ ctx' = [ctx EXCEPT ![j] = RunAgent(@, a, low)]
    /\ Goto(j, "persist")
    /\ UNCHANGED <<dbVars, execOf, msgVars, redisVars, apiVars, faults>>

\* Variant: a failed agent is persisted like one that succeeded.
AgentFailsPersisted(j) ==
    /\ pc[j] = "running"
    /\ ctx' = [ctx EXCEPT ![j].failed = TRUE]
    /\ Publish("error")
    /\ Goto(j, "persist")
    /\ UNCHANGED <<dbVars, execOf, msgVars, idem, cancelFlag, late, apiVars, faults>>

\* An exception or the latency budget: failed_agent is set, an error
\* published.  The scoring may already have set quality_result.
AgentFails(j) ==
    /\ pc[j] = "running"
    /\ \E a \in Agents, scored \in {ctx[j].scored, ctx[j].slides} :
         /\ NextAgent(ctx[j], a)
         /\ scored # ctx[j].scored => a = Scoring
         /\ ctx' = [ctx EXCEPT ![j].failed = TRUE, ![j].scored = scored]
    /\ Publish("error")
    /\ Goto(j, "partial")
    /\ UNCHANGED <<dbVars, execOf, msgVars, idem, cancelFlag, late, apiVars, faults>>

\* Variant: the checkpoint goes to the row of the job instead of the execution.
PersistCheckpointOfJob(j) ==
    /\ pc[j] = "persist"
    /\ ckpt' = [ckpt EXCEPT ![j] = ctx[j]]
    /\ Goto(j, "poll")
    /\ UNCHANGED <<pres, execStatus, workVars, msgVars, redisVars, apiVars, faults>>

\* The agent's output and the checkpoint, in one commit.  A context that
\* has failed (ClearFails) does not begin another pass over the sequence.
PersistCheckpoint(j) ==
    /\ pc[j] = "persist"
    /\ ckpt' = [ckpt EXCEPT ![execOf[j]] = ctx[j]]
    /\ Goto(j, IF ctx[j].failed /\ PassOver(ctx[j]) THEN "finalize" ELSE "poll")
    /\ UNCHANGED <<pres, execStatus, workVars, msgVars, redisVars, apiVars, faults>>

\* That commit fails inside the try block of _run_agent.
PersistFails(j) ==
    /\ pc[j] = "persist"
    /\ Fault
    /\ ctx' = [ctx EXCEPT ![j].failed = TRUE]
    /\ Publish("error")
    /\ Goto(j, "partial")
    /\ UNCHANGED <<dbVars, execOf, msgVars, idem, cancelFlag, late, apiVars>>

\* _persist_partial_result
PersistPartial(j) ==
    /\ pc[j] = "partial"
    /\ pres' = [status |-> "failed", slides |-> BestSlides(ctx[j]),
                scored |-> ctx[j].scored]
    /\ execStatus' = [execStatus EXCEPT ![execOf[j]] = "failed"]
    /\ Goto(j, "finalize")
    /\ UNCHANGED <<ckpt, workVars, msgVars, redisVars, apiVars, faults>>

\* The commit of _finalize
Outcome(c) == IF AllDone(c) THEN "completed" ELSE "failed"

FinalizeCommit(j) ==
    /\ pc[j] \in {"finalize", "cachefin"}
    /\ pres' = [status |-> Outcome(ctx[j]), slides |-> BestSlides(ctx[j]),
                scored |-> ctx[j].scored]
    /\ execStatus' = [execStatus EXCEPT ![execOf[j]] = Outcome(ctx[j])]
    /\ Goto(j, "publish")
    /\ UNCHANGED <<ckpt, workVars, msgVars, redisVars, apiVars, faults>>

\* The terminal event of _finalize
FinalizePublish(j) ==
    /\ pc[j] = "publish"
    /\ Publish(IF AllDone(ctx[j]) THEN "complete" ELSE "error")
    /\ Goto(j, "safety")
    /\ UNCHANGED <<dbVars, workVars, msgVars, idem, cancelFlag, late, apiVars, faults>>

-----------------------------------------------------------------------------
(* generate_presentation_task, after the orchestrator *)

\* Variant: the length of the list is not tested.
SafetyNetUntested(j) ==
    /\ pc[j] = "safety"
    /\ pres' = [pres EXCEPT !.status = "completed"]
    /\ Goto(j, "acked")
    /\ UNCHANGED <<execStatus, ckpt, workVars, msgVars, redisVars, apiVars, faults>>

\* The "safety net": the status is written again, from the length of the list.
SafetyNet(j) ==
    /\ pc[j] = "safety"
    /\ pres' = [pres EXCEPT !.status =
                   IF DoneLen(ctx[j]) = Scoring THEN "completed" ELSE "failed"]
    /\ Goto(j, "acked")
    /\ UNCHANGED <<execStatus, ckpt, workVars, msgVars, redisVars, apiVars, faults>>

\* A database error outside the try blocks of the orchestrator leaves run().
Raise(j) ==
    /\ pc[j] \in {"attach", "start", "partial", "finalize", "safety"}
    /\ Fault
    /\ Goto(j, "except")
    /\ UNCHANGED <<dbVars, workVars, msgVars, redisVars, apiVars>>

\* In the _finalize of a cache hit it is swallowed; the loop is then skipped.
CacheFinalizeFails(j) ==
    /\ pc[j] = "cachefin"
    /\ Fault
    /\ Goto(j, "poll")
    /\ UNCHANGED <<dbVars, workVars, msgVars, redisVars, apiVars>>

\* The except clause: status failed, then self.retry
RetryTask(j) ==
    /\ pc[j] = "except"
    /\ retries[j] < MaxRetries
    /\ retries' = [retries EXCEPT ![j] = @ + 1]
    /\ pres' = [pres EXCEPT !.status = "failed"]
    /\ Goto(j, "queued")
    /\ UNCHANGED <<execStatus, ckpt, workVars, key, redisVars, apiVars, faults>>

\* No retry is left: self.retry raises.
GiveUp(j) ==
    /\ pc[j] = "except"
    /\ retries[j] = MaxRetries
    /\ pres' = [pres EXCEPT !.status = "failed"]
    /\ Goto(j, "failure")
    /\ UNCHANGED <<execStatus, ckpt, workVars, msgVars, redisVars, apiVars, faults>>

\* The write of the except clause raises: there is no retry either.
ExceptFails(j) ==
    /\ pc[j] = "except"
    /\ Fault
    /\ Goto(j, "failure")
    /\ UNCHANGED <<dbVars, workVars, msgVars, redisVars, apiVars>>

\* The update to processing is outside the try: its error is not retried.
MarkProcessingFails(j) ==
    /\ pc[j] = "delivered"
    /\ Fault
    /\ Goto(j, "failure")
    /\ UNCHANGED <<dbVars, workVars, msgVars, redisVars, apiVars>>

\* Variant: on_failure leaves the presentation alone.
OnFailureUnseen(j) ==
    /\ pc[j] = "failure"
    /\ Goto(j, "acked")
    /\ UNCHANGED <<dbVars, workVars, msgVars, redisVars, apiVars, faults>>

\* BaseTask.on_failure: the task has failed for good.
OnFailure(j) ==
    /\ pc[j] = "failure"
    /\ pres' = [pres EXCEPT !.status = "failed"]
    /\ Goto(j, "acked")
    /\ UNCHANGED <<execStatus, ckpt, workVars, msgVars, redisVars, apiVars, faults>>

\* Its write fails too, which is logged and swallowed.
OnFailureFails(j) ==
    /\ pc[j] = "failure"
    /\ Fault
    /\ Goto(j, "unwritten")
    /\ UNCHANGED <<dbVars, workVars, msgVars, redisVars, apiVars>>

\* Variant: the message was acknowledged when it was received.
WorkerDiesUnnoticed(j) ==
    /\ pc[j] \in Inside
    /\ Fault
    /\ ctx' = [ctx EXCEPT ![j] = EmptyContext]
    /\ Goto(j, "lost")
    /\ UNCHANGED <<dbVars, execOf, msgVars, redisVars, apiVars>>

\* The worker process is lost: task_acks_late and task_reject_on_worker_lost
\* give the message back to the broker, the context is gone.
WorkerDies(j) ==
    /\ pc[j] \in Inside
    /\ Fault
    /\ ctx' = [ctx EXCEPT ![j] = EmptyContext]
    /\ Goto(j, "queued")
    /\ UNCHANGED <<dbVars, execOf, msgVars, redisVars, apiVars>>

-----------------------------------------------------------------------------

\* Nothing is left to do.
Settled ==
    /\ \A j \in Jobs : pc[j] \in {"none", "lost", "acked", "unwritten"} /\ cancelReq[j] = "idle"
    /\ ~regenReq
    /\ UNCHANGED vars

Api(j) ==
    \/ CreatePresentation(j) \/ RegenerateCommit(j) \/ Enqueue(j)
    \/ CancelCheck(j) \/ CancelSignal(j) \/ CancelCommit(j)

Work(j) ==
    \/ Deliver(j) \/ IgnoreDuplicate(j) \/ MarkProcessing(j)
    \/ ReuseExecution(j) \/ NewExecution(j) \/ CacheHit(j) \/ CacheMiss(j)
    \/ LeaveLoop(j) \/ StopCancelled(j) \/ StopBeforeAgent(j) \/ PollAllows(j)
    \/ StartAgent(j) \/ AgentSucceeds(j) \/ AgentFails(j)
    \/ PersistCheckpoint(j) \/ PersistPartial(j)
    \/ FinalizeCommit(j) \/ FinalizePublish(j) \/ SafetyNet(j)
    \/ RetryTask(j) \/ GiveUp(j) \/ OnFailure(j)

Faulty(j) ==
    \/ ApiDies(j) \/ PollFails(j) \/ ClearFails(j) \/ PersistFails(j) \/ Raise(j)
    \/ CacheFinalizeFails(j) \/ MarkProcessingFails(j) \/ ExceptFails(j)
    \/ OnFailureFails(j) \/ WorkerDies(j)

Next ==
    \/ \E j \in Jobs : Api(j) \/ Work(j) \/ Faulty(j) \/ FlagExpires(j)
    \/ RegenerateCheck
    \/ StreamExpires
    \/ Settled

Spec == Init /\ [][Next]_vars

(* A worker that has a task, or finds one in its queue, goes on; an API    *)
(* process that has committed a job enqueues it.  Requests are not forced, *)
(* and neither are faults.                                                 *)
FairSpec ==
    /\ Spec
    /\ \A j \in Jobs : WF_vars(Work(j)) /\ WF_vars(Enqueue(j))

-----------------------------------------------------------------------------
(* Safety *)

(* Every context a task works on, and every checkpoint a redelivery may    *)
(* resume from, lists the agents in pipeline order up to the feedback loop *)
(* (pipeline_orchestrator.py 554-605, 1446-1462).                          *)
ExecutionOrder ==
    /\ \A j \in Jobs : InOrder(ctx[j])
    /\ \A e \in Executions : InOrder(ckpt[e])

(* No context or checkpoint lists an agent twice, so that the list length  *)
(* the task tests (tasks.py 198-207) and the set the orchestrator tests    *)
(* (1524) agree on whether the pipeline is complete.                       *)
NoAgentTwice ==
    /\ \A j \in Jobs : NoRepeat(ctx[j])
    /\ \A e \in Executions : NoRepeat(ckpt[e])

(* The two together: feedback loops, resumed runs and two tasks in one     *)
(* execution leave every list a beginning of the sequence.                 *)
AgentListsSound == ExecutionOrder /\ NoAgentTwice

(* A checkpoint carries no failure: a run resumed from one that does stops *)
(* after one pass (line 618).  It takes a cancellation and a fault to have *)
(* one: a flag that is seen and cannot be cleared (579-586).               *)
CleanCheckpoints == cancels = 0 \/ faults = 0 => \A e \in Executions : ~ckpt[e].failed

(* A task between two agents has nothing in memory that is not in the      *)
(* checkpoint: losing the worker there loses no agent's work, only the     *)
(* note of a cancellation whose flag could not be cleared.  (After a cache *)
(* hit all agents count as done, and none is run.)                         *)
SameWork(c, d) == [c EXCEPT !.failed = d.failed] = d
CrashLosesNothing ==
    \A j \in Jobs :
        pc[j] \in {"lookup", "poll", "start", "running"} /\ ~AllDone(ctx[j]) =>
            SameWork(ckpt[execOf[j]], ctx[j])

(* A completed presentation has slides.                                    *)
CompletedHasSlides == pres.status = "completed" => pres.slides # NoSlides

(* When no task is left in the broker or a worker, and no request is under *)
(* way, the presentation is not left queued or processing, unless the task *)
(* of one of its jobs failed and on_failure could not write that.          *)
Resting == /\ \A j \in Jobs : pc[j] \in {"none", "acked", "unwritten"} /\ cancelReq[j] = "idle"
           /\ ~regenReq
RestsTerminal ==
    Resting /\ (\A j \in Jobs : pc[j] # "unwritten") => pres.status \notin {"queued", "processing"}

(* Two jobs of one idempotency key are never both run.                     *)
OneRunPerKey ==
    \A i, j \in Jobs : i # j /\ key[i] = key[j] => pc[i] \notin Inside \/ pc[j] \notin Inside

(* Once the cancellation flag of a running job is in Redis, at most the    *)
(* agent it was about to start still starts, over crashes and retries, and *)
(* one more for every poll that Redis lets fail.                           *)
CancelStopsWithinOneAgent == \A j \in Jobs : late[j] <= 1

(* An execution that has completed is never reopened by a later delivery   *)
(* (without a cancellation: line 848 of presentations.py overwrites it).   *)
CompletedExecutionsStay ==
    [][cancels = 0 => \A e \in Executions :
          execStatus[e] = "completed" => execStatus'[e] = "completed"]_vars

(* The checkpoints are those of uninterrupted runs of the pipeline: seen   *)
(* from the agent_states rows, crashes, redeliveries and retries do not    *)
(* exist, and of a cancellation at most a note in the context of an agent  *)
(* that ran.  It holds as long as one task works on the presentation.      *)
Uninterrupted == INSTANCE PipelineRuns WITH Runs <- Executions, saved <- ckpt
ImplementsRuns == Uninterrupted!Spec

(* Liveness *)

(* A job that reached the broker is acknowledged, whatever happens to it.  *)
EnqueuedJobsFinish == \A j \in Jobs : pc[j] = "queued" ~> pc[j] \in {"acked", "unwritten"}

=============================================================================
