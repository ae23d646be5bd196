---------------------------- MODULE MCJobPipeline ----------------------------
(***************************************************************************)
(* JobPipeline for model checking: a second initial state, from which two  *)
(* regenerations of a finished presentation can be explored, and what the  *)
(* docstring of the orchestrator says of a task that is delivered again.   *)
(***************************************************************************)
EXTENDS JobPipeline

-----------------------------------------------------------------------------
(* Job 1 has run alone and to its end, without a fault or a feedback       *)
(* round; its stream has expired.                                          *)

FinishedContext == [done |-> [a \in Agents |-> 1], feedback |-> 0, raw |-> 1,
                    slides |-> 1, scored |-> 1, failed |-> FALSE]

FirstJobDone(status, c) ==
    /\ pres = [status |-> status, slides |-> c.slides, scored |-> c.scored]
    /\ execStatus = [e \in Executions |-> IF e = 1 THEN status ELSE "none"]
    /\ ckpt = [e \in Executions |-> IF e = 1 THEN c ELSE EmptyContext]
    /\ pc = [j \in Jobs |-> IF j = 1 THEN "acked" ELSE "none"]
    /\ execOf = [j \in Jobs |-> j]
    /\ ctx = [j \in Jobs |-> IF j = 1 THEN c ELSE EmptyContext]
    /\ retries = [j \in Jobs |-> 0]
    /\ key = [j \in Jobs |-> j]
    /\ idem = [j \in Jobs |-> IF j = 1 THEN 1 ELSE 0]
    /\ cancelFlag = [j \in Jobs |-> FALSE]
    /\ late = [j \in Jobs |-> 0]
    /\ cancelReq = [j \in Jobs |-> "idle"]
    /\ regenReq = FALSE
    /\ stream = "open"
    /\ faults = 0
    /\ cancels = 0

InitRegenerate == FirstJobDone("completed", FinishedContext)

SpecRegenerate == InitRegenerate /\ [][Next]_vars

-----------------------------------------------------------------------------
(* "If [...] a checkpoint exists for this presentation, the pipeline       *)
(* resumes from the last completed agent": a task that is delivered again  *)
(* while the execution it worked in is not over has all agents of its      *)
(* checkpoint.  (It may find another row, since those of the requests have *)
(* no started_at and come first.)                                          *)
RedeliveredRunsResume ==
    [][\A j \in Jobs :
          pc[j] = "attach" /\ pc'[j] = "lookup" /\ execStatus[execOf[j]] = "processing"
             => Done(ckpt[execOf[j]]) \subseteq Done(ctx'[j])]_vars

=============================================================================
