----------------------------- MODULE SideTasks -----------------------------
(***************************************************************************)
(* The Celery tasks beside the generation of one presentation:             *)
(* export_pptx_task and regenerate_slide_task (backend/app/worker/tasks.py *)
(* 233-639), the requests that queue them (api/v1/presentations.py 719-802, *)
(* api/v1/slide_editing.py 451-494), and the status they share with the    *)
(* generation task, which is JobPipeline's: here it is only its commits.   *)
(*                                                                         *)
(* The presentation has been generated once.  Its slides are a deck with a *)
(* number, counted up by every write, that is whole or the part a failed   *)
(* run left.                                                               *)
(***************************************************************************)
EXTENDS Integers, Sequences

CONSTANTS
  MaxJobs,        \* bound: side tasks
  MaxGens,        \* bound: later generation tasks
  MaxCrashes,     \* bound: workers lost
  MaxAsked,       \* bound: requests of users that something is done
  MaxTime         \* bound: ticks of the clock

ASSUME SideTasksAssumption ==
  /\ MaxJobs \in Nat /\ MaxGens \in Nat
  /\ MaxCrashes \in Nat /\ MaxAsked \in Nat /\ MaxTime \in Nat

Jobs == 1..MaxJobs      \* Celery's ids, in the order they are given
Gens == 1..MaxGens
NoJob == 0

VARIABLES
  status,     \* presentations.status: "queued", "processing", "completed", "failed"
  deck,       \* presentations.slides
  replaced,   \* history: when each earlier deck was replaced
  gens,       \* per generation: "none", "queued", "running", "completed" or "failed"
              \* (its deck is written, its safety net to come) or "done"
  doubled,    \* history: a generation was asked for while another was unfinished
  jobs,       \* per side task: what was asked and how far the worker is
  keys,       \* Redis: per idempotency key, the job that set it
  files,      \* MinIO: per job, the deck in exports/<presentation>/<job>.pptx
  asked,      \* requests so far
  crashes,
  now

presentation == <<status, deck, replaced>>
runs == <<gens, doubled>>
counters == <<asked, crashes, now>>
vars == <<presentation, runs, jobs, keys, files, counters>>

Deck(no, whole) == [no |-> no, whole |-> whole]
NoDeck == Deck(0, FALSE)

\* max_retries of regenerate_slide_task and export_pptx_task.
MaxRetries(kind) == IF kind = "slide" THEN 2 ELSE 1

Unasked == [kind |-> "none", key |-> NoJob, at |-> 0, phase |-> "none",
            tries |-> 0, result |-> "PENDING", deck |-> NoDeck]

Init ==
  /\ status = "completed" /\ deck = Deck(1, TRUE) /\ replaced = <<>>
  /\ gens = [g \in Gens |-> "none"] /\ doubled = FALSE
  /\ jobs = [j \in Jobs |-> Unasked]
  /\ keys = [j \in Jobs |-> NoJob]
  /\ files = [j \in Jobs |-> NoDeck]
  /\ asked = 0 /\ crashes = 0 /\ now = 0

-----------------------------------------------------------------------------
IsAsked == asked < MaxAsked /\ asked' = asked + 1
Unfinished == {g \in Gens : gens[g] \notin {"none", "done"}}
Replace(whole) ==
  /\ deck' = Deck(deck.no + 1, whole)
  /\ replaced' = Append(replaced, now)

\* regenerate_presentation: refused only while the status is processing.
Regenerate(g) ==
  /\ IsAsked
  /\ \A h \in Gens : gens[h] = "none" <=> h >= g
  /\ status # "processing"
  /\ gens' = [gens EXCEPT ![g] = "queued"]
  /\ doubled' = (doubled \/ Unfinished # {})
  /\ status' = "queued"
  /\ UNCHANGED <<deck, replaced, jobs, keys, files, crashes, now>>

\* generate_presentation_task sets processing, whatever the status is.
Begin(g) ==
  /\ gens[g] = "queued"
  /\ gens' = [gens EXCEPT ![g] = "running"]
  /\ status' = "processing"
  /\ UNCHANGED <<deck, replaced, doubled, jobs, keys, files, counters>>

\* _finalize of a run with every agent done.
Complete(g) ==
  /\ gens[g] = "running" /\ Replace(TRUE)
  /\ gens' = [gens EXCEPT ![g] = "completed"]
  /\ status' = "completed"
  /\ UNCHANGED <<doubled, jobs, keys, files, counters>>

\* _persist_partial_result, or _finalize of a run that stopped early.
Partial(g) ==
  /\ gens[g] = "running" /\ Replace(FALSE)
  /\ gens' = [gens EXCEPT ![g] = "failed"]
  /\ status' = "failed"
  /\ UNCHANGED <<doubled, jobs, keys, files, counters>>

\* The task writes the status a second time, its "safety net".
SafetyNet(g) ==
  /\ gens[g] \in {"completed", "failed"}
  /\ status' = gens[g]
  /\ gens' = [gens EXCEPT ![g] = "done"]
  /\ UNCHANGED <<deck, replaced, doubled, jobs, keys, files, counters>>

\* The task raises: its status is failed until the retry starts.
Raise(g) ==
  /\ gens[g] = "running"
  /\ gens' = [gens EXCEPT ![g] = "queued"]
  /\ status' = "failed"
  /\ UNCHANGED <<deck, replaced, doubled, jobs, keys, files, counters>>

\* update_slide and its kind: one slide of a finished presentation.
Edit ==
  /\ IsAsked
  /\ status \in {"completed", "failed"} /\ Replace(deck.whole)
  /\ UNCHANGED <<status, runs, jobs, keys, files, crashes, now>>

-----------------------------------------------------------------------------
\* The key ends with the second: a later request of the kind may have the same.
KeysFor(j, kind) ==
  {j} \cup {jobs[i].key : i \in {i \in Jobs : jobs[i].kind = kind /\ jobs[i].at = now}}

\* export_presentation and regenerate_slide, both of completed presentations only.
Ask(j, kind) ==
  /\ IsAsked
  /\ \A i \in Jobs : jobs[i] = Unasked <=> i >= j
  /\ status = "completed"
  /\ \E key \in KeysFor(j, kind) :
       jobs' = [jobs EXCEPT ![j] = [Unasked EXCEPT !.kind = kind, !.key = key,
                                                    !.at = now, !.phase = "queued"]]
  /\ UNCHANGED <<presentation, runs, keys, files, crashes, now>>

AskExport(j) == Ask(j, "export")
AskSlide(j) == Ask(j, "slide")

\* get_export_status: what the poll of a job shows.
Poll(j) ==
  CASE jobs[j].result = "SUCCESS" -> "completed"
    [] jobs[j].result = "FAILURE" -> "failed"
    [] OTHER -> "in progress"

\* The task is in another phase, in which what it has read is not used again.
Goes(j, phase) == jobs' = [jobs EXCEPT ![j].phase = phase, ![j].deck = NoDeck]

\* _check_and_set_idempotency: SET NX, then the holder of the key; the job that
\* has it already passes when it is delivered again.
TakeKey(j) ==
  /\ jobs[j].phase = "queued" /\ keys[jobs[j].key] \in {NoJob, j}
  /\ keys' = [keys EXCEPT ![jobs[j].key] = j]
  /\ Goes(j, "running")
  /\ UNCHANGED <<presentation, runs, files, counters>>

\* raise Ignore(): acknowledged, and no result is ever written.
IgnoreDuplicate(j) ==
  /\ jobs[j].phase = "queued" /\ keys[jobs[j].key] \notin {NoJob, j}
  /\ Goes(j, "ignored")
  /\ UNCHANGED <<presentation, runs, keys, files, counters>>

\* Redis does not answer: outside the try block, so that nothing is retried.
KeyFails(j) ==
  /\ jobs[j].phase = "queued"
  /\ jobs' = [jobs EXCEPT ![j].phase = "failing", ![j].result = "FAILURE"]
  /\ UNCHANGED <<presentation, runs, keys, files, counters>>

\* regenerate_slide_task looks its slide up in a dictionary with a key "slides",
\* and presentations.slides is a list or NULL: it never comes past this point.
LookUpSlide(j) ==
  /\ jobs[j].phase = "running" /\ jobs[j].kind = "slide"
  /\ Goes(j, "error")
  /\ UNCHANGED <<presentation, runs, keys, files, counters>>

\* Variant: the status was looked at when the export was asked for.
ReadUnchecked(j) ==
  /\ jobs[j].phase = "running" /\ jobs[j].kind = "export"
  /\ jobs' = [jobs EXCEPT ![j].phase = "building", ![j].deck = deck]
  /\ UNCHANGED <<presentation, runs, keys, files, counters>>

\* export_pptx_task reads the presentation again, and its status with it.
ReadDeck(j) ==
  /\ jobs[j].phase = "running" /\ jobs[j].kind = "export"
  /\ jobs' = IF status = "completed"
               THEN [jobs EXCEPT ![j].phase = "building", ![j].deck = deck]
               ELSE [jobs EXCEPT ![j].phase = "error"]
  /\ UNCHANGED <<presentation, runs, keys, files, counters>>

\* _build_pptx: the service makes a file of the slides it is sent.
BuildPptx(j) ==
  /\ jobs[j].phase = "building"
  /\ jobs' = [jobs EXCEPT ![j].phase = "built"]
  /\ UNCHANGED <<presentation, runs, keys, files, counters>>

\* _upload_to_s3: an object per job, so that a second try replaces the first.
Upload(j) ==
  /\ jobs[j].phase = "built"
  /\ files' = [files EXCEPT ![j] = jobs[j].deck]
  /\ Goes(j, "uploaded")
  /\ UNCHANGED <<presentation, runs, keys, counters>>

\* The pptx service, MinIO or the soft time limit of 45 s raise.
BuildFails(j) ==
  /\ jobs[j].phase \in {"building", "built"}
  /\ Goes(j, "error")
  /\ UNCHANGED <<presentation, runs, keys, files, counters>>

\* The task returns: the link is in its result.
Return(j) ==
  /\ jobs[j].phase = "uploaded"
  /\ jobs' = [jobs EXCEPT ![j].phase = "over", ![j].result = "SUCCESS"]
  /\ UNCHANGED <<presentation, runs, keys, files, counters>>

\* Variant: the status is set before the retry, as the generation task does.
RetryMarkingFailed(j) ==
  /\ jobs[j].phase = "error" /\ jobs[j].tries < MaxRetries(jobs[j].kind)
  /\ jobs' = [jobs EXCEPT ![j].phase = "queued", ![j].result = "RETRY", ![j].tries = @ + 1]
  /\ status' = "failed"
  /\ UNCHANGED <<deck, replaced, runs, keys, files, counters>>

\* self.retry: the same job again, with one try less.
Retry(j) ==
  /\ jobs[j].phase = "error" /\ jobs[j].tries < MaxRetries(jobs[j].kind)
  /\ jobs' = [jobs EXCEPT ![j].phase = "queued", ![j].result = "RETRY", ![j].tries = @ + 1]
  /\ UNCHANGED <<presentation, runs, keys, files, counters>>

\* The last retry: Celery stores the failure, then calls on_failure.
GiveUp(j) ==
  /\ jobs[j].phase = "error" /\ jobs[j].tries = MaxRetries(jobs[j].kind)
  /\ jobs' = [jobs EXCEPT ![j].phase = "failing", ![j].result = "FAILURE"]
  /\ UNCHANGED <<presentation, runs, keys, files, counters>>

\* BaseTask.on_failure: the presentation is failed, whatever its status is; an
\* error of the database is only logged.
OnFailure(j) ==
  /\ jobs[j].phase = "failing"
  /\ Goes(j, "over")
  /\ status' \in {"failed", status}
  /\ UNCHANGED <<deck, replaced, runs, keys, files, counters>>

\* The hard time limit of an export: the process is killed, the failure stored
\* and the message acknowledged, all by the parent; on_failure is not called.
HardLimit(j) ==
  /\ jobs[j].kind = "export" /\ jobs[j].phase \in {"building", "built", "uploaded", "error"}
  /\ jobs' = [jobs EXCEPT ![j].phase = "over", ![j].result = "FAILURE",
                            ![j].deck = NoDeck]
  /\ UNCHANGED <<presentation, runs, keys, files, counters>>

AtWorker == {"running", "building", "built", "uploaded", "error", "failing"}

\* Variant: the message is acknowledged when it is received.
LoseJob(j) ==
  /\ jobs[j].phase \in AtWorker /\ crashes < MaxCrashes
  /\ crashes' = crashes + 1
  /\ Goes(j, "lost")
  /\ UNCHANGED <<presentation, runs, keys, files, asked, now>>

\* The worker is lost; acks_late and reject_on_worker_lost deliver again.
LoseWorker(j) ==
  /\ jobs[j].phase \in AtWorker /\ crashes < MaxCrashes
  /\ crashes' = crashes + 1
  /\ Goes(j, "queued")
  /\ UNCHANGED <<presentation, runs, keys, files, asked, now>>

-----------------------------------------------------------------------------
Work(j) ==
  \/ TakeKey(j) \/ IgnoreDuplicate(j) \/ LookUpSlide(j) \/ ReadDeck(j)
  \/ BuildPptx(j) \/ Upload(j) \/ Return(j) \/ Retry(j) \/ GiveUp(j) \/ OnFailure(j)

Faults(j) == KeyFails(j) \/ BuildFails(j) \/ HardLimit(j) \/ LoseWorker(j)

Tick ==
  /\ now < MaxTime
  /\ now' = now + 1
  /\ UNCHANGED <<presentation, runs, jobs, keys, files, asked, crashes>>

Next ==
  \/ \E g \in Gens : Regenerate(g) \/ Begin(g) \/ Complete(g) \/ Partial(g)
                   \/ SafetyNet(g) \/ Raise(g)
  \/ Edit
  \/ \E j \in Jobs : AskExport(j) \/ AskSlide(j) \/ Work(j) \/ Faults(j)

\* While a generation runs, the status says processing, and so exports, edits
\* and further generations are refused.  What breaks it is a side task that
\* failed for good in the meantime, or a user who asked twice.
RunsAreVisible ==
  (\E g \in Gens : gens[g] = "running") /\ status # "processing" =>
    doubled \/ \E j \in Jobs : Poll(j) = "failed"

\* A user who polls an export sees its end at last, unless the request repeats
\* another of the same second: then the poll goes on, and the end is that of
\* the other job.  So it is with retries, time limits and workers lost.
JobsSettle ==
  \A j \in Jobs : <>[](jobs[j] # Unasked =>
    \/ Poll(j) # "in progress"
    \/ /\ jobs[j].phase = "ignored"
       /\ keys[jobs[j].key] \in {i \in Jobs \ {j} : Poll(i) # "in progress"})

=============================================================================
