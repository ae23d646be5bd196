# TLA+ models of the AI presentation generator

A user posts a topic, a pipeline of ten agents turns it into a slide deck in a
Celery worker, and the page of the user watches it happen over server-sent
events. These modules model the parts of that program where several processes,
a broker, a database, Redis, a language model and a browser have to agree, and
where a unit test does not reach: crashes and redeliveries, retries,
cancellations between two commits, second requests, connections that break,
providers that hang, caches that outlive a release, and the long chains of
repairs a deck goes through.

All paths below are relative to `backend/app/` unless they start with
`frontend/` or `pptx-service/`. `PROJECT.json` maps every definition to its lines.

## 1. Inventory

### Modelled

| Component | State it keeps | Operations | Hard behaviours |
|---|---|---|---|
| Presentation requests, `api/v1/presentations.py` | `presentations` and `pipeline_executions` rows, `cancel:job:<id>` in Redis | create, regenerate, cancel, export; read-only status, result and stream | commit then enqueue; check then commit; signal then commit |
| Generation task, `worker/tasks.py`, `worker/celery_app.py` | Celery message with retry count, `idempotency:<key>` in Redis | deliver, ignore a duplicate, run, retry, give up | `acks_late` and `reject_on_worker_lost`: any task may be delivered again; two tasks of a presentation at once |
| Orchestrator, `agents/pipeline_orchestrator.py` | the `PipelineContext` in memory, the `_checkpoint` row of `agent_states` | find or insert the execution, resume, run an agent, feedback loop, checkpoint, partial result, finalize | an agent edits the list it is about to be appended to; a checkpoint that fails; terminal statuses written more than once |
| Progress events, `services/streaming.py`, `frontend/src/hooks/useSSEStream.ts`, `frontend/src/components/PresentationWorkflow.tsx` | the Redis stream of a presentation, the generator behind each SSE connection, the events, last id and state of the page | publish, read, end, expire, receive, reconnect, start, retry, cancel | lost connections with events on the wire, expiry of the stream, a list of events that outlives its presentation |
| Slide editing, `api/v1/slide_editing.py` | the deck in the `presentations` row, `presentation_versions` (unique number), `slide_locks` | update, rollback, merge, lock, refresh, unlock; read-only diff and versions | read, snapshot and write without a row lock; check then insert; a lock that expires between the look at it and its refresh |
| Side tasks and exports, `worker/tasks.py`, `api/v1/export_templates_admin.py`, `pptx-service/server.js` | status and deck of the presentation, `idempotency:<key>`, objects in MinIO, `preview:<id>` in Redis | export, slide regeneration, poll, download, images, PDF preview, invalidation | status tested at the request and used tries later; one preview object for overlapping renders; `on_failure` of a side task |
| Providers, `services/provider_health.py`, `services/llm_provider.py`, `agents/llm_helpers.py` | per provider: window of results, circuit; failover flag, current provider | call with retries and failover, record, open, probe, restore | a call cancelled by a timeout is no result; the last resort that is ignored; circuits that never close again |
| Rate limits, `services/rate_limiter.py`, `api/v1/presentations.py`, `services/presentation_cache.py` | Redis counters with an expiry | count, look, expire; acquire and release a slot, which nothing but the tests calls yet | read then count; a presentation that is committed and not counted; a counter left without expiry |
| Caches, `services/redis_cache.py`, `services/presentation_cache.py`, admin routes | research, enrichment and decks in Redis | serve, store, expire, invalidate, deploy | an invalidation against a run that stores what an older release made |
| Agents before the LLM, `agents/industry_classifier.py`, `design_agent.py`, `storyboarding.py`, `research.py`, `data_enrichment.py`, `prompt_engineering.py` | the context of the run; findings kept in Redis | classify, design, plan, research, enrich, write the prompt | budgets spent by timeouts and retries inside them; type diversity over section borders; prompt truncation by rounded estimates |
| Agents after the LLM, `agents/validation.py`, `agents/quality_scoring.py`, `services/optimized_visual_refinement.py`, `selective_enhancement.py`, `batch_processor.py`; `_flatten_slide_for_frontend`, `SlideRenderer.tsx` | the deck | normalise, infer, correct, complete, constrain, refine, score, flatten, show | a later pass that undoes an earlier one; a batch of which one call fails |
| Templates, `services/template_seeder.py`, `template_service.py`, `main.py`, template routes | the `templates` table | seed at the start of a process, create, update, delete, resolve, count usage | two processes that seed at once; results written twice |

They interact as follows. A request commits two rows and sends a message whose
task id is the id of the execution row. The task takes its idempotency key,
marks the presentation `processing`, and calls the orchestrator, which polls
the cancellation flag between agents, commits a checkpoint after each agent and
publishes events on the way. Each agent has a time budget; those before the LLM
look into Redis first and fall back to tables when the provider chain fails. The
deck of the LLM passes through validation, refinement and scoring, and a low
score sends it back. A cancel request sets the flag and publishes an error
before it commits `cancelled`. The page opens one SSE connection at a time; the
endpoint reads the stream after its cursor until an event that ends it. Edits,
exports, previews and further generations begin when a generation is over and
share with it only the presentation row.

What makes them correct: an interrupted run resumes from what it saved and does
every agent once; the list of completed agents stays in order without
repetitions, since loop, safety net and completeness test all read it; a
cancelled job stops within an agent; a job that reached the broker is
acknowledged, and then the presentation has a terminal status unless the database refused it; a completed
presentation has slides; a client that resumes sees each event once, the
outcome last, and nothing missing before it; no deck of an edited presentation
is lost, version numbers are unique and without gaps, and a slide that is locked
is edited by its owner only; nobody is handed a part of a deck; a provider that
fails is spared and the primary comes back; what is cached is no older than its
life and of the release and prompt it is kept under; a deck can be shown as its
types say and loses no bullet; limits are exceeded by concurrency only.

### Not modelled

| Component | Why |
|---|---|
| Circuit breakers of the agents, `pipeline_orchestrator.py` 113-185 | `JobPipeline` has their effect, a run may stop before any agent (`StopBeforeAgent`). A database error raised between `allow_call` and the recording leaves a breaker half-open and letting every call through (line 600) |
| Authentication, tenants and roles, `api/v1/auth.py`, `core/security.py`, `api/deps.py`, `middleware/` | requests are modelled after they are admitted; the rotation of refresh tokens is left |
| Database models and sessions, other middleware | rows are variables, a commit is an action; no state of their own |
| Compiler, layout, conflicts, `agents/presentation_compiler.py`, `layout_engine.py`, `conflict_resolution.py` | imported, never called by the pipeline |
| Cost control and priority queue, `services/cost_*.py`, `provider_selector.py`, `priority_queue.py` | imported by nothing that runs |
| `llm_cache.py`, cache warming | nothing calls them |
| Schema registry | pure conversion of documents of version 0.9 |
| What is drawn in a file, `services/pptx_export.py`, `pptx-service/builder.js` | layout and wording |
| Observability, audit and health | logging and read-only probes |
| Other views of the front end | show what the API returns |
| `_regenerate_single_slide`, `_patch_slide`, `_persist_updated_slides` of `worker/tasks.py` | behind the lookup in `regenerate_slide_task` that always fails |

The hazards, with lines, are in `PROJECT.json`, with the properties that cover
them. Where the code does not keep a hazard out, the property that holds makes an
exception of it (an overwritten deck in `DecksAreRecoverable`, an ignored duplicate
in `JobsSettle`, a timed out call in `PrimaryComesBack`), the note of the hazard says
so, and section 5 tells what happens; three runs that are expected to be violated
show it happen. Known and without a property: the API process that dies between its
commit and `apply_async` leaves a presentation queued for ever (`presentations.py`
377, 381; `ApiDies` is in JobPipeline); Redis failing at the idempotency check of the
task (`tasks.py` 167-171), which is outside its try block, and Redis hanging instead
of failing; two first checkpoints of one execution are two
rows, and every later select of one raises (`pipeline_orchestrator.py` 339).

## 2. Modules

| Module | What it is |
|---|---|
| `PipelineContext` | the context of one run: the agents, the list of completed ones, the feedback loop, what each agent does to it. Operators only, shared by the next two |
| `PipelineRuns` | the abstract specification: runs that save, agent after agent, the contexts of an uninterrupted pipeline |
| `JobPipeline`, `MCJobPipeline` | requests, broker, worker, orchestrator, rows and Redis keys of one presentation; for TLC, an initial state after a finished first job, and what a docstring says of a task delivered again |
| `ProgressStream` | stream, SSE generator, hook and page of one user |
| `AtomicEditor` | the abstract specification of editing: an editor that serves one request after the other, each in one step |
| `SlideEditing` | edits, rollbacks, merges and locks of one presentation by several users |
| `SideTasks` | export and slide tasks over a status they share with later generations, of which they see only the commits |
| `ExportViews` | composes `SideTasks` with the views of a deck that need no task: the deck, a file, pictures, the PDF preview and its cache entry |
| `ProviderFailover`, `MCProviderFailover` | windows, circuits, failover and restoration in one worker process, one call after the other |
| `ContentCache`, `MCContentCache` | what Redis keeps of a topic, under runs, invalidations and deployments |
| `RateLimits` | the counters that admit calls, one call to Redis at a time |
| `MCCalls` | `ProviderFailover` and `RateLimits` for TLC: the calls and the counters that admit them, a behaviour of the one or of the other |
| `UpstreamAgents` | budgets, timeouts, retries and fallbacks of the agents before the LLM, with time in seconds |
| `StoryPlanning` | the plan made from a template and the prompt made from the plan |
| `DeckValidation` | what is understood of the answer of the LLM, then the passes of the validation agent, one action each, and how the API and the page show the result |
| `DeckReview` | extends it with refinement and scoring |
| `MCDeckValidation` | `DeckReview` and `StoryPlanning` for TLC, with the decks and templates they are given |
| `TemplateCatalogue` | templates: seeding, the routes of tenants, resolution, usage |
| `MCUpstreamAgents` | `UpstreamAgents` and `TemplateCatalogue` for TLC, a behaviour of the one or of the other |
| `JobPipelineTheorems`, `ProgressStreamTheorems`, `SlideEditingTheorems`, `ExportViewsTheorems`, `ProviderFailoverTheorems` | the proofs about the module of that name and those it extends |
| `RedisTheorems` | the proofs about `ContentCache` and `RateLimits` |
| `UpstreamTheorems` | the proofs about `UpstreamAgents` and `TemplateCatalogue` |
| `DeckTheorems` | the proofs about `StoryPlanning`, `DeckValidation` and `DeckReview`, with what they need of recursion over sequences |

### Correspondence: JobPipeline

* A *job* is a create or regenerate request; its number is the id of the
  execution row it inserts and of its task. Rows inserted by workers have higher
  numbers. `started_at` is NULL in the first kind, and PostgreSQL puts NULL
  first in a descending order, so `LatestRows` are the rows of the requests
  and any of them may be found.
* `pc` is the position of a task between two commits, Redis calls or awaits:
  `delivered` (key taken), `attach` (`_get_or_create_execution`), `lookup`
  (Slide_JSON cache), `poll` (head of the agent loop), `start`
  (`update_execution_status`), `running`, `persist` (checkpoint commit),
  `partial` (`_persist_partial_result`), `finalize`/`cachefin` (commit of
  `_finalize`), `publish`, `safety` (second status update of the task),
  `except` (except clause), `failure` (`on_failure`). One database transaction is
  one action. A task whose `on_failure` could not write the status is `unwritten`:
  acknowledged like any other, and nothing else writes that status.
* A deck is the number of the LLM call that made it, so *which* deck is stored,
  scored or published can be told apart, its text cannot. `completed_agents` is
  the count of each agent in it (`done`, whose total `DoneLen` is the length of
  the list); its order is never read.
* `key` models the key `regen:<id>:<second>`: a regeneration may share the key
  of the one just before it. `gen:<id>` is the key of job 1.
* A poll that raises lets the agent start (`PollFails`); a flag that is seen and
  cannot be cleared does too, after the error is in the context (`ClearFails`,
  orchestrator 579-586), so that a checkpoint may carry the note of a
  cancellation.
* `late` (history) counts the agents a job starts since its flag was set, or
  since a poll of it failed.

Left out, with the reason: an event that is not published changes nothing here
(ProgressStream has that case); the idempotency key lives 24 h, longer than a
job with its retries; rate limits and tenant checks refuse a request without
writing; at most one regenerate request is between its check and its commit,
since two of them differ from one after the other only by the check, which
tests no more than that the status is not `processing`. The cancellation flag
lives 300 s, no less than the latency budget of any agent, so a flag set while
an agent runs is still there at the next poll.

### Correspondence: ProgressStream

`log[p]` is every event added to the stream of presentation p, the id of an
event is its index, `base[p]` how many have expired with the key (300 s after
the last event). `conn` is a connection with the generator behind it: its
cursor, and the ids yielded but not received. `events`, `lastId`, `pid`, `page`
are the state of the hook and the page. `resumes` is fixed at the start: TRUE is
a client that sends `Last-Event-ID`, which the endpoint documents and honours;
FALSE is the hook, whose every `EventSource` is new and has no last id.
`job[p]` is what publishes: a run that fails publishes the failure and may be
retried (`RunRetried`), and a run may end without any event (`EndsUnpublished`):
a task that raises with no retry left, `on_failure` and an ignored duplicate
publish nothing (`tasks.py` 124-135, 171-180, 219-226).

Left out: errors of Redis; the cut of the stream at about 500 events (a run
publishes at most about 150); slides and labels. A client that waits for an
outcome is not away for the 300 s until the stream expires (`StreamExpires`
says so in its guard). The effect of the page is one step with the event or
click that causes it. The cancel button of the error page does what its retry
does.

### Correspondence: SlideEditing

A user has one request at a time; `pc` is the query at which its coroutine
stops and `op` what it has read. `check` is `_check_slide_locked`, `pick` the
lookup of the target of a rollback, `number` the SELECT of the largest version
number, `commit` the insertion of the version and the update of the
presentation, which show to others together when the transaction commits. Two
transactions that insert the same number wait for each other in the database
and the later one is refused, or goes on when the earlier one is rolled back:
`NumberTaken` and `Commit`. `insert`, `refresh` and `delete` are the commits of
the lock requests.

The contents of a slide are the number of the version whose request edited it.
`lock[s]` is the set of users with an active row; a row that has expired matters
only to a request that has found it, which is its `owner` field. A refresh and a
deletion go by the id of the row: the refresh revives an expired row and does
nothing, with the same answer, when an administrator has deleted it; the deletion
leaves alone a newer row of the same user.

`decks`, `overwrote`, `raced`, and `alone` and `held` of a request, are history.

AtomicEditor keeps of all this the deck, a function `kept` from version numbers
to decks, and the history. Its `Save` is a version and a deck in one step, under
the first number that is free. The version is a copy of a deck the presentation
has had, and of the present one unless `lossy` becomes true; the new deck is that
copy with one slide rewritten by the new version (`Edit`), a deck kept earlier
(`Rollback`), or the copy itself (`Merge`, always lossy). In SlideEditing `kept` is
read off the rows (`Kept`), `seen` is `decks` and `lossy` is `overwrote`. So a
request that finds another deck than it read is not excluded, which would be
wrong of this code; the refinement says that it is the worst that happens.

Left out: `reorder_slides`, which is declared after a route that matches its path
and is never called; `regenerate_slide`; a generation during an edit (the
status test of `update_slide` refuses edits then; rollback and merge do not look
at the status); the order and the set of slides, which edits, rollbacks and
merges of such versions do not change; tenant and role checks that refuse a
request without writing. Requests that only answer with an error are no steps.

### Correspondence: SideTasks and ExportViews

A deck is a number, counted up by every write of the `slides` column, and
whether it is whole or the part a failed run left (`Partial`); `replaced` says
when each was replaced. A generation is only what it commits: `Begin`,
`Complete`, `Partial`, `Raise` and, as a step of its own, `SafetyNet`, the second
write of the status. A side task is a job with its key, its tries, what the
worker holds of the deck (`jobs[j].deck`) and its Celery result; `Poll` is what
`get_export_status` makes of that result. `phase` is the place between two
awaits. A key ends with the second, so that a request may have the key of one of
the same tick. `HardLimit` is the kill of the process after 60 s: the parent
stores the failure and `on_failure` is not called.

A request of `ExportViews` is one HTTP request with the deck it read. `pdf` is
the one object `previews/<id>/preview.pdf`, `cached` when the entry with its
link expires. A preview that was rendered without a browser has no slides, which
is the empty set.

Left out: publishing a retry and acknowledging the message are one step; the
visibility timeout of Redis is not reached by tasks of a minute; a render ends
within a tick (30 s per page against 55 minutes); cancellation, which is in
JobPipeline.

### Correspondence: ProviderFailover

A worker process runs one pipeline and its agents call one after the other, so
there is one call at a time. `phase` is where it is: `try` (the loop of
`call_with_failover` over the chain), `call` (the await of the provider),
`record`, `backoff` (between attempts of the helper). Each await may be cut by
`TimeOut`, which records nothing: `CancelledError` is not an `Exception`. The
thresholds are those of the code, 95 % for health and 20 % failures for
opening; what a provider answers, its rate limit and the passing of a recovery
time are free. `connected` says whether the cache has reached Redis yet: until
it has, `update_health_cache`, which both branches await, may raise. After a success
it raises inside the try block, so that the call is recorded as a failure too and
its result is thrown away (`ResultThrownAway`), after a failure it ends the loop
over the chain (`CacheRaises`). Response times only break ties and are left out.

### Correspondence: ContentCache

An entry is the oldest release among the code and the inputs that made it, its
age and the ticks it has left; a deck has the prompt version it was written with.
A run is its context between two Redis calls, with what its checkpoint has
saved, since it may be resumed by a worker of another release: the prompt
(`WritePrompt`) and the deck (`MakeDeck`) are saved one after the other, and the
feedback loop (`LoopBack`) makes another deck from the same prompt. `crossed` says
of a run that it was resumed in another release with its prompt in the checkpoint,
and of a deck that such a run made or stored it. `bump` is the
invalidation of an administrator: a scan and a deletion per prefix, either of
which may fail and is then swallowed. `cleaned` (history) is the release of the
last invalidation of everything that succeeded with no run under way.

### Correspondence: RateLimits

`kind` says which counter a behaviour is about; they have keys of their own. A
caller is at the Redis call it makes next, and `Lose` ends it there. A
provider or user counter is incremented first and decided on afterwards; the
limit of presentations is read first (`Check`), then the rows are committed
(`Create`), the task is queued (`Enqueue`) and only then it is counted
(`CountCreated`). A request that is lost in between (`LoseRequest`), whose read or
count Redis does not answer (`CheckUnanswered`, `CountUnanswered`, errors that
are swallowed) leaves a presentation that is not counted, or was not checked:
`amiss` counts those. Slots are taken and given back, and one given back below
zero is set to zero without an expiry; outside the tests nothing calls those two
functions, so that `SlotsAccounted` is about what they promise their first caller.

### Correspondence: UpstreamAgents and StoryPlanning

`spent` is the seconds an agent has used of its budget; a call answers or fails
after a latency, or hangs, and then the timeout around it ends it. `industry`,
`design`, `research`, `enriched` say where each part of the context comes from.
An answer of the LLM may have another shape than was asked for: findings that are
no texts (`malformed`) are taken, stored in Redis and raise in the agent that
joins them for the prompt; an industry that is a number passes the classifier and is refused
by the plan; a list or an object raises where it is looked up (`fault` is
`answer`). `fault` is also the database failing a write or a query.
`kept` is Redis, over the executions about a topic. What they write is not told
apart. In StoryPlanning a template is a sequence of sections and types and a
text its number of characters; tokens are counted as the code does, a quarter
of the characters rounded down, part by part. `step` says whether the plan and
the prompt are made yet. The loops of the code over slides and sections are
recursive functions over their positions, `DiversifyStep` one turn of the loop of
`enforce_visual_diversity`.

### Correspondence: DeckValidation and DeckReview

A behaviour starts with the answer of the LLM: whether its text is `whole`, has
words around it (`amid`) or is `cut` off, and where its slides are (`holder`).
`Loaded` is what `_run_llm_provider` does to load it, with its attempts to cut out
an object and to close brackets, `Understood` its search for the slides. An answer that cannot be loaded fails the agent, one that has no slides is an
empty deck, which validation gives a closing slide. One pass of `validate` is
one action over the whole deck. A text is its number of
words; a bullet has a name to be followed by, a title the required section it
names. The data of a chart, table or comparison is its shape: `list`, `series`
(categories and series), `categories` alone, `opaque` (any other object), `good`,
`ragged`, `noheaders`, `norows` (headers only), `stray` (rows that are neither
lists nor objects), `columns`, `hollow` (a column without bullets), `old` (`left`
and `right`), `oldhollow`, `oneside`, and `made` when the agent invented it. `root` is
what the LLM put beside `content` instead of into it; `Slide` collects the fields. `Flattened` is what the API
makes of a slide and `ShownAs` the component `SlideRenderer` picks. Scores are
integers, 70 to the point, so that every penalty is whole; whether the texts have
more jargon than the scorer lets pass is a choice of `ScorePresentation`. What an
answer to a batch says of a slide is `text`, `empty` or `nothing` (`Said`); a call that
fails says nothing. `RefineInBatches` includes the statistics that the
orchestrator asks for afterwards, which raise on a chart that is an object. The
answers have the types the prompt asks for: a title that is a number, or a list
where an object belongs, is not among them.

### Correspondence: TemplateCatalogue

A row of `templates` is its name, its industry, who inserted it and its count.
Seeding is a look at every seed, then one insertion of those that were missing.
The routes of a tenant create, update and delete rows of its own, of which it has
`MaxOwned` at most.
A job resolves a template by name and industry, falls back to the most used one
of the industry and then to the general one, and counts it in the transaction
that writes its result, once per delivery.

## 3. Runs

Expected to pass:

| Run | Constants | States | What it shows |
|---|---|---|---|
| `Recovery` | 1 job, 5 agents, 2 faults, 1 retry, 1 cancel request | 985 thousand | `CrashLosesNothing`, `CompletedHasSlides`, `CompletedExecutionsStay`, `CancelStopsWithinOneAgent`, `CleanCheckpoints`, `RestsTerminal`; `ImplementsRuns`: through the checkpoints, crashes, redeliveries and retries are invisible; and under fairness `EnqueuedJobsFinish` |
| `Regenerate` | 3 jobs, the first of them done, 5 agents | 181 thousand | `OneRunPerKey`, `AgentListsSound`, with two tasks in one execution, overwriting each other's checkpoint |
| `Stream` | 2 presentations, 1 progress event each, 2 lost connections, batches of 2 | 889 thousand | `ExactlyOnce`, `TerminalIsLast`, `OutcomeIsWhole`, and under fairness `GenerationEnds` |
| `Editing` | 2 users, one an administrator, 1 slide, 3 versions | 113 thousand | `DecksAreRecoverable`, `LockedSlideRefusesEdits`, `ExclusiveUnlessRaced`, under fairness `JamClears`, and `ImplementsEditor`: the deck and its versions are those of AtomicEditor, which gives every version the next number |
| `SideTasks` | 2 side tasks, 2 later generations, 2 views, 3 requests in all, 1 lost worker, 1 tick | 1.42 million | `OutputsAreWhole`, `PreviewsAreRecent`, `RunsAreVisible`, and under fairness `JobsSettle` |
| `Calls` | 2 providers, windows of 5, opened from 3 results on, 2 attempts; or 3 callers, limit 2, a period of 2 ticks, counters up to 5, 1 request that goes amiss | 990 thousand | `BadWindowIsOpen`, `OvershootIsConcurrent`, `SlotsAccounted`, and under fairness `PrimaryComesBack`, `WindowReopens` |
| `Cache` | 2 runs, 2 releases with their own prompts, life of 2 ticks; symmetric in the runs | 3.61 million | `IntermediatesExpire`, `DrainedBumpIsClean`, `DeckMatchesPrompt` |
| `Upstream` | 2 known industries of which one has ranges, 1 novel, 1 that is a number, latencies 1 and 25 s; or 2 API processes, 1 tenant with a template of its own to create, change and delete, 2 jobs, 3 industries, 1 restart, 2 deliveries | 1.27 million | `FailuresExplained`, `UsageCounted`, `SeededOnce` |
| `Validation` | every template of up to 5 slides over 2 sections and 3 types, about 22 thousand decks of 2 to 4 slides, answers that are whole, amid words or cut off, in every place of the slides | 610 thousand | `PlanFollowsTemplate`, `PromptFits`, `DeckIsPresentable`, `BulletsSurvive`, `RepairedDeckIsAccepted`, `RefinementPays` |

Expected to be violated, each by what the code does: a statement of a comment, a
docstring or a document, and the line that quotes it in `PROJECT.json`
("findings"); section 5 tells them.

| Run | Property | What the counterexample shows |
|---|---|---|
| `Resume` | `RedeliveredRunsResume` | a regeneration that is delivered again finds the row of the first run and begins anew |
| `Snapshots` | `EditsKeepWhatTheyReplace` | of two edits that overlap the second replaces the deck of the first and saves an older one |
| `Probe` | `ProbeSettlesCircuit` | a call that succeeds after the recovery time does not close the circuit |

Why these bounds are enough to be interesting. Two faults in `Recovery` are a
crash during the recovery from a crash, a failed checkpoint followed by a
crash, the write of the except clause and that of `on_failure` both failing, or a
flag that is seen and cannot be cleared, and then the worker lost. They fall before,
between and after the LLM, the validation and both feedback rounds. Of the six agents
before the LLM (the constant `Upstream`) there is only one; they
differ in nothing but the classifier, which decides whether the cache is
consulted, and the theorems are about any number of them. Three jobs are the fewest for two tasks in the same execution after
a finished run; the initial state of `Regenerate`, job 1 done, is a reachable
one. In `Stream` a batch of two cuts both a stream that ended and one that goes
on, `AgentFails` adds a second terminal event, and a second presentation starts
with the events of the first still in the list. In `Editing` three versions are
the fewest for a merge that is committed; a second slide multiplies the states
by about forty and only lets requests miss each other, and the theorems cover it.

In `SideTasks` three requests are the fewest for a preview, a generation over it
and another reader, or for two side tasks and a generation; a lost worker and
the tries are on top of them, and a tick is what ends an entry and a second.
In `Calls` a window of five has each of the three kinds: healthy, unhealthy
but closed (one failure in five), open; the theorems are about any window.
`Cache` needs one release before and one after an invalidation, and two runs
so that one stores while the other reads. In `Calls` three callers overshoot a
limit of two, and one request to create goes amiss, which the bound on `made` then
follows. `Upstream` has a latency that fits every budget and one, 25 s, that
exceeds all but that of the research. The decks of `Validation` are
chosen around the limits: 0, 1, 2, 5 and 9 bullets, words at and over the limit,
subtitles that are none and long, every combination of type, title and hint, every
shape of data in the content and at the root, sections in any order; a longer deck repeats them, except that
the scores count slides.
In `Upstream`, too, a restart lets a process seed over the rows of another, and the
three industries have three seeds, the fallback, and no seed at all.

Fairness. `FairSpec` of JobPipeline: weak fairness of the steps of a worker for
each job (a worker takes what is in its queue and goes on; `acks_late` gives a
lost message back) and of the enqueue that follows a commit. Requests, faults
and expiries are not forced; faults and cancellations are bounded, or a job
could be killed for ever. `running` ends because every agent has a latency
budget (`run_with_budget`). `FairSpec` of ProgressStream: the
generator, the browser and its timers do what they can (`Deliver`). Nothing is
assumed of the run, which may end without an event; `GenerationEnds` has the
event that ends the stream as its premise. The network loses connections a bounded
number of times. `FairSpec` of SlideEditing assumes only that time passes: a lock expires
unless it is refreshed for ever. It says nothing of the requests. `Composed` of
ExportViews: weak fairness of the worker for each side task, for the same
reasons; its calls have time limits. `Spec` of ProviderFailover: agents keep
calling, an await ends because `wait_for` bounds it, and a recovery time passes;
that the primary answers is a premise of `PrimaryComesBack`, not an assumption.
`LimitsFairness` of RateLimits: time passes, and a process that is not lost makes the
second of its two calls. `MCSpec` of MCCalls assumes the two together; of the system a
behaviour does not follow nothing is enabled, so that nothing is assumed of it. The modules without liveness properties have none, or
weak fairness of their only process (DeckValidation).

Every property of a passing run has a mutant in `PROJECT.json`: a variant of a
mapped definition, written beside it and marked `Variant`, that breaks it. The
code has no `Variant` definitions.

## 4. Proofs

All theorems hold for every value of the constants that meets the named
assumptions: natural numbers, at least one job, one agent before the LLM, one
presentation, a batch of at least one event; a non-empty chain of providers, a
window no smaller than the results that open a circuit; a positive life of
entries; latencies below the 30 seconds of the timeout; finitely many callers and
presentations; tenants that are no processes. For decks (`DeckAssumption`,
`ReviewAssumption`, `StoryAssumption`): the limits are natural numbers, a content
slide needs no more bullets than it may have nor than the four that are made for
it, the scorer's limits are no lower than the validation agent's, and an answer
holds any number of slides, each a record of `Slide` with at most one list of
bullets in a place, numbered in their order. Five of the pipeline's theorems
assume besides that there is only one job; why is said with them.
The proofs have one shape: an invariant, a lemma that each step keeps it (one
step of the proof per action), and the theorem, which puts them together.

The pipeline, `JobPipelineTheorems`.

* `TypeCorrect`: `TypeOK` is inductive.
* `ListsAreSound`: the lemma `RunAgentKeepsOrder` says that running the *next*
  agent keeps a context in order and free of repetitions, feedback loop included;
  every other step copies contexts. The loop removes the LLM, the validation and
  the scoring while the scoring runs, and the scoring is appended again: the case
  that needs care.
* `CheckpointsAreClean`: without a cancellation or without a fault no checkpoint
  records a failure. Strengthened with `RunsClean`, a task between the lookup and
  the persist has no failure in its context, and with `Flagless`: no flag is set
  before a cancellation. With both, a flag may be seen and not be cleared, and the
  failure that notes it is saved (orchestrator 579-586).
* `KeysAreExclusive`: strengthened with `OwnsKey`, a task in a worker is the one
  its key names in Redis.
* `CancellationIsPrompt`: strengthened with `PolledBeforeStart`, a task that is
  about to start an agent although its flag is set has started none under it.
  A poll that fails counts as the flag set anew.
* `RestIsFinal`, for any number of jobs: while the status is queued or processing,
  some job is active, or one is `unwritten`: its task failed for good and `on_failure`
  could not write that, which the property excepts. Every other end of a task writes
  a final status, but for one that finds its key taken; hence the premise `OwnKeys`, and `KeysHeld`, which says
  that a key is held by a job of that key. Two regenerations of one second do
  share a key, and leave the presentation queued (section 5). `RestOfOneJob` is
  the case the `Recovery` run checks.
* `CompletedIsNotEmpty`: one place tests the length of the list of agents, another
  its set. `LengthIsSet` says they agree on a list without repetitions, `DecksFollow`
  that a list with the LLM has a deck, and `StoredFollows` that between the two
  writes of the status a complete run has its deck in the row. With one job: the
  part of another run can be in the row when the second write comes (section 5).
* `CompletedStay`: a task works in an execution that is not completed (`OpenInv`).
  With one job, and as long as nobody asked to cancel it, since a cancel request that
  has looked at the row overwrites whatever is there when it commits.
* `CheckpointsAreRuns`, `CrashesLoseNothing`: with one job, JobPipeline
  implements PipelineRuns, and the checkpoint is all a task has in memory. The
  invariant `RunInv` says which rows exist, that an execution without a row has
  an empty checkpoint, and that in `persist` the context is one agent ahead of
  the checkpoint, but for the note of a cancellation (`Noted`). With two jobs neither holds: two tasks may work in one
  execution (which is what the `Regenerate` run explores).

The page and the editor.

* `StreamTypeCorrect` needs one fact more than the types: a page without a
  presentation has a closed connection with nothing on the wire, or `Receive`
  would index the log with no presentation.
* `ResumedExactlyOnce`, `TerminalComesLast`, `OutcomesAreWhole`: from one
  invariant, `StreamInv`: types, the three properties, and three parts they
  need. `ConnInv`: the ids on the wire are increasing, none is beyond the cursor,
  and those of a client that resumes are beyond its last id. `SeenInv`: a client
  that resumes has no event of its presentation beyond its last id, and when its
  last event ended the stream the connection is closed. `WholeInv`: what Redis
  still has up to the cursor was received or is on the wire, and what it has up
  to the last id was received.
* `EditingTypeCorrect` proves with the types that a request is of the kind its
  place says (`Placed`), which the rest cites. `NumbersIdentifyVersions`:
  strengthened with: a request about to commit has read a number whose
  predecessor exists (`Numbered`); what it proves, `VersionsNumbered`, no run
  checks by itself, since `ImplementsEditor` is violated when a number is given
  twice or left out. `NoDeckIsLost`: an edit or rollback that is alone has read
  the present deck (`Current`). `LockKeepsOthersOut`: those who have kept a slide
  locked since the edit began are still among its owners (`Held`).
  `LocksAreExclusive`: a lock request that is alone is for a slide nobody else
  has locked (`Exclusive`). All four rest on `OthersKeep`, what a step of one
  user leaves of the requests of the others.
* `EditsAreAtomic`: SlideEditing implements AtomicEditor. Besides `Numbered` and
  `Current` it takes `Copies`: the decks of the versions, and those edits and
  rollbacks are about to save, are decks the presentation has had, and what a
  rollback or a merge is about to write is in a version. `KeptGrows` says that the
  rows, read as a function, are extended by a commit and changed nowhere else
  (numbers identify versions, or CHOOSE could take another row). A commit is an
  `Edit`, a `Rollback` or a `Merge` (`CommitRefines`); every other step, a refused
  or a lost request among them, changes nothing the editor has (`StepRefines`).

Side tasks and views, `ExportViewsTheorems`, about the composition of the two.
Its steps are grouped first: those of the row, of the tasks and of the views.

* `TypeCorrect`: with the types of both modules.
* `RunsSeen`: `OneRun`, without a request too many one generation at most is
  unfinished, tells who may write the status; then a run that is not seen means
  that a side task failed for good, of which `on_failure` is the only writer
  (`UnseenAfterFailure`), and that failure stays in its result.
* `WholeOutputs`: what a request is shown was read with the status completed, and
  that status means a whole deck (`RowIsWhole`). Files, results, the object of the
  preview and what requests hold follow from it (`TasksAreWhole`, `ViewsAreWhole`).
  Again `OneRun` is what keeps the safety net from lying.
* `RecentPreviews`: `Fresh(d, time)` says that deck d was that of the presentation
  at that time or later. `ObjectIsRecent` bounds the age of what is behind the link
  by the end of the entry, `RequestIsRecent` that of what a request holds by its
  phase. An older render may be the last to write the object, but then its own
  tick has not ended, and its entry is set anew.

Providers, limits, caches.

* `FailoverTypeCorrect`, `BadWindowsAreOpen`, and `FallbackCircuitsAreSpent`, which
  no run checks: a theorem that says what the code does where `Probe` shows that it
  does not do what is documented. The property of the windows is inductive with the
  types, since a result that is thrown away is recorded by the same operator. The case that needs care
  is the restoration, which closes a circuit: it wants a healthy window, and the
  lemma `HealthyStaysClosed` says that the thresholds of `is_healthy` and
  `should_open_circuit` exclude each other.
* `LimitsTypeCorrect`; `OvershootBounded` from `RoomForWorking`, the count and the
  requests that have passed the check together stay within the limit and one less
  than the callers and those that went amiss; `MadeAreCounted`, every presentation
  made is counted, is about to be, or went amiss; an expiry only makes room. `SlotsAreAccounted` from `SlotInv`:
  those a slot was granted to or will be (`Entitled`, by what their INCR answered)
  are no more than the limit, which the property does not say of callers that have
  not decided yet.
* `CacheTypeCorrect`; `IntermediatesAreDropped`: age and time left of an entry
  add up to its life (`AgesAndLeftAgree`). `DecksMatchPrompts`: a run
  that has a prompt, in its context or in its checkpoint, and did not cross a
  deployment with it is still in the release of that prompt (`PromptInv`). `DrainedBumpsAreClean`: `CleanInv` says of every
  entry and every context that it is newer than `cleaned`, and of an
  invalidation under way (`BumpIsClean`) that the prefixes it is done with are
  clean as long as no run was seen.

Agents and templates, `UpstreamTheorems`.

* `FailuresAreExplained`: the invariant `TimeInv` bounds the seconds an
  agent has spent by its attempts, its slow calls and its pauses: a call that is
  not slow takes at most 10 s, a slow one at most the timeout of 30 s. With fewer
  slow calls than the property allows, the sum stays within the budget. What else
  may fail an agent is told by `InvAgent`: an industry that is none or no string, an
  answer of another shape where no table helps, findings that are no texts, and
  the database.
* `SeedsAreThereOnce`: a seed that a process is about to insert has been inserted
  meanwhile only by one that was starting with it (`MissingIsRaced`), and not by
  itself (`RowsAreKeyed`); all who are starting at one time are in `overlap`.
* `UsageIsCounted`: what a presentation resolved is a row of the system that is
  still there (`ResolvedStays`). So a row that is inserted starts with no
  presentation counted to it, which wants `RowsAreKeyed` again, and each result
  adds one presentation or is a second delivery (`FinalizeKeepsCounts`).

Plans and decks, `DeckTheorems`, for templates, answers and lists of bullets of any
length. What they state is computed by recursion over the slides, so the module
begins with that.

* *Induction.* `LeastNat` (a set of naturals has a least one) gives `NatUpTo`: a
  set that has 0, and n + 1 with every n below N, has 0 .. N. Proofs by induction
  name the set of the positions up to which a claim holds and cite it; no operator
  is passed to a theorem.
* *Recursion.* `RecursionExists`: a base and a function for each step have a
  solution, `SolutionsAgree`: no other. With them `SumSteps`, `FiledStep`,
  `DiversifySteps` and `FoundOrderType` say of each recursive function of the models
  what it is at 0 and at n. `FlattenProperties` says it of `FlattenSeq`: there is a
  function `start` with which list i of the concatenation stands behind
  `start[i - 1]`, and nothing else stands anywhere (`Starts`); `FlattenUnique` says
  that these places determine the concatenation.
* `PlansFollowTemplates`: `Diverse` is the invariant of the loop of
  `enforce_visual_diversity`: what is out so far has no three in a row, the run
  counted is the run at its end, and a slide differs from the template only where
  the two before it have its type. `EnforceProperties` carries that through the
  cutting into sections and back, `TemplateProperties` that a section has as many
  slides as the template has for it (`FiledRight`).
* `PromptsFit`: `PromptProperties`, from `QuarterOfSum`: the tokens of two texts
  together are at most one more than those of each added up.
* `DeckInvariant`: `Kept(p, s, g, i)` says what slide i is before the pass p, given
  as g. It is a slide of that number from the first pass on; it has the bullets
  given (`HasAll`) until the completion, and all or the first of them after it
  (`HasFirst`); the first slide opens the deck from the inference on; before the
  constraints each slide renders as its type and has its layout (`Complete`). One
  lemma per pass says that it keeps this for one slide (`NormalisedKeeps`,
  `InferredKeeps`, `CorrectedKeeps`, `CompletedKeeps`), `AllByOne` that it is then
  kept for the deck. After the last pass the deck is `Repaired`.
* `ConstrainedProperties`: the last pass. A slide is reduced, cut and perhaps split
  in two, and the lists are joined: `Arranged` says where each slide and its
  overflow slide stand, from `Starts`, and what they hold together
  (`SplitProperties`, by `FlattenFew`).
* `DecksArePresentable` follows from `Repaired`. What the completion leaves empty it
  leaves because it was given so: `Renders` excepts the rows of a table that was given
  without any that can be used (`GivenRowless`) and the sides of a comparison that
  were given empty (`GivenHollow`). `BulletsAlwaysSurvive`, but for bullets at the
  root of a slide that has an empty list in its content (`Shadowed`): `PlaceIs`
  finds slide i by its number where `Arranged` has it, so what is shown up to the
  next are the bullets it was reduced to (`ShownIs`), which begin as the given ones
  do (`ReducedBullets`).
* `RepairedDecksAreAccepted`: a deck one slide longer than the answer has no
  overflow slide, since one that is split moves all that follow one place further
  (`SplitMovesOn`); every other slide renders and fits, so that no penalty applies but
  that for jargon, which no pass looks for.
* `RefinementPaysAlways`: refinement leaves the decks `Alike`, which four dimensions
  are functions of. The fifth, the visual appeal, loses at most the one point for
  too few icons and highlights, a fifth of which is in the composite, and nothing if
  no slide loses its own (`AppealGrows`).

Only model-checked, since the prover cannot reason about fairness: the liveness
properties `EnqueuedJobsFinish`, `GenerationEnds`, `JamClears`, `JobsSettle`,
`PrimaryComesBack`, `WindowReopens`. Every other property of a passing run is a
theorem.

## 5. Where the code and its documents disagree

The models follow the code. Places where they contradict a document, a comment
or a docstring, or where a consequence surprises; three of them are shown by the run in parentheses:

Generation.

* A low score makes agents 6 to 8 run again (README.md:311), but
  `_run_quality_scoring` (orchestrator 1453) takes its own agent off the list and
  `_run_agent` appends it again: the LLM and the validation run again, the
  scoring does not, and the new deck is published with the old score. The
  visual refinement is not among the agents that run again either (line 71).
* The row a worker inserts is never found again behind the NULLs of the requests'
  rows (line 1640), so an interrupted execution of that kind is not resumed,
  against line 485 (`Resume`). Usage of its template is counted again by a redelivery.
* The task writes the status a second time "as a safety net" (`tasks.py` 208)
  from its own context: over the partial result of another task it makes a
  presentation completed that is a part, or has no slides; over a cancellation it
  writes its own result.
* `on_failure` swallows a failure of its own write (`tasks.py` 124-135): the message is
  acknowledged and the presentation stays queued or processing. Neither it nor the
  retries publish an event, so that the page goes on waiting.
* A cancellation flag that is seen and cannot be cleared stops nothing: the agent
  runs, and its checkpoint carries the failure (orchestrator 579-586).
* Of two regenerations in one second the second commits `queued` and its task is
  dropped as a duplicate (`presentations.py` 626).
* A cancelled status is overwritten by the worker (design.md:1927); a cancelled
  regeneration erases the slides of the run before; a failed checkpoint of the
  last agent still ends in `completed` (orchestrator 603).

Page and stream.

* The retry button of the page shows the error again, since the events of the
  hook are never cleared (`PresentationWorkflow.tsx` 171); the hook never sends
  `Last-Event-ID` (design.md:1918), so a reconnection appends all events again.
* A chart given as categories and series is handed to the page as that object,
  below a comment that says "Ensure chart_data is a list of {label, value}
  objects" (`presentations.py` 247), and ChartSlide maps over a list. The
  progressive view drops the object and shows bullets instead.
* The stale timer of the download button enables it while its retry is under way.

Editing.

* "Snapshots current state as a new version before applying changes"
  (`slide_editing.py` 383): the state is the one the request read when it began (`Snapshots`).
  An edit committed since then is overwritten and is in no version, even when
  the two are of different slides. A merge replaces the deck without a version.
* `slide_locks` has no unique constraint (design.md:1467-1477 has one), so two
  users may hold the "exclusive lock" of line 514, and every request for it
  fails until one of the rows expires (`Jammed`).
* `PATCH .../slides/reorder` is declared after `PATCH .../slides/{slide_id}`,
  which matches it first.

Side tasks and exports.

* `_finalize` stores a list of slides and `regenerate_slide_task` expects a
  dictionary (`tasks.py` 277): it always fails, and `on_failure` marks a
  completed presentation failed, or one that is just processing.
* A duplicate export of one second is ignored without a result, so its poll
  never ends; `get_pptx_export_status` says completed whatever the status is, and
  its link answers 409 unless the presentation is completed.
* The 60 s timeout of `_build_pptx` is never reached under the soft limit of 45 s.
* An edit does not invalidate the preview, which stays for 55 minutes; without a
  browser the preview is a page without slides.

Providers, caches, limits.

* The provider that `select_provider` returns is not the one called
  (`llm_provider.py` 440 against 405 and requirements.md:187); its last resort
  (`provider_health.py` 363) is ignored. A failed probe does not reopen a circuit
  for another recovery time (ARCHITECTURE.md:459-463), and only the circuit of
  the primary ever closes (`Probe`).
* A provider that hangs is not recorded as failing, since the timeout cancels the
  call. A call that succeeds is recorded as a failure as well, and its
  result thrown away, when Redis cannot be reached for the health records
  (`llm_provider.py` 493-512).
* The key of a deck has the prompt version of the code that stores it, not of the
  prompt in the checkpoint, and no schema version, so that a run of the
  earlier release stores behind an invalidation.
* A daily limit is checked at the start of a request and counted at its end; a
  process lost between INCR and EXPIRE leaves a counter that never expires,
  and one lost before INCR a presentation that is not counted. The slots of the system
  are acquired and released by nothing.

Agents.

* The fallback of the research agent comes after three attempts of up to 30 s, its
  budget is 60 s (orchestrator 84, `research.py` 457): after two timeouts the
  agent is cancelled and the fallback is not reached.
* What the LLM answers the research agent is not checked; sections or terms that are
  no texts fail the prompt agent, in every execution that finds them in Redis, where
  requirements.md:850 wants "immediate fallback to default prompts".
* Ten names of `TEMPLATE_SELECTION_MATRIX` are not seeded, so the most used
  template of the industry, or the general one, is taken; the tenants' own
  templates are never taken; "HIPAA|FDA" in upper case matches no lower-cased topic.
* Two rows of a template that two processes seeded together make every later
  `scalar_one_or_none` raise: the plan falls back to its default, later seedings
  abort.
* A total of 7 slides is announced for plans of 9 (`storyboarding.py` 88).
* A prompt that is too long loses its design as well, and is flagged anew.
* In a deck that does not conform, charts of categories and series are replaced by
  random numbers (`validation.py` 878 against 985 and 1133). A chart may have fewer
  labels than points (`data_enrichment.py` 824), and "reproducible
  results" does not hold for ranges named by the LLM.
* A table given at the root with headers only, or with rows of another shape, is shown
  without rows, against `validation.py` 987; bullets at the root beside an
  empty list are dropped, against 448-451.
* Refinement of a single slide calls `refine_slide`, which the agent does not
  have (`optimized_visual_refinement.py` 213); a chart given as an object,
  which the schema asks for, fails the agent after it (`selective_enhancement.py` 117); an empty answer erases an icon or a highlight.

## 6. Plan

Done: the pipeline and editing with their refinements, the stream, the side tasks
and views, providers, caches, limits, the agents on both sides of the LLM,
templates; and proofs of all safety properties the runs check. Left, in this order:

1. The conditions under which the theorems of one job hold for several: two
   tasks that do not attach to the same execution.
2. The circuit breakers of the agents, composed with `StopBeforeAgent`; two
   agents that call providers together; rotation of refresh tokens.
3. The layout engine and the conversion of schema versions against reference
   definitions, should the pipeline come to call them.
