---------------------------- MODULE ContentCache ----------------------------
(***************************************************************************)
(* What Redis keeps of a topic between two pipeline runs: research, data   *)
(* enrichment and the finished deck (services/presentation_cache.py over   *)
(* services/redis_cache.py), the agents that read and write it             *)
(* (agents/pipeline_orchestrator.py), and the invalidations of an          *)
(* administrator (api/v1/export_templates_admin.py) while new releases of  *)
(* the code are deployed.                                                  *)
(*                                                                         *)
(* Keys of other topics, industries and themes do not interact, so there   *)
(* is one of each; of the key of a deck only the prompt version is left.   *)
(* Analytics counters are in RateLimits.  Time passes in ticks, of which   *)
(* TTL make the six hours of an entry.                                     *)
(***************************************************************************)
EXTENDS Integers, FiniteSets

CONSTANTS
    Runs,          \* tasks that run the pipeline for the topic, each again and again
    TTL,           \* ticks until an entry expires
    Prompts,       \* values of PROMPT_VERSION
    PromptOf,      \* the prompt version of each release, in order
    LastRelease    \* bound on the releases deployed

ASSUME CacheAssumption ==
    /\ TTL \in Nat \ {0}
    /\ LastRelease \in Nat \ {0}
    /\ PromptOf \in [1..LastRelease -> Prompts]

Releases == 1..LastRelease

(* What an entry holds is identified by the oldest release among the code  *)
(* that made it and the inputs it was made from; age is in ticks since it  *)
(* was made, capped, and left the ticks until it expires.                  *)
Intermediate == [release: Releases, age: 0..TTL + 1, left: 1..TTL]

(* A deck also has the prompt version the LLM was given.  crossed: the run *)
(* that made it was resumed in another release after its prompt was made.  *)
(* No property is about the age of a deck, so that it may expire any time. *)
Deck == [release: Releases, prompt: Prompts, crossed: BOOLEAN]

NoEntry == [release |-> 0]

VARIABLES
    research, enrichment,  \* the entries of the topic
    decks,                 \* the deck entries, by prompt version
    run,                   \* the context of each run
    release,               \* what a worker started now runs
    bump,                  \* the invalidation under way
    cleaned                \* history: release of the last invalidation of everything
                           \* that succeeded with no run under way

vars == <<research, enrichment, decks, run, release, bump, cleaned>>
cacheVars == <<research, enrichment, decks>>

(* Agents done, as saved in the checkpoint, or the step inside an agent,   *)
(* or a deck found in the cache.                                           *)
Saved  == {"classified", "researched", "enriched", "prompted", "made"}
Prompted == {"prompted", "made"}
Places == Saved \cup {"idle", "researching", "enriching", "served"}

(* worker: the release of the worker; inputs: the oldest release among     *)
(* what the context holds; prompt: the version of the prompt it holds;     *)
(* served: the deck found in the cache.                                    *)
Context == [at: Places, saved: Saved, worker: Releases, crossed: BOOLEAN,
            inputs: Releases, prompt: Prompts, served: Deck \cup {NoEntry}]

Phases == {"idle", "decks", "research", "enrichment"}
Bump == [at: Phases, all: BOOLEAN, scanned: BOOLEAN, found: SUBSET Prompts, ok: BOOLEAN]

TypeOK ==
    /\ research \in Intermediate \cup {NoEntry}
    /\ enrichment \in Intermediate \cup {NoEntry}
    /\ decks \in [Prompts -> Deck \cup {NoEntry}]
    /\ run \in [Runs -> Context]
    /\ release \in Releases
    /\ bump \in Bump
    /\ cleaned \in Releases

NoRun == [at |-> "idle", saved |-> "classified", worker |-> 1, crossed |-> FALSE,
          inputs |-> 1, prompt |-> PromptOf[1], served |-> NoEntry]
NoBump == [at |-> "idle", all |-> FALSE, scanned |-> FALSE, found |-> {}, ok |-> FALSE]

Init ==
    /\ research = NoEntry /\ enrichment = NoEntry
    /\ decks = [p \in Prompts |-> NoEntry]
    /\ run = [r \in Runs |-> NoRun]
    /\ release = 1
    /\ bump = NoBump
    /\ cleaned = 1

-----------------------------------------------------------------------------
(* Redis *)

(* SETEX: a new value and a new expiry.                                    *)
Made(from) == [release |-> from, age |-> 0, left |-> TTL]
DeckOf(context) == [release |-> context.inputs, prompt |-> context.prompt, crossed |-> context.crossed]

Older(r, s) == IF r < s THEN r ELSE s

Tick ==
    LET Aged(e) == IF e = NoEntry \/ e.left = 1 THEN NoEntry
                   ELSE [e EXCEPT !.left = @ - 1, !.age = IF @ > TTL THEN @ ELSE @ + 1]
    IN /\ research' = Aged(research)
       /\ enrichment' = Aged(enrichment)
       /\ UNCHANGED <<decks, run, release, bump, cleaned>>

DeckExpires(p) ==
    /\ decks' = [decks EXCEPT ![p] = NoEntry]
    /\ UNCHANGED <<research, enrichment, run, release, bump, cleaned>>

-----------------------------------------------------------------------------
(* The pipeline.  A get that fails is a miss and a set that fails stores   *)
(* nothing; neither stops the run.                                         *)

Goes(r, place) == run' = [run EXCEPT ![r].at = place]

(* A new task: the context has no detected industry before the classifier  *)
(* has run, so no deck is looked up.                                       *)
Start(r) ==
    /\ run[r].at = "idle"
    /\ run' = [run EXCEPT ![r] = [NoRun EXCEPT !.at = "classified", !.worker = release]]
    /\ bump' = [bump EXCEPT !.ok = FALSE]
    /\ UNCHANGED <<cacheVars, release, cleaned>>

(* The worker was lost, or the task is retried: the context is the one of  *)
(* the last checkpoint and the code the one deployed now.                  *)
Resumed(r, place, found) ==
    /\ run[r].at # "idle"
    /\ run' = [run EXCEPT ![r].at = place, ![r].worker = release, ![r].served = found,
                          ![r].crossed = @ \/ (run[r].saved \in Prompted /\ run[r].worker # release)]
    /\ UNCHANGED <<cacheVars, release, bump, cleaned>>

(* With the industry known from the checkpoint, a deck is looked up first. *)
ServeDeck(r) ==
    /\ decks[PromptOf[release]] # NoEntry
    /\ Resumed(r, "served", decks[PromptOf[release]])

MissDeck(r) == Resumed(r, run[r].saved, NoEntry)

(* An agent fails for good: nothing is stored.                             *)
Stop(r) ==
    /\ run[r].at # "idle"
    /\ run' = [run EXCEPT ![r] = NoRun]
    /\ UNCHANGED <<cacheVars, release, bump, cleaned>>

(* The deck served is finalized like a new one, which stores it once more. *)
StoreServed(r) ==
    /\ run[r].at = "served"
    /\ decks' = [decks EXCEPT ![PromptOf[run[r].worker]] = run[r].served] \/ UNCHANGED decks
    /\ run' = [run EXCEPT ![r] = NoRun]
    /\ UNCHANGED <<research, enrichment, release, bump, cleaned>>

(* An agent is done, with an output that goes back to release from.        *)
Completes(r, agent, from) ==
    run' = [run EXCEPT ![r].at = agent, ![r].saved = agent, ![r].inputs = from]

\* Variant: what is served is stored again, as it is for decks.
ServeResearchAgain(r) ==
    /\ run[r].at = "classified"
    /\ research # NoEntry
    /\ Completes(r, "researched", Older(run[r].worker, research.release))
    /\ research' = [research EXCEPT !.left = TTL]
    /\ UNCHANGED <<enrichment, decks, release, bump, cleaned>>

ServeResearch(r) ==
    /\ run[r].at = "classified"
    /\ research # NoEntry
    /\ Completes(r, "researched", Older(run[r].worker, research.release))
    /\ UNCHANGED <<cacheVars, release, bump, cleaned>>

MissResearch(r) ==
    /\ run[r].at = "classified"
    /\ Goes(r, "researching")
    /\ UNCHANGED <<cacheVars, release, bump, cleaned>>

StoreResearch(r) ==
    /\ run[r].at = "researching"
    /\ Completes(r, "researched", run[r].worker)
    /\ research' = Made(run[r].worker) \/ UNCHANGED research
    /\ UNCHANGED <<enrichment, decks, release, bump, cleaned>>

ServeEnrichment(r) ==
    /\ run[r].at = "researched"
    /\ enrichment # NoEntry
    /\ Completes(r, "enriched", Older(run[r].inputs, enrichment.release))
    /\ UNCHANGED <<cacheVars, release, bump, cleaned>>

MissEnrichment(r) ==
    /\ run[r].at = "researched"
    /\ Goes(r, "enriching")
    /\ UNCHANGED <<cacheVars, release, bump, cleaned>>

(* The charts and tables are drawn from the research of this run.          *)
StoreEnrichment(r) ==
    /\ run[r].at = "enriching"
    /\ LET from == Older(run[r].worker, run[r].inputs)
       IN /\ Completes(r, "enriched", from)
          /\ enrichment' = Made(from) \/ UNCHANGED enrichment
    /\ UNCHANGED <<research, decks, release, bump, cleaned>>

(* The prompt has the version of the code that writes it; the checkpoint   *)
(* after the agent has the prompt.                                         *)
WritePrompt(r) ==
    /\ run[r].at = "enriched"
    /\ run' = [run EXCEPT ![r].at = "prompted", ![r].saved = "prompted",
                          ![r].inputs = Older(@, run[r].worker), ![r].prompt = PromptOf[run[r].worker]]
    /\ UNCHANGED <<cacheVars, release, bump, cleaned>>

(* The LLM, given the prompt of the context, and the agents after it.      *)
MakeDeck(r) ==
    /\ run[r].at = "prompted"
    /\ Completes(r, "made", Older(run[r].inputs, run[r].worker))
    /\ UNCHANGED <<cacheVars, release, bump, cleaned>>

(* A score that is too low: the LLM runs again, the prompt is not written  *)
(* again.  The two times this may happen are not counted here.             *)
LoopBack(r) ==
    /\ run[r].at = "made"
    /\ Completes(r, "prompted", run[r].inputs)
    /\ UNCHANGED <<cacheVars, release, bump, cleaned>>

\* Variant: the key has the version the latest release would use.
StoreDeckUnderLatest(r) ==
    /\ run[r].at = "made"
    /\ \/ decks' = [decks EXCEPT ![PromptOf[release]] = DeckOf(run[r])]
       \/ UNCHANGED decks
    /\ run' = [run EXCEPT ![r] = NoRun]
    /\ UNCHANGED <<research, enrichment, release, bump, cleaned>>

(* _finalize: the key has the PROMPT_VERSION of the code that finalizes.   *)
StoreDeck(r) ==
    /\ run[r].at = "made"
    /\ \/ decks' = [decks EXCEPT ![PromptOf[run[r].worker]] = DeckOf(run[r])]
       \/ UNCHANGED decks
    /\ run' = [run EXCEPT ![r] = NoRun]
    /\ UNCHANGED <<research, enrichment, release, bump, cleaned>>

-----------------------------------------------------------------------------
(* Releases and invalidation *)

(* Tasks under way stay with the worker, and the code, they began in.      *)
Deploy ==
    /\ release < LastRelease
    /\ release' = release + 1
    /\ UNCHANGED <<cacheVars, run, bump, cleaned>>

(* A rollback of a prompt, a new provider, or one of the endpoints under   *)
(* /cache/invalidate; all: the schema version was bumped.                  *)
Invalidate(all) ==
    /\ bump.at = "idle"
    /\ bump' = [NoBump EXCEPT !.at = "decks", !.all = all,
                              !.ok = all /\ \A r \in Runs : run[r].at = "idle"]
    /\ UNCHANGED <<cacheVars, run, release, cleaned>>

(* _delete_by_prefix collects the keys it finds ...                        *)
Scan ==
    /\ bump.at # "idle" /\ ~bump.scanned
    /\ bump' = [bump EXCEPT !.scanned = TRUE,
                            !.found = CASE bump.at = "decks" -> {p \in Prompts : decks[p] # NoEntry}
                                        [] bump.at = "research" /\ research # NoEntry -> Prompts
                                        [] bump.at = "enrichment" /\ enrichment # NoEntry -> Prompts
                                        [] OTHER -> {}]
    /\ UNCHANGED <<cacheVars, run, release, cleaned>>

\* Variant: a schema bump forgets the enrichment.
NextPhaseEarly ==
    CASE bump.at = "decks" /\ bump.all -> "research"
      [] OTHER -> "idle"

NextPhase ==
    CASE bump.at = "decks" /\ bump.all -> "research"
      [] bump.at = "research" -> "enrichment"
      [] OTHER -> "idle"

(* The next prefix, or the answer; ok: no prefix failed, and no run has    *)
(* been under way, so far.                                                 *)
NextPrefix(ok) ==
    IF NextPhase = "idle"
    THEN /\ bump' = NoBump
         /\ cleaned' = IF ok THEN release ELSE cleaned
    ELSE /\ bump' = [bump EXCEPT !.at = NextPhase, !.scanned = FALSE, !.found = {}, !.ok = ok]
         /\ UNCHANGED cleaned

(* ... and deletes them in one call, whatever they hold by then.           *)
Delete ==
    /\ bump.scanned
    /\ LET hit == bump.found # {}
       IN /\ decks' = IF bump.at = "decks"
                      THEN [p \in Prompts |-> IF p \in bump.found THEN NoEntry ELSE decks[p]]
                      ELSE decks
          /\ research' = IF bump.at = "research" /\ hit THEN NoEntry ELSE research
          /\ enrichment' = IF bump.at = "enrichment" /\ hit THEN NoEntry ELSE enrichment
    /\ NextPrefix(bump.ok)
    /\ UNCHANGED <<run, release>>

(* Redis fails, or has no client: the prefix is given up, the others are   *)
(* not, and the caller is told that nothing had to be deleted.             *)
DeleteFails ==
    /\ bump.at # "idle"
    /\ NextPrefix(FALSE)
    /\ UNCHANGED <<cacheVars, run, release>>

-----------------------------------------------------------------------------
Pipeline(r) ==
    \/ Start(r) \/ Stop(r)
    \/ ServeDeck(r) \/ MissDeck(r) \/ StoreServed(r)
    \/ ServeResearch(r) \/ MissResearch(r) \/ StoreResearch(r)
    \/ ServeEnrichment(r) \/ MissEnrichment(r) \/ StoreEnrichment(r)
    \/ WritePrompt(r) \/ MakeDeck(r) \/ LoopBack(r) \/ StoreDeck(r)

Next ==
    \/ \E r \in Runs : Pipeline(r)
    \/ \E all \in BOOLEAN : Invalidate(all)
    \/ Scan \/ Delete \/ DeleteFails
    \/ Deploy \/ Tick \/ \E p \in Prompts : DeckExpires(p)

Spec == Init /\ [][Next]_vars

-----------------------------------------------------------------------------
(* Properties *)

(* Research and enrichment are used for six hours from when they were      *)
(* made, however often they are served: a hit does not store them again    *)
(* (_run_research and _run_data_enrichment return before the set).         *)
IntermediatesExpire ==
    \A e \in {research, enrichment} : e # NoEntry => e.age < TTL

(* An invalidation of everything that Redis carried out while no run was   *)
(* under way leaves nothing of an earlier release, in the cache or in a    *)
(* run, and nothing of it comes back (invalidate_on_schema_version_bump).  *)
DrainedBumpIsClean ==
    /\ \A e \in {research, enrichment} \cup {decks[p] : p \in Prompts} :
          e # NoEntry => e.release >= cleaned
    /\ \A r \in Runs : run[r].at # "idle" =>
          /\ run[r].worker >= cleaned
          /\ run[r].saved # "classified" => run[r].inputs >= cleaned

(* A deck found under a prompt version was made with a prompt of that      *)
(* version, however often it was served and stored again, unless its run   *)
(* was resumed in another release with its prompt, or its deck, in the     *)
(* checkpoint (_make_slide_json_key, _finalize).                           *)
DeckMatchesPrompt ==
    \A p \in Prompts : decks[p] # NoEntry /\ ~decks[p].crossed =>
        decks[p].prompt = p

=============================================================================
