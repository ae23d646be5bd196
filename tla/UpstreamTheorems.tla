--------------------------- MODULE UpstreamTheorems ---------------------------
(***************************************************************************)
(* What UpstreamAgents states of failures before the LLM, for any          *)
(* industries, any latencies below the timeout and any life of findings,   *)
(* and what TemplateCatalogue states of the templates these agents choose  *)
(* from, for any processes, tenants, presentations and industries.         *)
(***************************************************************************)
EXTENDS UpstreamAgents, TemplateCatalogue, FiniteSetTheorems, TLAPS

Agents == {"classifier", "design", "storyboarding", "research", "enrichment", "prompt"}
Matches == [industry : Known \cup {NONE}, score : {0, 3, 5, 6, 8}]

LEMMA Constants ==
  /\ Novel \notin Known /\ NONE \notin Known /\ NONE # Novel /\ Ranged \subseteq Known
  /\ NONE \notin Industries /\ Number \notin Industries
  /\ \A l \in Latencies : l \in Nat /\ 1 <= l /\ l <= 29
  /\ Lifetime \in Nat /\ Lifetime >= 1
BY UpstreamAssumption DEF Industries

LEMMA PipelineAgents ==
  /\ DOMAIN Pipeline = 1 .. 6 /\ Len(Pipeline) = 6
  /\ \A k \in 1 .. 6 : Pipeline[k] \in Agents
  /\ \A a \in Agents : \E k \in 1 .. 6 : Pipeline[k] = a
<1>1. DOMAIN Pipeline = 1 .. 6 /\ Len(Pipeline) = 6
  BY DEF Pipeline
<1>2. /\ Pipeline[1] = "classifier" /\ Pipeline[2] = "design" /\ Pipeline[3] = "storyboarding"
      /\ Pipeline[4] = "research" /\ Pipeline[5] = "enrichment" /\ Pipeline[6] = "prompt"
  BY DEF Pipeline
<1>3. \A k \in 1 .. 6 : k = 1 \/ k = 2 \/ k = 3 \/ k = 4 \/ k = 5 \/ k = 6
  OBVIOUS
<1> QED
  BY <1>1, <1>2, <1>3 DEF Agents

LEMMA NextOfAgent == ASSUME NEW a \in Agents PROVE NextOf(a) \in Agents \cup {"done"}
<1>1. PICK k \in 1 .. 6 : Pipeline[k] = a
  BY PipelineAgents
<1> DEFINE c == CHOOSE i \in DOMAIN Pipeline : Pipeline[i] = a
<1>2. c \in 1 .. 6
  BY <1>1, PipelineAgents
<1>3. NextOf(a) = IF c = 6 THEN "done" ELSE Pipeline[c + 1]
  BY PipelineAgents DEF NextOf
<1> HIDE DEF c
<1>4. CASE c = 6
  BY <1>3, <1>4
<1>5. CASE c # 6
  BY <1>2, <1>3, <1>5, PipelineAgents
<1> QED
  BY <1>4, <1>5

LEMMA Budgets ==
  /\ Budget["classifier"] = 15 /\ Budget["design"] = 20
  /\ Budget["research"] = 60 /\ Budget["enrichment"] = 20
BY DEF Budget

-----------------------------------------------------------------------------
(* Time.  Only the research agent has used any between two steps, at most  *)
(* the pauses, ten seconds for each attempt and twenty more for each of    *)
(* those that were slow.                                                   *)
Pauses == IF attempt = 3 THEN 6 ELSE IF attempt = 2 THEN 2 ELSE 0

InvTime ==
  /\ spent \in Nat /\ slow \in Nat /\ attempt \in 0 .. 3
  /\ agent \in Agents => (agent # "research" => spent = 0 /\ slow = 0 /\ attempt = 0)
  /\ agent = "research" /\ attempt = 0 => spent = 0 /\ slow = 0
  /\ agent = "research" /\ attempt > 0 =>
       /\ slow < attempt
       /\ spent <= 10 * (attempt - 1) + 20 * slow + Pauses

Named == Industries \cup {Number, NONE}

InvAgent ==
  /\ agent \in Agents \cup {"idle", "done", "failed"}
  /\ industry \in Named

TimeInv == InvAgent /\ InvTime /\ FailuresExplained

(* An agent that is done leaves the next one a fresh budget.               *)
LEMMA CompletesTime ==
  ASSUME TimeInv, agent \in Agents, Completes, industry' \in Named
  PROVE  TimeInv'
<1>1. agent' \in Agents \cup {"done"} /\ agent' # "failed"
  BY NextOfAgent DEF Completes, Agents
<1>2. spent' = 0 /\ attempt' = 0 /\ slow' = 0
  BY DEF Completes
<1> QED
  BY <1>1, <1>2 DEF TimeInv, InvAgent, InvTime, FailuresExplained

(* An agent that fails leaves its account behind, if there is one.         *)
LEMMA FailsTime ==
  ASSUME TimeInv, agent \in Agents, NEW why, Fails(why), slow' \in Nat,
         \/ agent \in {"classifier", "design"} /\ slow' >= 1
         \/ agent = "storyboarding" /\ industry \notin Industries
         \/ agent = "research" /\ slow' >= 2
         \/ agent = "enrichment" /\ slow' >= 1 /\ industry \notin Ranged
         \/ agent = "classifier" /\ why = "answer" /\ ByTables = NONE
         \/ agent = "enrichment" /\ why = "answer" /\ industry \notin Ranged
         \/ agent = "prompt" /\ research = "malformed"
         \/ agent \in {"storyboarding", "prompt"} /\ why = "database"
  PROVE  TimeInv'
<1>1. /\ agent' = "failed" /\ failedAt' = agent /\ fault' = why
      /\ UNCHANGED <<spent, attempt, topic, industry, research>>
  BY DEF Fails, context
<1>2. ByTables' = ByTables
  BY <1>1 DEF ByTables
<1> QED
  BY <1>1, <1>2 DEF TimeInv, InvAgent, InvTime, FailuresExplained, Agents

(* An agent that is cut off without a timeout of its own was kept waiting. *)
LEMMA CutOffTime ==
  ASSUME TimeInv, CutOff,
         agent \in {"classifier", "design"} \/ (agent = "enrichment" /\ industry \notin Ranged)
  PROVE  TimeInv'
<1>1. agent \in Agents /\ spent = 0 /\ slow = 0
  BY DEF TimeInv, InvTime, Agents
<1>2. Fails(NONE)
  BY DEF CutOff
<1>3. slow' = 1
  <2>1. CASE slow' = slow + 1
    BY <1>1, <2>1
  <2>2. ASSUME NEW l \in Latencies, ~InTime(l), Count(l) PROVE slow' = 1
    <3>1. l >= 15
      BY <1>1, <2>2, Constants, Budgets DEF InTime
    <3> QED
      BY <1>1, <2>2, <3>1, Constants DEF Count, Timeout
  <2> QED
    BY <2>1, <2>2 DEF CutOff
<1> QED
  BY <1>1, <1>2, <1>3, FailsTime

(* An answer that raises does so in an agent that asked for it.            *)
LEMMA RaisesTime ==
  ASSUME TimeInv, Raises,
         \/ agent = "classifier" /\ ByTables = NONE
         \/ agent = "enrichment" /\ industry \notin Ranged
  PROVE  TimeInv'
<1>1. slow' \in Nat /\ Fails("answer")
  BY DEF Raises, TimeInv, InvTime
<1> QED
  BY <1>1, FailsTime DEF Agents

(* A research attempt that is followed by another.                         *)
LEMMA RetryTime == ASSUME TimeInv, ResearchRetries PROVE TimeInv'
<1>1. PICK l \in Latencies \cup {Timeout} :
        spent' = spent + l + Backoff(attempt) /\ Count(l)
  BY DEF ResearchRetries
<1>2. /\ agent = "research" /\ attempt \in 1 .. 2 /\ attempt' = attempt + 1
      /\ UNCHANGED <<agent, industry>>
  BY DEF ResearchRetries, MaxRetries, context
<1>3. l \in Nat /\ 1 <= l /\ l <= 30
  BY <1>1, Constants DEF Timeout
<1>4. slow' = (IF l > 10 THEN slow + 1 ELSE slow)
  BY <1>1 DEF Count, Timeout
<1>5. /\ spent \in Nat /\ slow \in Nat /\ slow < attempt
      /\ spent <= 10 * (attempt - 1) + 20 * slow + Pauses
  BY <1>2 DEF TimeInv, InvTime
<1>6. spent' \in Nat /\ slow' \in Nat /\ slow' < attempt'
  BY <1>1, <1>2, <1>3, <1>4, <1>5 DEF Backoff
<1>7. spent' <= 10 * (attempt' - 1) + 20 * slow' + Pauses'
  <2>1. CASE attempt = 1
    BY <1>1, <1>2, <1>3, <1>4, <1>5, <2>1 DEF Backoff, Pauses
  <2>2. CASE attempt = 2
    BY <1>1, <1>2, <1>3, <1>4, <1>5, <2>2 DEF Backoff, Pauses
  <2> QED
    BY <1>2, <2>1, <2>2
<1>8. InvTime'
  BY <1>2, <1>6, <1>7 DEF InvTime, Agents
<1> QED
  BY <1>2, <1>8 DEF TimeInv, InvAgent, FailuresExplained

(* The budget of the research agent ends only after two slow attempts.     *)
LEMMA ResearchCutOffTime == ASSUME TimeInv, ResearchCutOff PROVE TimeInv'
<1>1. PICK l \in Latencies \cup {Timeout} :
        /\ ~InTime(l + (IF attempt < MaxRetries THEN Backoff(attempt) ELSE 0))
        /\ Count(l)
  BY DEF ResearchCutOff
<1>2. agent = "research" /\ attempt \in 1 .. 3 /\ Fails(NONE)
  BY DEF ResearchCutOff, TimeInv, InvTime
<1>3. l \in Nat /\ 1 <= l /\ l <= 30
  BY <1>1, Constants DEF Timeout
<1>4. slow' = (IF l > 10 THEN slow + 1 ELSE slow)
  BY <1>1 DEF Count, Timeout
<1>5. /\ spent \in Nat /\ slow \in Nat /\ slow < attempt
      /\ spent <= 10 * (attempt - 1) + 20 * slow + Pauses
  BY <1>2 DEF TimeInv, InvTime
<1>6. spent + l + (IF attempt = 1 THEN 2 ELSE IF attempt = 2 THEN 4 ELSE 0) >= 60
  BY <1>1, <1>2, <1>3, <1>5, Budgets DEF InTime, Backoff, MaxRetries
<1>7. slow' >= 2 /\ slow' \in Nat
  <2>1. CASE attempt = 1
    BY <1>3, <1>5, <1>6, <2>1 DEF Pauses
  <2>2. CASE attempt = 2
    BY <1>3, <1>4, <1>5, <1>6, <2>2 DEF Pauses
  <2>3. CASE attempt = 3
    BY <1>3, <1>4, <1>5, <1>6, <2>3 DEF Pauses
  <2> QED
    BY <1>2, <2>1, <2>2, <2>3
<1> QED
  BY <1>2, <1>7, FailsTime DEF Agents

(* What keywords and embedding say of the topic.                           *)
TopicOK == topic \in [keyword : Matches, semantic : Matches]

LEMMA InitTime == Init => TopicOK /\ TimeInv
<1> SUFFICES ASSUME Init PROVE TopicOK /\ TimeInv
  OBVIOUS
<1>1. Match({3, 6}) \subseteq Matches /\ Match({5, 8}) \subseteq Matches
  BY DEF Match, Matches
<1>2. TopicOK
  BY <1>1 DEF Init, TopicOK
<1>3. TimeInv
  BY DEF Init, TimeInv, InvAgent, Named, InvTime, FailuresExplained, Agents
<1> QED
  BY <1>2, <1>3

LEMMA NextTime == TopicOK /\ TimeInv /\ [Next]_vars => TopicOK' /\ TimeInv'
<1> SUFFICES ASSUME TopicOK, TimeInv, [Next]_vars PROVE TopicOK' /\ TimeInv'
  OBVIOUS
<1>0. TopicOK'
  <2>1. UNCHANGED topic
    BY DEF Next, vars, Start, ClassifyByTables, ClassifyByLLM, Design, Storyboard, ResearchHit, TakeKept,
       ResearchMiss, ResearchAnswered, ResearchRetries, ResearchGivesUp, ResearchDone, ResearchCutOff,
       DataEnrichment, Enrich, WritePrompt, Tick, Classified, Designed, CutOff, Raises, Completes, Fails
  <2> QED
    BY <2>1 DEF TopicOK
<1> SUFFICES TimeInv'
  BY <1>0
<1>1. /\ BestGuess \in Known \cup {NONE} /\ ByTables \in Known \cup {NONE}
      /\ industry \in Named /\ slow \in Nat
  BY DEF InvTime, TopicOK, Matches, BestGuess, ByTables, TimeInv, InvAgent
<1>2. CASE Start
  <2>1. agent' = "classifier" /\ spent' = 0 /\ attempt' = 0 /\ slow' = 0 /\ industry' = NONE
    BY <1>2, PipelineAgents DEF Start, Pipeline
  <2> QED
    BY <2>1 DEF TimeInv, InvAgent, Named, InvTime, FailuresExplained, Agents
<1>3. ASSUME NEW i \in Named, Classified(i), agent \in Agents PROVE TimeInv'
  BY <1>3, CompletesTime DEF Classified
<1>4. CASE ClassifyByTables
  BY <1>1, <1>3, <1>4 DEF ClassifyByTables, Agents, Named, Industries
<1>5. CASE ClassifyByLLM
  BY <1>1, <1>3, <1>5, CutOffTime, RaisesTime DEF ClassifyByLLM, Agents, Named, Industries
<1>6. CASE Design
  BY <1>1, <1>6, CompletesTime, CutOffTime DEF Design, Designed, Agents
<1>7. CASE Storyboard
  <2>1. CASE industry \in Industries /\ Completes /\ UNCHANGED <<context, kept>>
    BY <1>1, <1>7, <2>1, CompletesTime DEF Storyboard, context, Agents
  <2>2. CASE industry \notin Industries /\ Fails(NONE) /\ UNCHANGED slow
    BY <1>1, <1>7, <2>2, FailsTime DEF Storyboard, Agents
  <2>3. CASE Fails("database") /\ UNCHANGED slow
    BY <1>1, <1>7, <2>3, FailsTime DEF Storyboard, Agents
  <2> QED
    BY <1>7, <2>1, <2>2, <2>3 DEF Storyboard
<1>8. CASE ResearchHit
  BY <1>1, <1>8, CompletesTime DEF ResearchHit, TakeKept, Agents
<1>9. CASE ResearchMiss
  BY <1>9 DEF ResearchMiss, context, TimeInv, InvAgent, InvTime, Pauses, FailuresExplained, Agents
<1>10. CASE ResearchAnswered \/ ResearchGivesUp
  BY <1>1, <1>10, CompletesTime DEF ResearchAnswered, ResearchGivesUp, ResearchDone, Agents
<1>11. CASE ResearchRetries
  BY <1>11, RetryTime
<1>12. CASE ResearchCutOff
  BY <1>12, ResearchCutOffTime
<1>13. CASE DataEnrichment
  BY <1>1, <1>13, CompletesTime, CutOffTime, RaisesTime DEF DataEnrichment, Enrich, Agents
<1>14. CASE WritePrompt
  BY <1>1, <1>14, CompletesTime, FailsTime DEF WritePrompt, context, Agents
<1>15. CASE Tick \/ UNCHANGED vars
  BY <1>15 DEF Tick, vars, context, TimeInv, InvAgent, InvTime, Pauses, FailuresExplained, ByTables
<1> QED
  BY <1>2, <1>4, <1>5, <1>6, <1>7, <1>8, <1>9, <1>10, <1>11, <1>12, <1>13, <1>14, <1>15 DEF Next

(* No agent before the LLM fails because a provider answers with an error: *)
(* it was kept waiting, the research agent twice; or nobody named an       *)
(* industry the plan can have; or an answer of another shape than was      *)
(* asked for raised, at once or, from the research agent, in the prompt;   *)
(* or the database failed.                                                 *)
THEOREM FailuresAreExplained == Spec => []FailuresExplained
<1>1. TimeInv => FailuresExplained
  BY DEF TimeInv
<1> QED
  BY <1>1, InitTime, NextTime, PTL DEF Spec

-----------------------------------------------------------------------------
(***************************************************************************)
(* The templates.  The id of a row is what tells it from all others, which *)
(* the table does not say: nothing keeps two processes from inserting one  *)
(* name, but each inserts it only when it is not there.                    *)
(***************************************************************************)
TemplateIds == [name: Names, industry: TemplateIndustries, by: Apis \cup Tenants]
TemplateRows == [name: Names, industry: TemplateIndustries, by: Apis \cup Tenants, usage: Nat]

CatalogueTypes ==
  /\ templates \subseteq TemplateRows
  /\ seeding \in [Apis -> {"off", "check", "insert", "on"}]
  /\ missing \in [Apis -> SUBSET Seeds]
  /\ \A a \in Apis : seeding[a] # "insert" => missing[a] = {}
  /\ restarts \in [Apis -> Nat]
  /\ job \in [Jobs -> {"new", "planned", "completed", "failed"}]
  /\ resolved \in [Jobs -> SUBSET TemplateIds]
  /\ deliveries \in [Jobs -> Nat]

LEMMA SeedIsTyped ==
  ASSUME NEW t \in Seeds, NEW a \in Apis \cup Tenants
  PROVE  Row(t, a) \in TemplateRows
<1>1. t.industry \in TemplateIndustries /\ t.name \in Names
  BY DEF Seeds, Names
<1> QED
  BY <1>1 DEF Row, TemplateRows

LEMMA TenantsRowsAreTyped ==
  ASSUME NEW tenant \in Tenants
  PROVE  /\ \A r \in CustomTemplates(tenant) : r \in TemplateRows /\ r.by = tenant /\ r.usage = 0
         /\ \A r \in TemplateRows : \A new \in Updates(r) :
              new \in TemplateRows /\ new.by = r.by /\ new.usage = r.usage
<1>1. ASSUME NEW r \in CustomTemplates(tenant)
      PROVE  r \in TemplateRows /\ r.by = tenant /\ r.usage = 0
  <2>1. PICK name \in Names, i \in TemplateIndustries : r = Row(Template(name, i), tenant)
    BY DEF CustomTemplates
  <2>2. r = [name |-> name, industry |-> i, by |-> tenant, usage |-> 0]
    BY <2>1 DEF Row, Template
  <2> QED
    BY <2>2 DEF TemplateRows
<1>2. ASSUME NEW r \in TemplateRows, NEW new \in Updates(r)
      PROVE  new \in TemplateRows /\ new.by = r.by /\ new.usage = r.usage
  <2>1. PICK name \in Names, i \in TemplateIndustries :
            new = [Row(Template(name, i), r.by) EXCEPT !.usage = r.usage]
    BY DEF Updates
  <2>2. new = [name |-> name, industry |-> i, by |-> r.by, usage |-> r.usage]
    BY <2>1 DEF Row, Template
  <2> QED
    BY <2>2 DEF TemplateRows
<1> QED
  BY <1>1, <1>2

LEMMA CountedIsTyped ==
  ASSUME NEW id, templates \subseteq TemplateRows
  PROVE  Counted(id) \subseteq TemplateRows
BY DEF Counted, TemplateRows

\* What a step does to the rows: nothing, the commit of a seeding, a change of
\* the row of a tenant, or one UPDATE of a counter.
TenantMoves(tenant, old, new) ==
  /\ old \subseteq Owned(tenant) /\ new \subseteq TemplateRows
  /\ \A r \in new : r.by = tenant /\ (r.usage = 0 \/ \E s \in old : r.usage = s.usage)
  /\ templates' = (templates \ old) \cup new

LEMMA TenantStep ==
  ASSUME CatalogueTypes, NEW tenant \in Tenants,
         CreateTemplate(tenant) \/ UpdateTemplate(tenant) \/ DeleteTemplate(tenant)
  PROVE  \E old, new : TenantMoves(tenant, old, new)
<1>1. CASE CreateTemplate(tenant)
  <2>1. PICK r \in CustomTemplates(tenant) : templates' = templates \cup {r}
    BY <1>1 DEF CreateTemplate
  <2>2. TenantMoves(tenant, {}, {r})
    BY <1>1, <2>1, TenantsRowsAreTyped DEF TenantMoves, CreateTemplate
  <2> QED
    BY <2>2
<1>2. CASE UpdateTemplate(tenant)
  <2>1. PICK r \in Owned(tenant) : \E new \in Updates(r) : templates' = Deleted(r) \cup {new}
    BY <1>2 DEF UpdateTemplate
  <2>2. PICK new \in Updates(r) : templates' = Deleted(r) \cup {new}
    BY <2>1
  <2>3. r \in TemplateRows /\ r.by = tenant
    BY DEF Owned, CatalogueTypes
  <2>4. TenantMoves(tenant, {r}, {new})
    BY <2>2, <2>3, TenantsRowsAreTyped DEF TenantMoves, Deleted
  <2> QED
    BY <2>4
<1>3. CASE DeleteTemplate(tenant)
  <2>1. PICK r \in Owned(tenant) : templates' = Deleted(r)
    BY <1>3 DEF DeleteTemplate
  <2>2. TenantMoves(tenant, {r}, {})
    BY <2>1 DEF TenantMoves, Deleted
  <2> QED
    BY <2>2
<1> QED
  BY <1>1, <1>2, <1>3

LEMMA ResolveIsTyped ==
  ASSUME templates \subseteq TemplateRows, NEW i, NEW name, NEW rows \in Resolve(i, name)
  PROVE  \/ rows = {}
         \/ \E r \in templates : IsSystem(r) /\ rows = {r}
<1>1. CASE Rows(name, i) # {}
  <2>1. rows = {} \/ (~Ambiguous(Template(name, i)) /\ rows = Rows(name, i))
    BY <1>1 DEF Resolve
  <2>2. ASSUME ~Ambiguous(Template(name, i)) PROVE \E r \in Rows(name, i) : Rows(name, i) = {r}
    BY <1>1, <2>2 DEF Ambiguous, Template
  <2> QED
    BY <2>1, <2>2 DEF Rows
<1>2. CASE Rows(name, i) = {} /\ OfIndustry(i) # {}
  BY <1>2 DEF Resolve, OfIndustry, MostUsed
<1>3. CASE Rows(name, i) = {} /\ OfIndustry(i) = {}
  BY <1>3 DEF Resolve
<1> QED
  BY <1>1, <1>2, <1>3

LEMMA IdsOfOne == ASSUME NEW r PROVE Ids({r}) = {Id(r)} /\ Ids({}) = {}
BY DEF Ids, Id

LEMMA InitCatalogue == CatalogueInit => CatalogueTypes
BY DEF CatalogueInit, CatalogueTypes

LEMMA PlanIsTyped ==
  ASSUME CatalogueTypes, NEW j \in Jobs, Plan(j)
  PROVE  \E ids : /\ ids = {} \/ \E r \in templates : IsSystem(r) /\ ids = {Id(r)}
                  /\ resolved' = [resolved EXCEPT ![j] = ids] /\ ids \subseteq TemplateIds
<1>1. PICK i \in TemplateIndustries :
        \E name \in SelectTemplate(i) : \E rows \in Resolve(i, name) :
          resolved' = [resolved EXCEPT ![j] = Ids(rows)]
  BY DEF Plan
<1> PICK name \in SelectTemplate(i) :
        \E rows \in Resolve(i, name) : resolved' = [resolved EXCEPT ![j] = Ids(rows)]
  BY <1>1
<1>2. PICK rows \in Resolve(i, name) : resolved' = [resolved EXCEPT ![j] = Ids(rows)]
  OBVIOUS
<1>3. Ids(rows) = {} \/ \E r \in templates : IsSystem(r) /\ Ids(rows) = {Id(r)}
  <2>1. rows = {} \/ \E r \in templates : IsSystem(r) /\ rows = {r}
    BY ResolveIsTyped DEF CatalogueTypes
  <2>2. CASE rows = {}
    BY <2>2, IdsOfOne
  <2>3. ASSUME NEW r \in templates, IsSystem(r), rows = {r}
        PROVE  Ids(rows) = {Id(r)}
    BY <2>3, IdsOfOne
  <2> QED
    BY <2>1, <2>2, <2>3
<1>4. \A r \in templates : Id(r) \in TemplateIds
  BY DEF CatalogueTypes, Id, TemplateRows, TemplateIds
<1> QED
  BY <1>2, <1>3, <1>4

LEMMA NextCatalogueTypes == CatalogueTypes /\ [CatalogueNext]_catalogueVars => CatalogueTypes'
<1> SUFFICES ASSUME CatalogueTypes, [CatalogueNext]_catalogueVars PROVE CatalogueTypes'
  OBVIOUS
<1> USE DEF CatalogueTypes
<1>1. ASSUME NEW a \in Apis, StartApi(a) PROVE CatalogueTypes'
  BY <1>1 DEF StartApi
<1>2. ASSUME NEW a \in Apis, Check(a) PROVE CatalogueTypes'
  <2>1. Absent \subseteq Seeds
    BY DEF Absent
  <2> QED
    BY <1>2, <2>1 DEF Check
<1>3. ASSUME NEW a \in Apis, Insert(a) PROVE CatalogueTypes'
  <2>1. {Row(t, a) : t \in missing[a]} \subseteq TemplateRows
    BY SeedIsTyped
  <2> QED
    BY <1>3, <2>1 DEF Insert
<1>4. ASSUME NEW a \in Apis, StopApi(a) PROVE CatalogueTypes'
  BY <1>4 DEF StopApi
<1>5. ASSUME NEW tenant \in Tenants,
             CreateTemplate(tenant) \/ UpdateTemplate(tenant) \/ DeleteTemplate(tenant)
      PROVE  CatalogueTypes'
  <2>1. PICK old, new : TenantMoves(tenant, old, new)
    BY <1>5, TenantStep
  <2>2. UNCHANGED <<seeding, missing, restarts, overlap, job, resolved, deliveries>>
    BY <1>5 DEF CreateTemplate, UpdateTemplate, DeleteTemplate
  <2> QED
    BY <2>1, <2>2 DEF TenantMoves
<1>6. ASSUME NEW j \in Jobs, Plan(j) PROVE CatalogueTypes'
  <2>1. PICK ids : resolved' = [resolved EXCEPT ![j] = ids] /\ ids \subseteq TemplateIds
    BY <1>6, PlanIsTyped
  <2> QED
    BY <1>6, <2>1 DEF Plan
<1>7. ASSUME NEW j \in Jobs, Finalize(j) PROVE CatalogueTypes'
  <2>1. templates' \subseteq TemplateRows
    BY <1>7, CountedIsTyped DEF Finalize
  <2>2. deliveries' \in [Jobs -> Nat]
    BY <1>7 DEF Finalize
  <2> QED
    BY <1>7, <2>1, <2>2 DEF Finalize
<1>8. ASSUME NEW j \in Jobs, FailRun(j) PROVE CatalogueTypes'
  BY <1>8 DEF FailRun
<1>9. CASE UNCHANGED catalogueVars
  BY <1>9 DEF catalogueVars
<1> QED
  BY <1>1, <1>2, <1>3, <1>4, <1>5, <1>6, <1>7, <1>8, <1>9 DEF CatalogueNext

LEMMA CountedRows ==
  ASSUME templates \subseteq TemplateRows, NEW id, NEW new \in Counted(id)
  PROVE  \E r \in templates :
           /\ new.name = r.name /\ new.industry = r.industry /\ new.by = r.by /\ Id(new) = Id(r)
           /\ new = IF Id(r) = id THEN [r EXCEPT !.usage = @ + 1] ELSE r
           /\ new.usage = IF Id(r) = id THEN r.usage + 1 ELSE r.usage
<1>1. PICK r \in templates : new = IF Id(r) = id THEN [r EXCEPT !.usage = @ + 1] ELSE r
  BY DEF Counted
<1>2. r \in TemplateRows
  OBVIOUS
<1>3. CASE Id(r) = id
  BY <1>1, <1>2, <1>3 DEF TemplateRows, Id
<1>4. CASE Id(r) # id
  BY <1>1, <1>4
<1> QED
  BY <1>3, <1>4

-----------------------------------------------------------------------------
(* Seeding.  A process that is about to insert a seed has found no row of  *)
(* it; whatever row there is by then is of a process that was starting at  *)
(* the same time, for it had not inserted its own either.                  *)
Same(r, s) == r.name = s.name /\ r.industry = s.industry
IsSeeding(a) == seeding[a] \in {"check", "insert"}

RowsAreKeyed ==
  /\ \A r, s \in templates : IsSystem(r) /\ Same(r, s) /\ r.by = s.by => r = s
  /\ \A a \in Apis : \A t \in missing[a] : \A r \in templates : Same(r, t) => r.by # a

SeedersOverlap ==
  \A a, b \in Apis : a # b /\ IsSeeding(a) /\ IsSeeding(b) => {a, b} \subseteq overlap

MissingIsRaced ==
  \A a \in Apis : \A t \in missing[a] : \A r \in templates :
    IsSystem(r) /\ Same(r, t) => {a, r.by} \subseteq overlap

SeedInv == RowsAreKeyed /\ SeedersOverlap /\ MissingIsRaced /\ SeededOnce

\* Most steps leave the names of the rows alone, seed nothing, and forget no overlap.
SeedsRest ==
  /\ overlap \subseteq overlap'
  /\ \A a \in Apis : missing'[a] \in {{}, missing[a]}
  /\ \A a, b \in Apis : a # b /\ IsSeeding(a)' /\ IsSeeding(b)' => {a, b} \subseteq overlap'

LEMMA RestKeepsSeeds ==
  ASSUME CatalogueTypes, SeedInv, SeedsRest, templates' = templates
  PROVE  SeedInv'
<1>1. RowsAreKeyed'
  BY DEF SeedInv, RowsAreKeyed, SeedsRest, Same
<1>2. SeedersOverlap'
  BY DEF SeedersOverlap, SeedsRest
<1>3. MissingIsRaced'
  <2> SUFFICES ASSUME NEW a \in Apis, NEW t \in missing'[a], NEW r \in templates, IsSystem(r), Same(r, t)
               PROVE  {a, r.by} \subseteq overlap'
    BY DEF MissingIsRaced, IsSystem, Same
  <2> QED
    BY DEF SeedInv, MissingIsRaced, SeedsRest
<1>4. SeededOnce'
  BY DEF SeedInv, SeededOnce, SeedsRest, IsSystem
<1> QED
  BY <1>1, <1>2, <1>3, <1>4 DEF SeedInv

LEMMA TenantKeepsSeeds ==
  ASSUME CatalogueTypes, SeedInv, NEW tenant \in Tenants, NEW old, NEW new,
         TenantMoves(tenant, old, new), UNCHANGED <<seeding, missing, overlap>>
  PROVE  SeedInv'
<1>1. \A r \in templates' : IsSystem(r) => r \in templates
  BY CatalogueAssumption DEF TenantMoves, IsSystem
<1>2. RowsAreKeyed'
  <2>1. ASSUME NEW r \in templates', NEW s \in templates', IsSystem(r), r.by = s.by, Same(r, s)
        PROVE  r = s
    BY <1>1, <2>1 DEF SeedInv, RowsAreKeyed, IsSystem
  <2>2. ASSUME NEW a \in Apis, NEW t \in missing[a], NEW r \in templates', Same(r, t), r.by = a
        PROVE  FALSE
    BY <1>1, <2>2 DEF SeedInv, RowsAreKeyed, IsSystem
  <2> QED
    BY <2>1, <2>2 DEF RowsAreKeyed, Same, IsSystem
<1>3. SeedersOverlap'
  BY DEF SeedInv, SeedersOverlap, IsSeeding
<1>4. MissingIsRaced'
  BY <1>1 DEF SeedInv, MissingIsRaced, IsSystem, Same
<1>5. SeededOnce'
  BY <1>1 DEF SeedInv, SeededOnce, IsSystem
<1> QED
  BY <1>2, <1>3, <1>4, <1>5 DEF SeedInv

LEMMA CheckKeepsSeeds ==
  ASSUME CatalogueTypes, SeedInv, NEW a \in Apis, Check(a)
  PROVE  SeedInv'
<1>1. /\ templates' = templates /\ overlap' = overlap /\ seeding[a] = "check"
      /\ \A b \in Apis : IsSeeding(b)' => IsSeeding(b)
  BY DEF Check, IsSeeding, CatalogueTypes
<1>2. SeedersOverlap'
  BY <1>1 DEF SeedInv, SeedersOverlap
<1>3. CASE missing' = missing
  BY <1>1, <1>2, <1>3, RestKeepsSeeds DEF SeedsRest, SeedersOverlap
<1>4. CASE missing' = [missing EXCEPT ![a] = Absent]
  <2>1. ASSUME NEW t \in missing'[a], NEW r \in templates, Same(r, t)
        PROVE  ~IsSystem(r)
    <3>1. t \in Absent
      BY <1>4 DEF CatalogueTypes
    <3> QED
      BY <2>1, <3>1 DEF Absent, Rows, Same
  <2>2. \A b \in Apis \ {a} : missing'[b] = missing[b]
    BY <1>4 DEF CatalogueTypes
  <2>3. RowsAreKeyed'
    <3>1. ASSUME NEW b \in Apis, NEW t \in missing'[b], NEW r \in templates, Same(r, t), r.by = b
          PROVE  FALSE
      BY <2>1, <2>2, <3>1 DEF SeedInv, RowsAreKeyed, IsSystem
    <3> QED
      BY <1>1, <3>1 DEF SeedInv, RowsAreKeyed, Same
  <2>4. MissingIsRaced'
    <3>1. ASSUME NEW b \in Apis, NEW t \in missing'[b], NEW r \in templates, IsSystem(r), Same(r, t)
          PROVE  {b, r.by} \subseteq overlap
      BY <2>1, <2>2, <3>1 DEF SeedInv, MissingIsRaced
    <3> QED
      BY <1>1, <3>1 DEF MissingIsRaced, IsSystem, Same
  <2> QED
    BY <1>1, <1>2, <2>3, <2>4 DEF SeedInv, SeededOnce, IsSystem
<1> QED
  BY <1>3, <1>4 DEF Check

LEMMA InsertKeepsSeeds ==
  ASSUME CatalogueTypes, SeedInv, NEW a \in Apis, Insert(a)
  PROVE  SeedInv'
<1>1. /\ templates' = templates \cup {Row(t, a) : t \in missing[a]} /\ overlap' = overlap
      /\ seeding[a] = "insert" /\ missing'[a] = {}
      /\ \A b \in Apis \ {a} : missing'[b] = missing[b] /\ seeding'[b] = seeding[b]
      /\ seeding'[a] = "on" 
  BY DEF Insert, CatalogueTypes
<1>2. SeedersOverlap'
  BY <1>1 DEF SeedInv, SeedersOverlap, IsSeeding
<1>3. ASSUME NEW r \in templates', r \notin templates
      PROVE  \E t \in missing[a] : Same(r, t) /\ r.by = a /\ r = Row(t, a)
  BY <1>1, <1>3 DEF Row, Same
<1>4. RowsAreKeyed'
  <2>1. ASSUME NEW r \in templates', NEW s \in templates', r \notin templates,
               r.by = s.by, Same(r, s)
        PROVE  r = s
    <3>1. PICK t \in missing[a] : Same(r, t) /\ r.by = a /\ r = Row(t, a)
      BY <1>3, <2>1
    <3>2. s \notin templates
      BY <2>1, <3>1 DEF SeedInv, RowsAreKeyed, Same, IsSystem
    <3>3. PICK u \in missing[a] : Same(s, u) /\ s = Row(u, a)
      BY <1>3, <3>2
    <3> QED
      BY <2>1, <3>1, <3>3 DEF Same, Row
  <2>2. ASSUME NEW r \in templates', NEW s \in templates', IsSystem(r), r.by = s.by, Same(r, s)
        PROVE  r = s
    <3>1. CASE r \notin templates
      BY <2>1, <2>2, <3>1
    <3>2. CASE s \notin templates
      BY <2>1, <2>2, <3>2 DEF Same
    <3>3. CASE r \in templates /\ s \in templates
      BY <2>2, <3>3 DEF SeedInv, RowsAreKeyed
    <3> QED
      BY <3>1, <3>2, <3>3
  <2>3. ASSUME NEW b \in Apis, NEW t \in missing'[b], NEW r \in templates', Same(r, t), r.by = b
        PROVE  FALSE
    BY <1>1, <1>3, <2>3 DEF SeedInv, RowsAreKeyed
  <2> QED
    BY <2>2, <2>3 DEF RowsAreKeyed, Same, IsSystem
<1>5. MissingIsRaced'
  <2>1. ASSUME NEW b \in Apis, NEW t \in missing'[b], NEW r \in templates', IsSystem(r), Same(r, t)
        PROVE  {b, r.by} \subseteq overlap
    <3>1. b # a /\ t \in missing[b]
      BY <1>1, <2>1
    <3>2. CASE r \in templates
      BY <2>1, <3>1, <3>2 DEF SeedInv, MissingIsRaced
    <3>3. CASE r \notin templates
      <4>1. r.by = a /\ seeding[b] = "insert"
        BY <1>3, <3>1, <3>3 DEF CatalogueTypes
      <4> QED
        BY <1>1, <3>1, <4>1 DEF SeedInv, SeedersOverlap, IsSeeding
    <3> QED
      BY <3>2, <3>3
  <2> QED
    BY <1>1, <2>1 DEF MissingIsRaced, IsSystem, Same
<1>6. SeededOnce'
  <2>1. ASSUME NEW r \in templates', NEW s \in templates', IsSystem(s), r \notin templates, s \in templates,
               Same(r, s)
        PROVE  {r.by, s.by} \subseteq overlap
    <3>1. PICK t \in missing[a] : Same(r, t) /\ r.by = a
      BY <1>3, <2>1
    <3>2. Same(s, t)
      BY <2>1, <3>1 DEF Same
    <3> QED
      BY <2>1, <3>1, <3>2 DEF SeedInv, MissingIsRaced
  <2>2. ASSUME NEW r \in templates', NEW s \in templates', r \notin templates, s \notin templates, Same(r, s)
        PROVE  r = s
    BY <1>3, <1>4, <2>2 DEF RowsAreKeyed, Same, IsSystem
  <2>3. ASSUME NEW r \in templates', NEW s \in templates', IsSystem(r), IsSystem(s), Same(r, s), r # s
        PROVE  {r.by, s.by} \subseteq overlap
    <3>1. CASE r \in templates /\ s \in templates
      BY <2>3, <3>1 DEF SeedInv, SeededOnce, Same
    <3>2. CASE r \notin templates \/ s \notin templates
      BY <2>1, <2>2, <2>3, <3>2 DEF Same
    <3> QED
      BY <3>1, <3>2
  <2> QED
    BY <1>1, <2>3 DEF SeededOnce, IsSystem, Same
<1> QED
  BY <1>2, <1>4, <1>5, <1>6 DEF SeedInv

LEMMA CountKeepsSeeds ==
  ASSUME CatalogueTypes, SeedInv, NEW id, templates' = Counted(id), UNCHANGED <<seeding, missing, overlap>>
  PROVE  SeedInv'
<1>1. ASSUME NEW new \in templates'
      PROVE  \E r \in templates :
               /\ Same(new, r) /\ new.by = r.by
               /\ new = IF Id(r) = id THEN [r EXCEPT !.usage = @ + 1] ELSE r
  BY <1>1, CountedRows DEF CatalogueTypes, Same
<1>2. RowsAreKeyed'
  <2>1. ASSUME NEW x \in templates', NEW y \in templates', IsSystem(x), x.by = y.by, Same(x, y)
        PROVE  x = y
    <3>1. PICK r \in templates : /\ Same(x, r) /\ x.by = r.by
                                 /\ x = IF Id(r) = id THEN [r EXCEPT !.usage = @ + 1] ELSE r
      BY <1>1
    <3>2. PICK s \in templates : /\ Same(y, s) /\ y.by = s.by
                                 /\ y = IF Id(s) = id THEN [s EXCEPT !.usage = @ + 1] ELSE s
      BY <1>1
    <3>3. r = s
      BY <2>1, <3>1, <3>2 DEF SeedInv, RowsAreKeyed, Same, IsSystem
    <3> QED
      BY <3>1, <3>2, <3>3
  <2>2. ASSUME NEW a \in Apis, NEW t \in missing[a], NEW x \in templates', Same(x, t), x.by = a
        PROVE  FALSE
    BY <1>1, <2>2 DEF SeedInv, RowsAreKeyed, Same
  <2> QED
    BY <2>1, <2>2 DEF RowsAreKeyed, Same, IsSystem
<1>3. SeedersOverlap'
  BY DEF SeedInv, SeedersOverlap, IsSeeding
<1>4. MissingIsRaced'
  <2>1. ASSUME NEW a \in Apis, NEW t \in missing[a], NEW x \in templates', IsSystem(x), Same(x, t)
        PROVE  {a, x.by} \subseteq overlap
    BY <1>1, <2>1 DEF SeedInv, MissingIsRaced, IsSystem, Same
  <2> QED
    BY <2>1 DEF MissingIsRaced, IsSystem, Same
<1>5. SeededOnce'
  <2>1. ASSUME NEW x \in templates', NEW y \in templates', IsSystem(x), IsSystem(y), Same(x, y), x # y
        PROVE  {x.by, y.by} \subseteq overlap
    <3>1. PICK r \in templates : Same(x, r) /\ x.by = r.by
      BY <1>1
    <3>2. PICK s \in templates : Same(y, s) /\ y.by = s.by
      BY <1>1
    <3>3. r.by # s.by
      BY <1>2, <2>1, <3>1, <3>2 DEF RowsAreKeyed, Same, IsSystem
    <3> QED
      BY <2>1, <3>1, <3>2, <3>3 DEF SeedInv, SeededOnce, IsSystem, Same
  <2> QED
    BY <2>1 DEF SeededOnce, IsSystem, Same
<1> QED
  BY <1>2, <1>3, <1>4, <1>5 DEF SeedInv

LEMMA NextSeedInv == CatalogueTypes /\ SeedInv /\ [CatalogueNext]_catalogueVars => SeedInv'
<1> SUFFICES ASSUME CatalogueTypes, SeedInv, [CatalogueNext]_catalogueVars PROVE SeedInv'
  OBVIOUS
<1>1. SeedersOverlap
  BY DEF SeedInv
<1>2. ASSUME NEW a \in Apis, StartApi(a) PROVE SeedInv'
  <2>1. templates' = templates /\ missing' = missing /\ overlap \subseteq overlap'
    BY <1>2 DEF StartApi
  <2>2. \A b, c \in Apis : b # c /\ IsSeeding(b)' /\ IsSeeding(c)' => {b, c} \subseteq overlap'
    <3>1. \A b \in Apis \ {a} : IsSeeding(b)' => IsSeeding(b)
      BY <1>2 DEF StartApi, IsSeeding, CatalogueTypes
    <3>2. \A b \in Apis \ {a} : IsSeeding(b) => {a, b} \subseteq overlap'
      BY <1>2 DEF StartApi, IsSeeding
    <3> QED
      BY <1>1, <2>1, <3>1, <3>2 DEF SeedersOverlap
  <2> QED
    BY <2>1, <2>2, RestKeepsSeeds DEF SeedsRest
<1>3. ASSUME NEW a \in Apis, StopApi(a) PROVE SeedInv'
  <2>1. /\ templates' = templates /\ overlap' = overlap
        /\ \A b \in Apis : missing'[b] \in {{}, missing[b]}
        /\ \A b \in Apis : IsSeeding(b)' => IsSeeding(b)
    BY <1>3 DEF StopApi, IsSeeding, CatalogueTypes
  <2> QED
    BY <1>1, <2>1, RestKeepsSeeds DEF SeedsRest, SeedersOverlap
<1>4. ASSUME UNCHANGED <<templates, seeding, missing, overlap>> PROVE SeedInv'
  BY <1>1, <1>4, RestKeepsSeeds DEF SeedsRest, SeedersOverlap, IsSeeding
<1>5. ASSUME NEW tenant \in Tenants,
             CreateTemplate(tenant) \/ UpdateTemplate(tenant) \/ DeleteTemplate(tenant)
      PROVE  SeedInv'
  <2>1. UNCHANGED <<seeding, missing, overlap>>
    BY <1>5 DEF CreateTemplate, UpdateTemplate, DeleteTemplate
  <2> QED
    BY <1>5, <2>1, TenantStep, TenantKeepsSeeds
<1>6. ASSUME NEW j \in Jobs, Finalize(j) PROVE SeedInv'
  <2>1. \/ UNCHANGED <<templates, seeding, missing, overlap>>
        \/ /\ templates' = Counted(CHOOSE id \in resolved[j] : TRUE)
           /\ UNCHANGED <<seeding, missing, overlap>>
    BY <1>6 DEF Finalize
  <2> QED
    BY <1>4, <2>1, CountKeepsSeeds
<1>7. ASSUME NEW j \in Jobs, Plan(j) \/ FailRun(j) PROVE SeedInv'
  BY <1>4, <1>7 DEF Plan, FailRun
<1>8. CASE UNCHANGED catalogueVars
  BY <1>4, <1>8 DEF catalogueVars
<1> QED
  BY <1>2, <1>3, <1>5, <1>6, <1>7, <1>8, CheckKeepsSeeds, InsertKeepsSeeds DEF CatalogueNext

(* "Idempotently seed system templates" (template_seeder.py 330): however  *)
(* processes start and stop, and whatever tenants do, a seed is there      *)
(* twice only when both who inserted it were starting at the same time.    *)
THEOREM SeedsAreThereOnce == CatalogueSpec => []SeededOnce
<1>1. CatalogueInit => CatalogueTypes /\ SeedInv
  BY InitCatalogue
  DEF CatalogueInit, SeedInv, RowsAreKeyed, SeedersOverlap, IsSeeding, MissingIsRaced, SeededOnce
<1>2. SeedInv => SeededOnce
  BY DEF SeedInv
<1> QED
  BY <1>1, <1>2, NextCatalogueTypes, NextSeedInv, PTL DEF CatalogueSpec

-----------------------------------------------------------------------------
(* Usage.  What is resolved is a row of the system, and those stay, with   *)
(* one id each: the jobs of an id are the ones its counter has counted.    *)
Made(id) == {j \in Jobs : job[j] = "completed" /\ id \in resolved[j]}

Accounted(usage, id) ==
  /\ usage >= Cardinality(Made(id))
  /\ usage > Cardinality(Made(id)) => \E j \in Made(id) : deliveries[j] > 1

ResolvedStays == \A j \in Jobs : resolved[j] = {} \/ \E r \in templates : IsSystem(r) /\ resolved[j] = {Id(r)}
RowsAccounted == \A r \in templates : Accounted(r.usage, Id(r)) /\ (~IsSystem(r) => r.usage = 0)

CountInv ==
  /\ ResolvedStays
  /\ RowsAccounted
  /\ \A j \in Jobs : job[j] = "completed" => deliveries[j] >= 1

LEMMA MadeIsFinite == ASSUME NEW id PROVE IsFiniteSet(Made(id)) /\ Cardinality(Made(id)) \in Nat
BY CatalogueAssumption, FS_Subset, FS_CardinalityType DEF Made

LEMMA NothingMade == ASSUME NEW id, Made(id) = {} PROVE Accounted(0, id)
BY FS_EmptySet DEF Accounted

\* Steps of no presentation: the rows that stay count what they counted, and
\* those that are new count nothing.
LEMMA RowsOnlyKeepCounts ==
  ASSUME CountInv, UNCHANGED <<job, resolved, deliveries>>,
         \A r \in templates : IsSystem(r) => r \in templates',
         \A r \in templates' \ templates : r.usage = 0 /\ Made(Id(r)) = {}
  PROVE  CountInv'
<1>1. ResolvedStays'
  BY DEF CountInv, ResolvedStays, IsSystem, Id
<1>2. RowsAccounted'
  <2>1. ASSUME NEW r \in templates' PROVE Accounted(r.usage, Id(r)) /\ (~IsSystem(r) => r.usage = 0)
    BY NothingMade DEF CountInv, RowsAccounted
  <2> QED
    BY <2>1 DEF RowsAccounted, Accounted, Made, IsSystem, Id
<1> QED
  BY <1>1, <1>2 DEF CountInv

LEMMA InsertKeepsCounts ==
  ASSUME CatalogueTypes, SeedInv, CountInv, NEW a \in Apis, Insert(a)
  PROVE  CountInv'
<1>1. /\ templates' = templates \cup {Row(t, a) : t \in missing[a]}
      /\ UNCHANGED <<job, resolved, deliveries>>
  BY DEF Insert
<1>2. ASSUME NEW r \in templates' \ templates PROVE r.usage = 0 /\ Made(Id(r)) = {}
  <2>1. PICK t \in missing[a] : r = Row(t, a)
    BY <1>1
  <2>2. ASSUME NEW s \in templates, Id(s) = Id(r) PROVE FALSE
    <3>1. Same(s, t) /\ s.by = a
      BY <2>1, <2>2 DEF Id, Row, Same
    <3> QED
      BY <3>1 DEF SeedInv, RowsAreKeyed
  <2>3. Made(Id(r)) = {}
    BY <2>2 DEF Made, CountInv, ResolvedStays
  <2> QED
    BY <2>1, <2>3 DEF Row
<1> QED
  BY <1>1, <1>2, RowsOnlyKeepCounts

LEMMA TenantKeepsCounts ==
  ASSUME CatalogueTypes, CountInv, NEW tenant \in Tenants, NEW old, NEW new,
         TenantMoves(tenant, old, new), UNCHANGED <<job, resolved, deliveries>>
  PROVE  CountInv'
<1>1. /\ templates' = (templates \ old) \cup new /\ tenant \notin Apis /\ old \subseteq Owned(tenant)
      /\ \A r \in new : r.by = tenant /\ (r.usage = 0 \/ \E s \in old : r.usage = s.usage)
  BY CatalogueAssumption DEF TenantMoves
<1>2. ASSUME NEW r \in templates, IsSystem(r) PROVE r \in templates'
  BY <1>1, <1>2 DEF Owned, IsSystem
<1>3. ASSUME NEW r \in templates' \ templates PROVE r.usage = 0 /\ Made(Id(r)) = {}
  <2>1. r \in new
    BY <1>1
  <2>2. \A s \in old : s.usage = 0
    BY <1>1 DEF Owned, CountInv, RowsAccounted, IsSystem
  <2>3. Made(Id(r)) = {}
    BY <1>1, <2>1 DEF Made, CountInv, ResolvedStays, IsSystem, Id
  <2> QED
    BY <1>1, <2>1, <2>2, <2>3
<1> QED
  BY <1>2, <1>3, RowsOnlyKeepCounts

\* Steps that complete no presentation.
LEMMA UnfinishedKeepsCounts ==
  ASSUME CatalogueTypes, CountInv, NEW j \in Jobs, Plan(j) \/ FailRun(j)
  PROVE  CountInv'
<1>1. /\ templates' = templates /\ deliveries' = deliveries
      /\ job[j] # "completed" /\ job'[j] # "completed"
      /\ \A i \in Jobs \ {j} : job'[i] = job[i] /\ resolved'[i] = resolved[i]
  BY DEF Plan, FailRun, CatalogueTypes
<1>2. resolved'[j] = {} \/ \E r \in templates : IsSystem(r) /\ resolved'[j] = {Id(r)}
  <2>1. CASE Plan(j)
    BY <2>1, PlanIsTyped DEF CatalogueTypes
  <2>2. CASE FailRun(j)
    BY <2>2 DEF FailRun, CountInv, ResolvedStays
  <2> QED
    BY <2>1, <2>2
<1>3. ResolvedStays'
  BY <1>1, <1>2 DEF CountInv, ResolvedStays, IsSystem, Id
<1>4. \A id : Made(id)' = Made(id)
  BY <1>1 DEF Made
<1>5. RowsAccounted'
  BY <1>1, <1>4 DEF CountInv, RowsAccounted, Accounted, IsSystem, Id
<1> QED
  BY <1>1, <1>3, <1>5 DEF CountInv

\* The UPDATE of a result: the first one of a presentation adds it to those of
\* its template, a later one makes it a presentation that was delivered again.
LEMMA FinalizeKeepsCounts ==
  ASSUME CatalogueTypes, CountInv, NEW j \in Jobs, Finalize(j)
  PROVE  CountInv'
<1>1. /\ job[j] \in {"planned", "completed"} /\ job' = [job EXCEPT ![j] = "completed"]
      /\ deliveries' = [deliveries EXCEPT ![j] = @ + 1] /\ resolved' = resolved
  BY DEF Finalize
<1>2. /\ \A i \in Jobs : deliveries'[i] >= deliveries[i]
      /\ deliveries'[j] = deliveries[j] + 1 /\ deliveries[j] \in Nat
  BY <1>1 DEF CatalogueTypes
<1>3. \A i \in Jobs : job'[i] = "completed" => deliveries'[i] >= 1
  BY <1>1, <1>2 DEF CatalogueTypes, CountInv
<1>4. ASSUME NEW id, id \in resolved[j]
      PROVE  \/ j \in Made(id) /\ Made(id)' = Made(id) /\ deliveries'[j] > 1
             \/ j \notin Made(id) /\ Made(id)' = Made(id) \cup {j}
  <2>1. Made(id)' = Made(id) \cup {j}
    BY <1>1, <1>4 DEF Made, CatalogueTypes
  <2>2. j \in Made(id) => deliveries'[j] > 1
    BY <1>2 DEF Made, CountInv
  <2> QED
    BY <2>1, <2>2
<1>5. ASSUME NEW id, id \notin resolved[j] PROVE Made(id)' = Made(id)
  BY <1>1, <1>5 DEF Made, CatalogueTypes
<1>6. ASSUME NEW usage \in Nat, NEW id, Accounted(usage, id), id \notin resolved[j]
      PROVE  Accounted(usage, id)'
  <2>1. \A i \in Made(id) : deliveries[i] > 1 => deliveries'[i] > 1
    BY <1>1, <1>2 DEF Made, CatalogueTypes
  <2> QED
    BY <1>5, <1>6, <2>1 DEF Accounted
<1>7. ASSUME NEW usage \in Nat, NEW id, Accounted(usage, id), id \in resolved[j]
      PROVE  Accounted(usage + 1, id)'
  <2>1. \A i \in Made(id) : deliveries[i] > 1 => deliveries'[i] > 1
    BY <1>1, <1>2 DEF Made, CatalogueTypes
  <2>2. CASE j \in Made(id) /\ Made(id)' = Made(id) /\ deliveries'[j] > 1
    BY <1>7, <2>2, MadeIsFinite DEF Accounted
  <2>3. CASE j \notin Made(id) /\ Made(id)' = Made(id) \cup {j}
    <3>1. Cardinality(Made(id)') = Cardinality(Made(id)) + 1
      BY <2>3, MadeIsFinite, FS_AddElement
    <3>2. Cardinality(Made(id)) \in Nat
      BY MadeIsFinite
    <3> QED
      BY <1>7, <2>1, <2>3, <3>1, <3>2 DEF Accounted
  <2> QED
    BY <1>4, <1>7, <2>2, <2>3
<1>8. CASE resolved[j] = {}
  <2>1. templates' = templates
    BY <1>8 DEF Finalize
  <2>2. ASSUME NEW r \in templates PROVE Accounted(r.usage, Id(r))' /\ (~IsSystem(r) => r.usage = 0)
    <3>1. r.usage \in Nat /\ Accounted(r.usage, Id(r)) /\ (~IsSystem(r) => r.usage = 0)
      BY DEF CatalogueTypes, TemplateRows, CountInv, RowsAccounted
    <3> QED
      BY <1>6, <1>8, <3>1
  <2>3. RowsAccounted'
    BY <2>1, <2>2 DEF RowsAccounted, IsSystem, Id
  <2> QED
    BY <1>1, <1>3, <2>1, <2>3 DEF CountInv, ResolvedStays, IsSystem, Id
<1>9. CASE resolved[j] # {}
  <2>1. PICK s \in templates : IsSystem(s) /\ resolved[j] = {Id(s)}
    BY <1>9 DEF CountInv, ResolvedStays
  <2>2. templates' = Counted(Id(s))
    BY <1>9, <2>1 DEF Finalize
  <2>3. ASSUME NEW x \in templates'
        PROVE  Accounted(x.usage, Id(x))' /\ (~IsSystem(x) => x.usage = 0)
    <3>1. PICK r \in templates :
            /\ x.by = r.by /\ Id(x) = Id(r)
            /\ x.usage = IF Id(r) = Id(s) THEN r.usage + 1 ELSE r.usage
      BY <2>2, CountedRows DEF CatalogueTypes
    <3>2. r.usage \in Nat /\ Accounted(r.usage, Id(r)) /\ (~IsSystem(r) => r.usage = 0)
      BY DEF CatalogueTypes, TemplateRows, CountInv, RowsAccounted
    <3>3. CASE Id(r) = Id(s)
      <4>1. IsSystem(x)
        BY <2>1, <3>1, <3>3 DEF IsSystem, Id
      <4>2. Accounted(r.usage + 1, Id(r))'
        BY <1>7, <2>1, <3>2, <3>3
      <4> QED
        BY <3>1, <3>3, <4>1, <4>2
    <3>4. CASE Id(r) # Id(s)
      <4>1. Accounted(r.usage, Id(r))'
        BY <1>6, <2>1, <3>2, <3>4
      <4> QED
        BY <3>1, <3>2, <3>4, <4>1 DEF IsSystem
    <3> QED
      BY <3>3, <3>4
  <2>4. RowsAccounted'
    BY <2>3 DEF RowsAccounted, IsSystem, Id
  <2>5. ASSUME NEW r \in templates PROVE \E x \in templates' : x.by = r.by /\ Id(x) = Id(r)
    <3> DEFINE x == IF Id(r) = Id(s) THEN [r EXCEPT !.usage = @ + 1] ELSE r
    <3>1. x \in templates'
      BY <2>2 DEF Counted
    <3>2. r \in TemplateRows
      BY DEF CatalogueTypes
    <3>3. x.by = r.by /\ Id(x) = Id(r)
      BY <3>2 DEF TemplateRows, Id
    <3> QED
      BY <3>1, <3>3
  <2>6. ResolvedStays'
    <3> SUFFICES ASSUME NEW i \in Jobs, resolved[i] # {}
                 PROVE  \E x \in templates' : IsSystem(x) /\ resolved[i] = {Id(x)}
      BY <1>1 DEF ResolvedStays, IsSystem, Id
    <3>1. PICK r \in templates : IsSystem(r) /\ resolved[i] = {Id(r)}
      BY DEF CountInv, ResolvedStays
    <3> QED
      BY <2>5, <3>1 DEF IsSystem
  <2> QED
    BY <1>3, <2>4, <2>6 DEF CountInv
<1> QED
  BY <1>8, <1>9

LEMMA NextCountInv ==
  CatalogueTypes /\ SeedInv /\ CountInv /\ [CatalogueNext]_catalogueVars => CountInv'
<1> SUFFICES ASSUME CatalogueTypes, SeedInv, CountInv, [CatalogueNext]_catalogueVars PROVE CountInv'
  OBVIOUS
<1>1. ASSUME UNCHANGED <<templates, job, resolved, deliveries>> PROVE CountInv'
  BY <1>1, RowsOnlyKeepCounts
<1>2. ASSUME NEW a \in Apis, StartApi(a) \/ Check(a) \/ StopApi(a) PROVE CountInv'
  BY <1>1, <1>2 DEF StartApi, Check, StopApi
<1>3. ASSUME NEW tenant \in Tenants,
             CreateTemplate(tenant) \/ UpdateTemplate(tenant) \/ DeleteTemplate(tenant)
      PROVE  CountInv'
  <2>1. UNCHANGED <<job, resolved, deliveries>>
    BY <1>3 DEF CreateTemplate, UpdateTemplate, DeleteTemplate
  <2> QED
    BY <1>3, <2>1, TenantStep, TenantKeepsCounts
<1>4. CASE UNCHANGED catalogueVars
  BY <1>1, <1>4 DEF catalogueVars
<1> QED
  BY <1>2, <1>3, <1>4, InsertKeepsCounts, UnfinishedKeepsCounts, FinalizeKeepsCounts DEF CatalogueNext

(* usage_count says how often the result of a presentation made with the   *)
(* template was written, for any number of presentations that finish in    *)
(* any order: it is less than the presentations completed with it never,   *)
(* and more only when a task was delivered again (_finalize,               *)
(* increment_template_usage).                                              *)
THEOREM UsageIsCounted == CatalogueSpec => []UsageCounted
<1>1. CatalogueInit => CatalogueTypes /\ SeedInv /\ CountInv
  BY InitCatalogue
  DEF CatalogueInit, SeedInv, RowsAreKeyed, SeedersOverlap, IsSeeding, MissingIsRaced, SeededOnce,
      CountInv, ResolvedStays, RowsAccounted
<1>2. CountInv => UsageCounted
  BY DEF CountInv, RowsAccounted, Accounted, Made, UsageCounted, CompletedWith
<1> QED
  BY <1>1, <1>2, NextCatalogueTypes, NextSeedInv, NextCountInv, PTL DEF CatalogueSpec

=============================================================================
