-------------------------- MODULE TemplateCatalogue --------------------------
(***************************************************************************)
(* The templates of presentations: seeded by every API process that starts *)
(* (backend/app/main.py 31-75, template_seeder.py), owned by tenants       *)
(* (template_service.py, api/v1/export_templates_admin.py), named by the   *)
(* industry classifier, resolved by the storyboarding agent and counted    *)
(* when a presentation is finished (pipeline_orchestrator.py).             *)
(*                                                                         *)
(* A row of the table is its name, its industry, who inserted it and its   *)
(* usage_count.  One that an API process inserted is a system template.    *)
(***************************************************************************)
EXTENDS Integers, FiniteSets

CONSTANTS
  Apis,                 \* processes of the API
  Tenants,              \* organisations with templates of their own
  Jobs,                 \* presentations
  TemplateIndustries,   \* bound: industries of the seeds and of the topics
  MaxOwned,             \* bound: templates of a tenant
  MaxRestarts,          \* bound: starts of a process, after the first
  MaxDeliveries         \* bound: deliveries of a job

ASSUME CatalogueAssumption ==
  /\ Apis \cap Tenants = {} /\ IsFiniteSet(Jobs)
  /\ MaxOwned \in Nat /\ MaxRestarts \in Nat /\ MaxDeliveries \in Nat

VARIABLES
  templates,      \* rows of the table
  seeding,        \* per API process: "off", "check", "insert" or "on"
  missing,        \* per API process: the seeds it did not find
  restarts,       \* per API process
  overlap,        \* history: processes that were seeding with another
  job,            \* per presentation: "new", "planned", "completed" or "failed"
  resolved,       \* per presentation: the resolved template, {} without one
  deliveries      \* per presentation: times its result was written

catalogueVars == <<templates, seeding, missing, restarts, overlap, job, resolved, deliveries>>

Template(name, industry) == [name |-> name, industry |-> industry]
Fallback == Template("Generic Enterprise Briefing", "general")

\* SYSTEM_TEMPLATES.
SystemTemplates ==
  { Template("Healthcare Executive Briefing", "healthcare"),
    Template("Clinical Research Summary", "healthcare"),
    Template("Healthcare Compliance Report", "healthcare"),
    Template("Risk Assessment", "insurance"),
    Template("Insurance Market Analysis", "insurance"),
    Template("Claims Performance Report", "insurance"),
    Template("Automotive Manufacturing Update", "automobile"),
    Template("Automotive Market Research", "automobile"),
    Template("Vehicle Safety Report", "automobile"),
    Template("Financial Executive Briefing", "finance"),
    Template("Investment Analysis", "finance"),
    Template("Technology Strategy", "technology"),
    Template("Product Launch", "technology"),
    Template("Retail Market & Consumer Analysis", "retail"),
    Template("Education Research & Insights", "education"),
    Fallback }

Seeds == {t \in SystemTemplates : t.industry \in TemplateIndustries}

\* TEMPLATE_SELECTION_MATRIX: the names the classifier may give for a topic.
SelectionMatrix ==
  [healthcare |-> {"Clinical Research Summary", "Compliance Report", "Healthcare Executive Briefing"},
   insurance  |-> {"Risk Assessment", "Market Analysis"},
   automobile |-> {"Safety Report", "Market Research", "Manufacturing Update"},
   finance    |-> {"Investment Analysis", "Financial Executive Briefing"},
   technology |-> {"Product Launch", "Technology Strategy"},
   retail     |-> {"Market & Consumer Analysis"},
   education  |-> {"Research & Insights"},
   manufacturing |-> {"Operations & Efficiency Report"},
   logistics  |-> {"Supply Chain Analysis"},
   real_estate |-> {"Market & Investment Analysis"}]

\* _select_template, for some topic of the industry.
SelectTemplate(industry) ==
  IF industry \in DOMAIN SelectionMatrix THEN SelectionMatrix[industry] ELSE {Fallback.name}

-----------------------------------------------------------------------------
IsSystem(row) == row.by \in Apis
Rows(name, industry) ==
  {r \in templates : IsSystem(r) /\ r.name = name /\ r.industry = industry}
Row(t, by) == [name |-> t.name, industry |-> t.industry, by |-> by, usage |-> 0]
Ids(rows) == {[name |-> r.name, industry |-> r.industry, by |-> r.by] : r \in rows}

\* scalar_one_or_none raises when it finds more than one row.
Ambiguous(t) == \E r, s \in Rows(t.name, t.industry) : r # s

\* lifespan: a process that starts seeds before it serves.
StartApi(a) ==
  /\ seeding[a] = "off"
  /\ seeding' = [seeding EXCEPT ![a] = "check"]
  /\ overlap' = overlap \cup
       (IF \E b \in Apis \ {a} : seeding[b] \in {"check", "insert"}
          THEN {a} \cup {b \in Apis : seeding[b] \in {"check", "insert"}} ELSE {})
  /\ UNCHANGED <<templates, missing, restarts, job, resolved, deliveries>>

\* Variant: the seeds are inserted without a look at the table.
AbsentAll == Seeds

\* The seeds the table does not have.
Absent == {t \in Seeds : Rows(t.name, t.industry) = {}}

\* seed_system_templates, up to its commit; a template found twice ends it, and
\* the process serves all the same.  Its queries are one step here: a commit of
\* another process between two of them would only leave fewer seeds missing.
Check(a) ==
  /\ seeding[a] = "check"
  /\ IF \E t \in Seeds : Ambiguous(t)
       THEN seeding' = [seeding EXCEPT ![a] = "on"] /\ UNCHANGED missing
       ELSE /\ missing' = [missing EXCEPT ![a] = Absent]
            /\ seeding' = [seeding EXCEPT ![a] = "insert"]
  /\ UNCHANGED <<templates, restarts, overlap, job, resolved, deliveries>>

\* The commit of all of them; nothing in the table forbids a second row.
Insert(a) ==
  /\ seeding[a] = "insert"
  /\ templates' = templates \cup {Row(t, a) : t \in missing[a]}
  /\ missing' = [missing EXCEPT ![a] = {}]
  /\ seeding' = [seeding EXCEPT ![a] = "on"]
  /\ UNCHANGED <<restarts, overlap, job, resolved, deliveries>>

\* A process ends, between two steps of its start or after.
StopApi(a) ==
  /\ seeding[a] # "off" /\ restarts[a] < MaxRestarts
  /\ restarts' = [restarts EXCEPT ![a] = @ + 1]
  /\ seeding' = [seeding EXCEPT ![a] = "off"]
  /\ missing' = [missing EXCEPT ![a] = {}]
  /\ UNCHANGED <<templates, overlap, job, resolved, deliveries>>

-----------------------------------------------------------------------------
Serving == \E a \in Apis : seeding[a] = "on"
Owned(tenant) == {r \in templates : r.by = tenant}

\* create_custom_template: any name and industry, those of a system template
\* included.
Names == {t.name : t \in Seeds}
CustomTemplates(tenant) ==
  {Row(Template(name, industry), tenant) : name \in Names, industry \in TemplateIndustries}

\* update_custom_template: what is not given stays.
Updates(r) ==
  {[Row(Template(name, industry), r.by) EXCEPT !.usage = r.usage] :
     name \in Names, industry \in TemplateIndustries}

\* delete_custom_template.
Deleted(r) == templates \ {r}

\* The three routes, for members of the tenant; each commits what the service did,
\* and answers 404 when it did nothing: to a row of another tenant, to a system
\* template and to one that has gone.
\* Rows of a tenant that agree in all of this are one here: what follows reads only
\* those of the system.
CreateTemplate(tenant) ==
  /\ Serving /\ Cardinality(Owned(tenant)) < MaxOwned
  /\ \E r \in CustomTemplates(tenant) : templates' = templates \cup {r}
  /\ UNCHANGED <<seeding, missing, restarts, overlap, job, resolved, deliveries>>

UpdateTemplate(tenant) ==
  /\ Serving
  /\ \E r \in Owned(tenant) : \E new \in Updates(r) : templates' = Deleted(r) \cup {new}
  /\ UNCHANGED <<seeding, missing, restarts, overlap, job, resolved, deliveries>>

DeleteTemplate(tenant) ==
  /\ Serving
  /\ \E r \in Owned(tenant) : templates' = Deleted(r)
  /\ UNCHANGED <<seeding, missing, restarts, overlap, job, resolved, deliveries>>

-----------------------------------------------------------------------------
MostUsed(rows) == {r \in rows : \A s \in rows : r.usage >= s.usage}
OfIndustry(industry) == {r \in templates : IsSystem(r) /\ r.industry = industry}

\* resolve_template_for_industry as the pipeline calls it, without a tenant: by
\* name, then any of the industry, the most used first, then the fallback.
\* More than one row where one is expected is an error, and then as without a
\* template.
Resolve(industry, name) ==
  IF Rows(name, industry) # {}
    THEN IF Ambiguous(Template(name, industry)) THEN {{}} ELSE {Rows(name, industry)}
  ELSE IF OfIndustry(industry) # {} THEN {{r} : r \in MostUsed(OfIndustry(industry))}
  ELSE LET general == {r \in templates : IsSystem(r) /\ r.name = Fallback.name}
       IN IF \E r \in general : general = {r} THEN {general} ELSE {{}}

\* The classifier and the storyboarding agent; the id stays in the context.
Plan(j) ==
  /\ Serving /\ job[j] = "new"
  /\ \E industry \in TemplateIndustries : \E name \in SelectTemplate(industry) :
       \E rows \in Resolve(industry, name) : resolved' = [resolved EXCEPT ![j] = Ids(rows)]
  /\ job' = [job EXCEPT ![j] = "planned"]
  /\ UNCHANGED <<templates, seeding, missing, restarts, overlap, deliveries>>

Id(r) == [name |-> r.name, industry |-> r.industry, by |-> r.by]

\* Variant: a value once read is written back.
CountedFromRead(id) ==
  {IF Id(r) = id THEN [r EXCEPT !.usage = 1] ELSE r : r \in templates}

\* increment_template_usage: one UPDATE that adds to what the row has.
Counted(id) ==
  {IF Id(r) = id THEN [r EXCEPT !.usage = @ + 1] ELSE r : r \in templates}

\* _finalize of a run that completed, in one transaction with the result.  A
\* task that is lost before it is acknowledged comes again, finds every agent
\* done, and writes its result again.
Finalize(j) ==
  /\ job[j] \in {"planned", "completed"} /\ deliveries[j] < MaxDeliveries
  /\ templates' = IF resolved[j] = {} THEN templates
                  ELSE Counted(CHOOSE id \in resolved[j] : TRUE)
  /\ job' = [job EXCEPT ![j] = "completed"]
  /\ deliveries' = [deliveries EXCEPT ![j] = @ + 1]
  /\ UNCHANGED <<seeding, missing, restarts, overlap, resolved>>

\* The run fails, or is cancelled: nothing is counted.
FailRun(j) ==
  /\ job[j] = "planned"
  /\ job' = [job EXCEPT ![j] = "failed"]
  /\ UNCHANGED <<templates, seeding, missing, restarts, overlap, resolved, deliveries>>

-----------------------------------------------------------------------------
CatalogueInit ==
  /\ templates = {}
  /\ seeding = [a \in Apis |-> "off"] /\ missing = [a \in Apis |-> {}]
  /\ restarts = [a \in Apis |-> 0] /\ overlap = {}
  /\ job = [j \in Jobs |-> "new"] /\ resolved = [j \in Jobs |-> {}]
  /\ deliveries = [j \in Jobs |-> 0]

CatalogueNext ==
  \/ \E a \in Apis : StartApi(a) \/ Check(a) \/ Insert(a) \/ StopApi(a)
  \/ \E t \in Tenants : CreateTemplate(t) \/ UpdateTemplate(t) \/ DeleteTemplate(t)
  \/ \E j \in Jobs : Plan(j) \/ Finalize(j) \/ FailRun(j)

CatalogueSpec == CatalogueInit /\ [][CatalogueNext]_catalogueVars

-----------------------------------------------------------------------------
\* The count of a template is the number of times the result of a presentation
\* made with it was written: concurrent presentations lose none, failed ones add
\* none, and only a task that was delivered again counts its presentation twice.
CompletedWith(r) == {j \in Jobs : job[j] = "completed" /\ Id(r) \in resolved[j]}
UsageCounted ==
  \A r \in templates :
    /\ r.usage >= Cardinality(CompletedWith(r))
    /\ r.usage > Cardinality(CompletedWith(r)) => \E j \in CompletedWith(r) : deliveries[j] > 1
    /\ ~IsSystem(r) => r.usage = 0

\* "Idempotently seed system templates": a template is there twice only when two
\* processes that were starting at the same time both inserted it.
SeededOnce ==
  \A r, s \in templates :
    IsSystem(r) /\ IsSystem(s) /\ r.name = s.name /\ r.industry = s.industry /\ r # s
    => {r.by, s.by} \subseteq overlap
=============================================================================
