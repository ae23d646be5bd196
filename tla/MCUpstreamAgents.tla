--------------------------- MODULE MCUpstreamAgents ---------------------------
(***************************************************************************)
(* The agents before the LLM, and the catalogue of templates that they     *)
(* choose from: a behaviour follows one or the other, and nothing of the   *)
(* other is enabled.                                                       *)
(***************************************************************************)
EXTENDS UpstreamAgents, TemplateCatalogue

MCInit ==
  \/ /\ Init
     /\ templates = {} /\ seeding = [a \in Apis |-> "none"] /\ missing = [a \in Apis |-> {}]
     /\ restarts = [a \in Apis |-> MaxRestarts] /\ overlap = {} /\ job = [j \in Jobs |-> "none"]
     /\ resolved = [j \in Jobs |-> {}] /\ deliveries = [j \in Jobs |-> 0]
  \/ /\ CatalogueInit
     /\ topic = "none" /\ agent = "none" /\ failedAt = NONE /\ fault = NONE
     /\ spent = 0 /\ attempt = 0 /\ slow = 0
     /\ industry = NONE /\ design = "none" /\ research = "none" /\ enriched = "none"
     /\ kept = [i \in Industries |-> Nothing]

MCNext ==
  \/ Next /\ UNCHANGED catalogueVars
  \/ CatalogueNext /\ UNCHANGED vars

MCSpec == MCInit /\ [][MCNext]_<<vars, catalogueVars>>
===============================================================================
