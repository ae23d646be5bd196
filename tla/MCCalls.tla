-------------------------------- MODULE MCCalls --------------------------------
(***************************************************************************)
(* The calls of an agent to the providers, and the counters in Redis that  *)
(* admit calls: a behaviour follows one or the other, and nothing of the   *)
(* other is enabled.                                                       *)
(***************************************************************************)
EXTENDS MCProviderFailover, RateLimits

MCInit ==
  \/ /\ Init
     /\ kind = "none" /\ n = 0 /\ ttl = NoKey /\ pc = [c \in Callers |-> "idle"]
     /\ seen = [c \in Callers |-> 0] /\ made = 0 /\ amiss = 0 /\ lost = 0 /\ wiped = FALSE
  \/ /\ LimitsInit
     /\ window = [p \in Providers |-> <<>>] /\ circuit = [p \in Providers |-> "closed"]
     /\ failover = FALSE /\ current = Primary /\ phase = "none" /\ at = 1 /\ attempt = 1
     /\ selected = NoProvider /\ answered = FALSE /\ connected = FALSE

MCNext ==
  \/ Next /\ UNCHANGED limitsVars
  \/ LimitsNext /\ UNCHANGED vars

MCSpec == MCInit /\ [][MCNext]_<<vars, limitsVars>> /\ Fairness /\ LimitsFairness
================================================================================
