--------------------------- MODULE ProviderFailover ---------------------------
(***************************************************************************)
(* The LLM providers as one worker process sees them: the window of recent *)
(* results of each provider, its circuit, the failover flag of the health  *)
(* monitor (services/provider_health.py), and the call an agent makes      *)
(* through LLMEnhancementHelper.call_llm_with_retry (agents/llm_helpers.py) *)
(* and ProviderFactory.call_with_failover (services/llm_provider.py).      *)
(*                                                                         *)
(* A Celery worker process runs one pipeline, whose agents call one after  *)
(* the other, so there is one call at a time.  An await is a step of its   *)
(* own, because wait_for of the helper can cancel the call there.  What a  *)
(* provider answers, whether its rate limit lets the call through and when *)
(* the recovery time of a circuit has passed are choices of the            *)
(* environment.  Response times only break ties between candidates.        *)
(***************************************************************************)
EXTENDS Naturals, Sequences, FiniteSetsExt, SequencesExt

CONSTANTS Providers,   \* the provider types
          Chain,       \* get_fallback_sequence(): the primary, then its fallbacks
          Window,      \* results kept per provider (100 in the code)
          MinCalls,    \* results a circuit needs before it can open (10)
          MaxRetries,  \* attempts of call_llm_with_retry (2)
          NoProvider   \* before select_provider has chosen

ASSUME ChainAssumption == Chain \in Seq(Providers) /\ Len(Chain) >= 1
ASSUME WindowAssumption == /\ Window \in Nat /\ MinCalls \in Nat
                           /\ 1 <= MinCalls /\ MinCalls <= Window
ASSUME RetriesAssumption == MaxRetries \in Nat \ {0}
ASSUME NoProviderAssumption == NoProvider \notin Providers

VARIABLES window,    \* window[p]: TRUE for each success, oldest first
          circuit,   \* circuit[p]: "recoverable" once the recovery time passed
          failover,  \* failover_active
          current,   \* current_provider
          phase,        \* where the call is
          at,        \* index in Chain of the provider being tried
          attempt,   \* attempt of the helper, from 1
          selected,  \* what select_provider returned to this attempt
          answered,  \* the recorded result of the provider just called
          connected  \* redis_cache has connected; until then its set may raise

vars == <<window, circuit, failover, current, phase, at, attempt, selected, answered, connected>>
monitor == <<window, circuit, failover, current>>

Circuits == {"closed", "open", "recoverable"}
Places == {"idle", "try", "call", "record", "backoff"}
Primary == Chain[1]

-----------------------------------------------------------------------------
(* Health of one provider.                                                 *)

Failures(w) == Cardinality({i \in DOMAIN w : ~w[i]})

\* is_healthy: at least 95% successes, and an empty window is healthy.
Healthy(w) == 20 * Failures(w) <= Len(w)

\* should_open_circuit: more than 20% failures among enough results.
ShouldOpen(w) == Len(w) >= MinCalls /\ 5 * Failures(w) > Len(w)

\* The deque of length Window after one more result.
Recorded(w, ok) == IF Len(w) < Window THEN Append(w, ok) ELSE Append(Tail(w), ok)

\* Variant: an open circuit blocks until it is closed.
BlockedUntilClosed(p) == circuit[p] # "closed"

\* circuit_open and not can_attempt_recovery()
Blocked(p) == circuit[p] = "open"

\* get_success_rate(p) >= get_success_rate(q), an empty window counting as 1.
RateAtLeast(p, q) == Failures(window[p]) * Max({Len(window[q]), 1})
                       <= Failures(window[q]) * Max({Len(window[p]), 1})

-----------------------------------------------------------------------------
(* The health monitor.                                                     *)

ShouldFailover == ~Healthy(window[Primary]) \/ circuit[Primary] # "closed"

ShouldRestorePrimary == failover /\ ~Blocked(Primary) /\ Healthy(window[Primary])

Candidates == {p \in Range(Chain) : ~Blocked(p)}

\* select_provider: restore the primary, or keep it, or choose the best
\* candidate, or fall back on the primary when every circuit is open.
RestorePrimary ==
  /\ ShouldRestorePrimary
  /\ circuit' = [circuit EXCEPT ![Primary] = "closed"]
  /\ failover' = FALSE
  /\ current' = Primary
  /\ selected' = Primary

KeepPrimary ==
  /\ ~failover /\ ~ShouldFailover
  /\ selected' = Primary
  /\ UNCHANGED <<circuit, failover, current>>

ChooseBest ==
  /\ ~ShouldRestorePrimary
  /\ failover \/ ShouldFailover
  /\ failover' = TRUE
  /\ IF Candidates = {}
     THEN selected' = Primary /\ UNCHANGED current
     ELSE \E p \in Candidates :
            /\ \A q \in Candidates : RateAtLeast(p, q)
            /\ selected' = p /\ current' = p
  /\ UNCHANGED circuit

SelectProvider == (RestorePrimary \/ KeepPrimary \/ ChooseBest) /\ UNCHANGED window

\* Variant: the circuit is judged before the new result is in the window.
RecordCallLate(p, ok) ==
  /\ window' = [window EXCEPT ![p] = Recorded(@, ok)]
  /\ circuit' = IF ShouldOpen(window[p]) /\ circuit[p] = "closed"
                THEN [circuit EXCEPT ![p] = "open"] ELSE circuit
  /\ UNCHANGED <<failover, current>>

\* record_call: a circuit opens at the first result that makes the window bad.
RecordCall(p, ok) ==
  LET w == Recorded(window[p], ok) IN
  /\ window' = [window EXCEPT ![p] = w]
  /\ circuit' = IF ShouldOpen(w) /\ circuit[p] = "closed"
                THEN [circuit EXCEPT ![p] = "open"] ELSE circuit
  /\ UNCHANGED <<failover, current>>

-----------------------------------------------------------------------------
(* One call of an agent.                                                   *)

Init ==
  /\ window = [p \in Providers |-> <<>>]
  /\ circuit = [p \in Providers |-> "closed"]
  /\ failover = FALSE
  /\ current = Primary
  /\ phase = "idle" /\ at = 1 /\ attempt = 1
  /\ selected = NoProvider /\ answered = FALSE /\ connected = FALSE

\* The attempt is over: the loop of the helper sleeps and starts again, or
\* raises after its last attempt.
AttemptFails ==
  /\ phase' = IF attempt = MaxRetries THEN "idle" ELSE "backoff"
  /\ attempt' = IF attempt = MaxRetries THEN 1 ELSE attempt + 1
  /\ at' = 1 /\ selected' = NoProvider /\ answered' = FALSE

\* call_with_failover, up to its loop over the chain.  The provider selected
\* is only tested for being one: the loop always starts with the primary.
StartAttempt ==
  /\ phase \in {"idle", "backoff"}
  /\ SelectProvider
  /\ phase' = "try" /\ at' = 1
  /\ UNCHANGED <<attempt, answered, connected>>

\* continue: on to the next provider, or RuntimeError after the last one.
NextProvider ==
  IF at < Len(Chain)
  THEN phase' = "try" /\ at' = at + 1 /\ answered' = FALSE /\ UNCHANGED <<attempt, selected>>
  ELSE AttemptFails

SkipBlocked ==
  /\ phase = "try" /\ Blocked(Chain[at])
  /\ NextProvider
  /\ UNCHANGED <<monitor, connected>>

\* The rate limiter, asked first, connects the cache if Redis can be reached.
MayConnect == connected' \in {connected, TRUE}

\* The rate limit of the provider is used up, or its client cannot be built.
SkipRefused ==
  /\ phase = "try" /\ ~Blocked(Chain[at])
  /\ MayConnect
  /\ NextProvider
  /\ UNCHANGED monitor

CallProvider ==
  /\ phase = "try" /\ ~Blocked(Chain[at])
  /\ MayConnect
  /\ phase' = "call"
  /\ UNCHANGED <<monitor, at, attempt, selected, answered>>

\* func returns or raises, and the result is recorded before the cache of
\* health records is updated.
ProviderAnswers(ok) ==
  /\ phase = "call"
  /\ RecordCall(Chain[at], ok)
  /\ phase' = "record" /\ answered' = ok
  /\ UNCHANGED <<at, attempt, selected, connected>>

\* update_health_cache passes: the cache connects at its first set.
ReturnResult ==
  /\ phase = "record" /\ answered
  /\ phase' = "idle" /\ at' = 1 /\ attempt' = 1
  /\ selected' = NoProvider /\ answered' = FALSE
  /\ connected' = TRUE
  /\ UNCHANGED monitor

ContinueAfterFailure ==
  /\ phase = "record" /\ ~answered
  /\ NextProvider
  /\ connected' = TRUE
  /\ UNCHANGED monitor

\* update_health_cache raises inside the try: the result is thrown away and
\* the call that succeeded is recorded as a failure too, ...
ResultThrownAway ==
  /\ phase = "record" /\ answered /\ ~connected
  /\ RecordCall(Chain[at], FALSE)
  /\ answered' = FALSE
  /\ UNCHANGED <<phase, at, attempt, selected, connected>>

\* ... or in the except clause: the rest of the chain is not tried.
CacheRaises ==
  /\ phase = "record" /\ ~answered /\ ~connected
  /\ AttemptFails
  /\ UNCHANGED <<monitor, connected>>

\* wait_for cancels the call at an await.  CancelledError passes by the
\* except clauses of call_with_failover: nothing is recorded.
TimeOut ==
  /\ phase \in {"try", "call", "record"}
  /\ AttemptFails
  /\ UNCHANGED <<monitor, connected>>

\* recovery_timeout_seconds after open_circuit.
RecoveryTimePasses(p) ==
  /\ circuit[p] = "open"
  /\ circuit' = [circuit EXCEPT ![p] = "recoverable"]
  /\ UNCHANGED <<window, failover, current, phase, at, attempt, selected, answered, connected>>

CallStep == \/ SkipBlocked \/ SkipRefused \/ CallProvider
            \/ ReturnResult \/ ContinueAfterFailure \/ ResultThrownAway
            \/ CacheRaises \/ TimeOut
            \/ \E ok \in BOOLEAN : ProviderAnswers(ok)

Next == \/ StartAttempt
        \/ CallStep
        \/ \E p \in Providers : RecoveryTimePasses(p)

\* Agents keep calling; an await ends, because wait_for bounds the wait; clocks
\* run.
Fairness == /\ WF_vars(StartAttempt)
            /\ WF_vars(CallStep)
            /\ \A p \in Providers : WF_vars(RecoveryTimePasses(p))

Spec == Init /\ [][Next]_vars /\ Fairness

-----------------------------------------------------------------------------
(* Properties.                                                             *)

Windows == UNION {[1 .. n -> BOOLEAN] : n \in 0 .. Window}

\* The types of the variables: deques no longer than the window of
\* ProviderHealthMetrics, a position in the chain, an attempt of the helper.
TypeOK ==
  /\ window \in [Providers -> Windows]
  /\ circuit \in [Providers -> Circuits]
  /\ failover \in BOOLEAN
  /\ current \in Range(Chain)
  /\ phase \in Places
  /\ at \in 1 .. Len(Chain)
  /\ attempt \in 1 .. MaxRetries
  /\ selected \in Range(Chain) \cup {NoProvider}
  /\ answered \in BOOLEAN
  /\ connected \in BOOLEAN

\* A provider whose window is bad has its circuit open: record_call opens it
\* once, restoring the primary closes it, and no order of the two leaves a
\* closed circuit over a window with more than 20% failures.
BadWindowIsOpen == \A p \in Providers : ShouldOpen(window[p]) => circuit[p] # "closed"

\* What ARCHITECTURE.md (461-462) says of a circuit whose recovery time has
\* passed: a call that succeeds closes it, one that fails opens it again.
\* record_call, 183-196 of provider_health.py, does neither.
ProbeSettlesCircuit ==
  [][\A p \in Providers :
       circuit[p] = "recoverable" /\ phase = "call" /\ Chain[at] = p /\ phase' = "record" =>
         circuit'[p] = IF answered' THEN "closed" ELSE "open"]_vars

\* What the code does instead: the circuit of a fallback protects once.
\* After its first recovery time it neither closes (only the primary is
\* restored) nor blocks again (a failed probe does not reset
\* circuit_opened_at), however its calls end.
FallbackCircuitIsSpent ==
  [][\A p \in Providers \ {Primary} :
       circuit[p] = "recoverable" => circuit'[p] = "recoverable"]_vars

\* A step in which the primary lets a call down, or in which Redis, which the
\* process has not reached yet, has its answer recorded as a failure.
PrimaryDisappoints ==
  \/ /\ phase \in {"try", "call"} /\ at = 1 /\ ~Blocked(Primary)
     /\ phase' # "call" /\ ~(phase' = "record" /\ answered')
  \/ phase = "record" /\ at = 1 /\ answered /\ phase' = "record"

\* When the primary answers every call from some time on, failover ends: its
\* circuit is probed, successes push the failures out of the window, and the
\* next selection restores it.
PrimaryComesBack == <>[][~PrimaryDisappoints]_vars => <>[](~failover /\ current = Primary)
=============================================================================
