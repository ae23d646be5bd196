----------------------------- MODULE RateLimits -----------------------------
(***************************************************************************)
(* The counters in Redis that admit calls, and those that count them:      *)
(*                                                                         *)
(*   provider, user   check_provider_rate_limit, check_user_rate_limit     *)
(*                    (services/rate_limiter.py): count, then decide       *)
(*   create           _get_rate_limit_info and _increment_rate_limit       *)
(*                    (api/v1/presentations.py): decide, work, then count  *)
(*   slots            acquire_concurrent_slot, release_concurrent_slot     *)
(*   analytics        _increment_analytics (services/presentation_cache.py)*)
(*                                                                         *)
(* Every call to Redis is a step.  A first call of check_... or acquire_...*)
(* that Redis does not answer lets the caller through uncounted and is     *)
(* left out; those of create_presentation are not.  Counters have keys     *)
(* of their own and do not interact: kind says which one a behaviour is    *)
(* about.                                                                  *)
(***************************************************************************)
EXTENDS Integers, FiniteSets

CONSTANTS
    Callers,   \* coroutines and processes
    Limit,     \* calls per window, or slots
    Period,    \* ticks until a counter expires
    MaxCount,  \* bound on a counter
    MaxAmiss   \* bound on the faults under requests to create, while a key lives

ASSUME RateAssumption ==
    /\ IsFiniteSet(Callers)
    /\ Limit \in Nat \ {0} /\ Period \in Nat \ {0} /\ MaxCount \in Nat /\ MaxAmiss \in Nat

Counting == {"provider", "user"}
Kinds == Counting \cup {"create", "slots", "analytics"}

VARIABLES
    kind,     \* the counter
    n,        \* its value, 0 when there is no key
    ttl,      \* ticks left; NoExpiry and NoKey as TTL answers them
    pc,       \* where a caller is
    seen,     \* what INCR answered a caller that asked for a slot
    made,     \* history: presentations created since the key last expired
    amiss,    \* history: requests that were let through unchecked, or whose
              \* presentation was not counted, since the key last expired
    lost,     \* history: callers lost between two calls to Redis, since the key was made
    wiped     \* history: the counter went while slots were held or being acquired

limitsVars == <<kind, n, ttl, pc, seen, made, amiss, lost, wiped>>

NoExpiry == -1
NoKey    == -2

(* working: let through, nothing committed; committed: the rows are;       *)
(* queued: the task is; ttl, expire: INCR has been done, TTL or EXPIRE comes next; decide: the  *)
(* answer; zero: SET 0 comes next.                                         *)
CallerPlaces == {"idle", "working", "committed", "queued", "ttl", "expire", "decide", "held", "zero"}

LimitsTypeOK ==
    /\ kind \in Kinds
    /\ n \in -Cardinality(Callers)..MaxCount
    /\ ttl \in NoKey..Period
    /\ pc \in [Callers -> CallerPlaces]
    /\ seen \in [Callers -> -Cardinality(Callers)..MaxCount]
    /\ made \in Nat /\ amiss \in Nat /\ lost \in Nat
    /\ wiped \in BOOLEAN

LimitsInit ==
    /\ kind \in Kinds
    /\ n = 0 /\ ttl = NoKey
    /\ pc = [c \in Callers |-> "idle"]
    /\ seen = [c \in Callers |-> 0]
    /\ made = 0 /\ amiss = 0 /\ lost = 0
    /\ wiped = FALSE

-----------------------------------------------------------------------------
(* Redis *)

At(places) == {c \in Callers : pc[c] \in places}
Moves(c, place) == pc' = [pc EXCEPT ![c] = place]

(* INCR, INCRBYFLOAT and DECR make a key without expiry when there is none.*)
Add(d) ==
    /\ n' = n + d
    /\ ttl' = IF ttl = NoKey THEN NoExpiry ELSE ttl

(* EXPIRE does nothing when the key has gone.                              *)
ExpireKey == ttl' = IF ttl = NoKey THEN NoKey ELSE Period

SecondsPass ==
    /\ ttl > 0
    /\ IF ttl > 1
       THEN ttl' = ttl - 1 /\ UNCHANGED <<n, made, amiss, lost, wiped>>
       ELSE /\ ttl' = NoKey /\ n' = 0 /\ made' = 0 /\ amiss' = 0 /\ lost' = 0
            /\ wiped' = (wiped \/ At({"ttl", "expire", "decide", "held", "zero"}) # {})
    /\ UNCHANGED <<kind, pc, seen>>

-----------------------------------------------------------------------------
(* Provider, user and analytics counters: a call is counted first, whether *)
(* it will be allowed or not.                                              *)

\* Variant: INCR is taken to answer the count before it.
FirstCallFromZero(count) == IF count = 0 THEN "expire" ELSE "decide"

FirstCall(count) == IF count = 1 THEN "expire" ELSE "decide"

Count(c) ==
    /\ kind \in Counting \cup {"analytics"}
    /\ pc[c] = "idle" /\ n < MaxCount
    /\ Add(1)
    /\ Moves(c, IF kind = "analytics" THEN "ttl" ELSE FirstCall(n + 1))
    /\ UNCHANGED <<kind, seen, made, amiss, lost, wiped>>

(* if ttl == -1 (analytics), if ttl < 0 (slots).                           *)
ExpiryMissing(left) == IF kind = "analytics" THEN left = NoExpiry ELSE left < 0

ReadTtl(c) ==
    /\ pc[c] = "ttl"
    /\ Moves(c, IF ExpiryMissing(ttl) THEN "expire" ELSE "decide")
    /\ UNCHANGED <<kind, n, ttl, seen, made, amiss, lost, wiped>>

SetExpiry(c) ==
    /\ pc[c] = "expire"
    /\ ExpireKey
    /\ Moves(c, "decide")
    /\ UNCHANGED <<kind, n, seen, made, amiss, lost, wiped>>

(* TTL and the answer.                                                     *)
Answer(c) ==
    /\ kind # "slots" /\ pc[c] = "decide"
    /\ Moves(c, "idle")
    /\ UNCHANGED <<kind, n, ttl, seen, made, amiss, lost, wiped>>

-----------------------------------------------------------------------------
(* Creating presentations *)

\* Variant: the limit is let through.
CheckAtLimit(c) ==
    /\ kind = "create" /\ pc[c] = "idle"
    /\ n <= Limit
    /\ Moves(c, "working")
    /\ UNCHANGED <<kind, n, ttl, seen, made, amiss, lost, wiped>>

(* A missing key is a count of 0.                                          *)
Check(c) ==
    /\ kind = "create" /\ pc[c] = "idle"
    /\ n < Limit
    /\ Moves(c, "working")
    /\ UNCHANGED <<kind, n, ttl, seen, made, amiss, lost, wiped>>

(* Redis does not answer: the count is taken to be 0.                      *)
CheckUnanswered(c) ==
    /\ kind = "create" /\ pc[c] = "idle" /\ amiss < MaxAmiss
    /\ amiss' = amiss + 1
    /\ Moves(c, "working")
    /\ UNCHANGED <<kind, n, ttl, seen, made, lost, wiped>>

(* The rows of the presentation and of its execution are committed ...     *)
Create(c) ==
    /\ pc[c] = "working"
    /\ made' = made + 1
    /\ Moves(c, "committed")
    /\ UNCHANGED <<kind, n, ttl, seen, amiss, lost, wiped>>

(* ... then the task is queued ...                                         *)
Enqueue(c) ==
    /\ pc[c] = "committed"
    /\ Moves(c, "queued")
    /\ UNCHANGED <<kind, n, ttl, seen, made, amiss, lost, wiped>>

(* ... and last of all the request is counted, if Redis answers: an error  *)
(* is swallowed, and the presentation stays uncounted.                     *)
CountCreated(c) ==
    /\ pc[c] = "queued" /\ n < MaxCount
    /\ Add(1)
    /\ Moves(c, FirstCall(n + 1))
    /\ UNCHANGED <<kind, seen, made, amiss, lost, wiped>>

CountUnanswered(c) ==
    /\ pc[c] = "queued" /\ amiss < MaxAmiss
    /\ amiss' = amiss + 1
    /\ Moves(c, "idle")
    /\ UNCHANGED <<kind, n, ttl, seen, made, lost, wiped>>

(* The process dies, the commit or the broker fails: what was committed    *)
(* stays.                                                                  *)
LoseRequest(c) ==
    /\ pc[c] \in {"working", "committed", "queued"}
    /\ Moves(c, "idle")
    /\ IF pc[c] = "working" THEN amiss' = amiss ELSE amiss < MaxAmiss /\ amiss' = amiss + 1
    /\ UNCHANGED <<kind, n, ttl, seen, made, lost, wiped>>

-----------------------------------------------------------------------------
(* Slots *)

Acquire(c) ==
    /\ kind = "slots" /\ pc[c] = "idle" /\ n < MaxCount
    /\ Add(1)
    /\ Moves(c, "ttl")
    /\ seen' = [seen EXCEPT ![c] = n + 1]
    /\ UNCHANGED <<kind, made, amiss, lost, wiped>>

\* Variant: the limit itself is let through.
GrantAtLimit(c) == seen[c] <= Limit + 1

Grants(c) == seen[c] <= Limit

Grant(c) ==
    /\ kind = "slots" /\ pc[c] = "decide" /\ Grants(c)
    /\ Moves(c, "held")
    /\ seen' = [seen EXCEPT ![c] = 0]
    /\ UNCHANGED <<kind, n, ttl, made, amiss, lost, wiped>>

(* Over the limit: the slot is given back, without a look at the result.   *)
Refuse(c) ==
    /\ kind = "slots" /\ pc[c] = "decide" /\ ~Grants(c)
    /\ Add(-1)
    /\ Moves(c, "idle")
    /\ seen' = [seen EXCEPT ![c] = 0]
    /\ UNCHANGED <<kind, made, amiss, lost, wiped>>

Release(c) ==
    /\ pc[c] = "held"
    /\ Add(-1)
    /\ Moves(c, IF n - 1 < 0 THEN "zero" ELSE "idle")
    /\ UNCHANGED <<kind, seen, made, amiss, lost, wiped>>

(* SET without an expiry drops the one the key had.                        *)
SetZero(c) ==
    /\ pc[c] = "zero"
    /\ n' = 0 /\ ttl' = NoExpiry
    /\ Moves(c, "idle")
    /\ wiped' = (wiped \/ At({"ttl", "expire", "decide", "held"}) # {})
    /\ UNCHANGED <<kind, seen, made, amiss, lost>>

-----------------------------------------------------------------------------
(* The process dies, or Redis answers a call after INCR with an error: the *)
(* rest of the calls is not made.                                          *)
Lose(c) ==
    /\ pc[c] \in {"ttl", "expire", "decide", "held", "zero"}
    /\ Moves(c, "idle")
    /\ lost' = IF lost < MaxCount THEN lost + 1 ELSE lost
    /\ seen' = [seen EXCEPT ![c] = 0]
    /\ UNCHANGED <<kind, n, ttl, made, amiss, wiped>>

CallerStep(c) ==
    \/ Count(c) \/ ReadTtl(c) \/ SetExpiry(c) \/ Answer(c)
    \/ Check(c) \/ CheckUnanswered(c) \/ Create(c) \/ Enqueue(c)
    \/ CountCreated(c) \/ CountUnanswered(c) \/ LoseRequest(c)
    \/ Acquire(c) \/ Grant(c) \/ Refuse(c) \/ Release(c) \/ SetZero(c)
    \/ Lose(c)

LimitsNext == SecondsPass \/ \E c \in Callers : CallerStep(c)

LimitsSpec == LimitsInit /\ [][LimitsNext]_limitsVars

(* Time passes, and a call to Redis that was begun is finished.            *)
LimitsFairness == WF_limitsVars(SecondsPass) /\ \A c \in Callers : WF_limitsVars(SetExpiry(c))

-----------------------------------------------------------------------------
(* Properties *)

(* A user gets past the hourly limit of presentations only with requests   *)
(* that were under way together, by one less than there are of those, and  *)
(* with those that a fault of Redis, of the broker or of the process let   *)
(* through unchecked or left uncounted (create_presentation reads the      *)
(* counter first and counts last).                                         *)
OvershootIsConcurrent == made <= Limit + Cardinality(Callers) - 1 + amiss

(* As long as the counter has not expired under them, it is the number of  *)
(* slots held, asked for or lost with their process, and no more than      *)
(* Limit are held (acquire_concurrent_slot).                               *)
SlotsAccounted ==
    kind = "slots" /\ ~wiped =>
        /\ n <= Cardinality(At({"ttl", "expire", "decide", "held"})) + lost
        /\ n >= Cardinality(At({"ttl", "expire", "decide", "held"}))
        /\ Cardinality(At({"held"})) <= Limit

(* A counter that refuses calls lets some through again, unless a process  *)
(* died between INCR and EXPIRE; refused calls do not put it off.          *)
Refuses == IF kind = "create" THEN n >= Limit ELSE n > Limit
WindowReopens ==
    kind \in Counting \cup {"create"} /\ Refuses ~> ~Refuses \/ lost > 0

=============================================================================
