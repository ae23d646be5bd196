----------------------- MODULE ProviderFailoverTheorems -----------------------
(***************************************************************************)
(* What ProviderFailover states of circuits and windows, for any providers *)
(* in the chain, any size of the windows and any number of retries.        *)
(***************************************************************************)
EXTENDS ProviderFailover, FiniteSetTheorems, SequenceTheorems, TLAPS

USE ChainAssumption, WindowAssumption, RetriesAssumption, NoProviderAssumption

LEMMA ChainElements ==
  /\ 1 \in 1 .. Len(Chain) /\ Len(Chain) \in Nat
  /\ \A i \in 1 .. Len(Chain) : Chain[i] \in Providers /\ Chain[i] \in Range(Chain)
  /\ Range(Chain) \subseteq Providers
  /\ Primary \in Providers /\ Primary \in Range(Chain)
<1>1. 1 \in 1 .. Len(Chain) /\ Len(Chain) \in Nat /\ DOMAIN Chain = 1 .. Len(Chain)
  OBVIOUS
<1>2. \A i \in 1 .. Len(Chain) : Chain[i] \in Providers
  OBVIOUS
<1> QED
  BY <1>1, <1>2 DEF Range, Primary

-----------------------------------------------------------------------------
(* Windows of results.                                                     *)

LEMMA ShortSequences ==
  ASSUME NEW s \in Seq(BOOLEAN), Len(s) <= Window
  PROVE  s \in Windows
<1>1. Len(s) \in 0 .. Window
  BY LenProperties
<1>2. s \in [1 .. Len(s) -> BOOLEAN]
  BY LenProperties
<1> QED
  BY <1>1, <1>2 DEF Windows

LEMMA RecordedType ==
  ASSUME NEW w \in Windows, NEW ok \in BOOLEAN
  PROVE  Recorded(w, ok) \in Windows
<1>1. PICK n \in 0 .. Window : w \in [1 .. n -> BOOLEAN]
  BY DEF Windows
<1>2. w \in Seq(BOOLEAN) /\ Len(w) = n /\ n \in Nat
  BY <1>1
<1>3. CASE n < Window
  <2>1. Append(w, ok) \in Seq(BOOLEAN) /\ Len(Append(w, ok)) = n + 1
    BY <1>2, AppendProperties
  <2>2. Recorded(w, ok) = Append(w, ok)
    BY <1>2, <1>3 DEF Recorded
  <2>3. Len(Append(w, ok)) <= Window
    BY <1>2, <1>3, <2>1
  <2> QED
    BY <2>1, <2>2, <2>3, ShortSequences
<1>4. CASE n = Window
  <2>1. Tail(w) \in Seq(BOOLEAN) /\ Len(Tail(w)) = n - 1
    BY <1>2, <1>4
  <2>2. Append(Tail(w), ok) \in Seq(BOOLEAN) /\ Len(Append(Tail(w), ok)) = n
    BY <1>2, <2>1
  <2>3. Recorded(w, ok) = Append(Tail(w), ok)
    BY <1>2, <1>4 DEF Recorded
  <2>4. Len(Append(Tail(w), ok)) <= Window
    BY <1>2, <1>4, <2>2
  <2> QED
    BY <2>2, <2>3, <2>4, ShortSequences
<1> QED
  BY <1>3, <1>4

LEMMA FailuresType ==
  ASSUME NEW w \in Windows
  PROVE  Failures(w) \in Nat /\ Len(w) \in Nat
<1>1. PICK n \in 0 .. Window : w \in [1 .. n -> BOOLEAN]
  BY DEF Windows
<1>2. DOMAIN w = 1 .. n /\ Len(w) = n /\ n \in Nat
  BY <1>1
<1>3. IsFiniteSet(1 .. n)
  BY <1>2, FS_Interval
<1>4. IsFiniteSet({i \in DOMAIN w : ~w[i]})
  BY <1>2, <1>3, FS_Subset
<1> QED
  BY <1>2, <1>4, FS_CardinalityType DEF Failures

(* The thresholds of is_healthy and should_open_circuit exclude each other.*)
LEMMA HealthyStaysClosed ==
  ASSUME NEW w \in Windows, Healthy(w)
  PROVE  ~ShouldOpen(w)
BY FailuresType DEF Healthy, ShouldOpen

-----------------------------------------------------------------------------
(* Types.                                                                  *)

LEMMA InitType == Init => TypeOK
<1>1. <<>> \in Windows
  <2>1. /\ 0 \in 0 .. Window /\ <<>> \in [1 .. 0 -> BOOLEAN]
    OBVIOUS
  <2> QED
    BY <2>1, Zenon DEF Windows
<1> SUFFICES ASSUME Init PROVE TypeOK
  OBVIOUS
<1>2. window \in [Providers -> Windows] /\ circuit \in [Providers -> Circuits]
  BY <1>1 DEF Init, Circuits
<1>3. failover \in BOOLEAN /\ answered \in BOOLEAN /\ connected \in BOOLEAN
  BY DEF Init
<1>4. /\ phase \in Places /\ at \in 1 .. Len(Chain) /\ attempt \in 1 .. MaxRetries
      /\ current \in Range(Chain) /\ selected \in Range(Chain) \cup {NoProvider}
  BY ChainElements DEF Init, Places
<1> QED
  BY <1>2, <1>3, <1>4 DEF TypeOK

(* The end of an attempt, and the next provider of the chain.              *)
LEMMA AttemptType == ASSUME TypeOK, AttemptFails PROVE
  /\ phase' \in Places /\ at' \in 1 .. Len(Chain) /\ attempt' \in 1 .. MaxRetries
  /\ selected' \in Range(Chain) \cup {NoProvider} /\ answered' \in BOOLEAN
<1>1. at' = 1 /\ selected' = NoProvider /\ answered' = FALSE
  BY DEF AttemptFails
<1>2. phase' \in Places
  BY DEF AttemptFails, Places
<1>3. attempt' \in 1 .. MaxRetries
  BY DEF AttemptFails, TypeOK
<1> QED
  BY <1>1, <1>2, <1>3, ChainElements

LEMMA NextProviderType == ASSUME TypeOK, NextProvider PROVE
  /\ phase' \in Places /\ at' \in 1 .. Len(Chain) /\ attempt' \in 1 .. MaxRetries
  /\ selected' \in Range(Chain) \cup {NoProvider} /\ answered' \in BOOLEAN
<1>1. CASE at < Len(Chain)
  <2>1. at + 1 \in 1 .. Len(Chain)
    BY <1>1, ChainElements DEF TypeOK
  <2>2. phase' = "try" /\ at' = at + 1 /\ answered' = FALSE /\ UNCHANGED <<attempt, selected>>
    BY <1>1 DEF NextProvider
  <2> QED
    BY <2>1, <2>2 DEF TypeOK, Places
<1>2. CASE ~(at < Len(Chain))
  BY <1>2, AttemptType DEF NextProvider
<1> QED
  BY <1>1, <1>2

LEMMA NextType == TypeOK /\ [Next]_vars => TypeOK'
<1> SUFFICES ASSUME TypeOK, [Next]_vars PROVE TypeOK'
  OBVIOUS
<1> USE ChainElements
<1>1. CASE StartAttempt
  <2>1. /\ circuit' \in [Providers -> Circuits] /\ failover' \in BOOLEAN
        /\ current' \in Range(Chain) /\ selected' \in Range(Chain) \cup {NoProvider}
    <3>1. CASE RestorePrimary
      BY <3>1 DEF RestorePrimary, TypeOK, Circuits
    <3>2. CASE KeepPrimary
      BY <3>2 DEF KeepPrimary, TypeOK
    <3>3. CASE ChooseBest
      BY <3>3 DEF ChooseBest, Candidates, TypeOK
    <3> QED
      BY <1>1, <3>1, <3>2, <3>3 DEF StartAttempt, SelectProvider
  <2> QED
    BY <1>1, <2>1 DEF StartAttempt, SelectProvider, TypeOK, Places
<1>2. CASE SkipBlocked \/ SkipRefused \/ ContinueAfterFailure
  <2>1. NextProvider /\ UNCHANGED monitor /\ connected' \in {connected, TRUE}
    BY <1>2 DEF SkipBlocked, SkipRefused, MayConnect, ContinueAfterFailure
  <2>2. connected' \in BOOLEAN
    BY <2>1 DEF TypeOK
  <2> QED
    BY <2>1, <2>2, NextProviderType DEF monitor, TypeOK
<1>3. CASE CallProvider
  BY <1>3 DEF CallProvider, MayConnect, monitor, TypeOK, Places
<1>9. CASE ResultThrownAway
  <2>1. window' \in [Providers -> Windows]
    BY <1>9, RecordedType DEF ResultThrownAway, RecordCall, TypeOK
  <2>2. circuit' \in [Providers -> Circuits]
    BY <1>9 DEF ResultThrownAway, RecordCall, TypeOK, Circuits
  <2> QED
    BY <1>9, <2>1, <2>2 DEF ResultThrownAway, RecordCall, TypeOK, Places
<1>4. CASE ReturnResult
  <2>1. /\ phase' = "idle" /\ at' = 1 /\ attempt' = 1 /\ selected' = NoProvider /\ answered' = FALSE
        /\ connected' = TRUE /\ UNCHANGED <<window, circuit, failover, current>>
    BY <1>4 DEF ReturnResult, monitor
  <2>2. phase' \in Places /\ at' \in 1 .. Len(Chain) /\ attempt' \in 1 .. MaxRetries
    BY <2>1 DEF Places
  <2>3. selected' \in Range(Chain) \cup {NoProvider} /\ answered' \in BOOLEAN /\ connected' \in BOOLEAN
    BY <2>1
  <2> QED
    BY <2>1, <2>2, <2>3 DEF TypeOK
<1>5. CASE TimeOut \/ CacheRaises
  BY <1>5, AttemptType DEF TimeOut, CacheRaises, monitor, TypeOK
<1>6. ASSUME NEW ok \in BOOLEAN, ProviderAnswers(ok) PROVE TypeOK'
  <2>1. window' \in [Providers -> Windows]
    BY <1>6, RecordedType DEF ProviderAnswers, RecordCall, TypeOK
  <2>2. circuit' \in [Providers -> Circuits]
    BY <1>6 DEF ProviderAnswers, RecordCall, TypeOK, Circuits
  <2> QED
    BY <1>6, <2>1, <2>2 DEF ProviderAnswers, RecordCall, TypeOK, Places
<1>7. CASE \E p \in Providers : RecoveryTimePasses(p)
  BY <1>7 DEF RecoveryTimePasses, TypeOK, Circuits
<1>8. CASE UNCHANGED vars
  BY <1>8 DEF vars, TypeOK
<1> QED
  BY <1>1, <1>2, <1>3, <1>4, <1>5, <1>6, <1>7, <1>8, <1>9 DEF Next, CallStep

(* The windows of the health monitor never grow past their deque, and the  *)
(* loops over the chain and the attempts stay inside them.                 *)
THEOREM FailoverTypeCorrect == Spec => []TypeOK
BY InitType, NextType, PTL DEF Spec

-----------------------------------------------------------------------------
(* Circuits.                                                               *)

LEMMA NextBadWindow == TypeOK /\ BadWindowIsOpen /\ [Next]_vars => BadWindowIsOpen'
<1> SUFFICES ASSUME TypeOK, BadWindowIsOpen, [Next]_vars,
                    NEW p \in Providers, ShouldOpen(window[p])'
             PROVE  circuit'[p] # "closed"
  BY DEF BadWindowIsOpen
<1>1. CASE StartAttempt
  <2>1. window' = window /\ circuit[p] # "closed"
    BY <1>1 DEF StartAttempt, SelectProvider, ShouldOpen, BadWindowIsOpen
  <2>2. CASE RestorePrimary
    <3>1. p # Primary
      BY <2>1, <2>2, HealthyStaysClosed DEF RestorePrimary, ShouldRestorePrimary, TypeOK
    <3> QED
      BY <2>1, <2>2, <3>1 DEF RestorePrimary, TypeOK
  <2>3. CASE KeepPrimary \/ ChooseBest
    BY <2>1, <2>3 DEF KeepPrimary, ChooseBest
  <2> QED
    BY <1>1, <2>2, <2>3 DEF StartAttempt, SelectProvider
<1>2. ASSUME NEW ok \in BOOLEAN, ProviderAnswers(ok) \/ (ResultThrownAway /\ ok = FALSE)
      PROVE  circuit'[p] # "closed"
  <2> DEFINE w == Recorded(window[Chain[at]], ok)
  <2>1. /\ window' = [window EXCEPT ![Chain[at]] = w] /\ Chain[at] \in Providers
        /\ circuit' = IF ShouldOpen(w) /\ circuit[Chain[at]] = "closed"
                      THEN [circuit EXCEPT ![Chain[at]] = "open"] ELSE circuit
    BY <1>2, ChainElements DEF ProviderAnswers, ResultThrownAway, RecordCall, TypeOK
  <2> HIDE DEF w
  <2>2. CASE p = Chain[at]
    <3>1. window'[p] = w
      BY <2>1, <2>2 DEF TypeOK
    <3>2. ShouldOpen(w)
      BY <3>1
    <3> QED
      BY <2>1, <2>2, <3>2 DEF TypeOK
  <2>3. CASE p # Chain[at]
    <3>1. window'[p] = window[p] /\ circuit'[p] = circuit[p]
      BY <2>1, <2>3 DEF TypeOK
    <3>2. ShouldOpen(window[p])
      BY <3>1
    <3> QED
      BY <3>1, <3>2 DEF BadWindowIsOpen
  <2> QED
    BY <2>2, <2>3
<1>3. CASE \E q \in Providers : RecoveryTimePasses(q)
  BY <1>3 DEF RecoveryTimePasses, ShouldOpen, BadWindowIsOpen, TypeOK
<1>4. CASE UNCHANGED monitor
  BY <1>4 DEF monitor, ShouldOpen, BadWindowIsOpen
<1> QED
  BY <1>1, <1>2, <1>3, <1>4 DEF Next, CallStep, SkipBlocked, SkipRefused, CallProvider,
     ReturnResult, ContinueAfterFailure, CacheRaises, TimeOut, vars, monitor

(* A window with too many failures never stands under a closed circuit,    *)
(* although results open circuits and selections close them.               *)
THEOREM BadWindowsAreOpen == Spec => []BadWindowIsOpen
<1>1. Init => BadWindowIsOpen
  BY DEF Init, BadWindowIsOpen, ShouldOpen
<1> QED
  BY <1>1, InitType, NextType, NextBadWindow, PTL DEF Spec

(* A step takes no circuit of a fallback out of "recoverable".             *)
LEMMA NextSpent ==
  ASSUME TypeOK, [Next]_vars, NEW p \in Providers \ {Primary}, circuit[p] = "recoverable"
  PROVE  circuit'[p] = "recoverable"
<1>1. CASE StartAttempt
  BY <1>1 DEF StartAttempt, SelectProvider, RestorePrimary, KeepPrimary, ChooseBest, TypeOK
<1>2. CASE ResultThrownAway \/ \E ok \in BOOLEAN : ProviderAnswers(ok)
  BY <1>2 DEF ProviderAnswers, ResultThrownAway, RecordCall, TypeOK
<1>3. CASE \E q \in Providers : RecoveryTimePasses(q)
  BY <1>3 DEF RecoveryTimePasses, TypeOK
<1>4. CASE UNCHANGED monitor
  BY <1>4 DEF monitor
<1> QED
  BY <1>1, <1>2, <1>3, <1>4 DEF Next, CallStep, SkipBlocked, SkipRefused, CallProvider,
     ReturnResult, ContinueAfterFailure, CacheRaises, TimeOut, vars, monitor

(* A fallback's circuit protects once: after its first recovery time it    *)
(* neither closes nor blocks again.                                        *)
THEOREM FallbackCircuitsAreSpent == Spec => FallbackCircuitIsSpent
<1>1. TypeOK /\ [Next]_vars =>
        [\A p \in Providers \ {Primary} :
           circuit[p] = "recoverable" => circuit'[p] = "recoverable"]_vars
  BY NextSpent
<1> QED
  BY <1>1, InitType, NextType, PTL DEF Spec, FallbackCircuitIsSpent

=============================================================================
