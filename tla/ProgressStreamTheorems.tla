----------------------- MODULE ProgressStreamTheorems -----------------------
(***************************************************************************)
(* Theorems about ProgressStream, for every number of presentations,       *)
(* events and lost connections, and every batch size.                      *)
(***************************************************************************)
EXTENDS ProgressStream, TLAPS

USE StreamAssumption

(* Sequences of ids: what the wire does. *)
LEMMA TailOfSeq ==
    ASSUME NEW s \in Seq(Nat), s # <<>>
    PROVE  /\ Head(s) \in Nat /\ Head(s) = s[1] /\ 1 \in 1..Len(s)
           /\ Tail(s) \in Seq(Nat)
           /\ Len(Tail(s)) = Len(s) - 1
           /\ \A i \in 1..Len(Tail(s)) : Tail(s)[i] = s[i + 1] /\ i + 1 \in 1..Len(s)
OBVIOUS

LEMMA ConcatOfSeqs ==
    ASSUME NEW s \in Seq(Nat), NEW t \in Seq(Nat)
    PROVE  /\ s \o t \in Seq(Nat)
           /\ Len(s \o t) = Len(s) + Len(t)
           /\ \A i \in 1..Len(s) : (s \o t)[i] = s[i]
           /\ \A i \in 1..Len(t) : (s \o t)[Len(s) + i] = t[i]
OBVIOUS

LEMMA IntervalSeq ==
    ASSUME NEW a \in Nat, NEW b \in Nat, a <= b
    PROVE  /\ [n \in 1..b - a + 1 |-> a + n - 1] \in Seq(Nat)
           /\ Len([n \in 1..b - a + 1 |-> a + n - 1]) = b - a + 1
           /\ \A n \in 1..b - a + 1 : [m \in 1..b - a + 1 |-> a + m - 1][n] = a + n - 1
<1>1. \A n \in 1..b - a + 1 : a + n - 1 \in Nat
  OBVIOUS
<1>2. b - a + 1 \in Nat
  OBVIOUS
<1> QED
  BY <1>1, <1>2

(* XREAD: the ids of a batch are consecutive, lie after the cursor and     *)
(* leave out no retained id up to the last of them.                        *)
LEMMA BatchIsInterval ==
    ASSUME TypeOK, pid \in Presentations, NEW c \in Nat,
           NEW first \in Batch(c), NEW last \in Batch(c),
           \A i \in Batch(c) : first <= i /\ i <= last
    PROVE  /\ first \in Nat /\ last \in Nat /\ c < first /\ first <= last
           /\ last <= Len(log[pid])
           /\ \A id \in Retained(pid) : c < id /\ id <= last => first <= id
<1>1. Len(log[pid]) \in Nat /\ base[pid] \in Nat
  BY DEF TypeOK
<1>2. /\ first \in Nat /\ last \in Nat /\ c < first /\ first <= last
      /\ last <= Len(log[pid])
  BY <1>1 DEF Batch, Unread, Retained
<1>3. ASSUME NEW id \in Retained(pid), c < id, id <= last
      PROVE  first <= id
  <2>1. id \in Unread(c) /\ id \in Int
    BY <1>1, <1>3 DEF Unread, Retained
  <2>2. \A k \in Unread(c) : k \in Int
    BY <1>1 DEF Unread, Retained
  <2>3. \A k \in Unread(c) : k < id => k < last
    BY <1>2, <1>3, <2>1, <2>2
  <2>4. \A k \in Unread(c) : k < id => log[pid][k] \notin Terminal
    BY <2>3 DEF Batch
  <2>5. \A k \in Unread(c) : k <= id => id - k < BatchSize
    <3>1. \A k \in Unread(c) : k <= id => k <= last /\ id - k <= last - k
      BY <1>2, <1>3, <2>1, <2>2
    <3>2. \A k \in Unread(c) : k <= last => last - k < BatchSize
      BY DEF Batch
    <3> QED
      BY <3>1, <3>2, <1>2, <2>1, <2>2
  <2>6. id \in Batch(c)
    BY <2>1, <2>4, <2>5 DEF Batch
  <2> QED
    BY <2>6
<1> QED
  BY <1>2, <1>3

-----------------------------------------------------------------------------
(* Types *)

LEMMA AddEventType ==
    ASSUME TypeOK, NEW p \in Presentations, NEW type \in EventTypes, AddEvent(p, type)
    PROVE  /\ log' \in [Presentations -> Seq(EventTypes)]
           /\ \A q \in Presentations : Len(log[q]) <= Len(log'[q])
           /\ \A q \in Presentations : base[q] <= Len(log'[q])
           /\ \A q \in Presentations : \A i \in 1..Len(log[q]) : log'[q][i] = log[q][i]
<1>1. log[p] \in Seq(EventTypes) /\ Append(log[p], type) \in Seq(EventTypes)
  BY DEF TypeOK
<1>2. log' = [log EXCEPT ![p] = Append(log[p], type)] /\ log \in [Presentations -> Seq(EventTypes)]
  BY DEF AddEvent, TypeOK
<1>3. log' \in [Presentations -> Seq(EventTypes)]
  BY <1>1, <1>2
<1>4. /\ Len(Append(log[p], type)) = Len(log[p]) + 1 /\ Len(log[p]) \in Nat
      /\ \A i \in 1..Len(log[p]) : Append(log[p], type)[i] = log[p][i]
  BY <1>1
<1>5. \A q \in Presentations : log'[q] = IF q = p THEN Append(log[p], type) ELSE log[q]
  BY <1>2
<1>6. \A q \in Presentations : Len(log[q]) \in Nat /\ base[q] \in Nat /\ base[q] <= Len(log[q])
  BY DEF TypeOK
<1>7. ASSUME NEW q \in Presentations
      PROVE  Len(log[q]) <= Len(log'[q]) /\ Len(log'[q]) \in Nat
  <2>1. CASE q = p
    <3>1. log'[q] = Append(log[p], type) /\ log[q] = log[p]
      BY <2>1, <1>5
    <3> QED
      BY <3>1, <1>4
  <2>2. CASE q # p
    <3>1. log'[q] = log[q]
      BY <2>2, <1>5
    <3> QED
      BY <3>1, <1>6
  <2> QED
    BY <2>1, <2>2
<1>8. \A q \in Presentations : base[q] <= Len(log'[q])
  BY <1>6, <1>7
<1>9. \A q \in Presentations : \A i \in 1..Len(log[q]) : log'[q][i] = log[q][i]
  BY <1>4, <1>5
<1> QED
  BY <1>3, <1>7, <1>8, <1>9

LEMMA ConnectionTypes ==
    /\ Closed \in Connection /\ Reconnect3s \in Connection
    /\ \A start \in Nat : Opened(start) \in Connection
    /\ Closed.state = "closed" /\ Closed.wire = <<>>
    /\ Reconnect3s.state = "waiting" /\ Reconnect3s.wire = <<>>
    /\ \A start \in Nat :
         /\ Opened(start).state = "open" /\ Opened(start).wire = <<>>
         /\ Opened(start).cursor = start
<1>1. <<>> \in Seq(Nat)
  OBVIOUS
<1> QED
  BY <1>1 DEF Connection, Closed, Reconnect3s, Opened

LEMMA ShownType ==
    ASSUME NEW seen, NEW state \in {"input", "generating", "completed", "error"}
    PROVE  Shown(state, seen) \in {"input", "generating", "completed", "error"}
BY DEF Shown

LEMMA ReadStep ==
    ASSUME TypeOK, pid \in Presentations, NEW c \in Nat, ReadFrom(c)
    PROVE  \E first \in Nat, last \in Nat :
             /\ c < first /\ first <= last /\ last <= Len(log[pid])
             /\ \A id \in Retained(pid) : c < id /\ id <= last => first <= id
             /\ conn' \in Connection
             /\ conn'.state \in {"open", "ended"}
             /\ conn'.cursor = last
             /\ conn'.wire = conn.wire \o [n \in 1..last - first + 1 |-> first + n - 1]
<1>1. PICK first \in Batch(c), last \in Batch(c) :
        /\ \A i \in Batch(c) : first <= i /\ i <= last
        /\ conn' = [state  |-> IF log[pid][last] \in Terminal THEN "ended" ELSE "open",
                    cursor |-> last,
                    wire   |-> conn.wire \o [n \in 1..last - first + 1 |-> first + n - 1]]
  BY DEF ReadFrom
<1>2. /\ first \in Nat /\ last \in Nat /\ c < first /\ first <= last
      /\ last <= Len(log[pid])
      /\ \A id \in Retained(pid) : c < id /\ id <= last => first <= id
  BY <1>1, BatchIsInterval
<1>3. conn.wire \in Seq(Nat)
  BY DEF TypeOK, Connection
<1>4. [n \in 1..last - first + 1 |-> first + n - 1] \in Seq(Nat)
  BY <1>2, IntervalSeq
<1>5. conn.wire \o [n \in 1..last - first + 1 |-> first + n - 1] \in Seq(Nat)
  BY <1>3, <1>4, ConcatOfSeqs
<1>6. conn' \in Connection
  BY <1>1, <1>2, <1>5 DEF Connection
<1>7. conn'.state \in {"open", "ended"}
  BY <1>1
<1> QED
  BY <1>1, <1>2, <1>6, <1>7

LEMMA InitTypeOK == Init => TypeOK
<1> SUFFICES ASSUME Init PROVE TypeOK
  OBVIOUS
<1>1. /\ log \in [Presentations -> Seq(EventTypes)] /\ base \in [Presentations -> Nat]
      /\ \A p \in Presentations : base[p] <= Len(log[p])
  BY DEF Init
<1>2. job \in [Presentations -> {"none", "running", "failing", "over"}] /\ conn \in Connection
  BY ConnectionTypes DEF Init
<1>3. events \in Seq(Event) /\ lastId \in Nat /\ losses \in 0..MaxLosses
  BY DEF Init
<1>4. /\ resumes \in BOOLEAN /\ pid \in Presentations \cup {NoPresentation}
      /\ page \in {"input", "generating", "completed", "error"} /\ cancelling \in BOOLEAN
  BY DEF Init
<1> QED
  BY <1>1, <1>2, <1>3, <1>4 DEF TypeOK

(* Connections and the page are changed by few operators; every action     *)
(* keeps the types of what it changes.                                     *)
LEMMA NextTypeOK == TypeOK /\ (pid = NoPresentation => conn.wire = <<>> /\ conn.state = "closed")
                      /\ (\A i \in 1..Len(conn.wire) : conn.wire[i] \in 1..Len(log[pid]))
                      /\ [Next]_vars => TypeOK'
<1> SUFFICES ASSUME TypeOK, pid = NoPresentation => conn.wire = <<>> /\ conn.state = "closed",
                    \A i \in 1..Len(conn.wire) : conn.wire[i] \in 1..Len(log[pid]),
                    [Next]_vars
             PROVE  TypeOK'
  OBVIOUS
<1> DEFINE LogOK  == /\ log \in [Presentations -> Seq(EventTypes)]
                     /\ base \in [Presentations -> Nat]
                     /\ \A p \in Presentations : base[p] <= Len(log[p])
           JobOK  == job \in [Presentations -> {"none", "running", "failing", "over"}]
           ConnOK == resumes \in BOOLEAN /\ conn \in Connection /\ losses \in 0..MaxLosses
           SeenOK == events \in Seq(Event) /\ lastId \in Nat
           PageOK == /\ pid \in Presentations \cup {NoPresentation}
                     /\ page \in {"input", "generating", "completed", "error"}
                     /\ cancelling \in BOOLEAN
<1>a. LogOK /\ JobOK /\ ConnOK /\ SeenOK /\ PageOK
  BY DEF TypeOK
<1>b. LogOK' /\ JobOK' /\ ConnOK' /\ SeenOK' /\ PageOK' => TypeOK'
  BY DEF TypeOK
<1>c. "progress" \in EventTypes /\ "error" \in EventTypes /\ Terminal \subseteq EventTypes
  BY DEF EventTypes, Terminal
<1> HIDE DEF LogOK, JobOK, ConnOK, SeenOK, PageOK
<1>d. ASSUME NEW p \in Presentations, NEW type \in EventTypes, AddEvent(p, type), UNCHANGED base
      PROVE  LogOK'
  BY <1>a, <1>d, AddEventType DEF LogOK
<1>e. ASSUME BackToInput
      PROVE  /\ pid' \in Presentations \cup {NoPresentation}
             /\ page' \in {"input", "generating", "completed", "error"}
             /\ conn' \in Connection /\ lastId' \in Nat
  BY <1>e, ConnectionTypes, ShownType DEF BackToInput, NoPresentation
<1>f. conn.state # "closed" \/ conn.wire # <<>> => pid \in Presentations
  BY <1>a DEF PageOK
<1>g. conn \in Connection /\ conn.cursor \in Nat /\ conn.wire \in Seq(Nat)
  BY <1>a DEF ConnOK, Connection
<1>1. ASSUME NEW p \in Presentations, PublishProgress(p) PROVE TypeOK'
  <2>1. LogOK'
    BY <1>1, <1>c, <1>d DEF PublishProgress
  <2>2. JobOK' /\ ConnOK' /\ SeenOK' /\ PageOK'
    BY <1>1, <1>a DEF PublishProgress, pageVars, JobOK, ConnOK, SeenOK, PageOK
  <2> QED
    BY <2>1, <2>2, <1>b
<1>2. ASSUME NEW p \in Presentations, AgentFails(p) PROVE TypeOK'
  <2>1. LogOK'
    BY <1>2, <1>c, <1>d DEF AgentFails
  <2>2. JobOK' /\ ConnOK' /\ SeenOK' /\ PageOK'
    BY <1>2, <1>a DEF AgentFails, pageVars, JobOK, ConnOK, SeenOK, PageOK
  <2> QED
    BY <2>1, <2>2, <1>b
<1>3. ASSUME NEW p \in Presentations, Finalize(p) PROVE TypeOK'
  <2>1. LogOK'
    BY <1>3, <1>c, <1>d DEF Finalize
  <2>2. JobOK' /\ ConnOK' /\ SeenOK' /\ PageOK'
    BY <1>3, <1>a DEF Finalize, pageVars, JobOK, ConnOK, SeenOK, PageOK
  <2> QED
    BY <2>1, <2>2, <1>b
<1>15. ASSUME NEW p \in Presentations, RunRetried(p) \/ EndsUnpublished(p) PROVE TypeOK'
  <2>1. LogOK' /\ JobOK' /\ ConnOK' /\ SeenOK' /\ PageOK'
    BY <1>15, <1>a DEF RunRetried, EndsUnpublished, pageVars, LogOK, JobOK, ConnOK, SeenOK, PageOK
  <2> QED
    BY <2>1, <1>b
<1>4. ASSUME NEW p \in Presentations, StreamExpires(p) PROVE TypeOK'
  <2>1. \A q \in Presentations : Len(log[q]) \in Nat
    BY <1>a DEF LogOK
  <2>2. LogOK'
    BY <1>4, <1>a, <2>1 DEF StreamExpires, DropEvents, LogOK
  <2>3. JobOK' /\ ConnOK' /\ SeenOK' /\ PageOK'
    BY <1>4, <1>a DEF StreamExpires, pageVars, JobOK, ConnOK, SeenOK, PageOK
  <2> QED
    BY <2>2, <2>3, <1>b
<1>5. ASSUME NEW p \in Presentations, StartGeneration(p) PROVE TypeOK'
  <2>1. page' \in {"input", "generating", "completed", "error"} /\ conn' \in Connection
    BY <1>5, ConnectionTypes, ShownType DEF StartGeneration
  <2>2. LogOK' /\ JobOK'
    BY <1>5, <1>a DEF StartGeneration, LogOK, JobOK
  <2>3. ConnOK' /\ SeenOK' /\ PageOK'
    BY <1>5, <1>a, <2>1 DEF StartGeneration, ConnOK, SeenOK, PageOK
  <2> QED
    BY <2>2, <2>3, <1>b
<1>6. ASSUME Read PROVE TypeOK'
  <2>1. conn' \in Connection
    BY <1>6, <1>f, <1>g, ReadStep DEF Read
  <2>2. LogOK' /\ JobOK' /\ ConnOK' /\ SeenOK' /\ PageOK'
    BY <1>6, <1>a, <2>1 DEF Read, serverVars, pageVars, LogOK, JobOK, ConnOK, SeenOK, PageOK
  <2> QED
    BY <2>2, <1>b
<1>7. ASSUME ReadNoKey PROVE TypeOK'
  <2>1. conn' \in Connection
    BY <1>7, <1>g DEF ReadNoKey, Connection
  <2>2. LogOK' /\ JobOK' /\ ConnOK' /\ SeenOK' /\ PageOK'
    BY <1>7, <1>a, <2>1 DEF ReadNoKey, serverVars, pageVars, LogOK, JobOK, ConnOK, SeenOK, PageOK
  <2> QED
    BY <2>2, <1>b
<1>8. ASSUME Receive PROVE TypeOK'
  <2> DEFINE id == Head(conn.wire)
  <2>1. pid \in Presentations /\ conn.wire # <<>>
    BY <1>8, <1>f DEF Receive
  <2>2. id \in Nat /\ id \in 1..Len(log[pid]) /\ Tail(conn.wire) \in Seq(Nat)
    BY <2>1, <1>g, TailOfSeq
  <2>3. log[pid][id] \in EventTypes
    <3>1. log[pid] \in Seq(EventTypes)
      BY <2>1, <1>a DEF LogOK
    <3> QED
      BY <3>1, <2>2
  <2>4. [of |-> pid, id |-> id, type |-> log[pid][id]] \in Event
    BY <2>1, <2>2, <2>3 DEF Event
  <2>5. conn' \in Connection
    <3>1. [conn EXCEPT !.wire = Tail(conn.wire)] \in Connection
      BY <2>2, <1>g DEF Connection
    <3> QED
      BY <3>1, <1>8, ConnectionTypes DEF Receive, ConnectionAfter
  <2>6. events' = Append(events, [of |-> pid, id |-> id, type |-> log[pid][id]]) /\ lastId' = id
    BY <1>8 DEF Receive
  <2>7. SeenOK'
    BY <2>2, <2>4, <2>6, <1>a DEF SeenOK
  <2>8. page' \in {"input", "generating", "completed", "error"}
    BY <1>8, <1>a, ShownType DEF Receive, PageOK
  <2>9. LogOK' /\ JobOK' /\ ConnOK' /\ PageOK'
    BY <1>8, <1>a, <2>5, <2>8 DEF Receive, serverVars, LogOK, JobOK, ConnOK, PageOK
  <2> QED
    BY <2>7, <2>9, <1>b
<1>9. ASSUME ConnectionEnds PROVE TypeOK'
  <2>1. LogOK' /\ JobOK' /\ ConnOK' /\ SeenOK' /\ PageOK'
    BY <1>9, <1>a, ConnectionTypes
    DEF ConnectionEnds, serverVars, pageVars, LogOK, JobOK, ConnOK, SeenOK, PageOK
  <2> QED
    BY <2>1, <1>b
<1>10. ASSUME Reconnect PROVE TypeOK'
  <2>1. conn' \in Connection
    BY <1>10, <1>a, ConnectionTypes DEF Reconnect, SeenOK
  <2>2. LogOK' /\ JobOK' /\ ConnOK' /\ SeenOK' /\ PageOK'
    BY <1>10, <1>a, <2>1 DEF Reconnect, serverVars, pageVars, LogOK, JobOK, ConnOK, SeenOK, PageOK
  <2> QED
    BY <2>2, <1>b
<1>11. ASSUME ConnectionLost PROVE TypeOK'
  <2>1. losses' \in 0..MaxLosses
    BY <1>11, <1>a DEF ConnectionLost, ConnOK
  <2>2. LogOK' /\ JobOK' /\ ConnOK' /\ SeenOK' /\ PageOK'
    BY <1>11, <1>a, <2>1, ConnectionTypes
    DEF ConnectionLost, serverVars, pageVars, LogOK, JobOK, ConnOK, SeenOK, PageOK
  <2> QED
    BY <2>2, <1>b
<1>12. ASSUME Retry \/ CancelReturns PROVE TypeOK'
  <2>1. LogOK' /\ JobOK' /\ ConnOK' /\ SeenOK' /\ PageOK'
    BY <1>12, <1>a, <1>e DEF Retry, CancelReturns, serverVars, LogOK, JobOK, ConnOK, SeenOK, PageOK
  <2> QED
    BY <2>1, <1>b
<1>13. ASSUME Cancel PROVE TypeOK'
  <2>1. pid \in Presentations => LogOK'
    BY <1>13, <1>a, <1>c, <1>d DEF Cancel, LogOK
  <2>2. LogOK'
    <3>1. CASE pid \in Presentations
      BY <3>1, <2>1
    <3>2. CASE pid \notin Presentations
      <4>1. log' = log \/ log' = [log EXCEPT ![pid] = Append(log[pid], "error")]
        BY <1>13 DEF Cancel, AddEvent
      <4>2. log' = log
        BY <4>1, <3>2, <1>a DEF LogOK
      <4> QED
        BY <4>2, <1>13, <1>a DEF Cancel, LogOK
    <3> QED
      BY <3>1, <3>2
  <2>3. JobOK' /\ ConnOK' /\ SeenOK' /\ PageOK'
    BY <1>13, <1>a DEF Cancel, JobOK, ConnOK, SeenOK, PageOK
  <2> QED
    BY <2>2, <2>3, <1>b
<1>14. CASE UNCHANGED vars
  <2>1. LogOK' /\ JobOK' /\ ConnOK' /\ SeenOK' /\ PageOK'
    BY <1>14, <1>a DEF vars, LogOK, JobOK, ConnOK, SeenOK, PageOK
  <2> QED
    BY <2>1, <1>b
<1> QED
  BY <1>1, <1>2, <1>3, <1>4, <1>5, <1>6, <1>7, <1>8, <1>9, <1>10, <1>11, <1>12, <1>13, <1>14, <1>15
  DEF Next, Deliver, Settled

-----------------------------------------------------------------------------
(* The invariant.  What is on the wire is increasing, after what a         *)
(* resuming client has, and no later than the cursor.                      *)

Connected == conn.state \in {"open", "ended"}
OnWire == {conn.wire[i] : i \in 1..Len(conn.wire)}

ConnInv ==
    /\ ~Connected => conn.wire = <<>>
    /\ pid = NoPresentation => conn.state = "closed"
    /\ pid # NoPresentation =>
         conn.cursor <= Len(log[pid]) /\ lastId <= Len(log[pid]) /\ job[pid] # "none"
    /\ \A i \in 1..Len(conn.wire) : conn.wire[i] \in 1..conn.cursor
    /\ \A i, k \in 1..Len(conn.wire) : i < k => conn.wire[i] < conn.wire[k]
    /\ resumes /\ Connected =>
         lastId <= conn.cursor /\ \A i \in 1..Len(conn.wire) : lastId < conn.wire[i]

SeenInv ==
    /\ \A i \in 1..Len(events) :
         job[events[i].of] # "none" /\ events[i].id <= Len(log[events[i].of])
    /\ resumes => \A i \in 1..Len(events) : events[i].of = pid => events[i].id <= lastId
    /\ events # <<>> /\ events[Len(events)].type \in Terminal /\ events[Len(events)].of = pid
         => conn.state = "closed"

(* Nothing retained is skipped, neither by a connection nor by the switch  *)
(* from one to the next.                                                   *)
WholeInv ==
    pid # NoPresentation =>
        /\ Connected => \A id \in Retained(pid) :
             id <= conn.cursor => id \in Received(pid) \/ id \in OnWire
        /\ \A id \in Retained(pid) : id <= lastId => id \in Received(pid)

DeliveryInv == ConnInv /\ SeenInv /\ WholeInv /\ ExactlyOnce /\ TerminalIsLast /\ OutcomeIsWhole

LEMMA InitDelivery == Init => DeliveryInv
<1> SUFFICES ASSUME Init PROVE DeliveryInv
  OBVIOUS
<1>1. conn.state = "closed" /\ conn.wire = <<>> /\ pid = NoPresentation /\ events = <<>>
  BY ConnectionTypes DEF Init
<1> QED
  BY <1>1 DEF DeliveryInv, ConnInv, SeenInv, WholeInv, Connected, ExactlyOnce, TerminalIsLast,
              OutcomeIsWhole

LEMMA TypeFacts ==
    ASSUME TypeOK
    PROVE  /\ \A q \in Presentations : Len(log[q]) \in Nat /\ base[q] \in Nat
           /\ lastId \in Nat /\ conn.cursor \in Nat /\ conn.wire \in Seq(Nat)
           /\ conn.state \in {"closed", "waiting", "open", "ended"}
           /\ Len(events) \in Nat
           /\ \A i \in 1..Len(events) : events[i].of \in Presentations /\ events[i].id \in Nat
           /\ pid # NoPresentation => pid \in Presentations
<1>1. \A q \in Presentations : Len(log[q]) \in Nat /\ base[q] \in Nat
  BY DEF TypeOK
<1>2. lastId \in Nat /\ conn \in Connection
  BY DEF TypeOK
<1>3. conn.cursor \in Nat /\ conn.wire \in Seq(Nat)
      /\ conn.state \in {"closed", "waiting", "open", "ended"}
  BY <1>2 DEF Connection
<1>4. Len(events) \in Nat /\ \A i \in 1..Len(events) : events[i] \in Event
  BY DEF TypeOK
<1>5. \A i \in 1..Len(events) : events[i].of \in Presentations /\ events[i].id \in Nat
  BY <1>4 DEF Event
<1>6. pid # NoPresentation => pid \in Presentations
  BY DEF TypeOK
<1> QED
  BY <1>1, <1>2, <1>3, <1>4, <1>5, <1>6

(* Steps of the server alone: streams grow, or lose their oldest events.   *)
LEMMA ServerStep ==
    ASSUME TypeOK, TypeOK', DeliveryInv, UNCHANGED <<resumes, conn, events, lastId, pid>>,
           \A q \in Presentations :
               /\ Len(log[q]) <= Len(log'[q]) /\ base[q] <= base'[q]
               /\ job[q] # "none" => job'[q] # "none"
    PROVE  DeliveryInv'
<1>1. \A q \in Presentations :
        /\ Len(log[q]) \in Nat /\ Len(log'[q]) \in Nat /\ base[q] \in Nat /\ base'[q] \in Nat
  BY DEF TypeOK
<1>2. \A q \in Presentations : \A id \in Retained(q)' : id \in Retained(q) \/ id > Len(log[q])
  BY <1>1 DEF Retained
<1>3. /\ lastId \in Nat /\ conn.cursor \in Nat
      /\ \A i \in 1..Len(events) : events[i].of \in Presentations /\ events[i].id \in Nat
      /\ pid # NoPresentation => pid \in Presentations
  BY TypeFacts
<1>4. Received(pid)' = Received(pid) /\ OnWire' = OnWire /\ Connected' = Connected
  BY DEF Received, OnWire, Connected
<1>5. ConnInv'
  <2>1. pid # NoPresentation =>
          conn.cursor <= Len(log'[pid]) /\ lastId <= Len(log'[pid]) /\ job'[pid] # "none"
    BY <1>1, <1>3 DEF DeliveryInv, ConnInv
  <2> QED
    BY <2>1 DEF DeliveryInv, ConnInv, Connected
<1>6. SeenInv'
  <2>1. ASSUME NEW i \in 1..Len(events)
        PROVE  job'[events[i].of] # "none" /\ events[i].id <= Len(log'[events[i].of])
    BY <1>1, <1>3 DEF DeliveryInv, SeenInv
  <2> QED
    BY <2>1 DEF DeliveryInv, SeenInv
<1>7. WholeInv'
  <2> SUFFICES ASSUME pid # NoPresentation
               PROVE  /\ Connected => \A id \in Retained(pid)' :
                           id <= conn.cursor => id \in Received(pid) \/ id \in OnWire
                      /\ \A id \in Retained(pid)' : id <= lastId => id \in Received(pid)
    BY <1>4 DEF WholeInv
  <2>1. \A id \in Retained(pid)' : id \in Int
    BY <1>1, <1>3 DEF Retained
  <2>2. \A id \in Retained(pid)' : id <= conn.cursor \/ id <= lastId => id \in Retained(pid)
    BY <1>1, <1>2, <1>3, <2>1 DEF DeliveryInv, ConnInv
  <2> QED
    BY <2>2 DEF DeliveryInv, WholeInv
<1>8. ExactlyOnce' /\ TerminalIsLast'
  BY DEF DeliveryInv, ExactlyOnce, TerminalIsLast
<1>9. OutcomeIsWhole'
  <2> SUFFICES ASSUME NEW i \in 1..Len(events), events[i].type \in Terminal,
                      NEW id \in Retained(events[i].of)', id < events[i].id
               PROVE  id \in Received(events[i].of)
    BY DEF OutcomeIsWhole, Received
  <2>1. id \in Int
    BY <1>1, <1>3 DEF Retained
  <2>2. id \in Retained(events[i].of)
    BY <1>1, <1>2, <1>3, <2>1 DEF DeliveryInv, SeenInv
  <2> QED
    BY <2>2 DEF DeliveryInv, OutcomeIsWhole
<1> QED
  BY <1>5, <1>6, <1>7, <1>8, <1>9 DEF DeliveryInv

(* Steps of the connection that deliver nothing to the page.               *)
LEMMA ConnStep ==
    ASSUME TypeOK, DeliveryInv, UNCHANGED <<log, base, job, resumes, events, lastId, pid>>,
           conn' \in Connection, ConnInv', conn'.state = "closed" \/ conn.state # "closed",
           pid # NoPresentation /\ Connected' => \A id \in Retained(pid) :
               id <= conn'.cursor => id \in Received(pid) \/ id \in OnWire'
    PROVE  DeliveryInv'
<1>1. \A q : Received(q)' = Received(q) /\ Retained(q)' = Retained(q)
  BY DEF Received, Retained
<1>2. SeenInv' /\ WholeInv'
  BY <1>1 DEF DeliveryInv, SeenInv, WholeInv, Connected
<1>3. ExactlyOnce' /\ TerminalIsLast' /\ OutcomeIsWhole'
  BY <1>1 DEF DeliveryInv, ExactlyOnce, TerminalIsLast, OutcomeIsWhole
<1> QED
  BY <1>2, <1>3 DEF DeliveryInv

LEMMA ReadDelivery ==
    ASSUME TypeOK, DeliveryInv, Read
    PROVE  DeliveryInv'
<1>1. /\ UNCHANGED <<log, base, job, resumes, events, lastId, pid>>
      /\ conn.state = "open" /\ conn.cursor \in Nat /\ conn.wire \in Seq(Nat)
  BY TypeFacts DEF Read, serverVars, pageVars
<1>2. pid # NoPresentation /\ pid \in Presentations
  BY <1>1, TypeFacts DEF DeliveryInv, ConnInv
<1>3. PICK first \in Nat, last \in Nat :
        /\ conn.cursor < first /\ first <= last /\ last <= Len(log[pid])
        /\ \A id \in Retained(pid) : conn.cursor < id /\ id <= last => first <= id
        /\ conn' \in Connection
        /\ conn'.state \in {"open", "ended"}
        /\ conn'.cursor = last
        /\ conn'.wire = conn.wire \o [n \in 1..last - first + 1 |-> first + n - 1]
  BY <1>1, <1>2, ReadStep DEF Read
<1>a. conn.cursor \in Nat /\ conn.cursor < first /\ first <= last
  BY <1>1, <1>3
<1> DEFINE old == conn.wire
           new == [n \in 1..last - first + 1 |-> first + n - 1]
<1>4. /\ new \in Seq(Nat) /\ Len(new) = last - first + 1
      /\ \A n \in 1..last - first + 1 : new[n] = first + n - 1
  BY <1>3, IntervalSeq
<1>b. old \in Seq(Nat) /\ new \in Seq(Nat)
  BY <1>1, <1>4
<1>c. conn'.wire = old \o new
  BY <1>3
<1>6. /\ \A i \in 1..Len(old) : old[i] \in 1..conn.cursor
      /\ \A i, k \in 1..Len(old) : i < k => old[i] < old[k]
  BY DEF DeliveryInv, ConnInv
<1> HIDE DEF old, new
<1>5. /\ old \in Seq(Nat) /\ Len(old) \in Nat /\ Len(new) \in Nat
      /\ conn'.wire = old \o new /\ Len(old \o new) = Len(old) + Len(new)
      /\ \A i \in 1..Len(old) : (old \o new)[i] = old[i]
      /\ \A i \in 1..Len(new) : (old \o new)[Len(old) + i] = new[i]
  <2>1. Len(old) \in Nat /\ Len(new) \in Nat
    BY <1>b
  <2> QED
    BY <2>1, <1>b, <1>c, ConcatOfSeqs
(* An element of the new wire was on the old one or lies in first..last.   *)
<1>7. ASSUME NEW i \in 1..Len(old \o new)
      PROVE  \/ i \in 1..Len(old) /\ (old \o new)[i] = old[i]
             \/ /\ i > Len(old) /\ i - Len(old) \in 1..Len(new)
                /\ (old \o new)[i] = first + (i - Len(old)) - 1
  <2>1. CASE i <= Len(old)
    BY <2>1, <1>5
  <2>2. CASE i > Len(old)
    <3>1. i - Len(old) \in 1..Len(new) /\ i = Len(old) + (i - Len(old))
      BY <2>2, <1>5
    <3>2. (old \o new)[i] = new[i - Len(old)]
      BY <3>1, <1>5
    <3> QED
      BY <3>1, <3>2, <2>2, <1>4
  <2> QED
    BY <2>1, <2>2, <1>5
<1>8. \A i \in 1..Len(old \o new) : (old \o new)[i] \in 1..last
  <2> SUFFICES ASSUME NEW i \in 1..Len(old \o new) PROVE (old \o new)[i] \in 1..last
    OBVIOUS
  <2>1. CASE i \in 1..Len(old) /\ (old \o new)[i] = old[i]
    BY <2>1, <1>1, <1>3, <1>6
  <2>2. CASE i - Len(old) \in 1..Len(new) /\ (old \o new)[i] = first + (i - Len(old)) - 1
    <3>1. (i - Len(old)) \in Nat /\ 1 <= i - Len(old) /\ i - Len(old) <= last - first + 1
      BY <2>2, <1>4, <1>3
    <3>2. first + (i - Len(old)) - 1 \in 1..last
      BY <3>1, <1>a
    <3> QED
      BY <2>2, <3>2
  <2> QED
    BY <2>1, <2>2, <1>7
<1>9. \A i, k \in 1..Len(old \o new) : i < k => (old \o new)[i] < (old \o new)[k]
  <2> SUFFICES ASSUME NEW i \in 1..Len(old \o new), NEW k \in 1..Len(old \o new), i < k
               PROVE  (old \o new)[i] < (old \o new)[k]
    OBVIOUS
  <2>1. CASE k \in 1..Len(old) /\ (old \o new)[k] = old[k]
    <3>1. i \in 1..Len(old) /\ (old \o new)[i] = old[i]
      BY <2>1, <1>5, <1>7
    <3> QED
      BY <2>1, <3>1, <1>6
  <2>2. CASE k > Len(old) /\ k - Len(old) \in 1..Len(new) /\ (old \o new)[k] = first + (k - Len(old)) - 1
    <3>1. CASE i \in 1..Len(old) /\ (old \o new)[i] = old[i]
      <4>1. /\ old[i] \in Int /\ old[i] <= conn.cursor
            /\ k - Len(old) \in Int /\ 1 <= k - Len(old)
        BY <2>2, <3>1, <1>5, <1>6, <1>a
      <4>2. old[i] < first + (k - Len(old)) - 1
        BY <4>1, <1>a
      <4> QED
        BY <2>2, <3>1, <4>2
    <3>2. CASE (old \o new)[i] = first + (i - Len(old)) - 1
      <4>1. i \in Int /\ k \in Int /\ Len(old) \in Int
        BY <1>5
      <4> QED
        BY <2>2, <3>2, <4>1, <1>a
    <3> QED
      BY <3>1, <3>2, <1>7
  <2> QED
    BY <2>1, <2>2, <1>7
<1>10. ConnInv'
  <2>1. Connected' /\ Connected
    BY <1>1, <1>3 DEF Connected
  <2>2. resumes => lastId <= last /\ \A i \in 1..Len(old \o new) : lastId < (old \o new)[i]
    <3> SUFFICES ASSUME resumes
                 PROVE  lastId <= last /\ \A i \in 1..Len(old \o new) : lastId < (old \o new)[i]
      OBVIOUS
    <3>1. /\ lastId \in Nat /\ lastId <= conn.cursor
          /\ \A i \in 1..Len(old) : lastId < old[i]
      BY <2>1, TypeFacts DEF DeliveryInv, ConnInv, old
    <3>2. lastId < first /\ lastId <= last
      BY <3>1, <1>1, <1>3
    <3>3. ASSUME NEW i \in 1..Len(old \o new) PROVE lastId < (old \o new)[i]
      <4>1. CASE i \in 1..Len(old) /\ (old \o new)[i] = old[i]
        BY <4>1, <3>1
      <4>2. CASE i - Len(old) \in 1..Len(new) /\ (old \o new)[i] = first + (i - Len(old)) - 1
        BY <4>2, <3>1, <3>2, <1>3, <1>4
      <4> QED
        BY <4>1, <4>2, <1>7
    <3> QED
      BY <3>2, <3>3
  <2>3. last <= Len(log[pid]) /\ lastId <= Len(log[pid]) /\ job[pid] # "none"
    BY <1>2, <1>3 DEF DeliveryInv, ConnInv
  <2> QED
    BY <1>1, <1>2, <1>3, <1>5, <1>8, <1>9, <2>1, <2>2, <2>3 DEF ConnInv
<1>11. ASSUME NEW id \in Retained(pid), id <= last
       PROVE  id \in Received(pid) \/ id \in OnWire'
  <2>1. id \in Int /\ id > 0
    BY <1>2, TypeFacts DEF Retained
  <2>2. CASE id <= conn.cursor
    <3>1. id \in Received(pid) \/ id \in OnWire
      BY <2>2, <1>1, <1>2 DEF DeliveryInv, WholeInv, Connected
    <3>2. ASSUME id \in OnWire PROVE id \in OnWire'
      <4>1. PICK i \in 1..Len(old) : id = old[i]
        BY <3>2 DEF OnWire, old
      <4>2. i \in 1..Len(old \o new) /\ (old \o new)[i] = id
        BY <4>1, <1>5
      <4> QED
        BY <4>2, <1>5 DEF OnWire
    <3> QED
      BY <3>1, <3>2
  <2>3. CASE conn.cursor < id
    <3>1. first <= id
      BY <2>3, <1>3, <1>11
    <3>2. id - first + 1 \in 1..Len(new) /\ new[id - first + 1] = id
      BY <3>1, <2>1, <1>3, <1>4, <1>11
    <3>3. /\ Len(old) + (id - first + 1) \in 1..Len(old \o new)
          /\ (old \o new)[Len(old) + (id - first + 1)] = id
      BY <3>2, <1>5
    <3> QED
      BY <3>3, <1>5 DEF OnWire
  <2> QED
    BY <2>1, <2>2, <2>3, <1>1
<1> QED
  BY <1>1, <1>3, <1>10, <1>11, ConnStep

LEMMA BreakDelivery ==
    ASSUME TypeOK, TypeOK', DeliveryInv, ConnectionEnds \/ ConnectionLost
    PROVE  DeliveryInv'
<1>1. /\ UNCHANGED <<log, base, job, resumes, events, lastId, pid>>
      /\ conn.state # "closed" /\ conn' = Reconnect3s
  BY DEF ConnectionEnds, ConnectionLost, serverVars, pageVars
<1>2. Reconnect3s.cursor = 0 /\ Reconnect3s.state = "waiting" /\ Reconnect3s.wire = <<>>
  BY DEF Reconnect3s, Closed
<1>3. pid # NoPresentation => Len(log[pid]) \in Nat
  BY TypeFacts
<1>4. ConnInv'
  BY <1>1, <1>2, <1>3 DEF DeliveryInv, ConnInv, Connected
<1>5. ~Connected'
  BY <1>1, <1>2 DEF Connected
<1> QED
  BY <1>1, <1>4, <1>5, ConnectionTypes, ConnStep

LEMMA ReadNoKeyDelivery ==
    ASSUME TypeOK, TypeOK', DeliveryInv, ReadNoKey
    PROVE  DeliveryInv'
<1>1. /\ UNCHANGED <<log, base, job, resumes, events, lastId, pid>>
      /\ conn.state = "open" /\ conn' = [conn EXCEPT !.state = "ended"] /\ Retained(pid) = {}
  BY DEF ReadNoKey, serverVars, pageVars
<1>2. conn \in Connection /\ conn' \in Connection
  BY DEF TypeOK
<1>3. conn'.state = "ended" /\ conn'.cursor = conn.cursor /\ conn'.wire = conn.wire
  BY <1>1, <1>2 DEF Connection
<1>4. ConnInv'
  BY <1>1, <1>3 DEF DeliveryInv, ConnInv, Connected
<1> QED
  BY <1>1, <1>2, <1>3, <1>4, ConnStep

(* A resuming client goes on after its last event, and WholeInv says that  *)
(* it has everything before; another one starts again before the first.    *)
LEMMA ReconnectDelivery ==
    ASSUME TypeOK, TypeOK', DeliveryInv, Reconnect
    PROVE  DeliveryInv'
<1> DEFINE start == IF resumes THEN lastId ELSE 0
<1>1. /\ UNCHANGED <<log, base, job, resumes, events, lastId, pid>>
      /\ conn.state = "waiting" /\ conn' = Opened(start)
  BY DEF Reconnect, serverVars, pageVars
<1>2. /\ start \in Nat /\ conn' \in Connection /\ conn'.state = "open"
      /\ conn'.wire = <<>> /\ conn'.cursor = start
  BY <1>1, TypeFacts, ConnectionTypes
<1>3. pid # NoPresentation /\ pid \in Presentations
  BY <1>1, TypeFacts DEF DeliveryInv, ConnInv
<1>4. start <= Len(log[pid]) /\ (resumes => lastId <= start)
  BY <1>3, TypeFacts DEF DeliveryInv, ConnInv
<1>5. ConnInv'
  BY <1>1, <1>2, <1>3, <1>4 DEF DeliveryInv, ConnInv, Connected
<1>6. \A id \in Retained(pid) : id <= start => id \in Received(pid)
  <2>1. \A id \in Retained(pid) : id \in Int /\ id > 0
    BY <1>3, TypeFacts DEF Retained
  <2> QED
    BY <1>3, <2>1 DEF DeliveryInv, WholeInv
<1> HIDE DEF start
<1> QED
  BY <1>1, <1>2, <1>5, <1>6, ConnStep

LEMMA BackDelivery ==
    ASSUME TypeOK, TypeOK', DeliveryInv, BackToInput,
           UNCHANGED <<log, base, job, resumes, events>>
    PROVE  DeliveryInv'
<1>1. pid' = NoPresentation /\ conn' = Closed
  BY DEF BackToInput
<1>2. conn'.state = "closed" /\ conn'.wire = <<>> /\ ~Connected'
  BY <1>1, ConnectionTypes DEF Connected
<1>3. ConnInv'
  BY <1>1, <1>2 DEF ConnInv
<1>4. \A i \in 1..Len(events) : events[i].of # NoPresentation
  <2>1. \A i \in 1..Len(events) : events[i].of \in 1..MaxPres
    BY TypeFacts DEF Presentations
  <2> QED
    BY <2>1 DEF NoPresentation
<1>5. SeenInv' /\ WholeInv'
  BY <1>1, <1>2, <1>4 DEF DeliveryInv, SeenInv, WholeInv
<1>6. ExactlyOnce' /\ TerminalIsLast'
  BY DEF DeliveryInv, ExactlyOnce, TerminalIsLast
<1>7. \A q : Received(q)' = Received(q) /\ Retained(q)' = Retained(q)
  BY DEF Received, Retained
<1>8. OutcomeIsWhole'
  BY <1>7 DEF DeliveryInv, OutcomeIsWhole
<1> QED
  BY <1>3, <1>5, <1>6, <1>8 DEF DeliveryInv

(* No event of a presentation exists before its generation is started.     *)
LEMMA StartDelivery ==
    ASSUME TypeOK, TypeOK', DeliveryInv, NEW p \in Presentations, StartGeneration(p)
    PROVE  DeliveryInv'
<1>1. /\ UNCHANGED <<log, base, resumes, events>>
      /\ job[p] = "none" /\ job' = [job EXCEPT ![p] = "running"] /\ pid' = p /\ lastId' = 0
      /\ conn' = Opened(0) \/ conn' = Closed
  BY DEF StartGeneration
<1>2. /\ conn'.state \in {"open", "closed"} /\ conn'.wire = <<>> /\ conn'.cursor = 0
  <2>1. Closed.state = "closed" /\ Closed.wire = <<>> /\ Closed.cursor = 0
    BY DEF Closed
  <2>2. Opened(0).state = "open" /\ Opened(0).wire = <<>> /\ Opened(0).cursor = 0
    BY DEF Opened
  <2> QED
    BY <1>1, <2>1, <2>2
<1>3. /\ \A q \in Presentations : job'[q] = IF q = p THEN "running" ELSE job[q]
      /\ p # NoPresentation
  BY <1>1 DEF TypeOK, Presentations, NoPresentation
<1>4. \A i \in 1..Len(events) : events[i].of \in Presentations /\ events[i].of # p
  BY <1>1, TypeFacts DEF DeliveryInv, SeenInv
<1>5. ConnInv'
  <2>1. Len(log[p]) \in Nat
    BY TypeFacts
  <2> QED
    BY <1>1, <1>2, <1>3, <2>1 DEF ConnInv, Connected
<1>6. SeenInv'
  <2>1. Len(events) \in Nat /\ (events # <<>> => Len(events) \in 1..Len(events))
    BY DEF TypeOK
  <2> QED
    BY <1>1, <1>3, <1>4, <2>1 DEF DeliveryInv, SeenInv
<1>7. \A id \in Retained(p) : id \in Int /\ id > 0
  BY TypeFacts DEF Retained
<1>8. WholeInv'
  BY <1>1, <1>2, <1>7 DEF WholeInv, Retained
<1>9. ExactlyOnce' /\ TerminalIsLast'
  BY <1>1 DEF DeliveryInv, ExactlyOnce, TerminalIsLast
<1>10. \A q : Received(q)' = Received(q) /\ Retained(q)' = Retained(q)
  BY <1>1 DEF Received, Retained
<1>11. OutcomeIsWhole'
  BY <1>1, <1>10 DEF DeliveryInv, OutcomeIsWhole
<1> QED
  BY <1>5, <1>6, <1>8, <1>9, <1>11 DEF DeliveryInv

(* The event at the head of the wire is later than every one received on   *)
(* the connection, and everything retained before it has been received.    *)
LEMMA ReceiveDelivery ==
    ASSUME TypeOK, TypeOK', DeliveryInv, Receive
    PROVE  DeliveryInv'
<1> DEFINE id == Head(conn.wire)
           e  == [of |-> pid, id |-> id, type |-> log[pid][id]]
           n  == Len(events)
<1>1. /\ UNCHANGED <<log, base, job, resumes, pid>>
      /\ conn.wire # <<>> /\ events' = Append(events, e) /\ lastId' = id
      /\ conn' = Closed \/ conn' = [conn EXCEPT !.wire = Tail(conn.wire)]
      /\ e.type \in Terminal => conn' = Closed
  BY DEF Receive, serverVars, ConnectionAfter
<1>2. Connected /\ conn.state # "closed" /\ pid # NoPresentation /\ pid \in Presentations
  BY <1>1, TypeFacts DEF DeliveryInv, ConnInv, Connected
<1>3. /\ id \in Nat /\ id = conn.wire[1] /\ 1 \in 1..Len(conn.wire)
      /\ Tail(conn.wire) \in Seq(Nat) /\ Len(Tail(conn.wire)) = Len(conn.wire) - 1
      /\ \A i \in 1..Len(Tail(conn.wire)) :
           Tail(conn.wire)[i] = conn.wire[i + 1] /\ i + 1 \in 1..Len(conn.wire)
  BY <1>1, TypeFacts, TailOfSeq
<1>4. /\ \A i \in 1..Len(conn.wire) : conn.wire[i] \in 1..conn.cursor
      /\ \A i, k \in 1..Len(conn.wire) : i < k => conn.wire[i] < conn.wire[k]
      /\ conn.cursor \in Nat /\ conn.cursor <= Len(log[pid]) /\ Len(log[pid]) \in Nat
      /\ lastId \in Nat
  BY <1>2, TypeFacts DEF DeliveryInv, ConnInv
<1>5. id \in 1..conn.cursor /\ id <= Len(log[pid])
  BY <1>3, <1>4
<1>6. \A i \in 1..Len(Tail(conn.wire)) : id < Tail(conn.wire)[i]
  <2> SUFFICES ASSUME NEW i \in 1..Len(Tail(conn.wire)) PROVE id < Tail(conn.wire)[i]
    OBVIOUS
  <2>1. 1 < i + 1 /\ i + 1 \in 1..Len(conn.wire)
    BY <1>3
  <2> QED
    BY <2>1, <1>3, <1>4
<1>7. /\ n \in Nat /\ Len(events') = n + 1 /\ events'[n + 1] = e
      /\ \A i \in 1..n : events'[i] = events[i]
  <2>1. events \in Seq(Event)
    BY DEF TypeOK
  <2> QED
    BY <1>1, <2>1
<1>8. e.of = pid /\ e.id = id
  OBVIOUS
<1>9. \A i \in 1..n + 1 : (i \in 1..n /\ events'[i] = events[i]) \/ (i = n + 1 /\ events'[i] = e)
  BY <1>7
<1> HIDE DEF e, n
<1>10. /\ Closed.state = "closed" /\ Closed.wire = <<>> /\ Closed.cursor = 0
       /\ (\/ conn' = Closed
           \/ (conn'.state = conn.state /\ conn'.cursor = conn.cursor /\ conn'.wire = Tail(conn.wire)))
  <2>1. conn \in Connection
    BY DEF TypeOK
  <2>2. /\ [conn EXCEPT !.wire = Tail(conn.wire)].state = conn.state
        /\ [conn EXCEPT !.wire = Tail(conn.wire)].cursor = conn.cursor
        /\ [conn EXCEPT !.wire = Tail(conn.wire)].wire = Tail(conn.wire)
    BY <2>1 DEF Connection
  <2>3. Closed.state = "closed" /\ Closed.wire = <<>> /\ Closed.cursor = 0
    BY DEF Closed
  <2> QED
    BY <1>1, <2>2, <2>3
<1>11. ConnInv'
  <2>1. \A i \in 1..Len(Tail(conn.wire)) : Tail(conn.wire)[i] \in 1..conn.cursor
    BY <1>3, <1>4
  <2>2. \A i, k \in 1..Len(Tail(conn.wire)) : i < k => Tail(conn.wire)[i] < Tail(conn.wire)[k]
    <3> SUFFICES ASSUME NEW i \in 1..Len(Tail(conn.wire)), NEW k \in 1..Len(Tail(conn.wire)), i < k
                 PROVE  Tail(conn.wire)[i] < Tail(conn.wire)[k]
      OBVIOUS
    <3>1. i + 1 < k + 1
      BY <1>3
    <3> QED
      BY <3>1, <1>3, <1>4
  <2>3. job[pid] # "none"
    BY <1>2 DEF DeliveryInv, ConnInv
  <2>4. CASE conn' = Closed
    BY <2>3, <2>4, <1>1, <1>2, <1>4, <1>5, <1>10 DEF ConnInv, Connected
  <2>5. CASE conn'.state = conn.state /\ conn'.cursor = conn.cursor /\ conn'.wire = Tail(conn.wire)
    BY <2>1, <2>2, <2>3, <2>5, <1>1, <1>2, <1>4, <1>5, <1>6 DEF ConnInv, Connected
  <2> QED
    BY <2>4, <2>5, <1>10
<1>12. \A i \in 1..n : resumes /\ events[i].of = pid => events[i].id < id
  <2>1. resumes => lastId < id
    BY <1>2, <1>3 DEF DeliveryInv, ConnInv
  <2>2. \A i \in 1..n : events[i].id \in Nat
    BY TypeFacts DEF n
  <2>3. \A i \in 1..n : resumes /\ events[i].of = pid => events[i].id <= lastId
    BY DEF DeliveryInv, SeenInv, n
  <2> QED
    BY <2>1, <2>2, <2>3, <1>3, <1>4
<1>13. SeenInv'
  <2>1. \A i \in 1..n + 1 : job[events'[i].of] # "none" /\ events'[i].id <= Len(log[events'[i].of])
    <3>1. \A i \in 1..n : job[events[i].of] # "none" /\ events[i].id <= Len(log[events[i].of])
      BY DEF DeliveryInv, SeenInv, n
    <3>2. job[e.of] # "none" /\ e.id <= Len(log[e.of])
      BY <1>2, <1>5, <1>8 DEF DeliveryInv, ConnInv
    <3> QED
      BY <3>1, <3>2, <1>9
  <2>2. resumes => \A i \in 1..n + 1 : events'[i].of = pid => events'[i].id <= id
    <3>1. \A i \in 1..n : events[i].id \in Nat
      BY TypeFacts DEF n
    <3> QED
      BY <3>1, <1>3, <1>8, <1>9, <1>12
  <2>3. events'[n + 1].type \in Terminal => conn'.state = "closed"
    BY <1>1, <1>7, <1>10
  <2> QED
    BY <2>1, <2>2, <2>3, <1>1, <1>7 DEF SeenInv
<1> DEFINE Rec(q) == {events'[i].id : i \in {k \in 1..Len(events') : events'[k].of = q}}
<1>14. /\ \A q : Received(q) \subseteq Rec(q)
       /\ id \in Rec(pid)
  <2>1. ASSUME NEW q, NEW x \in Received(q) PROVE x \in Rec(q)
    <3>1. PICK i \in 1..n : events[i].of = q /\ x = events[i].id
      BY DEF Received, n
    <3>2. i \in 1..Len(events') /\ events'[i].of = q /\ x = events'[i].id
      BY <3>1, <1>7
    <3> QED
      BY <3>2
  <2>2. n + 1 \in 1..Len(events') /\ events'[n + 1].of = pid /\ events'[n + 1].id = id
    BY <1>7, <1>8
  <2> QED
    BY <2>1, <2>2
<1> HIDE DEF Rec
<1>r. Received(pid)' = Rec(pid)
  BY <1>1, <1>7 DEF Received, Rec
<1>15. \A x \in Retained(pid) : x <= id => x \in Rec(pid)
  <2> SUFFICES ASSUME NEW x \in Retained(pid), x <= id PROVE x \in Rec(pid)
    OBVIOUS
  <2>1. x \in Int
    BY <1>2, TypeFacts DEF Retained
  <2>2. x \in Received(pid) \/ x \in OnWire
    BY <2>1, <1>2, <1>4, <1>5 DEF DeliveryInv, WholeInv
  <2>3. ASSUME x \in OnWire PROVE x = id
    <3>1. PICK i \in 1..Len(conn.wire) : x = conn.wire[i]
      BY <2>3 DEF OnWire
    <3>2. i = 1 \/ 1 < i
      BY <3>1
    <3> QED
      BY <3>1, <3>2, <2>1, <1>3, <1>4
  <2> QED
    BY <2>2, <2>3, <1>14
<1>16. WholeInv'
  <2>1. Retained(pid)' = Retained(pid)
    BY <1>1 DEF Retained
  <2>2. ASSUME Connected', NEW x \in Retained(pid), x <= conn'.cursor
        PROVE  x \in Rec(pid) \/ x \in OnWire'
    <3>1. conn'.cursor = conn.cursor /\ conn'.wire = Tail(conn.wire)
      BY <2>2, <1>10 DEF Connected
    <3>2. x \in Received(pid) \/ x \in OnWire
      BY <2>2, <3>1, <1>2 DEF DeliveryInv, WholeInv
    <3>3. ASSUME x \in OnWire PROVE x = id \/ x \in OnWire'
      <4>1. PICK i \in 1..Len(conn.wire) : x = conn.wire[i]
        BY <3>3 DEF OnWire
      <4>2. CASE i = 1
        BY <4>1, <4>2, <1>3
      <4>3. CASE i # 1
        <5>1. i - 1 \in 1..Len(Tail(conn.wire)) /\ (i - 1) + 1 = i
          BY <4>3, <1>3
        <5>2. Tail(conn.wire)[i - 1] = x
          BY <5>1, <4>1, <1>3
        <5> QED
          BY <5>1, <5>2, <3>1 DEF OnWire
      <4> QED
        BY <4>2, <4>3
    <3> QED
      BY <3>2, <3>3, <1>14
  <2> QED
    BY <2>1, <2>2, <1>1, <1>r, <1>15 DEF WholeInv
<1>17. ExactlyOnce'
  <2>1. \A i, k \in 1..n : resumes /\ i < k /\ events[i].of = events[k].of => events[i].id < events[k].id
    BY DEF DeliveryInv, ExactlyOnce, n
  <2> SUFFICES ASSUME resumes, NEW i \in 1..n + 1, NEW k \in 1..n + 1, i < k,
                      events'[i].of = events'[k].of
               PROVE  events'[i].id < events'[k].id
    BY <1>1, <1>7 DEF ExactlyOnce
  <2>2. i \in 1..n /\ events'[i] = events[i]
    BY <1>7
  <2>3. CASE k \in 1..n /\ events'[k] = events[k]
    BY <2>1, <2>2, <2>3
  <2>4. CASE events'[k] = e
    BY <2>2, <2>4, <1>8, <1>12
  <2> QED
    BY <2>3, <2>4, <1>9
<1>18. TerminalIsLast'
  <2>1. \A i \in 1..n - 1 : events[i].type \in Terminal => events[i + 1].of # events[i].of
    BY DEF DeliveryInv, TerminalIsLast, n
  <2>2. n > 0 /\ events[n].type \in Terminal => events[n].of # pid
    <3>1. n > 0 => events # <<>>
      BY DEF n
    <3> QED
      BY <3>1, <1>2 DEF DeliveryInv, SeenInv, n
  <2> SUFFICES ASSUME NEW i \in 1..n, events'[i].type \in Terminal
               PROVE  events'[i + 1].of # events'[i].of
    BY <1>7 DEF TerminalIsLast
  <2>3. events'[i] = events[i] /\ i \in Int
    BY <1>7
  <2>4. CASE i = n
    BY <2>2, <2>3, <2>4, <1>7, <1>8
  <2>5. CASE i # n
    <3>1. i \in 1..n - 1 /\ i + 1 \in 1..n
      BY <2>5, <1>7
    <3> QED
      BY <3>1, <2>1, <2>3, <1>7
  <2> QED
    BY <2>4, <2>5
<1>19. OutcomeIsWhole'
  <2>1. log' = log /\ base' = base /\ Len(events') = n + 1
    BY <1>1, <1>7
  <2>2. \A i \in 1..n : events[i].type \in Terminal =>
          \A x \in Retained(events[i].of) : x < events[i].id => x \in Received(events[i].of)
    BY DEF DeliveryInv, OutcomeIsWhole, n
  <2>3. ASSUME NEW i \in 1..Len(events'), events'[i].type \in Terminal,
               NEW x \in Retained(events'[i].of), x < events'[i].id
        PROVE  x \in Rec(events'[i].of)
    <3>1. CASE i \in 1..n /\ events'[i] = events[i]
      BY <2>2, <2>3, <3>1, <1>14
    <3>2. CASE events'[i] = e
      <4>1. x \in Retained(pid) /\ x < id
        BY <2>3, <3>2, <1>8
      <4>2. x \in Int
        BY <4>1, <1>2, TypeFacts DEF Retained
      <4> QED
        BY <4>1, <4>2, <3>2, <1>3, <1>8, <1>15
    <3> QED
      BY <2>1, <3>1, <3>2, <1>9
  <2>4. \A i \in 1..Len(events') : events'[i].type \in Terminal =>
          \A x \in Retained(events'[i].of) : x < events'[i].id => x \in Rec(events'[i].of)
    BY <2>3
  <2> QED
    BY <2>1, <2>4 DEF OutcomeIsWhole, Received, Retained, Rec
<1> QED
  BY <1>11, <1>13, <1>16, <1>17, <1>18, <1>19 DEF DeliveryInv

(* A step of the server that appends one event. *)
LEMMA AppendDelivery ==
    ASSUME TypeOK, TypeOK', DeliveryInv, NEW p \in Presentations, NEW type \in EventTypes,
           AddEvent(p, type), UNCHANGED <<base, resumes, conn, events, lastId, pid>>,
           \A q \in Presentations : job[q] # "none" => job'[q] # "none"
    PROVE  DeliveryInv'
<1>1. \A q \in Presentations : Len(log[q]) <= Len(log'[q])
  BY AddEventType
<1>2. \A q \in Presentations : base[q] <= base'[q]
  BY TypeFacts
<1> QED
  BY <1>1, <1>2, ServerStep

LEMMA NextDelivery == TypeOK /\ TypeOK' /\ DeliveryInv /\ [Next]_vars => DeliveryInv'
<1> SUFFICES ASSUME TypeOK, TypeOK', DeliveryInv, [Next]_vars PROVE DeliveryInv'
  OBVIOUS
<1>a. "progress" \in EventTypes /\ "error" \in EventTypes /\ Terminal \subseteq EventTypes
  BY DEF EventTypes, Terminal
<1>b. \A q \in Presentations : Len(log[q]) \in Nat /\ base[q] \in Nat
  BY TypeFacts
<1>1. ASSUME NEW p \in Presentations, PublishProgress(p) PROVE DeliveryInv'
  BY <1>1, <1>a, AppendDelivery DEF PublishProgress, pageVars
<1>2. ASSUME NEW p \in Presentations, AgentFails(p) PROVE DeliveryInv'
  <2>1. \A q \in Presentations : job[q] # "none" => job'[q] # "none"
    BY <1>2 DEF AgentFails, TypeOK
  <2> QED
    BY <1>2, <1>a, <2>1, AppendDelivery DEF AgentFails, pageVars
<1>3. ASSUME NEW p \in Presentations, Finalize(p) PROVE DeliveryInv'
  <2>1. \A q \in Presentations : job[q] # "none" => job'[q] # "none"
    BY <1>3 DEF Finalize, TypeOK
  <2>2. \E type \in EventTypes : AddEvent(p, type)
    BY <1>3, <1>a DEF Finalize
  <2> QED
    BY <1>3, <2>1, <2>2, AppendDelivery DEF Finalize, pageVars
<1>10. ASSUME NEW p \in Presentations, RunRetried(p) \/ EndsUnpublished(p) PROVE DeliveryInv'
  <2>1. \A q \in Presentations : job[q] # "none" => job'[q] # "none"
    BY <1>10 DEF RunRetried, EndsUnpublished, TypeOK
  <2>2. UNCHANGED <<log, base, resumes, conn, events, lastId, pid>>
    BY <1>10 DEF RunRetried, EndsUnpublished, pageVars
  <2> QED
    BY <2>1, <2>2, <1>b, ServerStep
<1>4. ASSUME NEW p \in Presentations, StreamExpires(p) PROVE DeliveryInv'
  <2>1. UNCHANGED <<log, job, resumes, conn, events, lastId, pid>>
    BY <1>4 DEF StreamExpires, pageVars
  <2>2. ASSUME NEW q \in Presentations PROVE base[q] <= base'[q]
    <3>1. base' = [base EXCEPT ![p] = Len(log[p])] /\ base[q] <= Len(log[q])
          /\ base \in [Presentations -> Nat]
      BY <1>4 DEF StreamExpires, DropEvents, TypeOK
    <3>2. base'[q] = IF q = p THEN Len(log[p]) ELSE base[q]
      BY <3>1
    <3> QED
      BY <3>1, <3>2, <1>b
  <2> QED
    BY <2>1, <2>2, <1>b, ServerStep
<1>5. ASSUME NEW p \in Presentations, StartGeneration(p) PROVE DeliveryInv'
  BY <1>5, StartDelivery
<1>6. ASSUME Deliver \/ ConnectionLost PROVE DeliveryInv'
  BY <1>6, ReadDelivery, ReadNoKeyDelivery, ReceiveDelivery, BreakDelivery, ReconnectDelivery
  DEF Deliver
<1>7. ASSUME Retry \/ CancelReturns PROVE DeliveryInv'
  BY <1>7, BackDelivery DEF Retry, CancelReturns, serverVars
<1>8. ASSUME Cancel PROVE DeliveryInv'
  <2>1. CASE UNCHANGED log
    BY <1>8, <2>1, <1>b, ServerStep DEF Cancel
  <2>2. CASE job[pid] \in {"running", "failing"} /\ AddEvent(pid, "error")
    <3>1. CASE pid \in Presentations
      BY <1>8, <2>2, <3>1, <1>a, AppendDelivery DEF Cancel
    <3>2. CASE pid \notin Presentations
      <4>1. log' = log
        BY <2>2, <3>2 DEF AddEvent, TypeOK
      <4> QED
        BY <1>8, <4>1, <1>b, ServerStep DEF Cancel
    <3> QED
      BY <3>1, <3>2
  <2> QED
    BY <1>8, <2>1, <2>2 DEF Cancel
<1>9. CASE UNCHANGED vars
  BY <1>9, <1>b, ServerStep DEF vars
<1> QED
  BY <1>1, <1>2, <1>3, <1>4, <1>5, <1>6, <1>7, <1>8, <1>9, <1>10 DEF Next, Settled

-----------------------------------------------------------------------------
(* The theorems.  Types and delivery are one invariant: the type of what   *)
(* is received depends on the ids on the wire being ids of the stream.     *)
StreamInv == TypeOK /\ DeliveryInv

LEMMA NextStreamInv == StreamInv /\ [Next]_vars => StreamInv'
<1> SUFFICES ASSUME TypeOK, DeliveryInv, [Next]_vars PROVE TypeOK' /\ DeliveryInv'
  BY DEF StreamInv
<1>1. pid = NoPresentation => conn.wire = <<>> /\ conn.state = "closed"
  BY DEF DeliveryInv, ConnInv, Connected
<1>2. \A i \in 1..Len(conn.wire) : conn.wire[i] \in 1..Len(log[pid])
  <2>1. CASE pid = NoPresentation
    BY <2>1, <1>1
  <2>2. CASE pid # NoPresentation
    <3>1. Len(log[pid]) \in Nat /\ conn.cursor \in Nat /\ conn.cursor <= Len(log[pid])
      BY <2>2, TypeFacts DEF DeliveryInv, ConnInv
    <3>2. \A i \in 1..Len(conn.wire) : conn.wire[i] \in 1..conn.cursor
      BY DEF DeliveryInv, ConnInv
    <3> QED
      BY <3>1, <3>2
  <2> QED
    BY <2>1, <2>2
<1>3. TypeOK'
  BY <1>1, <1>2, NextTypeOK
<1> QED
  BY <1>3, NextDelivery

LEMMA StreamInvariant == Spec => []StreamInv
<1>1. Init => StreamInv
  BY InitTypeOK, InitDelivery DEF StreamInv
<1> QED
  BY <1>1, NextStreamInv, PTL DEF Spec

(* Every state of the stream, the connection and the page has its type.    *)
THEOREM StreamTypeCorrect == Spec => []TypeOK
<1>1. StreamInv => TypeOK
  BY DEF StreamInv
<1> QED
  BY <1>1, StreamInvariant, PTL

(* A client that sends Last-Event-ID receives every event of a generation  *)
(* at most once and in order (stream_events and its start_id).             *)
THEOREM ResumedExactlyOnce == Spec => []ExactlyOnce
<1>1. StreamInv => ExactlyOnce
  BY DEF StreamInv, DeliveryInv
<1> QED
  BY <1>1, StreamInvariant, PTL

(* No event of the same presentation follows the one that ended its stream,*)
(* whatever connection it comes on (the generator returns, the hook closes).*)
THEOREM TerminalComesLast == Spec => []TerminalIsLast
<1>1. StreamInv => TerminalIsLast
  BY DEF StreamInv, DeliveryInv
<1> QED
  BY <1>1, StreamInvariant, PTL

(* A client that has received an outcome has received every earlier event  *)
(* Redis still keeps, however many connections it took.                    *)
THEOREM OutcomesAreWhole == Spec => []OutcomeIsWhole
<1>1. StreamInv => OutcomeIsWhole
  BY DEF StreamInv, DeliveryInv
<1> QED
  BY <1>1, StreamInvariant, PTL

=============================================================================
