--------------------------- MODULE ProgressStream ---------------------------
(***************************************************************************)
(* How the events of a generation reach its user: the Redis stream the     *)
(* worker writes (services/streaming.py), the generator behind the SSE     *)
(* endpoint that reads it with XREAD, the useSSEStream hook that receives  *)
(* it over connections that break, and the workflow page on top of the     *)
(* hook (PresentationWorkflow.tsx).                                        *)
(*                                                                         *)
(* One user generates presentations one after the other.  The client is    *)
(* either the hook, which opens every connection without a Last-Event-ID,  *)
(* or one that sends the header as the endpoint documents.                 *)
(***************************************************************************)
EXTENDS Integers, Sequences

CONSTANTS
    MaxPres,     \* presentations the user asks for
    MaxEvents,   \* events before the last ones of a presentation's run
    MaxLosses,   \* connections lost by the network
    BatchSize    \* COUNT of XREAD (50 in the code)

ASSUME StreamAssumption ==
    /\ MaxPres \in Nat \ {0}
    /\ MaxEvents \in Nat
    /\ MaxLosses \in Nat
    /\ BatchSize \in Nat \ {0}

Presentations == 1..MaxPres
Terminal   == {"complete", "error"}
EventTypes == {"progress"} \cup Terminal
NoPresentation == 0

VARIABLES
    log,      \* every event ever added to the stream of a presentation; its id is its index
    base,     \* how many of them have expired with the key
    job,      \* the run of a presentation
    resumes,  \* the client sends Last-Event-ID
    conn,     \* its connection and the server's generator behind it
    events,   \* events the client has received, of all presentations
    lastId,   \* lastEventId, within the presentation it watches
    pid,      \* presentationId of the page
    page,     \* state of the page
    cancelling,   \* handleCancel awaits the DELETE request
    losses        \* used up of MaxLosses

serverVars == <<log, base, job>>
pageVars   == <<pid, page, cancelling>>
vars == <<log, base, job, resumes, conn, events, lastId, pid, page, cancelling, losses>>

(* A connection: cursor is start_id of the generator, wire the ids it has  *)
(* yielded that the client has not received.                               *)
Connection == [state: {"closed", "waiting", "open", "ended"}, cursor: Nat, wire: Seq(Nat)]
Event == [of: Presentations, id: Nat, type: EventTypes]

Closed    == [state |-> "closed", cursor |-> 0, wire |-> <<>>]
Reconnect3s == [Closed EXCEPT !.state = "waiting"]
Opened(start) == [state |-> "open", cursor |-> start, wire |-> <<>>]

TypeOK ==
    /\ log \in [Presentations -> Seq(EventTypes)]
    /\ base \in [Presentations -> Nat]
    /\ \A p \in Presentations : base[p] <= Len(log[p])
    /\ job \in [Presentations -> {"none", "running", "failing", "over"}]
    /\ resumes \in BOOLEAN
    /\ conn \in Connection
    /\ events \in Seq(Event)
    /\ lastId \in Nat
    /\ pid \in Presentations \cup {NoPresentation}
    /\ page \in {"input", "generating", "completed", "error"}
    /\ cancelling \in BOOLEAN
    /\ losses \in 0..MaxLosses

Init ==
    /\ log = [p \in Presentations |-> <<>>]
    /\ base = [p \in Presentations |-> 0]
    /\ job = [p \in Presentations |-> "none"]
    /\ resumes \in BOOLEAN
    /\ conn = Closed
    /\ events = <<>>
    /\ lastId = 0
    /\ pid = NoPresentation
    /\ page = "input"
    /\ cancelling = FALSE
    /\ losses = 0

-----------------------------------------------------------------------------
(* The stream, written by the pipeline *)

AddEvent(p, type) == log' = [log EXCEPT ![p] = Append(@, type)]

PublishProgress(p) ==
    /\ job[p] = "running"
    /\ Len(log[p]) < MaxEvents
    /\ AddEvent(p, "progress")
    /\ UNCHANGED <<base, job, resumes, conn, events, lastId, pageVars, losses>>

\* The error of a failed agent; _finalize publishes a second one.
AgentFails(p) ==
    /\ job[p] = "running"
    /\ Len(log[p]) <= MaxEvents
    /\ AddEvent(p, "error")
    /\ job' = [job EXCEPT ![p] = "failing"]
    /\ UNCHANGED <<base, resumes, conn, events, lastId, pageVars, losses>>

Finalize(p) ==
    /\ \/ job[p] = "running" /\ \E type \in Terminal : AddEvent(p, type)
       \/ job[p] = "failing" /\ AddEvent(p, "error")
    /\ job' = [job EXCEPT ![p] = "over"]
    /\ UNCHANGED <<base, resumes, conn, events, lastId, pageVars, losses>>

\* run() raises instead, in or after a failure, and the task is retried.
RunRetried(p) ==
    /\ job[p] = "failing"
    /\ job' = [job EXCEPT ![p] = "running"]
    /\ UNCHANGED <<log, base, resumes, conn, events, lastId, pageVars, losses>>

\* The task raises and no retry is left, or it is ignored as a duplicate, or
\* the publishing fails: no event says that the run is over.
EndsUnpublished(p) ==
    /\ job[p] \in {"running", "failing"}
    /\ job' = [job EXCEPT ![p] = "over"]
    /\ UNCHANGED <<log, base, resumes, conn, events, lastId, pageVars, losses>>

(* The events of p still in Redis, and whether one of them ends the stream. *)
Retained(p) == base[p] + 1 .. Len(log[p])
Over(p) == \E i \in Retained(p) : log[p][i] \in Terminal

DropEvents(p) == base' = [base EXCEPT ![p] = Len(log[p])]

\* The key expires 300 s after the last event: between two events of a slow
\* run, or after it.  Nobody waits that long for an event that ends the
\* stream: a client that lost its connection is back in 3 s.
StreamExpires(p) ==
    /\ Retained(p) # {}
    /\ ~(p = pid /\ page = "generating" /\ Over(p))
    /\ DropEvents(p)
    /\ UNCHANGED <<log, job, resumes, conn, events, lastId, pageVars, losses>>

-----------------------------------------------------------------------------
(* stream_events, the generator behind one connection *)

(* The ids XREAD returns after the cursor, cut at the first event that     *)
(* ends the stream: the generator returns when it has yielded it.          *)
Unread(cursor) == {i \in Retained(pid) : i > cursor}
Batch(cursor) ==
    {i \in Unread(cursor) :
        /\ \A k \in Unread(cursor) : k < i => log[pid][k] \notin Terminal
        /\ \A k \in Unread(cursor) : k <= i => i - k < BatchSize}

ReadFrom(cursor) ==
    \E first, last \in Batch(cursor) :
        /\ \A i \in Batch(cursor) : first <= i /\ i <= last
        /\ conn' = [state  |-> IF log[pid][last] \in Terminal THEN "ended" ELSE "open",
                    cursor |-> last,
                    wire   |-> conn.wire \o [n \in 1..last - first + 1 |-> first + n - 1]]

\* Variant: XREAD as if its start were inclusive.
ReadAgain ==
    /\ conn.state = "open"
    /\ ReadFrom(conn.cursor - 1)
    /\ UNCHANGED <<serverVars, resumes, events, lastId, pageVars, losses>>

Read ==
    /\ conn.state = "open"
    /\ ReadFrom(conn.cursor)
    /\ UNCHANGED <<serverVars, resumes, events, lastId, pageVars, losses>>

\* Nothing to read and no key: not yet written, or expired.
ReadNoKey ==
    /\ conn.state = "open"
    /\ Retained(pid) = {}
    /\ conn' = [conn EXCEPT !.state = "ended"]
    /\ UNCHANGED <<serverVars, resumes, events, lastId, pageVars, losses>>

-----------------------------------------------------------------------------
(* useSSEStream and the page *)

(* The effect of the page runs whenever the events or the presentation     *)
(* change, and looks at the last event of the list.  It overrides what the *)
(* change itself set.                                                      *)
Shown(state, seen) ==
    IF seen = <<>> THEN state
    ELSE CASE seen[Len(seen)].type = "complete" -> "completed"
           [] seen[Len(seen)].type = "error"    -> "error"
           [] OTHER                             -> state

\* Variant: a terminal event leaves the connection open.
ConnectionStays(type) == [conn EXCEPT !.wire = Tail(@)]

\* A terminal event closes the connection; the page then disables the hook.
ConnectionAfter(type) ==
    IF type \in Terminal THEN Closed ELSE [conn EXCEPT !.wire = Tail(@)]

Receive ==
    /\ conn.wire # <<>>
    /\ LET id == Head(conn.wire)
       IN /\ events' = Append(events, [of |-> pid, id |-> id, type |-> log[pid][id]])
          /\ lastId' = id
          /\ conn' = ConnectionAfter(log[pid][id])
    /\ page' = Shown(page, events')
    /\ UNCHANGED <<serverVars, resumes, pid, cancelling, losses>>

\* Variant: an error of the connection closes it for good.
ConnectionEndsForGood ==
    /\ conn.state = "ended" /\ conn.wire = <<>>
    /\ conn' = Closed
    /\ UNCHANGED <<serverVars, resumes, events, lastId, pageVars, losses>>

\* The generator has returned: onerror closes and sets the timer.
ConnectionEnds ==
    /\ conn.state = "ended" /\ conn.wire = <<>>
    /\ conn' = Reconnect3s
    /\ UNCHANGED <<serverVars, resumes, events, lastId, pageVars, losses>>

\* The network breaks the connection: what was on its way is lost.
ConnectionLost ==
    /\ conn.state \in {"open", "ended"}
    /\ losses < MaxLosses
    /\ losses' = losses + 1
    /\ conn' = Reconnect3s
    /\ UNCHANGED <<serverVars, resumes, events, lastId, pageVars>>

\* Variant: only events that are new when the connection is made.
ReconnectAtEnd ==
    /\ conn.state = "waiting"
    /\ conn' = Opened(Len(log[pid]))
    /\ UNCHANGED <<serverVars, resumes, events, lastId, pageVars, losses>>

\* The timer fires.  The hook makes a new EventSource, which has no last id.
Reconnect ==
    /\ conn.state = "waiting"
    /\ conn' = Opened(IF resumes THEN lastId ELSE 0)
    /\ UNCHANGED <<serverVars, resumes, events, lastId, pageVars, losses>>

\* handleGenerationStart: the job is queued and the hook connects.
StartGeneration(p) ==
    /\ page = "input"
    /\ job[p] = "none" /\ \A q \in Presentations : q < p => job[q] # "none"
    /\ job' = [job EXCEPT ![p] = "running"]
    /\ pid' = p
    /\ lastId' = 0
    /\ page' = Shown("generating", events)
    /\ conn' = IF page' = "generating" THEN Opened(0) ELSE Closed
    /\ UNCHANGED <<log, base, resumes, events, cancelling, losses>>

(* handleRetry: back to the form and no presentation; the effect runs only *)
(* if there was one.                                                       *)
BackToInput ==
    /\ pid' = NoPresentation
    /\ page' = IF pid = NoPresentation THEN "input" ELSE Shown("input", events)
    /\ conn' = Closed
    /\ lastId' = 0

\* "Try Again" and "Create Another"
Retry ==
    /\ page \in {"completed", "error"}
    /\ ~cancelling
    /\ BackToInput
    /\ UNCHANGED <<serverVars, resumes, events, cancelling, losses>>

\* handleCancel: cancel_stream publishes an error if the job still runs, ...
Cancel ==
    /\ page = "generating"
    /\ ~cancelling
    /\ cancelling' = TRUE
    /\ IF job[pid] \in {"running", "failing"} THEN AddEvent(pid, "error") ELSE UNCHANGED log
    /\ UNCHANGED <<base, job, resumes, conn, events, lastId, pid, page, losses>>

\* ... and the page goes back when the request returns.
CancelReturns ==
    /\ cancelling
    /\ cancelling' = FALSE
    /\ BackToInput
    /\ UNCHANGED <<serverVars, resumes, events, losses>>

-----------------------------------------------------------------------------

\* Nothing is left to do.
Settled ==
    /\ \A p \in Presentations : job[p] = "over"
    /\ page # "generating" /\ ~cancelling
    /\ UNCHANGED vars

Deliver == Read \/ ReadNoKey \/ Receive \/ ConnectionEnds \/ Reconnect

Next ==
    \/ \E p \in Presentations :
         \/ PublishProgress(p) \/ AgentFails(p) \/ Finalize(p)
         \/ RunRetried(p) \/ EndsUnpublished(p)
         \/ StreamExpires(p) \/ StartGeneration(p)
    \/ Deliver
    \/ ConnectionLost
    \/ Retry \/ Cancel \/ CancelReturns
    \/ Settled

Spec == Init /\ [][Next]_vars

(* A generator that can read does, the browser handles what arrives and    *)
(* its timers fire.  Nothing forces the run, the user, the network or the  *)
(* expiry.                                                                 *)
FairSpec == Spec /\ WF_vars(Deliver)

-----------------------------------------------------------------------------
(* Safety *)

(* A client that sends Last-Event-ID receives every event once and in      *)
(* order, over any number of connections (streaming.py 238-241, 250).      *)
ExactlyOnce ==
    resumes => \A i, k \in 1..Len(events) :
        i < k /\ events[i].of = events[k].of => events[i].id < events[k].id

(* The list of a presentation ends with the event that ended its stream:   *)
(* the page, which looks at the last event only, cannot miss it.           *)
TerminalIsLast ==
    \A i \in 1..Len(events) - 1 :
        events[i].type \in Terminal => events[i + 1].of # events[i].of

(* When the page shows the outcome of a presentation, its client has every *)
(* event up to it that Redis still has, however often the connection was   *)
(* lost (the agents and slides shown with the outcome are complete).       *)
Received(p) == {events[i].id : i \in {k \in 1..Len(events) : events[k].of = p}}
OutcomeIsWhole ==
    \A i \in 1..Len(events) : events[i].type \in Terminal =>
        \A id \in Retained(events[i].of) : id < events[i].id => id \in Received(events[i].of)

(* Liveness *)

(* Once an event that ends the stream of a presentation is published, its  *)
(* page shows a generation in progress only until it has the outcome, or   *)
(* the user goes back: whatever was lost before, and even if the generator *)
(* gave up before the first event.  (Of a run that publishes no such event *)
(* the page waits for ever, 274-284.)                                      *)
GenerationEnds ==
    \A p \in Presentations :
        page = "generating" /\ pid = p /\ Over(p) ~> page # "generating"

=============================================================================
