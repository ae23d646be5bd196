------------------------- MODULE ExportViewsTheorems -------------------------
(***************************************************************************)
(* Theorems about the side tasks and the views of one presentation         *)
(* (SideTasks, ExportViews), for every number of tasks, generations,       *)
(* requests and crashes and every lifetime of the entry of the preview.    *)
(***************************************************************************)
EXTENDS ExportViews, TLAPS

USE SideTasksAssumption, ExportViewsAssumption

AnyDeck == [no : Nat, whole : BOOLEAN]
Phases == {"none", "queued", "ignored", "over"} \cup AtWorker
Results == {"PENDING", "RETRY", "SUCCESS", "FAILURE"}
Job == [kind : {"none", "export", "slide"}, key : Jobs \cup {NoJob}, at : Nat,
        phase : Phases, tries : Nat, result : Results, deck : AnyDeck]
Request == [kind : {"none", "file", "images", "pdf"},
            phase : {"none", "building", "rendering", "uploaded", "answered", "refused"},
            shown : SUBSET AnyDeck, at : Nat]

TasksTyped ==
  /\ jobs \in [Jobs -> Job]
  /\ keys \in [Jobs -> Jobs \cup {NoJob}]
  /\ files \in [Jobs -> AnyDeck]

RowTyped ==
  /\ status \in {"queued", "processing", "completed", "failed"}
  /\ deck \in AnyDeck /\ replaced \in Seq(Nat)
  /\ gens \in [Gens -> {"none", "queued", "running", "completed", "failed", "done"}]
  /\ doubled \in BOOLEAN
  /\ asked \in Nat /\ crashes \in Nat /\ now \in Nat

ViewsTyped ==
  /\ reqs \in [Requests -> Request]
  /\ pdf \in SUBSET AnyDeck /\ cached \in Nat

TypeOK == RowTyped /\ TasksTyped /\ ViewsTyped

-----------------------------------------------------------------------------
(* What the steps do, in the terms the invariants are about *)

(* Of the jobs, one is now in this phase, with this result and this deck.  *)
JobIs(j, phase, result, d) ==
  /\ jobs' \in [Jobs -> Job]
  /\ jobs'[j].phase = phase /\ jobs'[j].result = result /\ jobs'[j].deck = d
  /\ \A i \in Jobs \ {j} : jobs'[i] = jobs[i]

LEMMA JobMoves ==
    ASSUME TasksTyped, NEW j \in Jobs, NEW p \in Phases, NEW x \in Results, NEW d \in AnyDeck
    PROVE  /\ jobs' = [jobs EXCEPT ![j].phase = p] => JobIs(j, p, jobs[j].result, jobs[j].deck)
           /\ jobs' = [jobs EXCEPT ![j].phase = p, ![j].deck = d] => JobIs(j, p, jobs[j].result, d)
           /\ jobs' = [jobs EXCEPT ![j].phase = p, ![j].result = x] => JobIs(j, p, x, jobs[j].deck)
           /\ jobs' = [jobs EXCEPT ![j].phase = p, ![j].result = x, ![j].deck = d] => JobIs(j, p, x, d)
           /\ jobs' = [jobs EXCEPT ![j].phase = p, ![j].result = x, ![j].tries = @ + 1] => JobIs(j, p, x, jobs[j].deck)
<1>1. jobs \in [Jobs -> Job] /\ jobs[j] \in Job
  BY DEF TasksTyped
<1>2. ASSUME NEW rec \in Job, jobs' = [jobs EXCEPT ![j] = rec]
      PROVE  JobIs(j, rec.phase, rec.result, rec.deck)
  BY <1>1, <1>2 DEF JobIs
<1>3. ASSUME jobs' = [jobs EXCEPT ![j].phase = p] PROVE JobIs(j, p, jobs[j].result, jobs[j].deck)
  <2> DEFINE moved == [jobs[j] EXCEPT !.phase = p]
  <2>1. moved \in Job /\ moved.phase = p /\ moved.result = jobs[j].result /\ moved.deck = jobs[j].deck
    BY <1>1 DEF Job
  <2>2. jobs' = [jobs EXCEPT ![j] = moved]
    BY <1>3
  <2> QED
    BY <1>2, <2>1, <2>2
<1>4. ASSUME jobs' = [jobs EXCEPT ![j].phase = p, ![j].deck = d] PROVE JobIs(j, p, jobs[j].result, d)
  <2> DEFINE moved == [jobs[j] EXCEPT !.phase = p, !.deck = d]
  <2>1. moved \in Job /\ moved.phase = p /\ moved.result = jobs[j].result /\ moved.deck = d
    BY <1>1 DEF Job
  <2>2. jobs' = [jobs EXCEPT ![j] = moved]
    BY <1>4
  <2> QED
    BY <1>2, <2>1, <2>2
<1>5. ASSUME jobs' = [jobs EXCEPT ![j].phase = p, ![j].result = x] PROVE JobIs(j, p, x, jobs[j].deck)
  <2> DEFINE moved == [jobs[j] EXCEPT !.phase = p, !.result = x]
  <2>1. moved \in Job /\ moved.phase = p /\ moved.result = x /\ moved.deck = jobs[j].deck
    BY <1>1 DEF Job
  <2>2. jobs' = [jobs EXCEPT ![j] = moved]
    BY <1>5
  <2> QED
    BY <1>2, <2>1, <2>2
<1>6. ASSUME jobs' = [jobs EXCEPT ![j].phase = p, ![j].result = x, ![j].deck = d] PROVE JobIs(j, p, x, d)
  <2> DEFINE moved == [jobs[j] EXCEPT !.phase = p, !.result = x, !.deck = d]
  <2>1. moved \in Job /\ moved.phase = p /\ moved.result = x /\ moved.deck = d
    BY <1>1 DEF Job
  <2>2. jobs' = [jobs EXCEPT ![j] = moved]
    BY <1>6
  <2> QED
    BY <1>2, <2>1, <2>2
<1>7. ASSUME jobs' = [jobs EXCEPT ![j].phase = p, ![j].result = x, ![j].tries = @ + 1] PROVE JobIs(j, p, x, jobs[j].deck)
  <2> DEFINE moved == [jobs[j] EXCEPT !.phase = p, !.result = x, !.tries = jobs[j].tries + 1]
  <2>0. jobs[j].tries \in Nat /\ jobs[j].tries + 1 \in Nat
    BY <1>1 DEF Job
  <2>1. moved \in Job /\ moved.phase = p /\ moved.result = x /\ moved.deck = jobs[j].deck
    BY <1>1, <2>0 DEF Job
  <2>2. jobs' = [jobs EXCEPT ![j] = moved]
    BY <1>7
  <2> QED
    BY <1>2, <2>1, <2>2
<1> QED
  BY <1>3, <1>4, <1>5, <1>6, <1>7

(* What a step of a worker does, as far as the invariants can tell: it moves *)
(* one job that is not over, changes the status only when that job is over  *)
(* for good, builds the deck of a completed presentation and leaves in its  *)
(* file the deck it has built.                                              *)
JobStep(j) ==
  /\ jobs' \in [Jobs -> Job] /\ files' \in [Jobs -> AnyDeck]
  /\ \A i \in Jobs \ {j} : jobs'[i] = jobs[i] /\ files'[i] = files[i]
  /\ jobs[j].phase \in AtWorker \cup {"queued"}
  /\ jobs'[j].phase = "failing" => jobs'[j].result = "FAILURE"
  /\ \/ status' = status
     \/ /\ status' = "failed"
        /\ jobs[j].phase = "failing" /\ jobs'[j].phase = "over"
        /\ jobs'[j].result = jobs[j].result
  /\ jobs'[j].phase \in {"building", "built"} =>
       \/ jobs[j].phase \in {"building", "built"} /\ jobs'[j].deck = jobs[j].deck
       \/ status = "completed" /\ jobs'[j].deck = deck
  /\ jobs'[j].phase = "uploaded" \/ jobs'[j].result = "SUCCESS" =>
       \/ jobs[j].phase = "built" /\ files'[j] = jobs[j].deck
       \/ /\ jobs[j].phase = "uploaded" \/ jobs[j].result = "SUCCESS"
          /\ files'[j] = files[j]
  /\ UNCHANGED <<deck, replaced, gens, doubled, now>>

LEMMA JobSteps ==
    ASSUME TasksTyped, RowTyped, NEW j \in Jobs, Work(j) \/ Faults(j)
    PROVE  JobStep(j)
<1> USE DEF presentation, runs, counters, Phases, Results, AtWorker
<1>1. /\ jobs[j] \in Job /\ files \in [Jobs -> AnyDeck]
      /\ jobs[j].result \in Results /\ jobs[j].deck \in AnyDeck
  BY DEF TasksTyped, Job
<1>2. NoDeck \in AnyDeck /\ deck \in AnyDeck
  BY DEF NoDeck, Deck, AnyDeck, RowTyped
<1>3. ASSUME files' = files PROVE files' \in [Jobs -> AnyDeck] /\ \A i \in Jobs : files'[i] = files[i]
  BY <1>1, <1>3
<1>4. CASE TakeKey(j)
  <2>1. JobIs(j, "running", jobs[j].result, NoDeck)
    BY <1>1, <1>2, <1>4, JobMoves DEF TakeKey, Goes
  <2> QED
    BY <1>3, <1>4, <2>1 DEF JobIs, JobStep, TakeKey
<1>5. CASE IgnoreDuplicate(j)
  <2>1. JobIs(j, "ignored", jobs[j].result, NoDeck)
    BY <1>1, <1>2, <1>5, JobMoves DEF IgnoreDuplicate, Goes
  <2> QED
    BY <1>3, <1>5, <2>1 DEF JobIs, JobStep, IgnoreDuplicate
<1>6. CASE LookUpSlide(j)
  <2>1. JobIs(j, "error", jobs[j].result, NoDeck)
    BY <1>1, <1>2, <1>6, JobMoves DEF LookUpSlide, Goes
  <2> QED
    BY <1>3, <1>6, <2>1 DEF JobIs, JobStep, LookUpSlide
<1>7. CASE BuildPptx(j)
  <2>1. JobIs(j, "built", jobs[j].result, jobs[j].deck)
    BY <1>1, <1>2, <1>7, JobMoves DEF BuildPptx
  <2> QED
    BY <1>3, <1>7, <2>1 DEF JobIs, JobStep, BuildPptx
<1>8. CASE Upload(j)
  <2>1. JobIs(j, "uploaded", jobs[j].result, NoDeck)
    BY <1>1, <1>2, <1>8, JobMoves DEF Upload, Goes
  <2>2. files' = [files EXCEPT ![j] = jobs[j].deck] /\ jobs[j].phase = "built"
    BY <1>8 DEF Upload
  <2>3. /\ files' \in [Jobs -> AnyDeck] /\ files'[j] = jobs[j].deck
        /\ \A i \in Jobs \ {j} : files'[i] = files[i]
    BY <1>1, <2>2
  <2> QED
    BY <1>8, <2>1, <2>2, <2>3 DEF JobIs, JobStep, Upload
<1>9. CASE Return(j)
  <2>1. JobIs(j, "over", "SUCCESS", jobs[j].deck)
    BY <1>1, <1>2, <1>9, JobMoves DEF Return
  <2> QED
    BY <1>3, <1>9, <2>1 DEF JobIs, JobStep, Return
<1>10. CASE Retry(j)
  <2>1. JobIs(j, "queued", "RETRY", jobs[j].deck)
    BY <1>1, <1>2, <1>10, JobMoves DEF Retry
  <2> QED
    BY <1>3, <1>10, <2>1 DEF JobIs, JobStep, Retry
<1>11. CASE GiveUp(j)
  <2>1. JobIs(j, "failing", "FAILURE", jobs[j].deck)
    BY <1>1, <1>2, <1>11, JobMoves DEF GiveUp
  <2> QED
    BY <1>3, <1>11, <2>1 DEF JobIs, JobStep, GiveUp
<1>12. CASE OnFailure(j)
  <2>1. JobIs(j, "over", jobs[j].result, NoDeck)
    BY <1>1, <1>2, <1>12, JobMoves DEF OnFailure, Goes
  <2> QED
    BY <1>3, <1>12, <2>1 DEF JobIs, JobStep, OnFailure
<1>13. CASE KeyFails(j)
  <2>1. JobIs(j, "failing", "FAILURE", jobs[j].deck)
    BY <1>1, <1>2, <1>13, JobMoves DEF KeyFails
  <2> QED
    BY <1>3, <1>13, <2>1 DEF JobIs, JobStep, KeyFails
<1>14. CASE BuildFails(j)
  <2>1. JobIs(j, "error", jobs[j].result, NoDeck)
    BY <1>1, <1>2, <1>14, JobMoves DEF BuildFails, Goes
  <2> QED
    BY <1>3, <1>14, <2>1 DEF JobIs, JobStep, BuildFails
<1>15. CASE HardLimit(j)
  <2>1. JobIs(j, "over", "FAILURE", NoDeck)
    BY <1>1, <1>2, <1>15, JobMoves DEF HardLimit
  <2> QED
    BY <1>3, <1>15, <2>1 DEF JobIs, JobStep, HardLimit
<1>16. CASE LoseWorker(j)
  <2>1. JobIs(j, "queued", jobs[j].result, NoDeck)
    BY <1>1, <1>2, <1>16, JobMoves DEF LoseWorker, Goes
  <2> QED
    BY <1>3, <1>16, <2>1 DEF JobIs, JobStep, LoseWorker
<1>17. CASE ReadDeck(j)
  <2>1. CASE status = "completed"
    <3>1. JobIs(j, "building", jobs[j].result, deck)
      BY <1>1, <1>2, <1>17, <2>1, JobMoves DEF ReadDeck
    <3> QED
      BY <1>3, <1>17, <2>1, <3>1 DEF JobIs, JobStep, ReadDeck
  <2>2. CASE status # "completed"
    <3>1. JobIs(j, "error", jobs[j].result, jobs[j].deck)
      BY <1>1, <1>2, <1>17, <2>2, JobMoves DEF ReadDeck
    <3> QED
      BY <1>3, <1>17, <2>2, <3>1 DEF JobIs, JobStep, ReadDeck
  <2> QED
    BY <2>1, <2>2
<1> QED
  BY <1>4, <1>5, <1>6, <1>7, <1>8, <1>9, <1>10, <1>11, <1>12, <1>13, <1>14, <1>15, <1>16, <1>17 DEF Work, Faults

(* What a request for a task does: one job that was not there is queued.   *)
AskStep(j) ==
  /\ jobs' \in [Jobs -> Job]
  /\ jobs[j].phase = "none"
  /\ jobs'[j].phase = "queued" /\ jobs'[j].result = "PENDING"
  /\ \A i \in Jobs \ {j} : jobs'[i] = jobs[i]
  /\ UNCHANGED <<status, deck, replaced, gens, doubled, files, keys, crashes, now>>
  /\ asked' = asked + 1

LEMMA AskSteps ==
    ASSUME TasksTyped, RowTyped, NEW j \in Jobs, AskExport(j) \/ AskSlide(j)
    PROVE  AskStep(j)
<1>1. PICK kind \in {"export", "slide"} : Ask(j, kind)
  BY DEF AskExport, AskSlide
<1>2. PICK key \in KeysFor(j, kind) :
        jobs' = [jobs EXCEPT ![j] = [Unasked EXCEPT !.kind = kind, !.key = key,
                                                     !.at = now, !.phase = "queued"]]
  BY <1>1 DEF Ask
<1>3. \A i \in Jobs : jobs[i] \in Job
  BY DEF TasksTyped
<1>4. key \in Jobs \cup {NoJob}
  BY <1>2, <1>3 DEF KeysFor, Job
<1>5. now \in Nat
  BY DEF RowTyped
<1> DEFINE new == [Unasked EXCEPT !.kind = kind, !.key = key, !.at = now, !.phase = "queued"]
<1>6. Unasked \in Job /\ Unasked.result = "PENDING"
  BY DEF Unasked, Job, Phases, Results, NoDeck, Deck, AnyDeck, NoJob
<1>7. new \in Job /\ new.phase = "queued" /\ new.result = "PENDING"
  BY <1>4, <1>5, <1>6 DEF Job, Phases
<1>8. jobs \in [Jobs -> Job]
  BY DEF TasksTyped
<1>9. jobs' \in [Jobs -> Job] /\ jobs'[j] = new /\ \A i \in Jobs \ {j} : jobs'[i] = jobs[i]
  <2> HIDE DEF new
  <2> QED
    BY <1>2, <1>7, <1>8 DEF new
<1>10. jobs[j].phase = "none"
  <2>1. j >= j
    BY DEF Jobs
  <2> QED
    BY <1>1, <2>1 DEF Ask, Unasked
<1> QED
  BY <1>1, <1>7, <1>9, <1>10 DEF Ask, AskStep, IsAsked, presentation, runs

(* A step of a generation, or an edit, leaves the tasks alone.             *)
DeckStep == Edit \/ \E g \in Gens : \/ Regenerate(g) \/ Begin(g) \/ Complete(g)
                                     \/ Partial(g) \/ SafetyNet(g) \/ Raise(g)

(* The deck stays, or another takes its place now.                         *)
DeckKept == deck' = deck /\ replaced' = replaced
DeckReplaced == \E whole \in BOOLEAN : Replace(whole)

LEMMA DeckSteps ==
    ASSUME RowTyped, DeckStep
    PROVE  /\ RowTyped'
           /\ DeckKept \/ DeckReplaced
           /\ UNCHANGED <<jobs, keys, files, now, crashes>>
<1> USE DEF counters, runs
<1>0. deck \in AnyDeck /\ deck.no \in Nat /\ deck.whole \in BOOLEAN /\ replaced \in Seq(Nat) /\ now \in Nat
  BY DEF RowTyped, AnyDeck
<1>1. ASSUME NEW whole \in BOOLEAN, Replace(whole)
      PROVE  deck' \in AnyDeck /\ replaced' \in Seq(Nat)
  <2>1. deck.no + 1 \in Nat
    BY <1>0
  <2>2. deck' = [no |-> deck.no + 1, whole |-> whole] /\ replaced' = Append(replaced, now)
    BY <1>1 DEF Replace, Deck
  <2>3. deck' \in AnyDeck
    BY <2>1, <2>2 DEF AnyDeck
  <2> QED
    BY <1>0, <2>2, <2>3
<1>2. asked + 1 \in Nat
  BY DEF RowTyped
<1>3. CASE Edit
  <2>1. Replace(deck.whole)
    BY <1>3 DEF Edit
  <2> QED
    BY <1>0, <1>1, <1>2, <1>3, <2>1 DEF Edit, IsAsked, RowTyped, DeckReplaced
<1>4. ASSUME NEW g \in Gens, Regenerate(g)
      PROVE  RowTyped' /\ DeckKept /\ UNCHANGED <<jobs, keys, files, now, crashes>>
  <2>1. doubled' \in BOOLEAN
    BY <1>4, Zenon DEF Regenerate
  <2> QED
    BY <1>2, <1>4, <2>1 DEF Regenerate, IsAsked, RowTyped, DeckKept
<1>5. ASSUME NEW g \in Gens, Begin(g)
      PROVE  RowTyped' /\ DeckKept /\ UNCHANGED <<jobs, keys, files, now, crashes>>
  BY <1>5 DEF Begin, RowTyped, DeckKept
<1>6. ASSUME NEW g \in Gens, Complete(g)
      PROVE  RowTyped' /\ DeckReplaced /\ UNCHANGED <<jobs, keys, files, now, crashes>>
  BY <1>1, <1>6 DEF Complete, RowTyped, DeckReplaced
<1>7. ASSUME NEW g \in Gens, Partial(g)
      PROVE  RowTyped' /\ DeckReplaced /\ UNCHANGED <<jobs, keys, files, now, crashes>>
  BY <1>1, <1>7 DEF Partial, RowTyped, DeckReplaced
<1>8. ASSUME NEW g \in Gens, SafetyNet(g)
      PROVE  RowTyped' /\ DeckKept /\ UNCHANGED <<jobs, keys, files, now, crashes>>
  BY <1>8 DEF SafetyNet, RowTyped, DeckKept
<1>9. ASSUME NEW g \in Gens, Raise(g)
      PROVE  RowTyped' /\ DeckKept /\ UNCHANGED <<jobs, keys, files, now, crashes>>
  BY <1>9 DEF Raise, RowTyped, DeckKept
<1> QED
  BY <1>3, <1>4, <1>5, <1>6, <1>7, <1>8, <1>9 DEF DeckStep

(* Of the requests, one is now this.                                       *)
RequestIs(r, kind, phase, shown, at) ==
  /\ reqs' \in [Requests -> Request]
  /\ reqs'[r].kind = kind /\ reqs'[r].phase = phase
  /\ reqs'[r].shown = shown /\ reqs'[r].at = at
  /\ \A q \in Requests \ {r} : reqs'[q] = reqs[q]

RequestKinds == {"file", "images", "pdf"}
RequestPhases == {"none", "building", "rendering", "uploaded", "answered", "refused"}

LEMMA RequestMoves ==
    ASSUME ViewsTyped, RowTyped, NEW r \in Requests, NEW kind \in RequestKinds,
           NEW p \in RequestPhases, NEW shown \in SUBSET AnyDeck
    PROVE  /\ Send(r, kind, p, shown) => RequestIs(r, kind, p, shown, now) /\ asked' = asked + 1
           /\ Ends(r, p) => RequestIs(r, reqs[r].kind, p, reqs[r].shown, reqs[r].at)
           /\ reqs' = [reqs EXCEPT ![r].phase = p, ![r].at = now, ![r].shown = shown]
                => RequestIs(r, reqs[r].kind, p, shown, now)
<1>1. reqs \in [Requests -> Request] /\ reqs[r] \in Request /\ now \in Nat
  BY DEF ViewsTyped, RowTyped
<1>2. ASSUME NEW rec \in Request, reqs' = [reqs EXCEPT ![r] = rec]
      PROVE  RequestIs(r, rec.kind, rec.phase, rec.shown, rec.at)
  BY <1>1, <1>2 DEF RequestIs
<1>3. ASSUME Send(r, kind, p, shown)
      PROVE  RequestIs(r, kind, p, shown, now) /\ asked' = asked + 1
  <2> DEFINE new == [kind |-> kind, phase |-> p, shown |-> shown, at |-> now]
  <2>1. /\ new \in Request
        /\ new.kind = kind /\ new.phase = p /\ new.shown = shown /\ new.at = now
    BY <1>1 DEF Request, RequestKinds, RequestPhases
  <2>2. reqs' = [reqs EXCEPT ![r] = new]
    BY <1>3 DEF Send
  <2> QED
    BY <1>2, <1>3, <2>1, <2>2 DEF Send, IsAsked
<1>4. ASSUME Ends(r, p)
      PROVE  RequestIs(r, reqs[r].kind, p, reqs[r].shown, reqs[r].at)
  <2> DEFINE new == [reqs[r] EXCEPT !.phase = p]
  <2>1. /\ new \in Request /\ new.kind = reqs[r].kind /\ new.phase = p
        /\ new.shown = reqs[r].shown /\ new.at = reqs[r].at
    BY <1>1 DEF Request, RequestPhases
  <2>2. reqs' = [reqs EXCEPT ![r] = new]
    BY <1>4 DEF Ends
  <2> QED
    BY <1>2, <2>1, <2>2
<1>5. ASSUME reqs' = [reqs EXCEPT ![r].phase = p, ![r].at = now, ![r].shown = shown]
      PROVE  RequestIs(r, reqs[r].kind, p, shown, now)
  <2> DEFINE new == [reqs[r] EXCEPT !.phase = p, !.at = now, !.shown = shown]
  <2>1. /\ new \in Request /\ new.kind = reqs[r].kind /\ new.phase = p
        /\ new.shown = shown /\ new.at = now
    BY <1>1 DEF Request, RequestPhases
  <2>2. reqs' = [reqs EXCEPT ![r] = new]
    BY <1>5
  <2> QED
    BY <1>2, <2>1, <2>2
<1> QED
  BY <1>3, <1>4, <1>5

(* What a step of a view does: besides the counter of requests it moves one *)
(* request, or removes the entry of the preview.                           *)
Asks(r) ==
  /\ \/ RequestIs(r, "file", "building", {deck}, now)
     \/ RequestIs(r, "images", "building", {deck}, now)
     \/ RequestIs(r, "pdf", "rendering", {deck}, now)
     \/ now < cached /\ RequestIs(r, "pdf", "answered", pdf, now)
  /\ status = "completed" /\ asked' = asked + 1 /\ UNCHANGED <<pdf, cached>>

Answered(r) ==
  /\ reqs[r].phase = "building"
  /\ RequestIs(r, reqs[r].kind, "answered", reqs[r].shown, reqs[r].at)
  /\ reqs[r].kind \in {"file", "images"} /\ UNCHANGED <<asked, pdf, cached>>

Refused(r) ==
  /\ RequestIs(r, reqs[r].kind, "refused", reqs[r].shown, reqs[r].at)
  /\ UNCHANGED <<asked, pdf, cached>>

Rendered(r) ==
  /\ reqs[r].phase = "rendering"
  /\ RequestIs(r, reqs[r].kind, "uploaded", reqs[r].shown, reqs[r].at)
  /\ pdf' \subseteq reqs[r].shown /\ UNCHANGED <<asked, cached>>

Kept(r) ==
  /\ reqs[r].phase = "uploaded"
  /\ RequestIs(r, reqs[r].kind, "answered", pdf, now)
  /\ cached' \in {now + Lifetime, cached} /\ UNCHANGED <<asked, pdf>>

Removed == cached' = 0 /\ UNCHANGED <<reqs, asked, pdf>>

ViewStep ==
  /\ \/ \E r \in Requests : Asks(r) \/ Answered(r) \/ Refused(r) \/ Rendered(r) \/ Kept(r)
     \/ Removed
  /\ UNCHANGED tasks

LEMMA ViewSteps ==
    ASSUME ViewsTyped, RowTyped, ViewNext
    PROVE  ViewStep
<1> USE DEF tasks, RequestKinds, RequestPhases
<1>1. deck \in AnyDeck /\ pdf \in SUBSET AnyDeck /\ {deck} \in SUBSET AnyDeck
  BY DEF RowTyped, ViewsTyped
<1>2. ASSUME NEW r \in Requests, AskFile(r) \/ AskDownload(r) PROVE ViewStep
  <2>1. AskFile(r)
    BY <1>2 DEF AskDownload
  <2> QED
    BY <1>1, <2>1, RequestMoves DEF AskFile, Asks, ViewStep
<1>3. ASSUME NEW r \in Requests, AskImages(r) PROVE ViewStep
  BY <1>1, <1>3, RequestMoves DEF AskImages, Asks, ViewStep
<1>4. ASSUME NEW r \in Requests, BuildFile(r) \/ BuildImages(r) PROVE ViewStep
  BY <1>1, <1>4, RequestMoves DEF BuildFile, BuildImages, Answered, ViewStep
<1>5. ASSUME NEW r \in Requests, BuildRequestFails(r) \/ RenderFails(r) PROVE ViewStep
  BY <1>1, <1>5, RequestMoves DEF BuildRequestFails, RenderFails, Refused, ViewStep
<1>6. ASSUME NEW r \in Requests, PreviewHit(r) PROVE ViewStep
  BY <1>1, <1>6, RequestMoves DEF PreviewHit, Asks, ViewStep
<1>7. ASSUME NEW r \in Requests, PreviewMiss(r) PROVE ViewStep
  BY <1>1, <1>7, RequestMoves DEF PreviewMiss, Asks, ViewStep
<1>8. ASSUME NEW r \in Requests, Render(r) PROVE ViewStep
  <2>1. reqs' = [reqs EXCEPT ![r].phase = "uploaded"] /\ pdf' \subseteq reqs[r].shown
    BY <1>8 DEF Render, Pages
  <2> QED
    BY <1>1, <1>8, <2>1, RequestMoves DEF Render, Ends, Rendered, ViewStep
<1>9. ASSUME NEW r \in Requests, Keep(r) PROVE ViewStep
  BY <1>1, <1>9, RequestMoves DEF Keep, Kept, ViewStep
<1>10. CASE Invalidate
  BY <1>10 DEF Invalidate, Removed, ViewStep
<1> QED
  BY <1>2, <1>3, <1>4, <1>5, <1>6, <1>7, <1>8, <1>9, <1>10 DEF ViewNext

-----------------------------------------------------------------------------
(* Types *)

LEMMA JobStepTypes ==
    ASSUME TasksTyped, RowTyped, NEW j \in Jobs, Work(j) \/ Faults(j)
    PROVE  TasksTyped' /\ RowTyped'
<1> USE DEF presentation, runs, counters
<1>1. JobStep(j)
  BY JobSteps
<1>2. CASE TakeKey(j)
  <2>1. keys' = [keys EXCEPT ![jobs[j].key] = j] /\ UNCHANGED <<asked, crashes>>
    BY <1>2 DEF TakeKey
  <2>2. keys' \in [Jobs -> Jobs \cup {NoJob}]
    BY <2>1 DEF TasksTyped
  <2> QED
    BY <1>1, <2>1, <2>2 DEF JobStep, TasksTyped, RowTyped
<1>3. CASE LoseWorker(j)
  <2>1. crashes' = crashes + 1 /\ UNCHANGED <<asked, keys>>
    BY <1>3 DEF LoseWorker
  <2> QED
    BY <1>1, <2>1 DEF JobStep, TasksTyped, RowTyped
<1>4. ASSUME ~TakeKey(j), ~LoseWorker(j) PROVE TasksTyped' /\ RowTyped'
  <2>1. UNCHANGED <<asked, crashes, keys>>
    BY <1>4 DEF Work, Faults, IgnoreDuplicate, LookUpSlide, ReadDeck, BuildPptx, Upload,
                Return, Retry, GiveUp, OnFailure, KeyFails, BuildFails, HardLimit
  <2> QED
    BY <1>1, <2>1 DEF JobStep, TasksTyped, RowTyped
<1> QED
  BY <1>2, <1>3, <1>4

(* The steps of the composition, in those terms.                           *)
TaskStep ==
  /\ \/ DeckStep
     \/ \E j \in Jobs : AskStep(j) \/ JobStep(j)
     \/ Tick /\ ~Rendering
  /\ UNCHANGED views

LEMMA TypeStep ==
    ASSUME TypeOK, ComposedNext
    PROVE  TypeOK' /\ (TaskStep \/ ViewStep)
<1> USE DEF TypeOK, views
<1>1. ASSUME DeckStep, UNCHANGED views PROVE TypeOK' /\ TaskStep
  BY <1>1, DeckSteps DEF TaskStep, TasksTyped, ViewsTyped
<1>2. ASSUME NEW j \in Jobs, AskExport(j) \/ AskSlide(j), UNCHANGED views
      PROVE  TypeOK' /\ TaskStep
  <2>1. AskStep(j)
    BY <1>2, AskSteps
  <2> QED
    BY <1>2, <2>1 DEF AskStep, TaskStep, RowTyped, TasksTyped, ViewsTyped
<1>3. ASSUME NEW j \in Jobs, Work(j) \/ Faults(j), UNCHANGED views
      PROVE  TypeOK' /\ TaskStep
  BY <1>3, JobSteps, JobStepTypes DEF TaskStep, ViewsTyped
<1>4. ASSUME Tick, ~Rendering, UNCHANGED views PROVE TypeOK' /\ TaskStep
  BY <1>4 DEF Tick, TaskStep, presentation, runs, RowTyped, TasksTyped, ViewsTyped
<1>5. ASSUME ViewNext PROVE TypeOK' /\ ViewStep
  <2>1. ViewStep
    BY <1>5, ViewSteps
  <2>2. asked' \in Nat
    BY <2>1 DEF ViewStep, Asks, Answered, Refused, Rendered, Kept, Removed, RowTyped
  <2>3. reqs' \in [Requests -> Request]
    BY <2>1 DEF ViewStep, Asks, Answered, Refused, Rendered, Kept, Removed, RequestIs, ViewsTyped
  <2>4. pdf' \in SUBSET AnyDeck
    BY <2>1 DEF ViewStep, Asks, Answered, Refused, Rendered, Kept, Removed, ViewsTyped, Request
  <2>5. cached' \in Nat
    BY <2>1 DEF ViewStep, Asks, Answered, Refused, Rendered, Kept, Removed, ViewsTyped, RowTyped
  <2>6. UNCHANGED tasks
    BY <2>1 DEF ViewStep
  <2> QED
    BY <2>1, <2>2, <2>3, <2>4, <2>5, <2>6 DEF tasks, presentation, runs, RowTyped, TasksTyped, ViewsTyped
<1>6. CASE Next /\ UNCHANGED views
  BY <1>1, <1>2, <1>3, <1>6 DEF Next, DeckStep
<1> QED
  BY <1>4, <1>5, <1>6 DEF ComposedNext

LEMMA InitTypes ==
    ASSUME ComposedInit
    PROVE  TypeOK
<1> USE DEF ComposedInit, Init, InitViews
<1>1. RowTyped
  <2>1. deck \in AnyDeck
    BY DEF Deck, AnyDeck
  <2>2. replaced \in Seq(Nat)
    OBVIOUS
  <2>3. gens \in [Gens -> {"none", "queued", "running", "completed", "failed", "done"}]
    OBVIOUS
  <2> QED
    BY <2>1, <2>2, <2>3 DEF RowTyped
<1>2. NoDeck \in AnyDeck
  BY DEF NoDeck, Deck, AnyDeck
<1>3. Unasked \in Job
  BY <1>2 DEF Unasked, Job, Phases, Results, NoJob
<1>4. TasksTyped
  BY <1>2, <1>3 DEF TasksTyped
<1>5. Unsent \in Request
  BY DEF Unsent, Request
<1>6. ViewsTyped
  BY <1>5 DEF ViewsTyped
<1> QED
  BY <1>1, <1>4, <1>6 DEF TypeOK

LEMMA TypeStutters == TypeOK /\ UNCHANGED <<vars, views>> => TypeOK'
BY DEF TypeOK, RowTyped, TasksTyped, ViewsTyped, vars, views, presentation, runs, counters

(* The row of the presentation, the jobs of Celery, the objects in MinIO    *)
(* and the entries in Redis are of their types in every state.             *)
THEOREM TypeCorrect == Composed => []TypeOK
<1>1. ComposedInit => TypeOK
  BY InitTypes
<1>2. TypeOK /\ [ComposedNext]_<<vars, views>> => TypeOK'
  BY TypeStep, TypeStutters
<1> QED
  BY <1>1, <1>2, PTL DEF Composed

-----------------------------------------------------------------------------
(* Generations *)

(* Without a request too many, one generation at most is unfinished.       *)
OneRun == ~doubled => \A g, h \in Unfinished : g = h

Running == \E g \in Gens : gens[g] = "running"

(* What a finished run has left, and its safety net will call completed.   *)
RowIsWhole ==
  /\ status = "completed" => deck.whole
  /\ \A g \in Gens : gens[g] = "completed" => deck.whole

LEMMA RunSteps ==
    ASSUME RowTyped, OneRun, DeckStep
    PROVE  /\ OneRun'
           /\ ~doubled' => /\ ~doubled
                           /\ Running' => status' = "processing" \/ (Running /\ status' = status)
                           /\ RowIsWhole => RowIsWhole'
<1>0. gens \in [Gens -> {"none", "queued", "running", "completed", "failed", "done"}]
  BY DEF RowTyped
<1>1. CASE Edit
  <2>1. gens' = gens /\ doubled' = doubled /\ status' = status
    BY <1>1 DEF Edit, runs
  <2>2. deck'.whole = deck.whole
    BY <1>1 DEF Edit, Replace, Deck
  <2> QED
    BY <2>1, <2>2 DEF OneRun, Unfinished, Running, RowIsWhole
<1>2. ASSUME NEW g \in Gens, Regenerate(g), ~doubled'
      PROVE  /\ OneRun' /\ ~doubled /\ ~Running'
             /\ RowIsWhole => RowIsWhole'
  <2>1. ~doubled /\ Unfinished = {}
    BY <1>2, Zenon DEF Regenerate
  <2>2. gens' = [gens EXCEPT ![g] = "queued"] /\ status' = "queued" /\ deck' = deck
    BY <1>2 DEF Regenerate
  <2>3. \A h \in Gens : gens[h] \in {"none", "done"}
    BY <2>1 DEF Unfinished
  <2>4. \A h \in Gens : gens'[h] = IF h = g THEN "queued" ELSE gens[h]
    BY <1>0, <2>2
  <2>5. \A h \in Unfinished' : h = g
    BY <2>3, <2>4 DEF Unfinished
  <2>6. ~Running'
    BY <2>3, <2>4 DEF Running
  <2>7. RowIsWhole'
    BY <2>2, <2>3, <2>4 DEF RowIsWhole
  <2> QED
    BY <2>1, <2>5, <2>6, <2>7 DEF OneRun
<1>3. ASSUME NEW g \in Gens, Regenerate(g), doubled' PROVE OneRun'
  BY <1>3 DEF OneRun
<1>4. ASSUME NEW g \in Gens, NEW from \in {"queued", "running", "completed", "failed"},
             NEW to \in {"queued", "running", "completed", "failed", "done"},
             gens[g] = from, gens' = [gens EXCEPT ![g] = to], doubled' = doubled
      PROVE  /\ OneRun'
             /\ ~doubled => \A h \in Gens \ {g} : gens'[h] \in {"none", "done"}
             /\ gens'[g] = to
  <2>1. \A h \in Gens : gens'[h] = IF h = g THEN to ELSE gens[h]
    BY <1>0, <1>4
  <2>2. Unfinished' \subseteq Unfinished /\ g \in Unfinished
    BY <1>4, <2>1 DEF Unfinished
  <2>3. OneRun'
    BY <1>4, <2>2 DEF OneRun
  <2>4. ~doubled => \A h \in Gens \ {g} : gens[h] \in {"none", "done"}
    BY <2>2 DEF OneRun, Unfinished
  <2> QED
    BY <2>1, <2>3, <2>4
<1> DEFINE Sound == /\ OneRun'
                    /\ ~doubled' => /\ ~doubled
                                    /\ Running' => status' = "processing"
                                    /\ RowIsWhole => RowIsWhole'
<1>5. ASSUME NEW g \in Gens, Begin(g) PROVE Sound
  BY <1>4, <1>5 DEF Begin, Running, RowIsWhole
<1>6. ASSUME NEW g \in Gens, Complete(g) PROVE Sound
  <2>1. deck'.whole = TRUE
    BY <1>6 DEF Complete, Replace, Deck
  <2> QED
    BY <1>4, <1>6, <2>1 DEF Complete, Running, RowIsWhole
<1>7. ASSUME NEW g \in Gens, Partial(g) PROVE Sound
  BY <1>4, <1>7 DEF Partial, Running, RowIsWhole
<1>8. ASSUME NEW g \in Gens, SafetyNet(g) PROVE Sound
  BY <1>4, <1>8 DEF SafetyNet, Running, RowIsWhole
<1>9. ASSUME NEW g \in Gens, Raise(g) PROVE Sound
  BY <1>4, <1>9 DEF Raise, Running, RowIsWhole
<1> QED
  BY <1>1, <1>2, <1>3, <1>5, <1>6, <1>7, <1>8, <1>9 DEF DeckStep

(* A task is failing only once Celery has stored its failure.              *)
FailuresStored == \A j \in Jobs : jobs[j].phase = "failing" => jobs[j].result = "FAILURE"

(* No step leads on from a task that has failed for good: whoever polls it *)
(* is told so ever after.                                                  *)
GaveUp(j) == jobs[j].phase = "over" /\ jobs[j].result = "FAILURE"

UnseenAfterFailure == ~doubled /\ Running /\ status # "processing" => \E j \in Jobs : GaveUp(j)

VisibleInv == OneRun /\ FailuresStored /\ UnseenAfterFailure

LEMMA VisibleStep ==
    ASSUME TypeOK, VisibleInv, TaskStep \/ ViewStep
    PROVE  VisibleInv'
<1> USE DEF TypeOK, VisibleInv
<1>1. CASE DeckStep /\ UNCHANGED views
  <2>1. jobs' = jobs
    BY <1>1, DeckSteps
  <2>2. FailuresStored' /\ \A j \in Jobs : GaveUp(j)' = GaveUp(j)
    BY <2>1 DEF FailuresStored, GaveUp
  <2> QED
    BY <1>1, <2>2, RunSteps DEF UnseenAfterFailure
<1>2. ASSUME NEW j \in Jobs, AskStep(j) PROVE VisibleInv'
  <2>1. OneRun' /\ FailuresStored'
    BY <1>2 DEF AskStep, OneRun, Unfinished, FailuresStored
  <2>2. \A i \in Jobs : GaveUp(i) => GaveUp(i)'
    BY <1>2 DEF AskStep, GaveUp
  <2>3. UNCHANGED <<doubled, status, gens>>
    BY <1>2 DEF AskStep
  <2> QED
    BY <2>1, <2>2, <2>3 DEF UnseenAfterFailure, Running
<1>3. ASSUME NEW j \in Jobs, JobStep(j) PROVE VisibleInv'
  <2>1. OneRun' /\ FailuresStored'
    BY <1>3 DEF JobStep, OneRun, Unfinished, FailuresStored
  <2>2. \A i \in Jobs : GaveUp(i) => GaveUp(i)'
    BY <1>3 DEF JobStep, GaveUp, AtWorker
  <2>3. UNCHANGED <<doubled, gens>>
    BY <1>3 DEF JobStep
  <2>4. status' = status \/ GaveUp(j)'
    BY <1>3 DEF JobStep, GaveUp, FailuresStored
  <2> QED
    BY <2>1, <2>2, <2>3, <2>4 DEF UnseenAfterFailure, Running
<1>4. CASE UNCHANGED <<jobs, doubled, status, gens>>
  BY <1>4 DEF OneRun, Unfinished, FailuresStored, UnseenAfterFailure, Running, GaveUp
<1>5. CASE (Tick /\ ~Rendering) \/ ViewStep
  BY <1>4, <1>5 DEF Tick, ViewStep, tasks, presentation, runs
<1> QED
  BY <1>1, <1>2, <1>3, <1>5 DEF TaskStep

(* While a generation runs the status says processing, unless a user asked *)
(* for a second one before the first was over, or a side task has failed   *)
(* for good in the meantime, which its poll shows: regenerate_presentation,*)
(* export and edit rely on the status alone.                               *)
THEOREM RunsSeen == Composed => []RunsAreVisible
<1>1. ComposedInit => TypeOK /\ VisibleInv
  <2>1. ASSUME ComposedInit
        PROVE  /\ \A g \in Gens : gens[g] = "none"
               /\ \A j \in Jobs : jobs[j].phase = "none"
    BY <2>1 DEF ComposedInit, Init, Unasked
  <2> QED
    BY <2>1, InitTypes DEF VisibleInv, OneRun, Unfinished, FailuresStored, UnseenAfterFailure, Running
<1>2. TypeOK /\ VisibleInv /\ [ComposedNext]_<<vars, views>> => TypeOK' /\ VisibleInv'
  <2>1. TypeOK /\ VisibleInv /\ UNCHANGED <<vars, views>> => VisibleInv'
    BY DEF VisibleInv, OneRun, Unfinished, FailuresStored, UnseenAfterFailure, Running, GaveUp,
           vars, presentation, runs
  <2> QED
    BY <2>1, TypeStep, TypeStutters, VisibleStep
<1>3. TypeOK /\ VisibleInv => RunsAreVisible
  <2>1. ASSUME NEW j \in Jobs, GaveUp(j) PROVE Poll(j) = "failed"
    BY <2>1 DEF GaveUp, Poll
  <2> QED
    BY <2>1 DEF VisibleInv, UnseenAfterFailure, Running, RunsAreVisible
<1> QED
  BY <1>1, <1>2, <1>3, PTL DEF Composed

-----------------------------------------------------------------------------
(* Whole decks *)

(* Between the read of the deck and the link in the result a task holds a  *)
(* whole deck or has left one in its file.                                 *)
TasksAreWhole ==
  \A j \in Jobs :
    /\ jobs[j].phase \in {"building", "built"} => jobs[j].deck.whole
    /\ jobs[j].phase = "uploaded" \/ jobs[j].result = "SUCCESS" => files[j].whole

ViewsAreWhole ==
  /\ \A r \in Requests : \A d \in reqs[r].shown : d.whole
  /\ \A d \in pdf : d.whole

WholeInv == OneRun /\ (~doubled => RowIsWhole /\ TasksAreWhole /\ ViewsAreWhole)

LEMMA WholeStep ==
    ASSUME TypeOK, WholeInv, TaskStep \/ ViewStep
    PROVE  WholeInv'
<1> USE DEF TypeOK, WholeInv
<1>1. CASE DeckStep /\ UNCHANGED views
  <2>1. UNCHANGED <<jobs, files>>
    BY <1>1, DeckSteps
  <2>2. TasksAreWhole => TasksAreWhole'
    BY <2>1 DEF TasksAreWhole
  <2>3. ViewsAreWhole => ViewsAreWhole'
    BY <1>1 DEF ViewsAreWhole, views
  <2> QED
    BY <1>1, <2>2, <2>3, RunSteps
<1>2. ASSUME NEW j \in Jobs, AskStep(j), UNCHANGED views PROVE WholeInv'
  <2>1. OneRun' /\ (RowIsWhole => RowIsWhole')
    BY <1>2 DEF AskStep, OneRun, Unfinished, RowIsWhole
  <2>2. TasksAreWhole => TasksAreWhole'
    BY <1>2 DEF AskStep, TasksAreWhole
  <2>3. ViewsAreWhole => ViewsAreWhole'
    BY <1>2 DEF ViewsAreWhole, views
  <2> QED
    BY <1>2, <2>1, <2>2, <2>3 DEF AskStep
<1>3. ASSUME NEW j \in Jobs, JobStep(j), UNCHANGED views PROVE WholeInv'
  <2>1. OneRun' /\ (RowIsWhole => RowIsWhole')
    BY <1>3 DEF JobStep, OneRun, Unfinished, RowIsWhole
  <2>2. RowIsWhole /\ TasksAreWhole => TasksAreWhole'
    BY <1>3 DEF JobStep, TasksAreWhole, RowIsWhole
  <2>3. ViewsAreWhole => ViewsAreWhole'
    BY <1>3 DEF ViewsAreWhole, views
  <2> QED
    BY <1>3, <2>1, <2>2, <2>3 DEF JobStep
<1>4. ASSUME UNCHANGED <<status, deck, gens, doubled, jobs, files>>
      PROVE  OneRun' /\ RowIsWhole' = RowIsWhole /\ TasksAreWhole' = TasksAreWhole
  BY <1>4 DEF OneRun, Unfinished, RowIsWhole, TasksAreWhole
<1>5. CASE Tick /\ UNCHANGED views
  <2>1. ViewsAreWhole => ViewsAreWhole'
    BY <1>5 DEF ViewsAreWhole, views
  <2> QED
    BY <1>4, <1>5, <2>1 DEF Tick, presentation, runs
<1>6. CASE ViewStep
  <2>1. UNCHANGED <<status, deck, gens, doubled, jobs, files>>
    BY <1>6 DEF ViewStep, tasks, presentation, runs
  <2>2. ASSUME NEW r \in Requests, Asks(r), RowIsWhole, ViewsAreWhole PROVE ViewsAreWhole'
    <3>1. deck.whole
      BY <2>2 DEF Asks, RowIsWhole
    <3> QED
      BY <2>2, <3>1 DEF Asks, RequestIs, ViewsAreWhole
  <2>3. ASSUME NEW r \in Requests, ViewsAreWhole, Answered(r) \/ Refused(r) \/ Rendered(r) \/ Kept(r)
        PROVE  ViewsAreWhole'
    BY <2>3 DEF Answered, Refused, Rendered, Kept, RequestIs, ViewsAreWhole
  <2>4. CASE Removed
    BY <1>4, <2>1, <2>4 DEF Removed, ViewsAreWhole
  <2> QED
    BY <1>4, <1>6, <2>1, <2>2, <2>3, <2>4 DEF ViewStep
<1> QED
  BY <1>1, <1>2, <1>3, <1>5, <1>6 DEF TaskStep

(* Whatever a user is shown is a whole deck, whichever runs begin, fail and *)
(* leave parts between the read of a deck and the answer, unless a second  *)
(* run was asked for before the first was over.                            *)
THEOREM WholeOutputs == Composed => []OutputsAreWhole
<1>1. ComposedInit => TypeOK /\ WholeInv
  <2>1. ASSUME ComposedInit
        PROVE  /\ \A g \in Gens : gens[g] = "none"
               /\ \A j \in Jobs : jobs[j].phase = "none" /\ jobs[j].result = "PENDING"
               /\ \A r \in Requests : reqs[r].shown = {}
               /\ pdf = {} /\ deck.whole = TRUE
    BY <2>1 DEF ComposedInit, Init, InitViews, Unasked, Unsent, Deck
  <2> QED
    BY <2>1, InitTypes DEF WholeInv, OneRun, Unfinished, RowIsWhole, TasksAreWhole, ViewsAreWhole
<1>2. TypeOK /\ WholeInv /\ [ComposedNext]_<<vars, views>> => TypeOK' /\ WholeInv'
  <2>1. TypeOK /\ WholeInv /\ UNCHANGED <<vars, views>> => WholeInv'
    BY DEF WholeInv, OneRun, Unfinished, RowIsWhole, TasksAreWhole, ViewsAreWhole,
           vars, views, presentation, runs
  <2> QED
    BY <2>1, TypeStep, TypeStutters, WholeStep
<1>3. TypeOK /\ WholeInv => OutputsAreWhole
  <2>1. ASSUME TypeOK, RowIsWhole PROVE \A d \in View : d.whole
    <3>1. status \in {"queued", "processing", "completed", "failed"}
      BY <2>1 DEF TypeOK, RowTyped
    <3> QED
      BY <2>1, <3>1 DEF View, RowIsWhole
  <2>2. ASSUME NEW j \in Jobs, Poll(j) = "completed" PROVE jobs[j].result = "SUCCESS"
    BY <2>2 DEF Poll
  <2> QED
    BY <2>1, <2>2 DEF WholeInv, TasksAreWhole, ViewsAreWhole, Answers, OutputsAreWhole
<1> QED
  BY <1>1, <1>2, <1>3, PTL DEF Composed

-----------------------------------------------------------------------------
(* Recent previews *)

(* The deck was still that of the presentation at this time, or later.     *)
Fresh(d, time) == d.no > Len(replaced) \/ replaced[d.no] >= time

(* A deck that is being rendered was there at this tick, which only ends   *)
(* with the render; the entry ends a lifetime after the last of its kind.  *)
RequestIsRecent(r) ==
  /\ reqs[r].at <= now
  /\ \A d \in reqs[r].shown : d.no >= 1
  /\ reqs[r].phase = "rendering" => \A d \in reqs[r].shown : Fresh(d, now)
  /\ reqs[r].phase = "uploaded" => \A d \in pdf : Fresh(d, now)
  /\ reqs[r].kind = "pdf" /\ reqs[r].phase = "answered" =>
       \A d \in reqs[r].shown : Fresh(d, reqs[r].at - Lifetime + 1)

ObjectIsRecent ==
  /\ cached <= now + Lifetime
  /\ \A d \in pdf : d.no >= 1 /\ Fresh(d, cached - Lifetime)

DeckIsLast == deck.no = Len(replaced) + 1

RecentInv == DeckIsLast /\ ObjectIsRecent /\ \A r \in Requests : RequestIsRecent(r)

(* A deck that is replaced now has been there until now.                   *)
LEMMA FreshStays ==
    ASSUME RowTyped, DeckIsLast, DeckKept \/ DeckReplaced,
           NEW d \in AnyDeck, d.no >= 1, NEW time \in Int, time <= now, Fresh(d, time)
    PROVE  Fresh(d, time)'
<1>1. replaced \in Seq(Nat) /\ Len(replaced) \in Nat /\ now \in Nat /\ d.no \in Nat
  BY DEF RowTyped, AnyDeck
<1>2. CASE DeckKept
  BY <1>2 DEF DeckKept, Fresh
<1>3. CASE DeckReplaced
  <2>1. replaced' = Append(replaced, now)
    BY <1>3 DEF DeckReplaced, Replace
  <2>2. /\ Len(replaced') = Len(replaced) + 1
        /\ \A i \in 1..Len(replaced) : replaced'[i] = replaced[i]
        /\ replaced'[Len(replaced) + 1] = now
    BY <1>1, <2>1
  <2>3. CASE d.no \in 1..Len(replaced)
    <3>1. replaced[d.no] >= time /\ replaced'[d.no] = replaced[d.no]
      BY <1>1, <2>2, <2>3 DEF Fresh
    <3> QED
      BY <3>1 DEF Fresh
  <2>4. CASE d.no = Len(replaced) + 1
    <3>1. replaced'[d.no] = now
      BY <2>2, <2>4
    <3>2. now >= time
      BY <1>1
    <3> QED
      BY <3>1, <3>2 DEF Fresh
  <2>5. CASE d.no > Len(replaced) + 1
    BY <2>2, <2>5 DEF Fresh
  <2> QED
    BY <1>1, <2>3, <2>4, <2>5
<1> QED
  BY <1>2, <1>3

LEMMA DeckStepIsRecent ==
    ASSUME TypeOK, RecentInv, DeckStep, UNCHANGED views
    PROVE  RecentInv'
<1> USE DEF TypeOK
<1>1. (DeckKept \/ DeckReplaced) /\ now' = now
  BY DeckSteps
<1>2. reqs' = reqs /\ pdf' = pdf /\ cached' = cached
  BY DEF views
<1>3. /\ now \in Nat /\ cached \in Nat /\ pdf \subseteq AnyDeck
      /\ \A r \in Requests : reqs[r].at \in Nat /\ reqs[r].shown \subseteq AnyDeck
  BY DEF RowTyped, ViewsTyped, Request
<1>4. DeckIsLast'
  <2>1. CASE DeckKept
    BY <2>1 DEF RecentInv, DeckKept, DeckIsLast
  <2>2. CASE DeckReplaced
    <3>1. replaced' = Append(replaced, now) /\ deck'.no = deck.no + 1
      BY <2>2 DEF DeckReplaced, Replace, Deck
    <3>2. replaced \in Seq(Nat)
      BY DEF RowTyped
    <3>3. Len(replaced') = Len(replaced) + 1
      BY <1>3, <3>1, <3>2
    <3> QED
      BY <3>1, <3>3 DEF RecentInv, DeckIsLast
  <2> QED
    BY <1>1, <2>1, <2>2
<1>5. ASSUME NEW d \in AnyDeck, d.no >= 1, NEW time \in Int, time <= now, Fresh(d, time)
      PROVE  Fresh(d, time)'
  BY <1>1, <1>5, FreshStays DEF RecentInv
<1>6. ObjectIsRecent'
  <2>1. cached - Lifetime \in Int /\ cached - Lifetime <= now
    BY <1>3 DEF RecentInv, ObjectIsRecent
  <2>2. \A d \in pdf : d.no >= 1 /\ Fresh(d, cached - Lifetime)'
    <3>1. ASSUME NEW d \in pdf PROVE d.no >= 1 /\ Fresh(d, cached - Lifetime)'
      <4> DEFINE time == cached - Lifetime
      <4>1. Fresh(d, time) /\ d.no >= 1 /\ d \in AnyDeck
        BY <1>3 DEF RecentInv, ObjectIsRecent
      <4>2. PICK t \in Int : t = time
        BY <2>1
      <4>3. Fresh(d, t)'
        BY <1>5, <2>1, <4>1, <4>2
      <4>4. time' = t
        BY <1>2, <4>2
      <4> QED
        BY <4>1, <4>3, <4>4 DEF Fresh
    <3> QED
      BY <3>1
  <2> QED
    BY <1>1, <1>2, <2>2 DEF ObjectIsRecent, RecentInv
<1>7. ASSUME NEW r \in Requests PROVE RequestIsRecent(r)'
  <2>1. RequestIsRecent(r)
    BY DEF RecentInv
  <2>2. \A d \in reqs[r].shown : d \in AnyDeck /\ d.no >= 1
    BY <1>3, <2>1 DEF RequestIsRecent
  <2>3. \A d \in pdf : d \in AnyDeck /\ d.no >= 1
    BY <1>3 DEF RecentInv, ObjectIsRecent
  <2>4. PICK n \in Int : n = now
    BY <1>3
  <2>5. n <= now /\ n = now'
    BY <1>1, <1>3, <2>4
  <2>6. PICK t \in Int : t = reqs[r].at - Lifetime + 1
    BY <1>3
  <2>7. t <= now /\ t = reqs'[r].at - Lifetime + 1
    BY <1>2, <1>3, <2>1, <2>6 DEF RequestIsRecent
  <2>8. reqs[r].phase = "rendering" => \A d \in reqs[r].shown : Fresh(d, n)'
    BY <1>5, <2>1, <2>2, <2>4, <2>5 DEF RequestIsRecent
  <2>9. reqs[r].phase = "uploaded" => \A d \in pdf : Fresh(d, n)'
    BY <1>5, <2>1, <2>3, <2>4, <2>5 DEF RequestIsRecent
  <2>10. reqs[r].kind = "pdf" /\ reqs[r].phase = "answered" => \A d \in reqs[r].shown : Fresh(d, t)'
    BY <1>5, <2>1, <2>2, <2>6, <2>7 DEF RequestIsRecent
  <2> QED
    BY <1>1, <1>2, <2>1, <2>5, <2>7, <2>8, <2>9, <2>10 DEF RequestIsRecent, Fresh
<1> QED
  BY <1>4, <1>6, <1>7 DEF RecentInv

(* A request that a step leaves alone, while the object stays as it is.    *)
LEMMA OthersAreRecent ==
    ASSUME NEW r \in Requests, RequestIsRecent(r), reqs'[r] = reqs[r],
           UNCHANGED <<replaced, now, pdf>>
    PROVE  RequestIsRecent(r)'
BY DEF RequestIsRecent, Fresh

LEMMA ViewStepIsRecent ==
    ASSUME TypeOK, RecentInv, ViewStep
    PROVE  RecentInv'
<1> USE DEF TypeOK
<1>1. UNCHANGED <<deck, replaced, now, status>>
  BY DEF ViewStep, tasks, presentation
<1>2. /\ now \in Nat /\ cached \in Nat /\ pdf \subseteq AnyDeck /\ deck \in AnyDeck
      /\ replaced \in Seq(Nat) /\ Len(replaced) \in Nat /\ Lifetime \in Nat /\ Lifetime >= 1
      /\ \A r \in Requests : reqs[r].at \in Nat /\ reqs[r].shown \subseteq AnyDeck
  BY DEF RowTyped, ViewsTyped, Request
<1>3. DeckIsLast' /\ deck.no >= 1 /\ (\A time \in Int : Fresh(deck, time))
  BY <1>1, <1>2 DEF RecentInv, DeckIsLast, Fresh
<1>4. \A d, t : Fresh(d, t) <=> d.no > Len(replaced') \/ replaced'[d.no] >= t
  BY <1>1 DEF Fresh
<1>5. ASSUME NEW d \in AnyDeck, d.no >= 1, NEW s \in Int, NEW t \in Int, t <= s, Fresh(d, s)
      PROVE  Fresh(d, t)
  <2>1. d.no > Len(replaced) \/ (d.no \in 1..Len(replaced) /\ replaced[d.no] >= s)
    BY <1>2, <1>5 DEF Fresh, AnyDeck
  <2>2. \A i \in 1..Len(replaced) : replaced[i] \in Nat
    BY <1>2
  <2> QED
    BY <1>5, <2>1, <2>2 DEF Fresh
<1>6. ASSUME pdf' = pdf, cached' = cached PROVE ObjectIsRecent'
  BY <1>1, <1>6 DEF RecentInv, ObjectIsRecent, Fresh
<1>7. ASSUME NEW r \in Requests, \A q \in Requests \ {r} : reqs'[q] = reqs[q],
             UNCHANGED pdf, RequestIsRecent(r)', ObjectIsRecent'
      PROVE  RecentInv'
  BY <1>1, <1>3, <1>7, OthersAreRecent DEF RecentInv
<1>8. ASSUME NEW r \in Requests, Asks(r) PROVE RecentInv'
  <2>1. CASE \/ RequestIs(r, "file", "building", {deck}, now)
             \/ RequestIs(r, "images", "building", {deck}, now)
    <3>1. RequestIsRecent(r)'
      BY <1>1, <1>2, <1>3, <2>1 DEF RequestIs, RequestIsRecent
    <3> QED
      BY <1>6, <1>7, <1>8, <2>1, <3>1 DEF Asks, RequestIs
  <2>2. CASE RequestIs(r, "pdf", "rendering", {deck}, now)
    <3>1. Fresh(deck, now)'
      BY <1>1, <1>2, <1>3 DEF Fresh
    <3>2. RequestIsRecent(r)'
      BY <1>1, <1>2, <1>3, <2>2, <3>1 DEF RequestIs, RequestIsRecent, Fresh
    <3> QED
      BY <1>6, <1>7, <1>8, <2>2, <3>2 DEF Asks, RequestIs
  <2>3. CASE now < cached /\ RequestIs(r, "pdf", "answered", pdf, now)
    <3>1. now - Lifetime + 1 <= cached - Lifetime /\ now - Lifetime + 1 \in Int /\ cached - Lifetime \in Int
      BY <1>2, <2>3
    <3>2. \A d \in pdf : d.no >= 1 /\ Fresh(d, now - Lifetime + 1)
      BY <1>2, <1>5, <3>1 DEF RecentInv, ObjectIsRecent
    <3>3. RequestIsRecent(r)'
      BY <1>1, <1>2, <2>3, <3>2 DEF RequestIs, RequestIsRecent, Fresh
    <3> QED
      BY <1>6, <1>7, <1>8, <2>3, <3>3 DEF Asks, RequestIs
  <2> QED
    BY <1>8, <2>1, <2>2, <2>3 DEF Asks
<1>9. ASSUME NEW r \in Requests, Answered(r) \/ Refused(r) PROVE RecentInv'
  <2>1. RequestIsRecent(r)
    BY DEF RecentInv
  <2>2. /\ pdf' = pdf /\ cached' = cached /\ \A q \in Requests \ {r} : reqs'[q] = reqs[q]
        /\ reqs'[r].shown = reqs[r].shown /\ reqs'[r].at = reqs[r].at
        /\ reqs'[r].phase \in {"answered", "refused"}
        /\ reqs'[r].phase = "answered" => reqs'[r].kind # "pdf"
    BY <1>9 DEF Answered, Refused, RequestIs
  <2>3. RequestIsRecent(r)'
    BY <1>1, <2>1, <2>2 DEF RequestIsRecent
  <2> QED
    BY <1>6, <1>7, <2>2, <2>3
<1>10. ASSUME NEW r \in Requests, Rendered(r) PROVE RecentInv'
  <2>1. RequestIsRecent(r) /\ reqs[r].phase = "rendering"
    BY <1>10 DEF RecentInv, Rendered
  <2>2. \A d \in pdf' : d \in AnyDeck /\ d.no >= 1 /\ Fresh(d, now)
    BY <1>2, <1>10, <2>1 DEF Rendered, RequestIsRecent
  <2>3. cached - Lifetime <= now /\ cached - Lifetime \in Int
    BY <1>2 DEF RecentInv, ObjectIsRecent
  <2>4. \A d \in pdf' : Fresh(d, cached - Lifetime)
    BY <1>2, <1>5, <2>2, <2>3
  <2>5. ObjectIsRecent'
    BY <1>1, <1>10, <2>2, <2>4 DEF Rendered, RecentInv, ObjectIsRecent, Fresh
  <2>6. ASSUME NEW q \in Requests PROVE RequestIsRecent(q)'
    <3>1. RequestIsRecent(q)
      BY DEF RecentInv
    <3>2. CASE q = r
      BY <1>1, <1>10, <2>1, <2>2, <3>2 DEF Rendered, RequestIs, RequestIsRecent, Fresh
    <3>3. CASE q # r
      BY <1>1, <1>10, <2>2, <3>1, <3>3 DEF Rendered, RequestIs, RequestIsRecent, Fresh
    <3> QED
      BY <3>2, <3>3
  <2> QED
    BY <1>3, <2>5, <2>6 DEF RecentInv
<1>11. ASSUME NEW r \in Requests, Kept(r) PROVE RecentInv'
  <2>1. \A d \in pdf : d \in AnyDeck /\ d.no >= 1 /\ Fresh(d, now)
    BY <1>2, <1>11 DEF Kept, RecentInv, ObjectIsRecent, RequestIsRecent
  <2>2. now - Lifetime + 1 <= now /\ now - Lifetime + 1 \in Int /\ (now + Lifetime) - Lifetime = now
    BY <1>2
  <2>3. \A d \in pdf : Fresh(d, now - Lifetime + 1)
    BY <1>2, <1>5, <2>1, <2>2
  <2>4. RequestIsRecent(r)'
    BY <1>1, <1>2, <1>11, <2>1, <2>3 DEF Kept, RequestIs, RequestIsRecent, Fresh
  <2>5. CASE cached' = cached
    BY <1>6, <1>7, <1>11, <2>4, <2>5 DEF Kept, RequestIs
  <2>6. CASE cached' = now + Lifetime
    <3>1. ObjectIsRecent'
      BY <1>1, <1>2, <1>11, <2>1, <2>2, <2>6 DEF Kept, ObjectIsRecent, Fresh
    <3> QED
      BY <1>7, <1>11, <2>4, <3>1 DEF Kept, RequestIs
  <2> QED
    BY <1>11, <2>5, <2>6 DEF Kept
<1>12. CASE Removed
  <2>1. 0 - Lifetime <= cached - Lifetime /\ 0 - Lifetime \in Int /\ cached - Lifetime \in Int
    BY <1>2
  <2>2. \A d \in pdf : d.no >= 1 /\ Fresh(d, 0 - Lifetime)
    BY <1>2, <1>5, <2>1 DEF RecentInv, ObjectIsRecent
  <2>3. ObjectIsRecent'
    BY <1>1, <1>2, <1>12, <2>2 DEF Removed, ObjectIsRecent, Fresh
  <2>4. \A r \in Requests : RequestIsRecent(r)'
    BY <1>1, <1>12, OthersAreRecent DEF Removed, RecentInv
  <2> QED
    BY <1>3, <2>3, <2>4 DEF RecentInv
<1> QED
  BY <1>8, <1>9, <1>10, <1>11, <1>12 DEF ViewStep

LEMMA RecentStep ==
    ASSUME TypeOK, RecentInv, TaskStep \/ ViewStep
    PROVE  RecentInv'
<1>1. CASE UNCHANGED <<deck, replaced, now>> /\ UNCHANGED views
  BY <1>1 DEF views, RecentInv, DeckIsLast, ObjectIsRecent, RequestIsRecent, Fresh
<1>2. CASE Tick /\ ~Rendering /\ UNCHANGED views
  <2>1. /\ now' = now + 1 /\ now \in Nat /\ UNCHANGED <<deck, replaced, reqs, pdf, cached>>
        /\ cached \in Nat /\ Lifetime \in Nat
        /\ \A r \in Requests : reqs[r].at \in Nat
    BY <1>2 DEF Tick, presentation, views, TypeOK, RowTyped, ViewsTyped, Request
  <2>2. \A r \in Requests : reqs[r].phase \notin {"rendering", "uploaded"}
    BY <1>2 DEF Rendering
  <2>3. DeckIsLast'
    BY <2>1 DEF RecentInv, DeckIsLast
  <2>4. ObjectIsRecent'
    <3>1. cached <= now + Lifetime /\ \A d \in pdf : d.no >= 1 /\ Fresh(d, cached - Lifetime)
      BY DEF RecentInv, ObjectIsRecent
    <3>2. cached <= now' + Lifetime
      BY <2>1, <3>1
    <3> QED
      BY <2>1, <3>1, <3>2 DEF ObjectIsRecent, Fresh
  <2>5. ASSUME NEW r \in Requests PROVE RequestIsRecent(r)'
    BY <2>1, <2>2 DEF RecentInv, RequestIsRecent, Fresh
  <2> QED
    BY <2>3, <2>4, <2>5 DEF RecentInv
<1> QED
  BY <1>1, <1>2, DeckStepIsRecent, ViewStepIsRecent DEF TaskStep, AskStep, JobStep

(* A deck that a preview shows was that of the presentation within the     *)
(* lifetime of the entry before the answer, however renders overlap, and   *)
(* although what is behind the link changes while the entry stays.         *)
THEOREM RecentPreviews == Composed => []PreviewsAreRecent
<1>1. ComposedInit => TypeOK /\ RecentInv
  <2>1. ASSUME ComposedInit
        PROVE  /\ \A r \in Requests : reqs[r].shown = {} /\ reqs[r].at = 0 /\ reqs[r].phase = "none"
               /\ pdf = {} /\ deck.no = 1 /\ Len(replaced) = 0 /\ cached = 0 /\ now = 0
    BY <2>1 DEF ComposedInit, Init, InitViews, Unsent, Deck
  <2> QED
    BY <2>1, InitTypes DEF RecentInv, DeckIsLast, ObjectIsRecent, RequestIsRecent
<1>2. TypeOK /\ RecentInv /\ [ComposedNext]_<<vars, views>> => TypeOK' /\ RecentInv'
  <2>1. TypeOK /\ RecentInv /\ UNCHANGED <<vars, views>> => RecentInv'
    BY DEF vars, views, presentation, counters, RecentInv, DeckIsLast, ObjectIsRecent, RequestIsRecent, Fresh
  <2> QED
    BY <2>1, TypeStep, TypeStutters, RecentStep
<1>3. TypeOK /\ RecentInv => PreviewsAreRecent
  <2>1. ASSUME TypeOK, RecentInv, NEW r \in Requests, reqs[r].kind = "pdf", reqs[r].phase = "answered",
               NEW d \in reqs[r].shown
        PROVE  d.no > Len(replaced) \/ replaced[d.no] > reqs[r].at - Lifetime
    <3>1. d.no >= 1 /\ Fresh(d, reqs[r].at - Lifetime + 1)
      BY <2>1 DEF RecentInv, RequestIsRecent
    <3>2. reqs[r].at \in Nat /\ replaced \in Seq(Nat) /\ d.no \in Nat
      BY <2>1 DEF TypeOK, RowTyped, ViewsTyped, Request, AnyDeck
    <3>3. CASE d.no \in 1..Len(replaced)
      <4>1. replaced[d.no] \in Nat
        BY <3>2, <3>3
      <4> QED
        BY <3>1, <3>2, <3>3, <4>1 DEF Fresh
    <3> QED
      BY <3>1, <3>2, <3>3
  <2> QED
    BY <2>1 DEF PreviewsAreRecent, Answers
<1> QED
  BY <1>1, <1>2, <1>3, PTL DEF Composed

=============================================================================
