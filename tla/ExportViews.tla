---------------------------- MODULE ExportViews ----------------------------
(***************************************************************************)
(* What users get of a presentation without a task: the deck itself        *)
(* (get_presentation), the file that is built while they wait, the         *)
(* pictures of its slides and the PDF preview with its entry in Redis      *)
(* (backend/app/api/v1/export_templates_admin.py 223-660, 1109-1145,       *)
(* pptx-service/server.js), beside the tasks of SideTasks.                 *)
(***************************************************************************)
EXTENDS SideTasks

CONSTANTS
  MaxRequests,    \* bound: requests for a file, for pictures or for a preview
  Lifetime        \* 55 minutes, in ticks

ASSUME ExportViewsAssumption == MaxRequests \in Nat /\ Lifetime \in Nat \ {0}

Requests == 1..MaxRequests

VARIABLES
  reqs,       \* per request: its kind, how far it is and the deck it read
  pdf,        \* MinIO: previews/<presentation>/preview.pdf, {} before the first
  cached      \* Redis: when the entry preview:<presentation> expires, 0 without

views == <<reqs, pdf, cached>>
tasks == <<presentation, runs, jobs, keys, files, crashes, now>>

Unsent == [kind |-> "none", phase |-> "none", shown |-> {}, at |-> 0]

InitViews == reqs = [r \in Requests |-> Unsent] /\ pdf = {} /\ cached = 0

-----------------------------------------------------------------------------
\* get_presentation: 202 while it is made, 422 when it failed, or the slides.
View ==
  CASE status \in {"queued", "processing"} -> {}
    [] status = "failed" -> {}
    [] OTHER -> {deck}

\* The row is read once, before the call of the pptx service: what is built is
\* the deck that was there then.
Send(r, kind, phase, shown) ==
  /\ \A q \in Requests : reqs[q] = Unsent <=> q >= r
  /\ IsAsked
  /\ reqs' = [reqs EXCEPT ![r] = [kind |-> kind, phase |-> phase, shown |-> shown,
                                  at |-> now]]

\* trigger_pptx_export: no job and no object, the answer is the file.
AskFile(r) ==
  /\ status = "completed" /\ Send(r, "file", "building", {deck})
  /\ UNCHANGED <<tasks, pdf, cached>>

\* download_pptx, behind a link that get_pptx_export_status hands out whatever
\* the status of the presentation is.
AskDownload(r) == AskFile(r)

\* get_pptx_preview_images.
AskImages(r) ==
  /\ status = "completed" /\ Send(r, "images", "building", {deck})
  /\ UNCHANGED <<tasks, pdf, cached>>

Ends(r, phase) == reqs' = [reqs EXCEPT ![r].phase = phase]

\* POST /build of the pptx service.
BuildFile(r) ==
  /\ reqs[r].kind = "file" /\ reqs[r].phase = "building" /\ Ends(r, "answered")
  /\ UNCHANGED <<tasks, asked, pdf, cached>>

\* POST /preview: the file, converted to a PDF and to pictures.
BuildImages(r) ==
  /\ reqs[r].kind = "images" /\ reqs[r].phase = "building" /\ Ends(r, "answered")
  /\ UNCHANGED <<tasks, asked, pdf, cached>>

\* An error of its conversion, or 60 and 120 seconds without an answer.
BuildRequestFails(r) ==
  /\ reqs[r].phase = "building" /\ Ends(r, "refused")
  /\ UNCHANGED <<tasks, asked, pdf, cached>>

\* get_export_preview with the link in Redis, to whatever the object is now.
PreviewHit(r) ==
  /\ status = "completed" /\ now < cached
  /\ Send(r, "pdf", "answered", pdf)
  /\ UNCHANGED <<tasks, pdf, cached>>

\* Without it; several requests may be here at once.
PreviewMiss(r) ==
  /\ status = "completed" /\ now >= cached
  /\ Send(r, "pdf", "rendering", {deck})
  /\ UNCHANGED <<tasks, pdf, cached>>

\* The titles and bullets of the slides, or without a browser a page with
\* nothing on it.
Pages(shown) == {shown, {}}

\* _render_pdf_preview: all previews of a presentation are one object.
Render(r) ==
  /\ reqs[r].phase = "rendering"
  /\ \E shown \in Pages(reqs[r].shown) :
       /\ pdf' = shown
       /\ reqs' = [reqs EXCEPT ![r].phase = "uploaded"]
  /\ UNCHANGED <<tasks, asked, cached>>

\* MinIO does not answer.
RenderFails(r) ==
  /\ reqs[r].phase = "rendering" /\ Ends(r, "refused")
  /\ UNCHANGED <<tasks, asked, pdf, cached>>

\* Variant: the entry lives as long as the signed link, an hour or more.
KeepLonger(r) ==
  /\ reqs[r].phase = "uploaded"
  /\ reqs' = [reqs EXCEPT ![r].phase = "answered", ![r].at = now, ![r].shown = pdf]
  /\ cached' = now + Lifetime + 1
  /\ UNCHANGED <<tasks, asked, pdf>>

\* The entry is set, unless Redis fails, and the link returned.
Keep(r) ==
  /\ reqs[r].phase = "uploaded"
  /\ reqs' = [reqs EXCEPT ![r].phase = "answered", ![r].at = now, ![r].shown = pdf]
  /\ cached' \in {now + Lifetime, cached}
  /\ UNCHANGED <<tasks, asked, pdf>>

\* invalidate_presentation_cache, by an admin: the entry, not the object.
Invalidate ==
  /\ cached > 0 /\ cached' = 0
  /\ UNCHANGED <<tasks, asked, reqs, pdf>>

\* A browser has 30 seconds for a page, much less than a tick.
Rendering == \E r \in Requests : reqs[r].phase \in {"rendering", "uploaded"}

ViewNext ==
  \/ \E r \in Requests :
       \/ AskFile(r) \/ AskDownload(r) \/ AskImages(r)
       \/ BuildFile(r) \/ BuildImages(r) \/ BuildRequestFails(r)
       \/ PreviewHit(r) \/ PreviewMiss(r) \/ Render(r) \/ RenderFails(r) \/ Keep(r)
  \/ Invalidate

ComposedInit == Init /\ InitViews

ComposedNext ==
  \/ Next /\ UNCHANGED views
  \/ Tick /\ ~Rendering /\ UNCHANGED views
  \/ ViewNext

Composed ==
  /\ ComposedInit /\ [][ComposedNext]_<<vars, views>>
  /\ \A j \in Jobs : WF_<<vars, views>>(Work(j) /\ UNCHANGED views)

-----------------------------------------------------------------------------
Answers(kinds) == {reqs[r] : r \in {r \in Requests : reqs[r].kind \in kinds /\ reqs[r].phase = "answered"}}

\* Whatever a user is shown is a whole deck: the deck itself, the file behind
\* the link of an export, a file, pictures or a preview, although runs begin,
\* fail and leave parts between the request, its tries and the answer.  The
\* exception is a user who asked for a run while another was about to end: its
\* safety net may then call the part of the other completed.
OutputsAreWhole ==
  doubled \/ /\ \A d \in View : d.whole
             /\ \A j \in Jobs : Poll(j) = "completed" => files[j].whole
             /\ \A a \in Answers({"file", "images", "pdf"}) : \A d \in a.shown : d.whole

\* A preview may be stale, but not by more than the lifetime of its entry: the
\* deck it shows was still there within the 55 minutes before the answer, even
\* when renders overlap and the older one is the last to write the object.
PreviewsAreRecent ==
  \A a \in Answers({"pdf"}) : \A d \in a.shown :
    d.no > Len(replaced) \/ replaced[d.no] > a.at - Lifetime
=============================================================================
