--------------------------------- MODULE Page ---------------------------------
(***************************************************************************)
(* The browser's page around the polling hook: the selected document and   *)
(* its report (frontend/src/App.tsx, components/ReportView.tsx), the       *)
(* upload panel (components/UploadPanel.tsx, api.ts), and the two routes   *)
(* of the API they call beside the list (backend/app/routers/documents.py).*)
(*                                                                         *)
(* React renders whenever state changes and runs the effect of ReportView  *)
(* some time after; until then the screen may show what it showed before.  *)
(***************************************************************************)
EXTENDS Polling

CONSTANTS
    Nobody,         \* no document
    MaxSelections   \* bound of the model: clicks on the list

ASSUME PageAssumption == Nobody \notin Docs /\ MaxSelections \in Nat

VARIABLES
    selected,       \* selectedId
    effect,         \* the dependencies ReportView's effect last ran with
    report,         \* the document whose report it holds
    loadError,
    fetches,        \* getReport calls under way
    upload,         \* the panel's state, and what its handler is waiting for
    selections,
    confirmed       \* history: the poll onUploaded started for a document

reportVars == <<selected, effect, report, loadError, fetches, selections>>
uploadVars == <<upload, confirmed>>
pageVars == <<pollVars, reportVars, uploadVars>>

NotMounted == [id |-> Nobody, status |-> "ABSENT"]
Answers == {"report", "not ready", "not found", "broken"}

PageTypeOK ==
    /\ PollingTypeOK
    /\ selected \in Docs \cup {Nobody}
    /\ effect \in [id : Docs \cup {Nobody}, status : Status]
    /\ report \in Docs \cup {Nobody}
    /\ loadError \in BOOLEAN
    /\ fetches \subseteq [id : Docs, cancelled : BOOLEAN, answer : Answers \cup {"pending"}]
    /\ upload \in [phase : {"idle", "error", "slot", "sending", "confirming", "done"},
                   id : Docs \cup {Nobody}]
    /\ upload.phase \in {"slot", "sending", "confirming", "done"} => upload.id # Nobody
    /\ selections \in 0 .. MaxSelections
    /\ confirmed \in [Docs -> 0 .. latestRequest]

PageInit ==
    /\ PollingInit
    /\ selected = Nobody
    /\ effect = NotMounted
    /\ report = Nobody
    /\ loadError = FALSE
    /\ fetches = {}
    /\ upload = [phase |-> "idle", id |-> Nobody]
    /\ selections = 0
    /\ confirmed = [d \in Docs |-> 0]

-----------------------------------------------------------------------------
(* The selected document and its report. *)

Select(d) ==
    /\ page = "shown" /\ documents.items[d] # "ABSENT"
    /\ selections < MaxSelections
    /\ selections' = selections + 1
    /\ selected' = d
    /\ UNCHANGED <<pollVars, uploadVars, effect, report, loadError, fetches>>

(* Mutant: the effect depends on the document object, new with every poll. *)
DepsOfObject ==
    IF page = "shown" /\ selected # Nobody
    THEN [id |-> selected, status |-> documents.items[selected], at |-> documents.version]
    ELSE NotMounted

(* ReportView is mounted when a document is selected. *)
Deps ==
    IF page = "shown" /\ selected # Nobody
    THEN [id |-> selected, status |-> documents.items[selected]]
    ELSE NotMounted

EffectIsDue == effect # Deps

(* The cleanup of the effect that ran before. *)
Cancelled == {[f EXCEPT !.cancelled = TRUE] : f \in fetches}

NewFetch(d) == [id |-> d, cancelled |-> FALSE, answer |-> "pending"]

(* Mutant: a report is asked for whatever the document's status. *)
FetchedAnyway(deps) == {NewFetch(deps.id)}

Fetched(deps) == IF deps.status = "COMPLETED" THEN {NewFetch(deps.id)} ELSE {}

EffectRuns ==
    /\ page = "shown" /\ EffectIsDue
    /\ effect' = Deps
    /\ report' = Nobody /\ loadError' = FALSE
    /\ fetches' = Cancelled \cup Fetched(Deps)
    /\ UNCHANGED <<pollVars, uploadVars, selected, selections>>

(* Mutant: a ref keeps the second run from asking again. *)
EffectRunsGuarded ==
    /\ page = "shown" /\ EffectIsDue /\ effect = NotMounted
    /\ effect' = Deps
    /\ report' = Nobody /\ loadError' = FALSE
    /\ fetches' = Cancelled \cup {[f EXCEPT !.cancelled = TRUE] : f \in Fetched(Deps)}
    /\ UNCHANGED <<pollVars, uploadVars, selected, selections>>

(* StrictMode: the effect of a component just mounted, its cleanup, and it *)
(* again.                                                                  *)
EffectRunsTwice ==
    /\ page = "shown" /\ EffectIsDue /\ effect = NotMounted
    /\ effect' = Deps
    /\ report' = Nobody /\ loadError' = FALSE
    /\ fetches' = Cancelled \cup Fetched(Deps)
                  \cup {[f EXCEPT !.cancelled = TRUE] : f \in Fetched(Deps)}
    /\ UNCHANGED <<pollVars, uploadVars, selected, selections>>

(* What get_report may answer.  The worker stores the report before the    *)
(* document is COMPLETED; of a FAILED one an earlier attempt may have.     *)
ReportAnswers(status) ==
    CASE status = "COMPLETED" -> {"report"}
      [] status = "FAILED" -> {"report", "not found"}
      [] OTHER -> {"not ready"}

(* The API answers, or the request is lost. *)
GetReport(f) ==
    /\ f.answer = "pending"
    /\ \E answer \in ReportAnswers(server[f.id]) \cup {"broken"} :
          fetches' = (fetches \ {f}) \cup {[f EXCEPT !.answer = answer]}
    /\ UNCHANGED <<pollVars, uploadVars, selected, effect, report, loadError, selections>>

(* Mutant: the cancelled flag is not looked at. *)
WantedAlways(f) == TRUE

Wanted(f) == ~f.cancelled

ReportArrives(f) ==
    /\ f.answer \in Answers
    /\ fetches' = fetches \ {f}
    /\ report' = IF Wanted(f) /\ f.answer = "report" THEN f.id ELSE report
    /\ loadError' = (loadError \/ (Wanted(f) /\ f.answer # "report"))
    /\ UNCHANGED <<pollVars, uploadVars, selected, effect, selections>>

(* The page goes, and ReportView with it. *)
Leave ==
    /\ Unmount
    /\ selected' = Nobody /\ effect' = NotMounted
    /\ report' = Nobody /\ loadError' = FALSE
    /\ fetches' = Cancelled
    /\ UNCHANGED <<selections, uploadVars>>

-----------------------------------------------------------------------------
(* handleFile of the upload panel, whose input is disabled while it runs.  *)

ChooseFile(d) ==
    /\ page = "shown" /\ upload.phase \in {"idle", "error"}
    /\ server[d] = "ABSENT"
    /\ upload' = [phase |-> "slot", id |-> d]
    /\ UNCHANGED <<pollVars, reportVars, confirmed>>

Phase(from, next) ==
    /\ upload.phase = from
    /\ upload' = [upload EXCEPT !.phase = next]
    /\ UNCHANGED <<reportVars, confirmed>>

(* create_document commits its row and answers; it may refuse, or its      *)
(* answer be lost.                                                         *)
CreateSlot(d) ==
    /\ upload.id = d
    /\ \/ Changes(d) /\ \E next \in {"sending", "error"} : Phase("slot", next)
       \/ Phase("slot", "error") /\ UNCHANGED pollVars

(* The POST to S3, which is stored or not. *)
PostFile == (\E next \in {"confirming", "error"} : Phase("sending", next)) /\ UNCHANGED pollVars

(* Mutant: the list is refreshed, and the panel idle, without waiting for  *)
(* upload-complete.                                                        *)
ConfirmLater(d) == upload.id = d /\ Phase("confirming", "done") /\ UNCHANGED pollVars

(* upload_complete queues a document that is still UPLOADING, and answers  *)
(* or not.                                                                 *)
Confirm(d) ==
    /\ upload.id = d
    /\ IF server[d] = "UPLOADING"
       THEN Changes(d) /\ server'[d] = "QUEUED"
       ELSE UNCHANGED pollVars
    /\ \E next \in {"done", "error"} : Phase("confirming", next)

(* The panel is idle again and onUploaded starts a poll. *)
Uploaded(d) ==
    /\ upload.phase = "done" /\ upload.id = d
    /\ upload' = [phase |-> "idle", id |-> Nobody]
    /\ confirmed' = [confirmed EXCEPT ![d] = latestRequest + 1]
    /\ Refresh
    /\ UNCHANGED reportVars

(* Everybody else: other pages, the worker, the reaper.  The document this *)
(* page is about to create is its own.                                     *)
OthersChange(d) ==
    /\ ~(upload.phase = "slot" /\ upload.id = d)
    /\ Changes(d)
    /\ UNCHANGED <<reportVars, uploadVars>>

-----------------------------------------------------------------------------
PollStep ==
    \/ Mount \/ MountTwice \/ Focus
    \/ \E t \in timers : TimerFires(t)
    \/ \E r \in requests : Answer(r) \/ Arrives(r)

FetchStep == \E f \in fetches : GetReport(f) \/ ReportArrives(f)

PageNext ==
    \/ PollStep /\ UNCHANGED <<reportVars, uploadVars>>
    \/ Leave
    \/ EffectRuns \/ EffectRunsTwice \/ FetchStep
    \/ PostFile
    \/ \E d \in Docs : \/ Select(d) \/ ChooseFile(d) \/ CreateSlot(d)
                       \/ Confirm(d) \/ Uploaded(d) \/ OthersChange(d)

PageSpec == PageInit /\ [][PageNext]_pageVars

(* React runs what is due, and a request is answered or fails. *)
PageFairness == WF_pageVars(EffectRuns \/ EffectRunsTwice) /\ WF_pageVars(FetchStep)

-----------------------------------------------------------------------------
(* Once the effect has run, the report on the screen is the selected       *)
(* document's, whatever was selected before and however late its report    *)
(* arrives (ReportView 68-88).                                             *)
ReportIsOfSelected ==
    page = "shown" /\ ~EffectIsDue /\ report # Nobody =>
        report = selected /\ documents.items[selected] = "COMPLETED"

(* A report is asked for only when the API has it: never 409 or 404,       *)
(* however old the list is (ReportView 73, documents.py 122-127).          *)
ReportIsReady == \A f \in fetches : f.answer \notin {"not ready", "not found"}

(* A report that is read is not taken away by the polls that go on.        *)
ReportStays ==
    [][report # Nobody /\ report = selected /\ selected' = selected /\ page' = "shown"
          => report' = report]_pageVars

(* When the panel is idle after an upload, the document has left UPLOADING *)
(* (it is queued or further, or the sweep has expired it), and no answer   *)
(* that may still be rendered says otherwise (UploadPanel 38-43).          *)
UploadIsSeen ==
    \A d \in Docs : confirmed[d] > 0 =>
        /\ server[d] \notin {"ABSENT", "UPLOADING"}
        /\ \A r \in requests : r.ticket >= confirmed[d] /\ r.state = "answered" =>
               r.list.items[d] \notin {"ABSENT", "UPLOADING"}

(* The report of a completed document that stays selected is shown in the  *)
(* end, or an error is.                                                    *)
ReportLoads ==
    \A d \in Docs :
        (selected = d /\ documents.items[d] = "COMPLETED") ~>
            (report = d \/ loadError \/ selected # d)
=============================================================================
