------------------------------ MODULE PageProofs ------------------------------
(***************************************************************************)
(* Theorems about Page, for every set of documents and any number of polls *)
(* and clicks.  The page only ever takes steps of Polling, so Polling's    *)
(* theorems are the page's too; on them rest those about its report.       *)
(***************************************************************************)
EXTENDS Page, PollingProofs

(* The view holds what the first statuses remember: settled documents are  *)
(* what they were.                                                         *)
ViewIsRemembered ==
    \A d \in Docs : documents.items[d] \in Settled => prevStatuses[d] = documents.items[d]

(* A fetch that is not cancelled is the last effect's, and so is what the  *)
(* view holds.                                                             *)
WantedIsTheEffects ==
    /\ \A f \in fetches : ~f.cancelled => f.id = effect.id /\ effect.status = "COMPLETED"
    /\ report # Nobody => report = effect.id /\ effect.status = "COMPLETED"

(* The effect that asked for a report saw a document that is still what    *)
(* the page shows.                                                         *)
EffectIsOfView ==
    /\ effect.status = "COMPLETED" =>
           effect.id \in Docs /\ documents.items[effect.id] = "COMPLETED"
    /\ page # "shown" => report = Nobody /\ effect = NotMounted
    /\ \A f \in fetches : documents.items[f.id] = "COMPLETED"

(* What the upload panel has been told of its document.                    *)
UploadIsKnown ==
    /\ upload.phase \in {"sending", "confirming"} => server[upload.id] # "ABSENT"
    /\ upload.phase = "done" => server[upload.id] \notin {"ABSENT", "UPLOADING"}

ReportInv ==
    /\ PageTypeOK
    /\ ViewIsRemembered
    /\ WantedIsTheEffects /\ EffectIsOfView
    /\ ReportIsReady
    /\ UploadIsKnown /\ UploadIsSeen

-----------------------------------------------------------------------------
USE PollingAssumption, PageAssumption DEF NoTimer, Settled, Status, EmptyList, NotMounted

(* Each step of the page is one of the hook's, or none. *)
LEMMA PageStepIsPollingStep ==
    ASSUME [PageNext]_pageVars
    PROVE  [PollingNext]_pollVars
<1>1. CASE PollStep
  BY <1>1 DEF PollStep, PollingNext
<1>2. CASE Leave
  BY <1>2 DEF Leave, PollingNext
<1>3. CASE EffectRuns \/ EffectRunsTwice \/ FetchStep \/ PostFile
  BY <1>3 DEF EffectRuns, EffectRunsTwice, FetchStep, GetReport, ReportArrives, PostFile
<1>4. ASSUME NEW d \in Docs, Select(d) \/ ChooseFile(d)
      PROVE  UNCHANGED pollVars
  BY <1>4 DEF Select, ChooseFile
<1>5. ASSUME NEW d \in Docs, CreateSlot(d) \/ Confirm(d) \/ OthersChange(d)
      PROVE  [PollingNext]_pollVars
  BY <1>5 DEF CreateSlot, Confirm, OthersChange, PollingNext
<1>6. ASSUME NEW d \in Docs, Uploaded(d)
      PROVE  PollingNext
  BY <1>6 DEF Uploaded, PollingNext
<1>7. CASE UNCHANGED pageVars
  BY <1>7 DEF pageVars
<1>8. QED
  BY <1>1, <1>2, <1>3, <1>4, <1>5, <1>6, <1>7 DEF PageNext

(* The page implements the polling hook (App.tsx 44, usePolling.ts). *)
THEOREM PageImplementsPolling == PageSpec => PollingSpec
<1>1. PageInit => PollingInit
  BY DEF PageInit
<1>2. QED
  BY <1>1, PageStepIsPollingStep, PTL DEF PageSpec, PollingSpec

(* Every behaviour of the page has the hook's invariant. *)
LEMMA PageHasPollingInv == PageSpec => []PollingInv
  BY PageImplementsPolling, PollingIsInvariant, PTL

-----------------------------------------------------------------------------
(* What a step of the hook leaves as it was. *)

LEMMA ViewStep ==
    ASSUME PollingInv, ViewIsRemembered, [PollingNext]_pollVars
    PROVE  /\ ViewIsRemembered'
           /\ \A d \in Docs : documents.items[d] \in Settled =>
                  documents'.items[d] = documents.items[d]
<1>1. ASSUME NEW r \in requests, Lands(r)
      PROVE  /\ ViewIsRemembered'
             /\ \A d \in Docs : documents.items[d] \in Settled =>
                    documents'.items[d] = documents.items[d]
  <2>1. \A d \in Docs : prevStatuses[d] \in Settled => r.list.items[d] = prevStatuses[d]
    BY <1>1 DEF PollingInv, ToastInv, NewestIsSettled, Lands, IsStale
  <2>2. \A d \in Docs : prevStatuses'[d] = IF r.list.items[d] = "ABSENT" THEN prevStatuses[d]
                                           ELSE r.list.items[d]
    BY <1>1 DEF Lands
  <2>3. documents' = r.list \/ documents' = documents
    BY <1>1 DEF Lands
  <2>4. QED
    BY <2>1, <2>2, <2>3 DEF ViewIsRemembered
<1>2. CASE ~\E r \in requests : Lands(r)
  <2>1. documents' = documents /\ prevStatuses' = prevStatuses
    BY <1>2 DEF PollingNext, Mount, MountTwice, Unmount, Focus, Refresh, TimerFires,
                Answer, Arrives, Dropped, Breaks, Changes, pollVars, viewVars
  <2>2. QED
    BY <2>1 DEF ViewIsRemembered
<1>3. QED
  BY <1>1, <1>2

(* A document that is queued or further stays so. *)
LEMMA ServerStep ==
    ASSUME PollingInv, [PollingNext]_pollVars
    PROVE  \A d \in Docs : server[d] \notin {"ABSENT", "UPLOADING"} =>
               server'[d] \notin {"ABSENT", "UPLOADING"}
<1>1. ASSUME NEW e \in Docs, Changes(e)
      PROVE  \A d \in Docs : server[d] \notin {"ABSENT", "UPLOADING"} =>
                 server'[d] \notin {"ABSENT", "UPLOADING"}
  <2>1. server \in [Docs -> Status]
    BY DEF PollingInv, LoopInv, PollingTypeOK
  <2>2. PICK s \in Moves[server[e]] : server' = [server EXCEPT ![e] = s]
    BY <1>1 DEF Changes
  <2>3. server[e] \notin {"ABSENT", "UPLOADING"} => s \notin {"ABSENT", "UPLOADING"}
    BY <2>1, <2>2 DEF Moves
  <2>4. QED
    BY <2>1, <2>2, <2>3
<1>2. CASE ~\E e \in Docs : Changes(e)
  BY <1>2 DEF PollingNext, Mount, MountTwice, Unmount, Focus, Refresh, TimerFires,
              Answer, Arrives, Dropped, Breaks, Lands, pollVars, serverVars
<1>3. QED
  BY <1>1, <1>2

(* No document leaves the list. *)
LEMMA ServerStays ==
    ASSUME PollingInv, [PollingNext]_pollVars
    PROVE  \A d \in Docs : server[d] # "ABSENT" => server'[d] # "ABSENT"
<1>1. ASSUME NEW e \in Docs, Changes(e)
      PROVE  \A d \in Docs : server[d] # "ABSENT" => server'[d] # "ABSENT"
  <2>1. server \in [Docs -> Status]
    BY DEF PollingInv, LoopInv, PollingTypeOK
  <2>2. PICK s \in Moves[server[e]] : server' = [server EXCEPT ![e] = s]
    BY <1>1 DEF Changes
  <2>3. s # "ABSENT"
    BY <2>1, <2>2 DEF Moves
  <2>4. QED
    BY <2>1, <2>2, <2>3
<1>2. CASE ~\E e \in Docs : Changes(e)
  BY <1>2 DEF PollingNext, Mount, MountTwice, Unmount, Focus, Refresh, TimerFires,
              Answer, Arrives, Dropped, Breaks, Lands, pollVars, serverVars
<1>3. QED
  BY <1>1, <1>2

(* An answer that is new tells the table as it is. *)
LEMMA AnswerStep ==
    ASSUME PollingInv, [PollingNext]_pollVars
    PROVE  /\ \A r \in requests' : r.state = "answered" =>
                  r \in requests \/ (r.list.items = server /\ latestRequest' = latestRequest)
           /\ latestRequest' \in Nat /\ latestRequest' >= latestRequest
<1>0. latestRequest \in Nat /\ PollingTypeOK
  BY DEF PollingInv, LoopInv, PollingTypeOK
<1>1. ASSUME NEW q \in requests, Answer(q)
      PROVE  /\ \A r \in requests' : r.state = "answered" =>
                    r \in requests \/ (r.list.items = server /\ latestRequest' = latestRequest)
             /\ latestRequest' = latestRequest
  <2>1. q \in [ticket : 1 .. latestRequest, state : {"pending", "broken", "answered"},
               list : [items : [Docs -> Status], version : 0 .. version]]
    BY <1>0 DEF PollingTypeOK
  <2>2. PICK a : /\ requests' = (requests \ {q}) \cup {a}
                 /\ \/ a = [q EXCEPT !.state = "broken"]
                    \/ a = [q EXCEPT !.state = "answered",
                                     !.list = [items |-> server, version |-> version]]
    BY <1>1 DEF Answer
  <2>3. a.state = "broken" \/ a.list.items = server
    <3>1. CASE a = [q EXCEPT !.state = "broken"]
      BY <2>1, <3>1
    <3>2. CASE a = [q EXCEPT !.state = "answered",
                             !.list = [items |-> server, version |-> version]]
      BY <2>1, <3>2
    <3>3. QED
      BY <2>2, <3>1, <3>2
  <2>4. latestRequest' = latestRequest
    BY <1>1 DEF Answer
  <2>5. QED
    BY <2>2, <2>3, <2>4
<1>2. ASSUME NEW left, StartPoll(left)
      PROVE  /\ \A r \in requests' : r.state = "answered" => r \in requests
             /\ latestRequest' = latestRequest + 1
  BY <1>2 DEF StartPoll, Request
<1>3. CASE MountTwice
  BY <1>0, <1>3 DEF MountTwice, Request, PollingInv, LoopInv, LoadingIsFresh
<1>4. CASE Mount \/ Focus \/ Refresh \/ \E t \in timers : TimerFires(t)
  <2>1. \E left : StartPoll(left)
    BY <1>4 DEF Mount, Focus, Refresh, TimerFires
  <2>2. QED
    BY <1>0, <1>2, <2>1
<1>5. CASE UNCHANGED pollVars \/ Unmount
  BY <1>0, <1>5 DEF Unmount, pollVars, loopVars
<1>6. ASSUME NEW d \in Docs, Changes(d)
      PROVE  requests' = requests /\ latestRequest' = latestRequest
  BY <1>6 DEF Changes, loopVars
<1>7. ASSUME NEW r \in requests, Arrives(r)
      PROVE  requests' \subseteq requests /\ latestRequest' = latestRequest
  BY <1>7 DEF Arrives, Dropped, Lands, Breaks
<1>8. CASE \E q \in requests : Answer(q) \/ Arrives(q)
  BY <1>0, <1>1, <1>7, <1>8
<1>9. CASE \E d \in Docs : Changes(d)
  BY <1>0, <1>6, <1>9
<1>10. QED
  BY <1>3, <1>4, <1>5, <1>8, <1>9 DEF PollingNext

-----------------------------------------------------------------------------
LEMMA PageTypeStep ==
    ASSUME ReportInv, PollingInv, PollingInv', [PageNext]_pageVars
    PROVE  PageTypeOK'
<1> DEFINE FetchSet == [id : Docs, cancelled : BOOLEAN, answer : Answers \cup {"pending"}]
           Deps0 == [id : Docs \cup {Nobody}, status : Status]
           Phases == {"idle", "error", "slot", "sending", "confirming", "done"}
<1>0. PageTypeOK /\ PollingTypeOK /\ PollingTypeOK'
  BY DEF ReportInv, PollingInv, LoopInv
<1>1. /\ latestRequest \in Nat /\ latestRequest' \in Nat /\ latestRequest' >= latestRequest
      /\ confirmed \in [Docs -> 0 .. latestRequest']
  BY <1>0, AnswerStep, PageStepIsPollingStep DEF PageTypeOK, PollingTypeOK
<1>2. /\ Cancelled \subseteq FetchSet
      /\ Fetched(Deps) \subseteq FetchSet
      /\ {[f EXCEPT !.cancelled = TRUE] : f \in Fetched(Deps)} \subseteq FetchSet
      /\ Deps \in Deps0
  <2>1. \A f \in FetchSet : [f EXCEPT !.cancelled = TRUE] \in FetchSet
    OBVIOUS
  <2>2. Deps \in Deps0
    BY <1>0 DEF PageTypeOK, PollingTypeOK, Deps, Status
  <2>3. Fetched(Deps) \subseteq FetchSet
    <3>1. Deps.status = "COMPLETED" => Deps.id \in Docs
      BY <1>0 DEF PageTypeOK, Deps
    <3>2. \A x \in Docs : NewFetch(x) \in FetchSet
      BY DEF NewFetch
    <3>3. QED
      BY <3>1, <3>2 DEF Fetched
  <2>4. fetches \subseteq FetchSet
    BY <1>0 DEF PageTypeOK
  <2>5. QED
    BY <2>1, <2>2, <2>3, <2>4 DEF Cancelled
<1>3. CASE UNCHANGED <<reportVars, uploadVars>>
  BY <1>0, <1>1, <1>3 DEF PageTypeOK, reportVars, uploadVars
<1>4. CASE EffectRuns \/ EffectRunsTwice
  BY <1>0, <1>1, <1>2, <1>4 DEF PageTypeOK, EffectRuns, EffectRunsTwice, uploadVars
<1>5. CASE Leave
  BY <1>0, <1>1, <1>2, <1>5 DEF PageTypeOK, Leave, uploadVars, Status
<1>6. ASSUME NEW f \in fetches, GetReport(f)
      PROVE  PageTypeOK'
  <2>1. f \in FetchSet
    BY <1>0 DEF PageTypeOK
  <2>2. fetches' \subseteq FetchSet
    <3>1. ReportAnswers(server[f.id]) \subseteq Answers
      BY DEF ReportAnswers, Answers
    <3>2. \A a \in Answers : [f EXCEPT !.answer = a] \in FetchSet
      BY <2>1
    <3>3. QED
      BY <1>0, <1>6, <2>1, <3>1, <3>2 DEF GetReport, PageTypeOK, Answers
  <2>3. QED
    BY <1>0, <1>1, <1>6, <2>2 DEF PageTypeOK, GetReport, uploadVars
<1>7. ASSUME NEW f \in fetches, ReportArrives(f)
      PROVE  PageTypeOK'
  BY <1>0, <1>1, <1>7 DEF PageTypeOK, ReportArrives, uploadVars
<1>8. ASSUME NEW d \in Docs, Select(d)
      PROVE  PageTypeOK'
  BY <1>0, <1>1, <1>8 DEF PageTypeOK, Select, uploadVars
<1>9. ASSUME NEW d \in Docs, ChooseFile(d)
      PROVE  PageTypeOK'
  BY <1>0, <1>1, <1>9 DEF PageTypeOK, ChooseFile, reportVars
<1>10. ASSUME NEW from, NEW next \in Phases, Phase(from, next), from \in {"slot", "sending", "confirming"}
       PROVE  PageTypeOK'
  BY <1>0, <1>1, <1>10 DEF PageTypeOK, Phase, reportVars
<1>11. CASE PostFile
  BY <1>10, <1>11 DEF PostFile
<1>12. ASSUME NEW d \in Docs, CreateSlot(d) \/ Confirm(d)
       PROVE  PageTypeOK'
  BY <1>10, <1>12 DEF CreateSlot, Confirm
<1>13. ASSUME NEW d \in Docs, Uploaded(d)
       PROVE  PageTypeOK'
  <2>1. latestRequest' = latestRequest + 1
    BY <1>13 DEF Uploaded, Refresh, StartPoll
  <2>2. confirmed' \in [Docs -> 0 .. latestRequest']
    BY <1>1, <1>13, <2>1 DEF Uploaded
  <2>3. QED
    BY <1>0, <1>13, <2>2 DEF PageTypeOK, Uploaded, reportVars
<1>14. QED
  BY <1>3, <1>4, <1>5, <1>6, <1>7, <1>8, <1>9, <1>11, <1>12, <1>13
     DEF PageNext, FetchStep, OthersChange, pageVars

-----------------------------------------------------------------------------
(* The effect's run drops what the run before it asked for or holds. *)
LEMMA EffectInv ==
    ASSUME ReportInv, PollingInv, EffectRuns \/ EffectRunsTwice
    PROVE  WantedIsTheEffects' /\ EffectIsOfView' /\ ReportIsReady'
<1>0. /\ PageTypeOK /\ EffectIsOfView /\ ReportIsReady
      /\ documents' = documents /\ page' = page /\ page = "shown"
      /\ effect' = Deps /\ report' = Nobody
  BY DEF ReportInv, EffectRuns, EffectRunsTwice, pollVars, viewVars, loopVars
<1>1. fetches \subseteq [id : Docs, cancelled : BOOLEAN, answer : Answers \cup {"pending"}]
  BY <1>0 DEF PageTypeOK
<1>2. \A f \in Cancelled : f.cancelled /\ \E g \in fetches : f.id = g.id /\ f.answer = g.answer
  BY <1>1 DEF Cancelled
<1>3. /\ Deps.status = "COMPLETED" =>
             Deps.id \in Docs /\ documents.items[Deps.id] = "COMPLETED"
      /\ Deps.status = "COMPLETED" \/ Fetched(Deps) = {}
  BY <1>0 DEF PageTypeOK, Deps, Fetched
<1>4. \A f \in Fetched(Deps) : /\ f.id = Deps.id /\ Deps.status = "COMPLETED"
                               /\ f.answer = "pending"
                               /\ [f EXCEPT !.cancelled = TRUE].id = f.id
                               /\ [f EXCEPT !.cancelled = TRUE].cancelled
                               /\ [f EXCEPT !.cancelled = TRUE].answer = "pending"
  BY DEF Fetched, NewFetch
<1>5. \A f \in fetches' :
          \/ f \in Cancelled \/ f \in Fetched(Deps)
          \/ \E g \in Fetched(Deps) : f = [g EXCEPT !.cancelled = TRUE]
  BY DEF EffectRuns, EffectRunsTwice
<1>6. \A f \in fetches' : \/ f \in Cancelled
                          \/ /\ f.id = Deps.id /\ Deps.status = "COMPLETED"
                             /\ f.answer = "pending"
  BY <1>4, <1>5
<1>7. WantedIsTheEffects'
  BY <1>0, <1>2, <1>6 DEF WantedIsTheEffects
<1>8. EffectIsOfView'
  BY <1>0, <1>2, <1>3, <1>6 DEF EffectIsOfView
<1>9. ReportIsReady'
  BY <1>0, <1>2, <1>6 DEF ReportIsReady
<1>10. QED
  BY <1>7, <1>8, <1>9

(* The page goes, and what its effect asked for is cancelled. *)
LEMMA LeaveInv ==
    ASSUME ReportInv, PollingInv, Leave
    PROVE  WantedIsTheEffects' /\ EffectIsOfView' /\ ReportIsReady'
<1>0. /\ PageTypeOK /\ EffectIsOfView /\ ReportIsReady
      /\ documents' = documents /\ effect' = NotMounted /\ report' = Nobody
      /\ fetches' = Cancelled
  BY DEF ReportInv, Leave, Unmount, viewVars
<1>1. fetches \subseteq [id : Docs, cancelled : BOOLEAN, answer : Answers \cup {"pending"}]
  BY <1>0 DEF PageTypeOK
<1>2. \A f \in Cancelled : f.cancelled /\ \E g \in fetches : f.id = g.id /\ f.answer = g.answer
  BY <1>1 DEF Cancelled
<1>3. QED
  BY <1>0, <1>2 DEF WantedIsTheEffects, EffectIsOfView, ReportIsReady

(* The document of a report that was asked for is known to be settled, so  *)
(* the API has its report.                                                 *)
LEMMA GetReportInv ==
    ASSUME ReportInv, PollingInv, NEW f \in fetches, GetReport(f)
    PROVE  WantedIsTheEffects' /\ EffectIsOfView' /\ ReportIsReady'
<1>0. /\ PageTypeOK /\ ViewIsRemembered /\ WantedIsTheEffects /\ EffectIsOfView /\ ReportIsReady
      /\ documents' = documents /\ page' = page /\ effect' = effect /\ report' = report
  BY DEF ReportInv, GetReport, pollVars, viewVars, loopVars
<1>1. f \in [id : Docs, cancelled : BOOLEAN, answer : Answers \cup {"pending"}]
  BY <1>0 DEF PageTypeOK
<1>2. server[f.id] = "COMPLETED"
  <2>1. documents.items[f.id] = "COMPLETED"
    BY <1>0 DEF EffectIsOfView
  <2>2. prevStatuses[f.id] = "COMPLETED"
    BY <1>0, <1>1, <2>1 DEF ViewIsRemembered
  <2>3. QED
    BY <1>1, <2>2 DEF PollingInv, ToastInv, SettledIsKnown
<1>3. PICK answer \in {"report", "broken"} :
          fetches' = (fetches \ {f}) \cup {[f EXCEPT !.answer = answer]}
  BY <1>2 DEF GetReport, ReportAnswers
<1>4. /\ [f EXCEPT !.answer = answer].id = f.id
      /\ [f EXCEPT !.answer = answer].cancelled = f.cancelled
      /\ [f EXCEPT !.answer = answer].answer = answer
  BY <1>1
<1>5. QED
  BY <1>0, <1>3, <1>4 DEF WantedIsTheEffects, EffectIsOfView, ReportIsReady

(* A report that is held was wanted when it arrived. *)
LEMMA ReportArrivesInv ==
    ASSUME ReportInv, PollingInv, NEW f \in fetches, ReportArrives(f)
    PROVE  WantedIsTheEffects' /\ EffectIsOfView' /\ ReportIsReady'
<1>0. /\ WantedIsTheEffects /\ EffectIsOfView /\ ReportIsReady
      /\ documents' = documents /\ page' = page /\ effect' = effect
      /\ fetches' = fetches \ {f}
      /\ report' = report \/ (~f.cancelled /\ report' = f.id)
  BY DEF ReportInv, ReportArrives, Wanted, pollVars, viewVars, loopVars
<1>1. WantedIsTheEffects'
  BY <1>0 DEF WantedIsTheEffects
<1>2. EffectIsOfView'
  BY <1>0 DEF WantedIsTheEffects, EffectIsOfView
<1>3. QED
  BY <1>0, <1>1, <1>2 DEF ReportIsReady

(* The hook's steps do not unsettle the document of the report. *)
LEMMA OtherStepsReportInv ==
    ASSUME ReportInv, PollingInv, [PollingNext]_pollVars,
           UNCHANGED <<effect, report, fetches>>,
           page' = page \/ page = "loading"
    PROVE  WantedIsTheEffects' /\ EffectIsOfView' /\ ReportIsReady'
<1>1. PageTypeOK /\ ViewIsRemembered /\ WantedIsTheEffects /\ EffectIsOfView /\ ReportIsReady
  BY DEF ReportInv
<1>2. \A d \in Docs : documents.items[d] \in Settled => documents'.items[d] = documents.items[d]
  BY <1>1, ViewStep
<1>3. \A f \in fetches : f.id \in Docs
  BY <1>1 DEF PageTypeOK
<1>4. EffectIsOfView'
  BY <1>1, <1>2, <1>3 DEF EffectIsOfView
<1>5. QED
  BY <1>1, <1>4 DEF WantedIsTheEffects, ReportIsReady

LEMMA ReportPartStep ==
    ASSUME ReportInv, PollingInv, [PageNext]_pageVars
    PROVE  WantedIsTheEffects' /\ EffectIsOfView' /\ ReportIsReady'
<1>0. [PollingNext]_pollVars
  BY PageStepIsPollingStep
<1>1. CASE PollStep /\ UNCHANGED <<reportVars, uploadVars>>
  <2>1. page' = page \/ page = "loading"
    BY <1>1 DEF PollStep, Mount, MountTwice, Focus, TimerFires, Answer, Arrives,
                Dropped, Lands, Breaks
  <2>2. QED
    BY <1>0, <1>1, <2>1, OtherStepsReportInv DEF reportVars
<1>2. CASE Leave
  BY <1>2, LeaveInv
<1>3. CASE EffectRuns \/ EffectRunsTwice
  BY <1>3, EffectInv
<1>4. CASE FetchStep
  BY <1>4, GetReportInv, ReportArrivesInv DEF FetchStep
<1>5. CASE PostFile \/ UNCHANGED pageVars
  BY <1>0, <1>5, OtherStepsReportInv DEF PostFile, Phase, pageVars, reportVars, pollVars, loopVars
<1>6. ASSUME NEW d \in Docs,
             \/ Select(d) \/ ChooseFile(d) \/ CreateSlot(d)
             \/ Confirm(d) \/ Uploaded(d) \/ OthersChange(d)
      PROVE  WantedIsTheEffects' /\ EffectIsOfView' /\ ReportIsReady'
  <2>1. UNCHANGED <<effect, report, fetches>>
    BY <1>6 DEF Select, ChooseFile, CreateSlot, Confirm, Uploaded, OthersChange, Phase, reportVars
  <2>2. page' = page
    BY <1>6 DEF Select, ChooseFile, CreateSlot, Confirm, Uploaded, OthersChange, Changes,
                Refresh, pollVars, loopVars
  <2>3. QED
    BY <1>0, <2>1, <2>2, OtherStepsReportInv
<1>7. QED
  BY <1>1, <1>2, <1>3, <1>4, <1>5, <1>6 DEF PageNext

-----------------------------------------------------------------------------
(* What the upload panel was told of its document stays true of it. *)
LEMMA UploadIsKnownStep ==
    ASSUME ReportInv, PollingInv, PollingInv', [PageNext]_pageVars
    PROVE  UploadIsKnown'
<1>0. PageTypeOK /\ UploadIsKnown /\ PollingTypeOK /\ PollingTypeOK'
  BY DEF ReportInv, PollingInv, LoopInv
<1>1. /\ \A d \in Docs : server[d] \notin {"ABSENT", "UPLOADING"} =>
             server'[d] \notin {"ABSENT", "UPLOADING"}
      /\ \A d \in Docs : server[d] # "ABSENT" => server'[d] # "ABSENT"
  BY PageStepIsPollingStep, ServerStep, ServerStays
<1>2. /\ upload \in [phase : {"idle", "error", "slot", "sending", "confirming", "done"},
                     id : Docs \cup {Nobody}]
      /\ upload.phase \in {"slot", "sending", "confirming", "done"} => upload.id \in Docs
  BY <1>0 DEF PageTypeOK
<1>3. CASE UNCHANGED upload
  BY <1>0, <1>1, <1>2, <1>3 DEF UploadIsKnown
<1>4. ASSUME NEW d \in Docs, ChooseFile(d) \/ Uploaded(d)
      PROVE  UploadIsKnown'
  BY <1>4 DEF ChooseFile, Uploaded, UploadIsKnown
<1>5. ASSUME NEW d \in Docs, CreateSlot(d)
      PROVE  UploadIsKnown'
  <2>1. CASE Phase("slot", "error")
    BY <1>2, <2>1 DEF Phase, UploadIsKnown
  <2>2. CASE Changes(d) /\ Phase("slot", "sending")
    <3>1. PICK status \in Moves[server[d]] : server' = [server EXCEPT ![d] = status]
      BY <2>2 DEF Changes
    <3>2. server \in [Docs -> Status]
      BY <1>0 DEF PollingTypeOK
    <3>3. status # "ABSENT"
      BY <3>1, <3>2 DEF Moves
    <3>4. server'[d] # "ABSENT" /\ upload'.id = d /\ upload'.phase = "sending"
      BY <1>2, <1>5, <2>2, <3>1, <3>2, <3>3 DEF Phase, CreateSlot
    <3>5. QED
      BY <3>4 DEF UploadIsKnown
  <2>3. QED
    BY <1>5, <2>1, <2>2 DEF CreateSlot
<1>6. CASE PostFile
  BY <1>0, <1>1, <1>2, <1>6 DEF PostFile, Phase, UploadIsKnown
<1>7. ASSUME NEW d \in Docs, Confirm(d)
      PROVE  UploadIsKnown'
  <2>1. upload.phase = "confirming" /\ upload.id = d /\ server[d] # "ABSENT"
    BY <1>0, <1>7 DEF Confirm, Phase, UploadIsKnown
  <2>2. server'[d] \notin {"ABSENT", "UPLOADING"}
    BY <1>1, <1>7, <2>1 DEF Confirm
  <2>3. upload'.id = d /\ upload'.phase \in {"done", "error"}
    BY <1>2, <1>7, <2>1 DEF Confirm, Phase
  <2>4. QED
    BY <2>2, <2>3 DEF UploadIsKnown
<1>8. UNCHANGED upload \/ PostFile
      \/ \E d \in Docs : ChooseFile(d) \/ Uploaded(d) \/ CreateSlot(d) \/ Confirm(d)
  BY DEF PageNext, Leave, EffectRuns, EffectRunsTwice, FetchStep, GetReport, ReportArrives,
         Select, OthersChange, uploadVars, pageVars
<1>9. QED
  BY <1>3, <1>4, <1>5, <1>6, <1>7, <1>8

(* The poll that an upload starts is told of the document at least what    *)
(* the panel was, and so are those after it.                               *)
LEMMA UploadIsSeenStep ==
    ASSUME ReportInv, PollingInv, PollingInv', [PageNext]_pageVars
    PROVE  UploadIsSeen'
<1> DEFINE Early == {"ABSENT", "UPLOADING"}
<1>0. PageTypeOK /\ UploadIsKnown /\ UploadIsSeen /\ PollingTypeOK /\ PollingTypeOK'
  BY DEF ReportInv, PollingInv, LoopInv
<1>1. \A d \in Docs : server[d] \notin Early => server'[d] \notin Early
  BY PageStepIsPollingStep, ServerStep
<1>2. /\ \A r \in requests' : r.state = "answered" =>
             r \in requests \/ (r.list.items = server /\ latestRequest' = latestRequest)
      /\ latestRequest \in Nat /\ latestRequest' \in Nat
  BY <1>0, PageStepIsPollingStep, AnswerStep DEF PollingTypeOK
<1>3. CASE UNCHANGED confirmed
  <2> SUFFICES ASSUME NEW d \in Docs, confirmed[d] > 0
               PROVE  /\ server'[d] \notin Early
                      /\ \A r \in requests' : r.ticket >= confirmed[d] /\ r.state = "answered" =>
                             r.list.items[d] \notin Early
    BY <1>3 DEF UploadIsSeen
  <2>1. server[d] \notin Early
    BY <1>0 DEF UploadIsSeen
  <2>2. \A r \in requests : r.ticket >= confirmed[d] /\ r.state = "answered" =>
            r.list.items[d] \notin Early
    BY <1>0 DEF UploadIsSeen
  <2>3. QED
    BY <1>1, <1>2, <2>1, <2>2
<1>4. ASSUME NEW d \in Docs, Uploaded(d)
      PROVE  UploadIsSeen'
  <2>1. /\ server[d] \notin Early /\ server' = server
        /\ latestRequest' = latestRequest + 1
        /\ requests' = requests \cup {Request(latestRequest + 1)}
        /\ confirmed' = [confirmed EXCEPT ![d] = latestRequest + 1]
    BY <1>0, <1>4 DEF Uploaded, UploadIsKnown, Refresh, StartPoll, serverVars
  <2>2. /\ \A r \in requests : r.ticket <= latestRequest /\ r.ticket \in Nat
        /\ confirmed \in [Docs -> 0 .. latestRequest]
    BY <1>0, <1>2 DEF PollingTypeOK, PageTypeOK
  <2>3. \A r \in requests' : r.state = "answered" => r \in requests
    BY <2>1 DEF Request
  <2> SUFFICES ASSUME NEW e \in Docs, confirmed'[e] > 0
               PROVE  /\ server[e] \notin Early
                      /\ \A r \in requests' : r.ticket >= confirmed'[e] /\ r.state = "answered" =>
                             r.list.items[e] \notin Early
    BY <2>1 DEF UploadIsSeen
  <2>4. CASE e = d
    <3>1. confirmed'[e] = latestRequest + 1
      BY <2>1, <2>2, <2>4
    <3>2. \A r \in requests : ~(r.ticket >= confirmed'[e])
      BY <1>2, <2>2, <3>1
    <3>3. QED
      BY <2>1, <2>3, <2>4, <3>2
  <2>5. CASE e # d
    <3>1. confirmed'[e] = confirmed[e]
      BY <2>1, <2>2, <2>5
    <3>2. QED
      BY <1>0, <2>3, <3>1 DEF UploadIsSeen
  <2>6. QED
    BY <2>4, <2>5
<1>5. UNCHANGED confirmed \/ \E d \in Docs : Uploaded(d)
  BY DEF PageNext, Leave, EffectRuns, EffectRunsTwice, FetchStep, GetReport, ReportArrives,
         Select, OthersChange, ChooseFile, CreateSlot, PostFile, Confirm, Phase, uploadVars, pageVars
<1>6. QED
  BY <1>3, <1>4, <1>5

-----------------------------------------------------------------------------
LEMMA PageInitInv == ASSUME PageInit PROVE ReportInv
<1>1. PollingInv
  BY InitInv DEF PageInit
<1>2. /\ fetches = {} /\ report = Nobody /\ effect = NotMounted /\ selected = Nobody
      /\ upload = [phase |-> "idle", id |-> Nobody] /\ confirmed = [d \in Docs |-> 0]
      /\ loadError = FALSE /\ selections = 0
      /\ documents = EmptyList /\ latestRequest = 0
  BY DEF PageInit, PollingInit
<1>3. PageTypeOK
  <2>1. PollingTypeOK /\ confirmed \in [Docs -> 0 .. latestRequest]
    BY <1>1, <1>2 DEF PollingInv, LoopInv
  <2>2. /\ upload \in [phase : {"idle", "error", "slot", "sending", "confirming", "done"},
                       id : Docs \cup {Nobody}]
        /\ upload.phase = "idle"
    BY <1>2
  <2>3. effect \in [id : Docs \cup {Nobody}, status : Status]
    BY <1>2
  <2>4. /\ fetches = {} /\ selected = Nobody /\ report = Nobody
        /\ loadError = FALSE /\ selections = 0
    BY <1>2
  <2>5. 0 \in 0 .. MaxSelections
    OBVIOUS
  <2>6. QED
    BY <2>1, <2>2, <2>3, <2>4, <2>5 DEF PageTypeOK
<1>4. QED
  BY <1>2, <1>3 DEF ReportInv, ViewIsRemembered, WantedIsTheEffects, EffectIsOfView,
                    ReportIsReady, UploadIsKnown, UploadIsSeen

LEMMA PageNextInv ==
    ASSUME ReportInv, PollingInv, PollingInv', [PageNext]_pageVars
    PROVE  ReportInv'
<1>1. ViewIsRemembered'
  BY PageStepIsPollingStep, ViewStep DEF ReportInv
<1>2. QED
  BY <1>1, PageTypeStep, ReportPartStep, UploadIsKnownStep, UploadIsSeenStep DEF ReportInv

(* The invariant holds of every behaviour of the page. *)
THEOREM PageIsInvariant == PageSpec => []ReportInv
  BY PageInitInv, PageNextInv, PageHasPollingInv, PTL DEF PageSpec

(* The view, the effect's dependencies and the report requests stay among  *)
(* the documents and the views there are.                                  *)
THEOREM PageTypeCorrect == PageSpec => []PageTypeOK
<1>1. ReportInv => PageTypeOK
  BY DEF ReportInv
<1>2. QED
  BY <1>1, PageIsInvariant, PTL

(* The report on the screen is the selected document's (ReportView 68-88). *)
THEOREM ReportIsOfSelectedAlways == PageSpec => []ReportIsOfSelected
<1>1. ReportInv => ReportIsOfSelected
  <2>1. EffectIsDue \/ page # "shown" \/ selected = Nobody \/
        (effect.id = selected /\ effect.status = documents.items[selected])
    BY DEF EffectIsDue, Deps
  <2>2. selected = Nobody \/ page # "shown" => EffectIsDue \/ effect.status = "ABSENT"
    BY DEF EffectIsDue, Deps
  <2>3. QED
    BY <2>1, <2>2 DEF ReportInv, ReportIsOfSelected, WantedIsTheEffects
<1>2. QED
  BY <1>1, PageIsInvariant, PTL

(* A report is asked for only when the API has it. *)
THEOREM ReportIsReadyAlways == PageSpec => []ReportIsReady
<1>1. ReportInv => ReportIsReady
  BY DEF ReportInv
<1>2. QED
  BY <1>1, PageIsInvariant, PTL

(* What the panel confirmed, no later list takes back. *)
THEOREM UploadIsSeenAlways == PageSpec => []UploadIsSeen
<1>1. ReportInv => UploadIsSeen
  BY DEF ReportInv
<1>2. QED
  BY <1>1, PageIsInvariant, PTL

(* A report that is on the screen is not asked for again by the polls that *)
(* go on, because its document's status does not change.                   *)
LEMMA ReportStaysStep ==
    ASSUME ReportInv, PollingInv, [PageNext]_pageVars,
           report # Nobody, report = selected, selected' = selected, page' = "shown"
    PROVE  report' = report
<1>0. /\ report = effect.id /\ effect.status = "COMPLETED" /\ effect.id \in Docs
      /\ documents.items[effect.id] = "COMPLETED" /\ page = "shown"
      /\ effect \in [id : Docs \cup {Nobody}, status : Status]
  BY DEF ReportInv, WantedIsTheEffects, EffectIsOfView, PageTypeOK
<1>1. ~EffectIsDue
  BY <1>0 DEF EffectIsDue, Deps
<1>2. ~Leave
  BY DEF Leave, Unmount
<1>3. ASSUME NEW f \in fetches, ReportArrives(f)
      PROVE  report' = report
  BY <1>0, <1>3 DEF ReportInv, WantedIsTheEffects, ReportArrives, Wanted
<1>4. QED
  BY <1>1, <1>2, <1>3
     DEF PageNext, EffectRuns, EffectRunsTwice, FetchStep, GetReport, Select, OthersChange,
         ChooseFile, CreateSlot, PostFile, Confirm, Uploaded, Phase, reportVars, pageVars

(* A report the user reads stays on the screen. *)
THEOREM ReportStaysAlways == PageSpec => ReportStays
<1>1. ASSUME ReportInv, PollingInv, [PageNext]_pageVars
      PROVE  [report # Nobody /\ report = selected /\ selected' = selected /\ page' = "shown"
                => report' = report]_pageVars
  BY <1>1, ReportStaysStep
<1>2. QED
  BY <1>1, PageIsInvariant, PageHasPollingInv, PTL DEF PageSpec, ReportStays
=============================================================================
