------------------------------- MODULE Polling -------------------------------
(***************************************************************************)
(* The browser's polling hook (frontend/src/usePolling.ts): one loop of    *)
(* requests and timers, which a focus event, an upload and a remount may   *)
(* start again while a request is under way.  Requests are answered and    *)
(* arrive in any order, or fail.  JavaScript runs from one await to the    *)
(* next without interruption: each such stretch is one action.             *)
(*                                                                         *)
(* The list of documents is the server's at the instant it answers; its    *)
(* version counts the changes so far.  Documents move as Lifecycle says.   *)
(***************************************************************************)
EXTENDS Integers

CONSTANTS
    Docs,
    MaxRequests     \* bound of the model: polls started in one page's life

ASSUME PollingAssumption == MaxRequests \in Nat \ {0}

VARIABLES
    server,         \* the documents table as the API lists it
    version,        \* history: how many times it has changed
    page,           \* "loading", "shown" (activeRef) or "gone"
    latestRequest,
    requests,       \* polls awaiting listDocuments
    timers,         \* timeouts the browser holds, named by the poll that set them
    timerRef,
    isFirstPoll,
    prevStatuses,
    documents,      \* what is rendered, with its version
    error,
    toasts,         \* how often onTransition was called for a document
    seeded          \* history: documents the page's first answer had settled

serverVars == <<server, version>>
loopVars == <<page, latestRequest, requests, timers, timerRef>>
viewVars == <<isFirstPoll, prevStatuses, documents, error, toasts, seeded>>
pollVars == <<serverVars, loopVars, viewVars>>

(* "ABSENT": not in the list. *)
Status == {"ABSENT", "UPLOADING", "QUEUED", "EXPIRED", "PROCESSING", "COMPLETED", "FAILED"}
Settled == {"COMPLETED", "FAILED"}

Moves == [ABSENT |-> {"UPLOADING"},
          UPLOADING |-> {"QUEUED", "EXPIRED", "PROCESSING"},
          QUEUED |-> {"PROCESSING"},
          EXPIRED |-> {"PROCESSING"},
          PROCESSING |-> Settled,
          COMPLETED |-> {},
          FAILED |-> {}]

EmptyList == [items |-> [d \in Docs |-> "ABSENT"], version |-> 0]
NoTimer == 0

PollingTypeOK ==
    /\ server \in [Docs -> Status]
    /\ version \in Nat
    /\ page \in {"loading", "shown", "gone"}
    /\ latestRequest \in 0 .. MaxRequests
    /\ requests \subseteq [ticket : 1 .. latestRequest,
                           state : {"pending", "broken", "answered"},
                           list : [items : [Docs -> Status], version : 0 .. version]]
    /\ timers \subseteq 1 .. latestRequest
    /\ timerRef \in 0 .. latestRequest
    /\ isFirstPoll \in BOOLEAN
    /\ prevStatuses \in [Docs -> Status]
    /\ documents \in [items : [Docs -> Status], version : 0 .. version]
    /\ error \in BOOLEAN
    /\ toasts \in [Docs -> Nat]
    /\ seeded \subseteq Docs

PollingInit ==
    /\ server \in [Docs -> Status]
    /\ version = 0
    /\ page = "loading"
    /\ latestRequest = 0
    /\ requests = {}
    /\ timers = {}
    /\ timerRef = NoTimer
    /\ isFirstPoll = TRUE
    /\ prevStatuses = EmptyList.items
    /\ documents = EmptyList
    /\ error = FALSE
    /\ toasts = [d \in Docs |-> 0]
    /\ seeded = {}

-----------------------------------------------------------------------------
Request(ticket) == [ticket |-> ticket, state |-> "pending", list |-> EmptyList]

(* Mutant: the ticket is the counter before it is increased. *)
StartPollOldTicket(left) ==
    /\ latestRequest < MaxRequests
    /\ timers' = left \ {timerRef}
    /\ timerRef' = NoTimer
    /\ latestRequest' = latestRequest + 1
    /\ requests' = requests \cup {Request(latestRequest)}

(* Mutant: poll() does not clear the timer. *)
StartPollKeepsTimer(left) ==
    /\ latestRequest < MaxRequests
    /\ timers' = left
    /\ timerRef' = NoTimer
    /\ latestRequest' = latestRequest + 1
    /\ requests' = requests \cup {Request(latestRequest + 1)}

(* poll() up to its await, `left` being the timers that have not fired. *)
StartPoll(left) ==
    /\ latestRequest < MaxRequests
    /\ timers' = left \ {timerRef}
    /\ timerRef' = NoTimer
    /\ latestRequest' = latestRequest + 1
    /\ requests' = requests \cup {Request(latestRequest + 1)}

(* The effect runs. *)
Mount ==
    /\ page = "loading"
    /\ page' = "shown"
    /\ StartPoll(timers)
    /\ UNCHANGED <<serverVars, viewVars>>

(* StrictMode runs the effect, its cleanup and the effect again. *)
MountTwice ==
    /\ page = "loading"
    /\ MaxRequests >= 2
    /\ page' = "shown"
    /\ latestRequest' = 2
    /\ requests' = {Request(1), Request(2)}
    /\ UNCHANGED <<timers, timerRef, serverVars, viewVars>>

Unmount ==
    /\ page = "shown"
    /\ page' = "gone"
    /\ timers' = timers \ {timerRef}
    /\ UNCHANGED <<latestRequest, requests, timerRef, serverVars, viewVars>>

Focus ==
    /\ page = "shown"
    /\ StartPoll(timers)
    /\ UNCHANGED <<page, serverVars, viewVars>>

(* onUploaded of UploadPanel: an upload may end after the page is gone. *)
Refresh ==
    /\ page # "loading"
    /\ StartPoll(timers)
    /\ UNCHANGED <<page, serverVars, viewVars>>

TimerFires(t) ==
    /\ t \in timers
    /\ StartPoll(timers \ {t})
    /\ UNCHANGED <<page, serverVars, viewVars>>

-----------------------------------------------------------------------------
(* The API reads the table, or the request is lost. *)
Answer(r) ==
    /\ r.state = "pending"
    /\ \E answer \in {[r EXCEPT !.state = "broken"],
                     [r EXCEPT !.state = "answered",
                               !.list = [items |-> server, version |-> version]]} :
          requests' = (requests \ {r}) \cup {answer}
    /\ UNCHANGED <<page, latestRequest, timers, timerRef, serverVars, viewVars>>

Changes(d) ==
    /\ \E status \in Moves[server[d]] : server' = [server EXCEPT ![d] = status]
    /\ version' = version + 1
    /\ UNCHANGED <<loopVars, viewVars>>

-----------------------------------------------------------------------------
(* poll() after its await. *)

(* Mutant: the last to arrive wins. *)
IsStaleNever(r) == FALSE

IsStale(r) == r.ticket # latestRequest

(* The next tick, unless the page is gone. *)
Schedule(r) ==
    IF page = "shown"
    THEN timers' = timers \cup {r.ticket} /\ timerRef' = r.ticket
    ELSE UNCHANGED <<timers, timerRef>>

(* Mutant: the first poll is a poll like any other. *)
IsNewCompletionFromTheStart(d, items) ==
    prevStatuses[d] # items[d] /\ items[d] \in Settled

IsNewCompletion(d, items) ==
    ~isFirstPoll /\ prevStatuses[d] # items[d] /\ items[d] \in Settled

(* A newer poll has started: the answer is dropped, whatever it is. *)
Dropped(r) ==
    /\ IsStale(r)
    /\ requests' = requests \ {r}
    /\ UNCHANGED <<page, latestRequest, timers, timerRef, serverVars, viewVars>>

Lands(r) ==
    /\ ~IsStale(r) /\ r.state = "answered"
    /\ requests' = requests \ {r}
    /\ toasts' = [d \in Docs |-> IF IsNewCompletion(d, r.list.items)
                                 THEN toasts[d] + 1 ELSE toasts[d]]
    /\ prevStatuses' = [d \in Docs |-> IF r.list.items[d] = "ABSENT"
                                       THEN prevStatuses[d] ELSE r.list.items[d]]
    /\ isFirstPoll' = FALSE
    /\ seeded' = IF isFirstPoll THEN {d \in Docs : r.list.items[d] \in Settled}
                 ELSE seeded
    /\ IF page = "shown" THEN documents' = r.list /\ error' = FALSE
                         ELSE UNCHANGED <<documents, error>>
    /\ Schedule(r)
    /\ UNCHANGED <<page, latestRequest, serverVars>>

Breaks(r) ==
    /\ ~IsStale(r) /\ r.state = "broken"
    /\ requests' = requests \ {r}
    /\ error' = (page = "shown" \/ error)
    /\ Schedule(r)
    /\ UNCHANGED <<page, latestRequest, serverVars,
                   isFirstPoll, prevStatuses, documents, toasts, seeded>>

Arrives(r) == r.state # "pending" /\ (Dropped(r) \/ Lands(r) \/ Breaks(r))

PollingNext ==
    \/ Mount \/ MountTwice \/ Unmount \/ Focus \/ Refresh
    \/ \E t \in timers : TimerFires(t)
    \/ \E r \in requests : Answer(r) \/ Arrives(r)
    \/ \E d \in Docs : Changes(d)

PollingSpec == PollingInit /\ [][PollingNext]_pollVars

-----------------------------------------------------------------------------
Newest == {r \in requests : r.ticket = latestRequest}

(* A page has exactly one polling loop, waiting for the newest answer or   *)
(* for its timer, however many requests are under way; it never dies of an *)
(* error, and none is left when the page is gone (usePolling 56-64, 120).  *)
OneLoop ==
    /\ page = "shown" =>
        \/ timers = {} /\ \E r \in requests : Newest = {r}
        \/ Newest = {} /\ \E t \in timers : timers = {t}
    /\ page # "shown" => timers = {}

(* What is rendered never goes back to an older answer (lines 85-89). *)
ViewNeverGoesBack == [][documents'.version >= documents.version]_pollVars

(* A document is announced once, by the first answer after the page's      *)
(* first that has it settled, and never if that first answer had it so     *)
(* already (lines 47-53, 92-101).  One that a later answer lists for the   *)
(* first time, settled, is announced although no move was observed.        *)
AnnouncedOnce ==
    \A d \in Docs :
        toasts[d] = IF prevStatuses[d] \in Settled /\ d \notin seeded THEN 1 ELSE 0
=============================================================================
