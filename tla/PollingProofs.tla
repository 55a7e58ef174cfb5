---------------------------- MODULE PollingProofs ----------------------------
(***************************************************************************)
(* Theorems about Polling, for every set of documents and any number of    *)
(* polls: the page has one loop, its view never goes back, and a document  *)
(* is announced once.                                                      *)
(***************************************************************************)
EXTENDS Polling, TLAPS

(* Until the effect runs nothing has been asked and nothing is timed. *)
LoadingIsFresh ==
    page = "loading" => latestRequest = 0 /\ requests = {} /\ timers = {}

(* The browser holds no timer but the one the page can clear. *)
TimerIsHeld == timers \subseteq {timerRef}

(* No two polls have the same ticket. *)
TicketsAreUnique ==
    \A r, s \in requests : r.ticket = s.ticket => r = s

(* What the newest poll was told is not older than what is rendered. *)
NewestIsFresh ==
    \A r \in requests :
        r.ticket = latestRequest /\ r.state = "answered" =>
            documents.version <= r.list.version

(* Whoever was told that a document is settled was told its last status. *)
SettledIsKnown ==
    \A d \in Docs :
        /\ prevStatuses[d] \in Settled => server[d] = prevStatuses[d]
        /\ \A r \in requests : r.list.items[d] \in Settled =>
               server[d] = r.list.items[d]

(* The newest answer does not unsettle what an earlier one settled. *)
NewestIsSettled ==
    \A d \in Docs : \A r \in requests :
        r.ticket = latestRequest /\ r.state = "answered"
            /\ prevStatuses[d] \in Settled =>
                r.list.items[d] = prevStatuses[d]

(* The first poll is the first to remember anything. *)
FirstPollIsFirst ==
    isFirstPoll => /\ \A d \in Docs : prevStatuses[d] = "ABSENT"
                   /\ seeded = {}

SeededIsSettled == \A d \in seeded : prevStatuses[d] \in Settled

LoopInv == PollingTypeOK /\ LoadingIsFresh /\ TimerIsHeld /\ TicketsAreUnique /\ OneLoop

ViewInv == NewestIsFresh

ToastInv ==
    /\ SettledIsKnown
    /\ NewestIsSettled
    /\ FirstPollIsFirst
    /\ SeededIsSettled
    /\ AnnouncedOnce

(* The inductive invariant of the hook. *)
PollingInv == LoopInv /\ ViewInv /\ ToastInv

-----------------------------------------------------------------------------
USE PollingAssumption DEF NoTimer, Settled, Status, EmptyList

(* An effect that has not run is the simplest page there is. *)
LEMMA InitInv == ASSUME PollingInit PROVE PollingInv
<1>1. PollingTypeOK
  <2>1. documents \in [items : [Docs -> Status], version : 0 .. version]
    BY DEF PollingInit
  <2>2. /\ server \in [Docs -> Status] /\ prevStatuses \in [Docs -> Status]
        /\ toasts \in [Docs -> Nat]
    BY DEF PollingInit
  <2>3. /\ version \in Nat /\ page \in {"loading", "shown", "gone"}
        /\ latestRequest \in 0 .. MaxRequests /\ timerRef \in 0 .. latestRequest
    BY DEF PollingInit
  <2>4. /\ requests = {} /\ timers = {} /\ seeded = {}
        /\ isFirstPoll \in BOOLEAN /\ error \in BOOLEAN
    BY DEF PollingInit
  <2>5. QED
    BY <2>1, <2>2, <2>3, <2>4 DEF PollingTypeOK
<1>2. LoadingIsFresh /\ TimerIsHeld /\ TicketsAreUnique /\ OneLoop /\ NewestIsFresh
  BY DEF PollingInit, LoadingIsFresh, TimerIsHeld, TicketsAreUnique, OneLoop, NewestIsFresh
<1>3. SettledIsKnown /\ NewestIsSettled /\ FirstPollIsFirst /\ SeededIsSettled /\ AnnouncedOnce
  BY DEF PollingInit, SettledIsKnown, NewestIsSettled, FirstPollIsFirst, SeededIsSettled,
         AnnouncedOnce
<1>4. QED
  BY <1>1, <1>2, <1>3 DEF PollingInv, LoopInv, ViewInv, ToastInv

(* A poll that is started becomes the newest, with its only timer cleared, *)
(* whoever starts it.                                                      *)
LEMMA StartPollInv ==
    ASSUME PollingInv, NEW left, left \subseteq timers, StartPoll(left),
           UNCHANGED <<serverVars, viewVars>>,
           page' = page \/ (page = "loading" /\ page' = "shown"),
           page' # "loading"
    PROVE  PollingInv'
<1> DEFINE q == Request(latestRequest + 1)
<1>1. /\ PollingTypeOK /\ TimerIsHeld /\ TicketsAreUnique
      /\ latestRequest \in 0 .. MaxRequests /\ latestRequest < MaxRequests
  BY DEF PollingInv, LoopInv, PollingTypeOK, StartPoll
<1>2. /\ q.ticket = latestRequest + 1 /\ q.state = "pending" /\ q.list = EmptyList
      /\ q \in [ticket : 1 .. latestRequest + 1, state : {"pending", "broken", "answered"},
                list : [items : [Docs -> Status], version : 0 .. version]]
  BY <1>1 DEF Request, PollingTypeOK
<1>3. \A r \in requests : r.ticket \in 1 .. latestRequest
  BY <1>1 DEF PollingTypeOK
<1>4. /\ timers' = {} /\ latestRequest' = latestRequest + 1
      /\ requests' = requests \cup {q}
  BY <1>1 DEF StartPoll, TimerIsHeld
<1>5. PollingTypeOK'
  <2>1. requests' \subseteq [ticket : 1 .. latestRequest', state : {"pending", "broken", "answered"},
                             list : [items : [Docs -> Status], version : 0 .. version']]
    BY <1>1, <1>2, <1>4, SMTT(30) DEF PollingTypeOK, serverVars
  <2>2. QED
    BY <2>1, <1>1, <1>4 DEF PollingTypeOK, StartPoll, serverVars, viewVars
<1>6. LoadingIsFresh' /\ TimerIsHeld'
  BY <1>4 DEF LoadingIsFresh, TimerIsHeld
<1>7. TicketsAreUnique'
  BY <1>1, <1>2, <1>3, <1>4 DEF TicketsAreUnique
<1>8. OneLoop'
  <2>1. Newest' = {q}
    BY <1>1, <1>2, <1>3, <1>4 DEF Newest
  <2>2. QED
    BY <2>1, <1>4 DEF OneLoop
<1>9. ViewInv' /\ NewestIsSettled'
  <2>1. \A r \in requests' : r.ticket = latestRequest' => r.state # "answered"
    BY <1>1, <1>2, <1>3, <1>4
  <2>2. QED
    BY <2>1 DEF ViewInv, NewestIsFresh, NewestIsSettled
<1>10. SettledIsKnown'
  BY <1>2, <1>4 DEF PollingInv, ToastInv, SettledIsKnown, serverVars, viewVars
<1>11. FirstPollIsFirst' /\ SeededIsSettled' /\ AnnouncedOnce'
  BY DEF PollingInv, ToastInv, FirstPollIsFirst, SeededIsSettled, AnnouncedOnce, viewVars
<1>12. QED
  BY <1>5, <1>6, <1>7, <1>8, <1>9, <1>10, <1>11 DEF PollingInv, LoopInv, ToastInv

(* StrictMode: the second of two polls is the newest. *)
LEMMA MountTwiceInv ==
    ASSUME PollingInv, MountTwice
    PROVE  PollingInv'
<1>1. /\ requests' = {Request(1), Request(2)} /\ latestRequest' = 2
      /\ timers' = {} /\ page' = "shown"
      /\ UNCHANGED <<timerRef, server, version>> /\ UNCHANGED viewVars
  BY DEF PollingInv, LoopInv, LoadingIsFresh, MountTwice, serverVars
<1>2. \A t \in {1, 2} :
          /\ Request(t).ticket = t /\ Request(t).state = "pending"
          /\ Request(t).list = EmptyList
          /\ Request(t) \in [ticket : 1 .. 2, state : {"pending", "broken", "answered"},
                             list : [items : [Docs -> Status], version : 0 .. version]]
  BY DEF PollingInv, LoopInv, PollingTypeOK, Request
<1>3. PollingTypeOK'
  BY <1>1, <1>2 DEF PollingInv, LoopInv, PollingTypeOK, MountTwice, viewVars, LoadingIsFresh
<1>4. LoadingIsFresh' /\ TimerIsHeld' /\ TicketsAreUnique'
  BY <1>1, <1>2 DEF LoadingIsFresh, TimerIsHeld, TicketsAreUnique
<1>5. Newest' = {Request(2)}
  BY <1>1, <1>2 DEF Newest
<1>6. OneLoop'
  BY <1>1, <1>5 DEF OneLoop
<1>7. ViewInv' /\ NewestIsSettled'
  BY <1>1, <1>2 DEF ViewInv, NewestIsFresh, NewestIsSettled
<1>8. SettledIsKnown'
  BY <1>1, <1>2 DEF PollingInv, ToastInv, SettledIsKnown, viewVars
<1>9. FirstPollIsFirst' /\ SeededIsSettled' /\ AnnouncedOnce'
  BY <1>1 DEF PollingInv, ToastInv, FirstPollIsFirst, SeededIsSettled, AnnouncedOnce, viewVars
<1>10. QED
  BY <1>3, <1>4, <1>6, <1>7, <1>8, <1>9 DEF PollingInv, LoopInv, ToastInv

LEMMA UnmountInv ==
    ASSUME PollingInv, Unmount
    PROVE  PollingInv'
<1>1. timers' = {} /\ page' = "gone"
  BY DEF PollingInv, LoopInv, TimerIsHeld, Unmount
<1>2. PollingTypeOK'
  BY <1>1 DEF PollingInv, LoopInv, PollingTypeOK, Unmount, serverVars, viewVars
<1>3. LoadingIsFresh' /\ TimerIsHeld' /\ TicketsAreUnique' /\ OneLoop'
  BY <1>1 DEF PollingInv, LoopInv, LoadingIsFresh, TimerIsHeld, TicketsAreUnique,
              OneLoop, Unmount
<1>4. ViewInv' /\ ToastInv'
  BY DEF PollingInv, ViewInv, ToastInv, NewestIsFresh, SettledIsKnown, NewestIsSettled,
         FirstPollIsFirst, SeededIsSettled, AnnouncedOnce, Unmount, serverVars, viewVars
<1>5. QED
  BY <1>2, <1>3, <1>4 DEF PollingInv, LoopInv

(* An answer keeps the ticket of its request and tells the table of now. *)
LEMMA AnswerInv ==
    ASSUME PollingInv, NEW r \in requests, Answer(r)
    PROVE  PollingInv'
<1>0. PollingTypeOK /\ TicketsAreUnique /\ OneLoop /\ r.ticket \in 1 .. latestRequest
  BY DEF PollingInv, LoopInv, PollingTypeOK
<1>1. PICK a : /\ requests' = (requests \ {r}) \cup {a}
               /\ \/ a = [r EXCEPT !.state = "broken"]
                  \/ a = [r EXCEPT !.state = "answered",
                                   !.list = [items |-> server, version |-> version]]
  BY DEF Answer
<1>2. /\ a.ticket = r.ticket
      /\ a \in [ticket : 1 .. latestRequest, state : {"pending", "broken", "answered"},
                list : [items : [Docs -> Status], version : 0 .. version]]
      /\ \/ a.list = r.list /\ a.state = "broken"
         \/ a.list.items = server /\ a.list.version = version
  <2>1. /\ r \in [ticket : 1 .. latestRequest, state : {"pending", "broken", "answered"},
                  list : [items : [Docs -> Status], version : 0 .. version]]
        /\ [items |-> server, version |-> version]
               \in [items : [Docs -> Status], version : 0 .. version]
    BY <1>0 DEF PollingTypeOK
  <2>2. CASE a = [r EXCEPT !.state = "broken"]
    BY <2>1, <2>2
  <2>3. CASE a = [r EXCEPT !.state = "answered",
                           !.list = [items |-> server, version |-> version]]
    BY <2>1, <2>3
  <2>4. QED
    BY <1>1, <2>2, <2>3
<1>3. /\ UNCHANGED <<page, latestRequest, timers, timerRef, server, version>>
      /\ UNCHANGED viewVars
  BY DEF Answer, serverVars
<1>4. PollingTypeOK'
  BY <1>0, <1>1, <1>2, <1>3 DEF PollingTypeOK, viewVars
<1>5. LoadingIsFresh' /\ TimerIsHeld' /\ TicketsAreUnique'
  BY <1>1, <1>2, <1>3 DEF PollingInv, LoopInv, LoadingIsFresh, TimerIsHeld, TicketsAreUnique
<1>6. OneLoop'
  <2>1. CASE r.ticket = latestRequest
    <3>1. Newest = {r} /\ Newest' = {a}
      BY <2>1, <1>0, <1>1, <1>2, <1>3 DEF Newest, TicketsAreUnique
    <3>2. QED
      BY <3>1, <1>0, <1>1, <1>3 DEF OneLoop
  <2>2. CASE r.ticket # latestRequest
    <3>1. Newest' = Newest /\ r \notin Newest
      BY <2>2, <1>0, <1>1, <1>2, <1>3 DEF Newest
    <3>2. \A x \in Newest : x \in requests'
      BY <3>1 DEF Newest
    <3>3. QED
      BY <3>1, <3>2, <1>0, <1>3 DEF OneLoop
  <2>3. QED
    BY <2>1, <2>2
<1>7. ViewInv'
  BY <1>0, <1>1, <1>2, <1>3 DEF PollingInv, ViewInv, NewestIsFresh, PollingTypeOK, viewVars
<1>8. SettledIsKnown' /\ NewestIsSettled'
  BY <1>1, <1>2, <1>3 DEF PollingInv, ToastInv, SettledIsKnown, NewestIsSettled, viewVars
<1>9. FirstPollIsFirst' /\ SeededIsSettled' /\ AnnouncedOnce'
  BY <1>3 DEF PollingInv, ToastInv, FirstPollIsFirst, SeededIsSettled, AnnouncedOnce, viewVars
<1>10. QED
  BY <1>4, <1>5, <1>6, <1>7, <1>8, <1>9 DEF PollingInv, LoopInv, ToastInv

(* A settled document does not move. *)
LEMMA ChangesInv ==
    ASSUME PollingInv, NEW d \in Docs, Changes(d)
    PROVE  PollingInv'
<1>0. PollingTypeOK
  BY DEF PollingInv, LoopInv
<1>1. PICK s \in Moves[server[d]] : server' = [server EXCEPT ![d] = s]
  BY DEF Changes
<1>2. s \in Status /\ server[d] \notin Settled
  BY <1>0, <1>1 DEF PollingTypeOK, Moves
<1>3. /\ version' = version + 1
      /\ UNCHANGED <<page, latestRequest, requests, timers, timerRef>>
      /\ UNCHANGED viewVars
  BY DEF Changes, loopVars
<1>4. PollingTypeOK'
  <2>1. \A v \in 0 .. version : v \in 0 .. version'
    BY <1>0, <1>3 DEF PollingTypeOK
  <2>2. \A r \in requests : /\ r = [ticket |-> r.ticket, state |-> r.state, list |-> r.list]
                            /\ r.ticket \in 1 .. latestRequest
                            /\ r.state \in {"pending", "broken", "answered"}
                            /\ r.list \in [items : [Docs -> Status], version : 0 .. version]
    BY <1>0 DEF PollingTypeOK
  <2>3. [items : [Docs -> Status], version : 0 .. version]
            \subseteq [items : [Docs -> Status], version : 0 .. version']
    BY <2>1
  <2>4. requests' \subseteq [ticket : 1 .. latestRequest', state : {"pending", "broken", "answered"},
                             list : [items : [Docs -> Status], version : 0 .. version']]
    BY <2>2, <2>3, <1>3
  <2>5. QED
    BY <2>3, <2>4, <1>0, <1>1, <1>2, <1>3 DEF PollingTypeOK, viewVars
<1>5. LoadingIsFresh' /\ TimerIsHeld' /\ TicketsAreUnique' /\ OneLoop' /\ ViewInv'
  BY <1>3 DEF PollingInv, LoopInv, ViewInv, LoadingIsFresh, TimerIsHeld, TicketsAreUnique,
              OneLoop, Newest, NewestIsFresh, viewVars
<1>6. SettledIsKnown'
  BY <1>0, <1>1, <1>2, <1>3 DEF PollingInv, ToastInv, SettledIsKnown, PollingTypeOK, viewVars
<1>7. NewestIsSettled' /\ FirstPollIsFirst' /\ SeededIsSettled' /\ AnnouncedOnce'
  BY <1>3 DEF PollingInv, ToastInv, NewestIsSettled, FirstPollIsFirst, SeededIsSettled,
              AnnouncedOnce, viewVars
<1>8. QED
  BY <1>4, <1>5, <1>6, <1>7 DEF PollingInv, LoopInv, ToastInv

-----------------------------------------------------------------------------
(* An answer that a newer poll has overtaken changes nothing. *)
LEMMA DroppedInv ==
    ASSUME PollingInv, NEW r \in requests, Dropped(r)
    PROVE  PollingInv'
<1>1. /\ requests' = requests \ {r} /\ r.ticket # latestRequest
      /\ UNCHANGED <<page, latestRequest, timers, timerRef, server, version>>
      /\ UNCHANGED viewVars
  BY DEF Dropped, IsStale, serverVars
<1>2. Newest' = Newest
  BY <1>1 DEF Newest
<1>3. PollingTypeOK'
  BY <1>1 DEF PollingInv, LoopInv, PollingTypeOK, viewVars
<1>4. LoadingIsFresh' /\ TimerIsHeld' /\ TicketsAreUnique'
  BY <1>1 DEF PollingInv, LoopInv, LoadingIsFresh, TimerIsHeld, TicketsAreUnique
<1>5. OneLoop'
  <2>1. \A x \in Newest : x \in requests'
    BY <1>1 DEF Newest
  <2>2. QED
    BY <2>1, <1>1, <1>2 DEF PollingInv, LoopInv, OneLoop
<1>6. ViewInv' /\ ToastInv'
  BY <1>1 DEF PollingInv, ViewInv, ToastInv, NewestIsFresh, SettledIsKnown, NewestIsSettled,
              FirstPollIsFirst, SeededIsSettled, AnnouncedOnce, viewVars
<1>7. QED
  BY <1>3, <1>4, <1>5, <1>6 DEF PollingInv, LoopInv

(* The newest answer is spent: the loop goes on with its timer. *)
LEMMA SpentInv ==
    ASSUME PollingInv, NEW r \in requests, ~IsStale(r),
           requests' = requests \ {r}, Schedule(r),
           UNCHANGED <<page, latestRequest, serverVars>>
    PROVE  /\ LoadingIsFresh' /\ TimerIsHeld' /\ TicketsAreUnique' /\ OneLoop'
           /\ Newest' = {}
           /\ timers' \subseteq 1 .. latestRequest' /\ timerRef' \in 0 .. latestRequest'
<1>1. /\ PollingTypeOK /\ TicketsAreUnique /\ TimerIsHeld /\ OneLoop /\ LoadingIsFresh
      /\ r.ticket = latestRequest /\ r.ticket \in 1 .. latestRequest
  BY DEF PollingInv, LoopInv, PollingTypeOK, IsStale
<1>2. Newest = {r} /\ Newest' = {}
  BY <1>1 DEF Newest, TicketsAreUnique
<1>3. timers = {}
  BY <1>1, <1>2 DEF OneLoop
<1>4. IF page = "shown" THEN timers' = {r.ticket} /\ timerRef' = r.ticket
                        ELSE timers' = {} /\ timerRef' = timerRef
  BY <1>3 DEF Schedule
<1>5. LoadingIsFresh' /\ TimerIsHeld' /\ TicketsAreUnique'
  BY <1>1, <1>4 DEF LoadingIsFresh, TimerIsHeld, TicketsAreUnique
<1>6. OneLoop'
  BY <1>2, <1>4 DEF OneLoop
<1>7. QED
  BY <1>1, <1>2, <1>4, <1>5, <1>6 DEF PollingTypeOK

LEMMA BreaksInv ==
    ASSUME PollingInv, NEW r \in requests, Breaks(r)
    PROVE  PollingInv'
<1>1. /\ ~IsStale(r) /\ requests' = requests \ {r} /\ Schedule(r)
      /\ UNCHANGED <<page, latestRequest, server, version, isFirstPoll, prevStatuses,
                     documents, toasts, seeded>>
  BY DEF Breaks, serverVars
<1>2. /\ LoadingIsFresh' /\ TimerIsHeld' /\ TicketsAreUnique' /\ OneLoop'
      /\ timers' \subseteq 1 .. latestRequest' /\ timerRef' \in 0 .. latestRequest'
  BY <1>1, SpentInv DEF serverVars
<1>3. error' \in BOOLEAN
  BY DEF Breaks, PollingInv, LoopInv, PollingTypeOK
<1>4. PollingTypeOK'
  BY <1>1, <1>2, <1>3 DEF PollingInv, LoopInv, PollingTypeOK
<1>5. ViewInv' /\ ToastInv'
  BY <1>1 DEF PollingInv, ViewInv, ToastInv, NewestIsFresh, SettledIsKnown, NewestIsSettled,
              FirstPollIsFirst, SeededIsSettled, AnnouncedOnce
<1>6. QED
  BY <1>2, <1>4, <1>5 DEF PollingInv, LoopInv

LEMMA LandsInv ==
    ASSUME PollingInv, NEW r \in requests, Lands(r)
    PROVE  PollingInv'
<1> DEFINE items == r.list.items
<1>1. /\ ~IsStale(r) /\ requests' = requests \ {r} /\ Schedule(r)
      /\ r.ticket = latestRequest /\ r.state = "answered"
      /\ UNCHANGED <<page, latestRequest, server, version>>
  BY DEF Lands, serverVars, IsStale
<1>2. /\ LoadingIsFresh' /\ TimerIsHeld' /\ TicketsAreUnique' /\ OneLoop'
      /\ Newest' = {}
      /\ timers' \subseteq 1 .. latestRequest' /\ timerRef' \in 0 .. latestRequest'
  BY <1>1, SpentInv DEF serverVars
<1>3. /\ PollingTypeOK /\ items \in [Docs -> Status]
      /\ r.list \in [items : [Docs -> Status], version : 0 .. version]
  BY DEF PollingInv, LoopInv, PollingTypeOK
<1>4. /\ prevStatuses' = [d \in Docs |-> IF items[d] = "ABSENT" THEN prevStatuses[d] ELSE items[d]]
      /\ toasts' = [d \in Docs |-> IF IsNewCompletion(d, items) THEN toasts[d] + 1 ELSE toasts[d]]
      /\ isFirstPoll' = FALSE
      /\ seeded' = IF isFirstPoll THEN {d \in Docs : items[d] \in Settled} ELSE seeded
  BY DEF Lands
<1>5. PollingTypeOK'
  <2>1. documents' \in {r.list, documents} /\ error' \in BOOLEAN
    BY <1>3 DEF Lands, PollingTypeOK
  <2>2. prevStatuses' \in [Docs -> Status]
    BY <1>3, <1>4 DEF PollingTypeOK
  <2>3. toasts' \in [Docs -> Nat]
    BY <1>3, <1>4 DEF PollingTypeOK
  <2>4. seeded' \subseteq Docs
    BY <1>3, <1>4 DEF PollingTypeOK
  <2>5. QED
    BY <1>1, <1>2, <1>3, <1>4, <2>1, <2>2, <2>3, <2>4 DEF PollingTypeOK
<1>6. ViewInv' /\ NewestIsSettled'
  BY <1>2 DEF Newest, ViewInv, NewestIsFresh, NewestIsSettled
<1>7. \A d \in Docs : prevStatuses[d] \in Settled => items[d] = prevStatuses[d]
  BY <1>1 DEF PollingInv, ToastInv, NewestIsSettled
<1>8. \A d \in Docs : prevStatuses'[d] \in Settled <=> items[d] \in Settled
  BY <1>3, <1>4, <1>7
<1>9. SettledIsKnown'
  BY <1>1, <1>3, <1>4, <1>8 DEF PollingInv, ToastInv, SettledIsKnown
<1>10. FirstPollIsFirst'
  BY <1>4 DEF FirstPollIsFirst
<1>11. SeededIsSettled'
  BY <1>3, <1>4, <1>7, <1>8 DEF PollingInv, ToastInv, SeededIsSettled, PollingTypeOK
<1>12. AnnouncedOnce'
  <2> SUFFICES ASSUME NEW d \in Docs
               PROVE  toasts'[d] = IF prevStatuses'[d] \in Settled /\ d \notin seeded'
                                   THEN 1 ELSE 0
    BY DEF AnnouncedOnce
  <2>0. toasts[d] = IF prevStatuses[d] \in Settled /\ d \notin seeded THEN 1 ELSE 0
    BY DEF PollingInv, ToastInv, AnnouncedOnce
  <2>1. CASE isFirstPoll
    <3>1. prevStatuses[d] = "ABSENT" /\ toasts[d] = 0
      BY <2>0, <2>1 DEF PollingInv, ToastInv, FirstPollIsFirst
    <3>2. toasts'[d] = 0
      BY <3>1, <2>1, <1>4 DEF IsNewCompletion
    <3>3. QED
      BY <3>2, <2>1, <1>4, <1>8
  <2>2. CASE ~isFirstPoll /\ prevStatuses[d] \in Settled
    BY <2>0, <2>2, <1>4, <1>7, <1>8 DEF IsNewCompletion
  <2>3. CASE ~isFirstPoll /\ prevStatuses[d] \notin Settled
    <3>1. d \notin seeded' /\ toasts[d] = 0
      BY <2>0, <2>3, <1>4 DEF PollingInv, ToastInv, SeededIsSettled
    <3>2. toasts'[d] = IF items[d] \in Settled THEN 1 ELSE 0
      BY <3>1, <2>3, <1>4 DEF IsNewCompletion
    <3>3. QED
      BY <3>1, <3>2, <1>8
  <2>4. QED
    BY <2>1, <2>2, <2>3
<1>13. QED
  BY <1>2, <1>5, <1>6, <1>9, <1>10, <1>11, <1>12 DEF PollingInv, LoopInv, ToastInv

-----------------------------------------------------------------------------
(* Every step of the hook keeps its invariant. *)
LEMMA NextInv ==
    ASSUME PollingInv, [PollingNext]_pollVars
    PROVE  PollingInv'
<1>1. CASE Mount
  BY <1>1, StartPollInv DEF Mount
<1>2. CASE MountTwice
  BY <1>2, MountTwiceInv
<1>3. CASE Unmount
  BY <1>3, UnmountInv
<1>4. CASE Focus
  BY <1>4, StartPollInv DEF Focus
<1>5. CASE Refresh
  BY <1>5, StartPollInv DEF Refresh
<1>6. ASSUME NEW t \in timers, TimerFires(t)
      PROVE  PollingInv'
  <2>1. page # "loading"
    BY <1>6 DEF PollingInv, LoopInv, LoadingIsFresh
  <2>2. timers \ {t} \subseteq timers
    OBVIOUS
  <2>3. QED
    BY <2>1, <2>2, <1>6, StartPollInv DEF TimerFires
<1>7. ASSUME NEW r \in requests, Answer(r)
      PROVE  PollingInv'
  BY <1>7, AnswerInv
<1>8. ASSUME NEW r \in requests, Arrives(r)
      PROVE  PollingInv'
  BY <1>8, DroppedInv, LandsInv, BreaksInv DEF Arrives
<1>9. ASSUME NEW d \in Docs, Changes(d)
      PROVE  PollingInv'
  BY <1>9, ChangesInv
<1>10. CASE UNCHANGED pollVars
  BY <1>10 DEF pollVars, serverVars, loopVars, viewVars, PollingInv, LoopInv, ViewInv,
         ToastInv, PollingTypeOK, LoadingIsFresh, TimerIsHeld, TicketsAreUnique, OneLoop,
         Newest, NewestIsFresh, SettledIsKnown, NewestIsSettled, FirstPollIsFirst,
         SeededIsSettled, AnnouncedOnce
<1>11. QED
  BY <1>1, <1>2, <1>3, <1>4, <1>5, <1>6, <1>7, <1>8, <1>9, <1>10 DEF PollingNext

(* The invariant holds of every behaviour of the hook (usePolling 34-127). *)
THEOREM PollingIsInvariant == PollingSpec => []PollingInv
  BY InitInv, NextInv, PTL DEF PollingSpec

(* A shown page has one loop, a page that is gone has none, however many   *)
(* uploads, focus events and remounts have started polls.                  *)
THEOREM OneLoopAlways == PollingSpec => []OneLoop
<1>1. PollingInv => OneLoop
  BY DEF PollingInv, LoopInv
<1>2. QED
  BY <1>1, PollingIsInvariant, PTL

(* A document is announced once, by the first answer after the page's      *)
(* first that has it settled, whether an earlier one listed it or not; one *)
(* that the page's first answer had settled never is (usePolling 92-101).  *)
THEOREM Announcements == PollingSpec => []AnnouncedOnce
<1>1. PollingInv => AnnouncedOnce
  BY DEF PollingInv, ToastInv
<1>2. QED
  BY <1>1, PollingIsInvariant, PTL

(* Only the newest answer is rendered, and it is no older than the last.   *)
LEMMA StepKeepsView ==
    ASSUME PollingInv, [PollingNext]_pollVars
    PROVE  documents'.version >= documents.version
<1>0. documents.version \in Nat /\ version \in Nat
  BY DEF PollingInv, LoopInv, PollingTypeOK
<1>1. ASSUME NEW r \in requests, Lands(r)
      PROVE  documents'.version >= documents.version
  <2>1. documents.version <= r.list.version
    BY <1>1 DEF PollingInv, ViewInv, NewestIsFresh, Lands, IsStale
  <2>2. r.list.version \in Nat
    BY <1>1, <1>0 DEF PollingInv, LoopInv, PollingTypeOK
  <2>3. documents' = r.list \/ documents' = documents
    BY <1>1 DEF Lands
  <2>4. QED
    BY <2>1, <2>2, <2>3, <1>0
<1>2. CASE ~\E r \in requests : Lands(r)
  <2>1. documents' = documents
    BY <1>2 DEF PollingNext, Mount, MountTwice, Unmount, Focus, Refresh, TimerFires,
                Answer, Arrives, Dropped, Breaks, Changes, pollVars, viewVars
  <2>2. QED
    BY <2>1, <1>0
<1>3. QED
  BY <1>1, <1>2

(* What is rendered never goes back to an older answer. *)
THEOREM ViewIsMonotonic == PollingSpec => ViewNeverGoesBack
  BY PollingIsInvariant, StepKeepsView, PTL DEF PollingSpec, ViewNeverGoesBack
=============================================================================
