------------------------------ MODULE Pipeline ------------------------------
(***************************************************************************)
(* A document's way through the platform: the client and the API put a     *)
(* row in the table and an object in the bucket, S3 sends a message, and   *)
(* workers (worker/consumer/main.py) receive, claim, run the graph, record *)
(* the result and acknowledge, each with a heartbeat thread                *)
(* (worker/consumer/heartbeat.py) beside it.                               *)
(*                                                                         *)
(* A worker's step is one database transaction or one AWS call.  Any of    *)
(* them may raise, and the process may die between any two.  What the      *)
(* graph does inside a run is the module Graph's subject: here a run       *)
(* passes nodes, ends with a report, or raises.                            *)
(***************************************************************************)
EXTENDS DocumentStore, MessageQueue

CONSTANTS
    Workers,
    DocOf,              \* the document a message names, or NotADocument
    NotADocument,       \* an S3 test event, or a body that does not parse
    Foreign,            \* documents whose object reached the bucket by
                        \* other means than our intake: they have no row
    ConnectionsDrop     \* may the database drop an open transaction?

ASSUME PipelineAssumption ==
    /\ NotADocument \notin Docs
    /\ DocOf \in [Msgs -> Docs \cup {NotADocument}]
    /\ Foreign \subseteq Docs
    /\ ConnectionsDrop \in BOOLEAN

VARIABLES
    worker,     \* each worker process: where it is and the message it holds
    beat,       \* its heartbeat thread
    object,     \* is the document's object in the bucket?
    report      \* the attempt whose report is stored, 0 for none

workerVars == <<worker, beat>>
s3Vars == <<object, report>>
vars == <<storeVars, msg, workerVars, s3Vars>>

(* The verdict of a finished run: the report says FAILED, or it does not. *)
Verdict == Terminal \cup {"NONE"}

PC == {"down", "top", "recv", "claim", "peek", "fetch", "graph", "lastfail",
       "record", "extend", "publish", "commit", "ack"}

(* The rest of a worker means something while it has a message in hand: *)
(* receipt is the delivery's number, ApproximateReceiveCount.            *)
Worker == [pc : PC, msg : Msgs \cup {NULL}, receipt : 0 .. MaxReceiveCount,
           token : Nat, verdict : Verdict]

At(pc) == [pc |-> pc, msg |-> NULL, receipt |-> 0, token |-> 0, verdict |-> "NONE"]

(* "wait" between beats, "lock" while its UPDATE waits for the row, "vis"  *)
(* between the two calls of a beat, "lost" once lease_lost is set; asked   *)
(* is what its transaction's start makes of lease_seconds by now; stop is  *)
(* the event __exit__ sets.                                                *)
Beat == [pc : {"off", "wait", "lock", "vis", "lost"}, msg : Msgs \cup {NULL},
         token : Nat, asked : Lease, held : BOOLEAN, stop : BOOLEAN]

NoBeat == [pc |-> "off", msg |-> NULL, token |-> 0, asked |-> LeaseSeconds,
           held |-> FALSE, stop |-> FALSE]

TypeOK ==
    /\ StoreTypeOK
    /\ QueueTypeOK
    /\ worker \in [Workers -> Worker]
    /\ beat \in [Workers -> Beat]
    /\ object \in [Docs -> BOOLEAN]
    /\ report \in [Docs -> Nat]

Init ==
    /\ StoreInit
    /\ QueueInit
    /\ worker = [w \in Workers |-> At("down")]
    /\ beat = [w \in Workers |-> NoBeat]
    /\ object = [d \in Docs |-> FALSE]
    /\ report = [d \in Docs |-> 0]

DocIn(w) == DocOf[worker[w].msg]
Token(w) == worker[w].token
(* Mutant: off by one. *)
LastAttemptEarly(w) == worker[w].receipt >= MaxReceiveCount - 1
LastAttempt(w) == worker[w].receipt >= MaxReceiveCount

-----------------------------------------------------------------------------
(* The client, the API and S3. *)

RequestSlot(d) ==
    /\ d \notin Foreign
    /\ Insert(d)
    /\ UNCHANGED <<msg, workerVars, s3Vars>>

(* The browser posts to the presigned URL, which exists once the row does. *)
PutObject(d) ==
    /\ ~object[d]
    /\ d \in Foreign \/ row[d].status # "ABSENT"
    /\ object' = [object EXCEPT ![d] = TRUE]
    /\ UNCHANGED <<storeVars, msg, workerVars, report>>

(* The event notification, and its duplicates: S3 delivers at least once. *)
Notify(m) ==
    /\ DocOf[m] \in Docs => object[DocOf[m]]
    /\ Send(m)
    /\ UNCHANGED <<storeVars, workerVars, s3Vars>>

(* Mutant: the status is assigned, not updated where it is UPLOADING. *)
UploadCompleteAssigns(d) ==
    /\ object[d] /\ row[d].status # "ABSENT"
    /\ row' = [row EXCEPT ![d].status = "QUEUED"]
    /\ UNCHANGED <<open, settledBy, msg, workerVars, s3Vars>>

UploadComplete(d) ==
    /\ object[d]
    /\ MarkQueued(d)
    /\ UNCHANGED <<msg, workerVars, s3Vars>>

-----------------------------------------------------------------------------
(* Ways to leave a message. *)

Goto(w, pc) == worker' = [worker EXCEPT ![w].pc = pc]

(* Leaving `with Heartbeat`: the stop event is set and the thread joined   *)
(* for five seconds, which a beat under way may outlast.                   *)
StopBeat(w) ==
    \/ /\ beat[w].pc \notin {"lock", "vis"} /\ ~beat[w].stop
       /\ beat' = [beat EXCEPT ![w] = NoBeat]
    \/ /\ beat[w].pc \in {"wait", "lock", "vis"}
       /\ beat' = [beat EXCEPT ![w].stop = TRUE]

(* The process ends, and its daemon thread with it. *)
Die(w) ==
    /\ worker' = [worker EXCEPT ![w] = At("down")]
    /\ beat' = [beat EXCEPT ![w] = NoBeat]

(* Ack.RETURN, or an exception _handle caught: the message times out. *)
Leave(w) == worker' = [worker EXCEPT ![w] = At("top")]

-----------------------------------------------------------------------------
(* The poll loop. *)

Start(w) ==
    /\ worker[w].pc = "down"
    /\ Goto(w, "top")
    /\ UNCHANGED <<storeVars, msg, beat, s3Vars>>

(* request_stop takes effect at the loop's test. *)
Stop(w) ==
    /\ worker[w].pc = "top"
    /\ Die(w)
    /\ UNCHANGED <<storeVars, msg, s3Vars>>

(* _maybe_reap, when the interval has passed and the sweep succeeds ...    *)
ReapFirst(w) ==
    /\ worker[w].pc = "top"
    /\ Reap
    /\ Goto(w, "recv")
    /\ UNCHANGED <<msg, beat, s3Vars>>

(* ... and when it has not, or the sweep raised and was swallowed. *)
SkipReap(w) ==
    /\ worker[w].pc = "top"
    /\ Goto(w, "recv")
    /\ UNCHANGED <<storeVars, msg, beat, s3Vars>>

(* receive_message and parse: a body that names no document is deleted. *)
Receive(w, m) ==
    /\ worker[w].pc = "recv"
    /\ Deliver(m)
    /\ worker' = [worker EXCEPT
                    ![w] = [At(IF DocOf[m] \in Docs THEN "claim" ELSE "ack")
                              EXCEPT !.msg = m, !.receipt = msg'[m].count]]
    /\ UNCHANGED <<storeVars, beat, s3Vars>>

ReceiveNothing(w) ==
    /\ worker[w].pc = "recv"
    /\ Leave(w)
    /\ UNCHANGED <<storeVars, msg, beat, s3Vars>>

(* A receive that finds a message out of deliveries. *)
Redrive(w, m) ==
    /\ worker[w].pc = "recv"
    /\ MoveToDeadLetter(m)
    /\ UNCHANGED <<storeVars, workerVars, s3Vars>>

(* _delete, after Ack.DELETE. *)
Acknowledge(w) ==
    /\ worker[w].pc = "ack"
    /\ Remove(worker[w].msg, worker[w].receipt)
    /\ Leave(w)
    /\ UNCHANGED <<storeVars, beat, s3Vars>>

(* receive_message and _delete are outside _handle's try: an error there   *)
(* ends run, and ECS starts the task again.                                *)
LoopEnds(w) ==
    /\ worker[w].pc \in {"recv", "ack"}
    /\ Die(w)
    /\ UNCHANGED <<storeVars, msg, s3Vars>>

-----------------------------------------------------------------------------
(* _process: claim, fetch. *)

ClaimDocument(w) ==
    /\ worker[w].pc = "claim"
    /\ Claim(DocIn(w))
    /\ worker' = [worker EXCEPT ![w].pc = "fetch",
                               ![w].token = row'[DocIn(w)].attempt]
    /\ UNCHANGED <<msg, beat, s3Vars>>

ClaimRefused(w) ==
    /\ worker[w].pc = "claim"
    /\ ~Claimable(row[DocIn(w)])
    /\ Goto(w, "peek")
    /\ UNCHANGED <<storeVars, msg, beat, s3Vars>>

(* PEEK_SQL is a statement of its own and sees what committed meanwhile. *)
Peek(w) ==
    /\ worker[w].pc = "peek"
    /\ \/ row[DocIn(w)].status \in Terminal \cup {"ABSENT"} /\ Goto(w, "ack")
       \/ row[DocIn(w)].status \notin Terminal \cup {"ABSENT"} /\ Leave(w)
    /\ UNCHANGED <<storeVars, msg, beat, s3Vars>>

(* The object is read and the heartbeat started.  Its thread dies at once  *)
(* when it cannot connect, and nobody notices.                             *)
Fetch(w) ==
    /\ worker[w].pc = "fetch"
    /\ object[DocIn(w)]
    /\ beat[w].pc = "off"
    /\ Goto(w, "graph")
    /\ \/ beat' = [beat EXCEPT ![w] = [NoBeat EXCEPT !.pc = "wait",
                                                    !.msg = worker[w].msg,
                                                    !.token = Token(w)]]
       \/ UNCHANGED beat
    /\ UNCHANGED <<storeVars, msg, s3Vars>>

FetchFails(w) ==
    /\ worker[w].pc = "fetch"
    /\ IF LastAttempt(w) THEN Goto(w, "lastfail") ELSE Leave(w)
    /\ UNCHANGED <<storeVars, msg, beat, s3Vars>>

-----------------------------------------------------------------------------
(* _run_graph. *)

(* A node finished: record_step, whose failure is swallowed, then the      *)
(* check of lease_lost.                                                    *)
NodeFinished(w) ==
    /\ worker[w].pc = "graph"
    /\ RecordStep(DocIn(w), Token(w)) \/ UNCHANGED storeVars
    /\ \/ beat[w].pc = "lost" /\ Leave(w) /\ StopBeat(w)
       \/ beat[w].pc # "lost" /\ UNCHANGED workerVars
    /\ UNCHANGED <<msg, s3Vars>>

(* A transient error leaves the graph.  The last attempt's mark_failed     *)
(* runs inside the `with`: the heartbeat goes on.                          *)
GraphRaises(w) ==
    /\ worker[w].pc = "graph"
    /\ \/ LastAttempt(w) /\ Goto(w, "lastfail") /\ UNCHANGED beat
       \/ ~LastAttempt(w) /\ Leave(w) /\ StopBeat(w)
    /\ UNCHANGED <<storeVars, msg, s3Vars>>

GraphEnds(w, verdict) ==
    /\ worker[w].pc = "graph"
    /\ worker' = [worker EXCEPT ![w].pc = "record", ![w].verdict = verdict]
    /\ StopBeat(w)
    /\ UNCHANGED <<storeVars, msg, s3Vars>>

(* mark_failed out of attempts: its answer is ignored, the message goes.   *)
LastFail(w) ==
    /\ worker[w].pc = "lastfail"
    /\ \/ Finish(DocIn(w), Token(w), "FAILED")
       \/ ~Current(row[DocIn(w)], Token(w)) /\ UNCHANGED storeVars
    /\ Goto(w, "ack")
    /\ StopBeat(w)
    /\ UNCHANGED <<msg, s3Vars>>

-----------------------------------------------------------------------------
(* _record and _publish_and_commit. *)

Record(w) ==
    /\ worker[w].pc = "record"
    /\ \/ /\ FinishUncommitted(DocIn(w), Token(w), worker[w].verdict)
          /\ Goto(w, "extend")
       \/ /\ ~Current(row[DocIn(w)], Token(w))
          /\ Leave(w)
          /\ UNCHANGED storeVars
    /\ UNCHANGED <<msg, beat, s3Vars>>

(* Does this worker still have its transaction open? *)
HoldsTxn(w) ==
    /\ worker[w].pc \in {"extend", "publish", "commit"}
    /\ open[DocIn(w)].token = Token(w)

(* Mutant: no rollback, so the clean exit of `with connect()` commits. *)
UndoCommits(w) ==
    IF HoldsTxn(w) THEN Commit(DocIn(w)) ELSE UNCHANGED storeVars

(* The rollback, by the worker or by the closing of its connection. *)
Undo(w) ==
    IF HoldsTxn(w) THEN Rollback(DocIn(w)) ELSE UNCHANGED storeVars

Extend(w) ==
    /\ worker[w].pc = "extend"
    /\ Hide(worker[w].msg)
    /\ Goto(w, "publish")
    /\ UNCHANGED <<storeVars, beat, s3Vars>>

Publish(w) ==
    /\ worker[w].pc = "publish"
    /\ report' = [report EXCEPT ![DocIn(w)] = Token(w)]
    /\ Goto(w, "commit")
    /\ UNCHANGED <<storeVars, msg, beat, object>>

(* Either call raises.  The put may have stored the report all the same.   *)
PublishFails(w) ==
    /\ worker[w].pc \in {"extend", "publish"}
    /\ Undo(w)
    /\ Leave(w)
    /\ \/ UNCHANGED report
       \/ /\ worker[w].pc = "publish"
          /\ report' = [report EXCEPT ![DocIn(w)] = Token(w)]
    /\ UNCHANGED <<msg, beat, object>>

CommitResult(w) ==
    /\ worker[w].pc = "commit"
    /\ HoldsTxn(w)
    /\ Commit(DocIn(w))
    /\ Goto(w, "ack")
    /\ UNCHANGED <<msg, beat, s3Vars>>

(* conn.commit() raises, whether or not the server had committed. *)
CommitFails(w) ==
    /\ worker[w].pc = "commit"
    /\ \/ Undo(w)
       \/ HoldsTxn(w) /\ Commit(DocIn(w))
    /\ Leave(w)
    /\ UNCHANGED <<msg, beat, s3Vars>>

-----------------------------------------------------------------------------
(* Mutant: an error acknowledges the message. *)
ProcessRaisesAcks(w) ==
    /\ worker[w].pc \in {"claim", "peek", "fetch", "record"}
    /\ Goto(w, "ack")
    /\ UNCHANGED <<storeVars, msg, beat, s3Vars>>

(* Everything that raises before the result is being recorded: _handle     *)
(* logs it and leaves the message.  At "fetch" this is also a claim whose  *)
(* commit was applied although the worker saw it fail.                     *)
ProcessRaises(w) ==
    /\ worker[w].pc \in {"claim", "peek", "fetch", "record"}
    /\ Leave(w)
    /\ UNCHANGED <<storeVars, msg, beat, s3Vars>>

(* mark_failed raises, its commit applied or not. *)
LastFailRaises(w) ==
    /\ worker[w].pc = "lastfail"
    /\ Finish(DocIn(w), Token(w), "FAILED") \/ UNCHANGED storeVars
    /\ Leave(w)
    /\ StopBeat(w)
    /\ UNCHANGED <<msg, s3Vars>>

(* The process dies: SIGKILL, out of memory, a lost host. *)
Crash(w) ==
    /\ worker[w].pc \notin {"down", "top"}
    /\ Die(w)
    /\ Undo(w)
    /\ UNCHANGED <<msg, s3Vars>>

(* The database closes a connection with a transaction open (a failover,   *)
(* an idle timeout): the lock is gone and the worker does not know.        *)
ConnectionLost(w) ==
    /\ ConnectionsDrop
    /\ HoldsTxn(w)
    /\ Rollback(DocIn(w))
    /\ UNCHANGED <<msg, workerVars, s3Vars>>

-----------------------------------------------------------------------------
(* The heartbeat thread. *)

BeatDoc(w) == DocOf[beat[w].msg]

(* The UPDATE of extend_lease, when the row is free or does not match. *)
TryExtend(w) ==
    \/ /\ \E noted \in {0, beat[w].token} :
            ExtendLease(BeatDoc(w), beat[w].token, noted, beat[w].asked)
       /\ beat' = [beat EXCEPT ![w].pc = "vis", ![w].asked = LeaseSeconds,
                               ![w].held = TRUE]
    \/ /\ ~CurrentWhen(row[BeatDoc(w)], beat[w].token, beat[w].asked)
       /\ beat' = [beat EXCEPT ![w].pc = "vis", ![w].asked = LeaseSeconds,
                               ![w].held = FALSE]
       /\ UNCHANGED storeVars

BeatEnds(w, pc) ==
    beat' = [beat EXCEPT ![w] = IF @.stop THEN NoBeat
                                ELSE [@ EXCEPT !.pc = pc, !.asked = LeaseSeconds,
                                               !.held = FALSE]]

(* extend_lease, whose transaction begins now.  A beat that was under way  *)
(* when the worker left ends with its loop test.                           *)
BeatLease(w) ==
    /\ beat[w].pc = "wait"
    /\ \/ TryExtend(w)
       \/ /\ Current(row[BeatDoc(w)], beat[w].token)
          /\ ~Free(BeatDoc(w))
          /\ beat' = [beat EXCEPT ![w].pc = "lock"]
          /\ UNCHANGED storeVars
       \/ /\ beat[w].stop
          /\ beat' = [beat EXCEPT ![w] = NoBeat]
          /\ UNCHANGED storeVars
    /\ UNCHANGED <<msg, worker, s3Vars>>

(* The lock is gone: the WHERE clause is tested again, now() being when    *)
(* the beat asked.  Or the connection fails while it waits.                *)
BeatLocked(w) ==
    /\ beat[w].pc = "lock"
    /\ \/ Free(BeatDoc(w)) /\ TryExtend(w)
       \/ BeatEnds(w, "wait") /\ UNCHANGED storeVars
    /\ UNCHANGED <<msg, worker, s3Vars>>

(* extend_visibility, called whether or not the lease was held.  When it   *)
(* raises, the answer about the lease is forgotten until the next beat.    *)
BeatVisibility(w) ==
    /\ beat[w].pc = "vis"
    /\ \/ Hide(beat[w].msg) /\ BeatEnds(w, IF beat[w].held THEN "wait" ELSE "lost")
       \/ UNCHANGED msg /\ BeatEnds(w, "wait")
    /\ UNCHANGED <<storeVars, worker, s3Vars>>

-----------------------------------------------------------------------------
(* A beat that waits has asked for a lease that is running already. *)
AskedAges(b) ==
    IF b.pc = "lock" /\ b.asked > Forgotten THEN [b EXCEPT !.asked = @ - 1] ELSE b

Tick ==
    /\ StoreTick /\ QueueTick
    /\ beat' = [w \in Workers |-> AskedAges(beat[w])]
    /\ UNCHANGED <<worker, s3Vars>>

Intake(d) == RequestSlot(d) \/ PutObject(d) \/ UploadComplete(d)

Poll(w) ==
    \/ ReceiveNothing(w)
    \/ \E m \in Msgs : Receive(w, m) \/ Redrive(w, m)

(* What a worker does with a message, up to and including the delete. *)
Work(w) ==
    \/ ClaimDocument(w) \/ ClaimRefused(w) \/ Peek(w)
    \/ Fetch(w) \/ FetchFails(w)
    \/ NodeFinished(w) \/ GraphRaises(w)
    \/ \E verdict \in Terminal : GraphEnds(w, verdict)
    \/ LastFail(w) \/ LastFailRaises(w)
    \/ Record(w) \/ Extend(w) \/ Publish(w) \/ PublishFails(w)
    \/ CommitResult(w) \/ CommitFails(w)
    \/ Acknowledge(w)
    \/ ProcessRaises(w)

Beats(w) == BeatLease(w) \/ BeatLocked(w) \/ BeatVisibility(w)

Sweeps(w) == ReapFirst(w) \/ SkipReap(w)

Next ==
    \/ \E d \in Docs : Intake(d)
    \/ \E m \in Msgs : Notify(m)
    \/ \E w \in Workers :
        \/ Start(w) \/ Stop(w) \/ Sweeps(w) \/ Poll(w) \/ Work(w) \/ Beats(w)
        \/ LoopEnds(w) \/ Crash(w) \/ ConnectionLost(w)
    \/ Tick

Spec == Init /\ [][Next]_vars

(* Clocks run; ECS restarts a task; a call in progress answers or raises;  *)
(* the loop turns; a sweep is not skipped for ever, and a visible message  *)
(* is not passed over for ever, however often processes die in between.    *)
Fairness ==
    /\ WF_vars(Tick)
    /\ \A m \in Msgs : /\ WF_vars(Notify(m))
                       /\ SF_vars(\E w \in Workers : Receive(w, m) \/ Redrive(w, m))
    /\ \A w \in Workers : /\ WF_vars(Start(w))
                          /\ WF_vars(Sweeps(w))
                          /\ SF_vars(ReapFirst(w))
                          /\ WF_vars(Poll(w))
                          /\ WF_vars(Work(w))
                          /\ WF_vars(Beats(w))

FairSpec == Spec /\ Fairness

-----------------------------------------------------------------------------
Settling(d) == row[d].status \in Terminal

(* No two workers ever hold the same token for a document (claim.py 63).   *)
NoSharedToken ==
    \A w, x \in Workers :
        w # x /\ Token(w) # 0 /\ Token(x) # 0 /\ DocIn(w) = DocIn(x)
            => Token(w) # Token(x)

(* A COMPLETED document has the report of one of its own attempts, even    *)
(* when the database dropped a transaction and with it the row lock that   *)
(* should have kept others out: get_report never finds it missing ("either *)
(* terminal and its report exists, or neither", _record, main.py 334-337). *)
CompletedHasReport ==
    \A d \in Docs : row[d].status = "COMPLETED" => report[d] \in Issued(d)

(* As long as it drops none, the report is that of the very attempt the    *)
(* row describes, whatever raised, lapsed, crashed or was delivered twice  *)
(* on the way (_record, main.py 322-337).                                  *)
ReportIsTheWinners ==
    \A d \in Docs : row[d].status = "COMPLETED" => report[d] = row[d].attempt

(* Once a document is terminal, its row and its report are final: no late  *)
(* worker, heartbeat, progress note, redelivery or sweep changes either    *)
(* (CLAIMABLE and the fences of claim.py; the order of writes in _record). *)
TerminalIsFinal ==
    [][\A d \in Docs : Settling(d) =>
          row'[d] = row[d] /\ report'[d] = report[d]]_vars

(* A message deleted before its last delivery names a document that is     *)
(* finished or has no row, or no document (the ack rule, _process 208-222).*)
EarlyAckMeansFinished ==
    \A m \in Msgs :
        /\ msg[m].state = "deleted"
        /\ msg[m].count < MaxReceiveCount
        /\ DocOf[m] \in Docs
        => row[DocOf[m]].status \in Terminal \cup {"ABSENT"}

(* Every document being processed is settled in the end, by its worker, by *)
(* a redelivery or by the reaper.                                          *)
ProcessingSettles ==
    \A d \in Docs : row[d].status = "PROCESSING" ~> Settling(d)

(* Every upload that reached the bucket is settled, or its message is in   *)
(* the dead letter queue, where the alarm is.                              *)
UploadSettles ==
    \A d \in Docs :
        object[d] /\ row[d].status # "ABSENT"
            ~> Settling(d) \/ \E m \in Msgs : DocOf[m] = d /\ msg[m].state = "dead"

(* Every step of the pipeline is a step the table allows its clients. *)
ImplementsStore == StoreSpec
=============================================================================
