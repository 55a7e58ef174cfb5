--------------------------- MODULE PipelineProofs ---------------------------
(***************************************************************************)
(* Theorems about Pipeline, for every set of documents, messages and       *)
(* workers.  The pipeline uses the table as DocumentStore lets its clients *)
(* use it, so what DocumentStoreProofs shows of the table holds here; on   *)
(* top of that, tokens are never shared, a COMPLETED document has a report *)
(* whatever the database drops, and while it drops no transaction the      *)
(* report of the attempt that completed it.                                *)
(***************************************************************************)
EXTENDS Pipeline, DocumentStoreProofs

(* Where a worker is when it acts on a document, owns an attempt, or has   *)
(* its finishing transaction open.                                         *)
InTxn == {"extend", "publish", "commit"}
Owning == {"fetch", "graph", "lastfail", "record"} \cup InTxn
Busy == {"claim", "peek"} \cup Owning

(* What is true of one worker and of one heartbeat, the rows being r. *)
WorkerOK(v, r) ==
    /\ v \in Worker
    /\ v.pc \in Busy \cup {"ack"} => v.msg \in Msgs
    /\ v.pc \in Busy => DocOf[v.msg] \in Docs
    /\ v.pc \in Owning => v.token # 0
    /\ v.pc \in {"record"} \cup InTxn => v.verdict \in Terminal
    /\ v.token # 0 => /\ v.pc \in Owning \cup {"ack"}
                      /\ DocOf[v.msg] \in Docs
                      /\ v.token <= r[DocOf[v.msg]].attempt

BeatOK(b, r) ==
    /\ b \in Beat
    /\ b.pc \in {"wait", "lock", "vis"} => /\ b.msg \in Msgs
                                           /\ DocOf[b.msg] \in Docs
                                           /\ b.token # 0
                                           /\ b.token <= r[DocOf[b.msg]].attempt

S3TypeOK == object \in [Docs -> BOOLEAN] /\ report \in [Docs -> Nat]

(* The inductive invariant: tokens in hand were issued, and differ. *)
PipelineInv ==
    /\ StoreInv
    /\ QueueTypeOK
    /\ S3TypeOK
    /\ worker \in [Workers -> Worker]
    /\ beat \in [Workers -> Beat]
    /\ \A w \in Workers : WorkerOK(worker[w], row) /\ BeatOK(beat[w], row)
    /\ NoSharedToken

(* What holds of a worker or a heartbeat survives the growth of attempts.  *)
LEMMA StillOK ==
    ASSUME PipelineInv, [StoreNext]_storeVars, NEW w \in Workers
    PROVE  WorkerOK(worker[w], row') /\ BeatOK(beat[w], row')
<1>1. /\ WorkerOK(worker[w], row) /\ BeatOK(beat[w], row) /\ StoreInv
  BY DEF PipelineInv
<1>2. \A d \in Docs : /\ row[d].attempt \in Nat /\ row'[d].attempt \in Nat
                      /\ row'[d].attempt >= row[d].attempt
  BY <1>1, AttemptsGrow
<1>3. worker[w].token \in Nat /\ beat[w].token \in Nat
  BY <1>1 DEF WorkerOK, BeatOK, Worker, Beat
<1>4. QED
  BY <1>1, <1>2, <1>3 DEF WorkerOK, BeatOK

(* A step that touches one worker keeps the invariant if the worker stays  *)
(* well formed and its token is dropped, kept, or new.                     *)
LEMMA WorkerStep ==
    ASSUME PipelineInv, [StoreNext]_storeVars, QueueTypeOK', S3TypeOK',
           NEW w \in Workers, NEW v, NEW b,
           worker' = [worker EXCEPT ![w] = v], beat' = [beat EXCEPT ![w] = b],
           WorkerOK(v, row'), BeatOK(b, row'),
           \/ v.token = 0
           \/ v.token = Token(w) /\ v.msg = worker[w].msg
           \/ v.token > row[DocOf[v.msg]].attempt
    PROVE  PipelineInv'
<1>1. StoreInv'
  BY StoreNextInv DEF PipelineInv
<1>2. worker' \in [Workers -> Worker] /\ beat' \in [Workers -> Beat]
  BY DEF PipelineInv, WorkerOK, BeatOK
<1>3. ASSUME NEW x \in Workers
      PROVE  WorkerOK(worker'[x], row') /\ BeatOK(beat'[x], row')
  BY StillOK DEF PipelineInv
<1>4. NoSharedToken'
  <2> SUFFICES ASSUME NEW x \in Workers, NEW y \in Workers, x # y,
                      worker'[x].token # 0, worker'[y].token # 0,
                      DocOf[worker'[x].msg] = DocOf[worker'[y].msg]
               PROVE  worker'[x].token # worker'[y].token
    BY DEF NoSharedToken, Token, DocIn
  <2>1. \A z \in Workers : z # w => worker'[z] = worker[z]
    BY DEF PipelineInv
  <2>2. worker'[w] = v
    BY DEF PipelineInv
  <2>3. ASSUME NEW z \in Workers, z # w, worker[z].token # 0, v.token # 0,
               DocOf[worker[z].msg] = DocOf[v.msg]
        PROVE  worker[z].token # v.token
    <3>1. /\ worker[z].token <= row[DocOf[worker[z].msg]].attempt
          /\ worker[z].token \in Nat /\ DocOf[worker[z].msg] \in Docs
      BY <2>3 DEF PipelineInv, WorkerOK, Worker
    <3>2. row[DocOf[v.msg]].attempt \in Nat /\ v.token \in Nat
      BY <2>3, <3>1, AttemptsGrow DEF PipelineInv, WorkerOK, Worker
    <3>3. CASE v.token > row[DocOf[v.msg]].attempt
      BY <2>3, <3>1, <3>2, <3>3
    <3>4. CASE v.token = Token(w) /\ v.msg = worker[w].msg
      BY <2>3, <3>4 DEF PipelineInv, NoSharedToken, Token, DocIn
    <3>5. QED
      BY <2>3, <3>3, <3>4
  <2>4. QED
    BY <2>1, <2>2, <2>3 DEF PipelineInv, NoSharedToken, Token, DocIn
<1>5. QED
  BY <1>1, <1>2, <1>3, <1>4 DEF PipelineInv

-----------------------------------------------------------------------------
(* The pipeline is a client of the table. *)

(* A worker that owns an attempt, and a live heartbeat, present a token    *)
(* that was issued.                                                        *)
LEMMA TokensWereIssued ==
    ASSUME PipelineInv, NEW w \in Workers
    PROVE  /\ worker[w].pc \in Busy => DocIn(w) \in Docs
           /\ worker[w].pc \in Owning => Token(w) \in Issued(DocIn(w))
           /\ worker[w].pc \in {"record"} \cup InTxn => worker[w].verdict \in Terminal
           /\ beat[w].pc \in {"wait", "lock", "vis"} =>
                 BeatDoc(w) \in Docs /\ beat[w].token \in Issued(BeatDoc(w))
<1>1. /\ WorkerOK(worker[w], row) /\ BeatOK(beat[w], row)
      /\ \A d \in Docs : row[d].attempt \in Nat
  BY DEF PipelineInv, StoreInv, StoreTypeOK, Row
<1>2. worker[w].token \in Nat /\ beat[w].token \in Nat
  BY <1>1 DEF WorkerOK, BeatOK, Worker, Beat
<1>3. QED
  BY <1>1, <1>2 DEF WorkerOK, BeatOK, DocIn, Token, BeatDoc, Issued, Busy, Owning

(* Rollback, when the transaction is this worker's. *)
LEMMA UndoIsAStoreStep ==
    ASSUME PipelineInv, NEW w \in Workers, Undo(w)
    PROVE  [StoreNext]_storeVars
<1>1. CASE HoldsTxn(w)
  <2>1. DocIn(w) \in Docs
    BY <1>1, TokensWereIssued DEF HoldsTxn, Busy, Owning, InTxn
  <2>2. QED
    BY <1>1, <2>1 DEF Undo, StoreNext, StoreStep
<1>2. CASE ~HoldsTxn(w)
  BY <1>2 DEF Undo
<1>3. QED
  BY <1>1, <1>2

(* Every step of a worker's own is a step the table allows, or leaves it.  *)
LEMMA WorkIsAStoreStep ==
    ASSUME PipelineInv, NEW w \in Workers, Work(w)
    PROVE  [StoreNext]_storeVars
<1> USE DEF Busy, Owning, InTxn
<1>1. CASE ClaimDocument(w)
  BY <1>1, TokensWereIssued DEF ClaimDocument, StoreNext, StoreStep
<1>2. CASE \/ ClaimRefused(w) \/ Peek(w) \/ Fetch(w) \/ FetchFails(w)
           \/ GraphRaises(w) \/ \E verdict \in Terminal : GraphEnds(w, verdict)
           \/ Extend(w) \/ Publish(w) \/ Acknowledge(w) \/ ProcessRaises(w)
  BY <1>2 DEF ClaimRefused, Peek, Fetch, FetchFails, GraphRaises, GraphEnds, Extend,
              Publish, Acknowledge, ProcessRaises
<1>3. CASE NodeFinished(w)
  <2>1. DocIn(w) \in Docs /\ Token(w) \in Issued(DocIn(w))
    BY <1>3, TokensWereIssued DEF NodeFinished
  <2>2. RecordStep(DocIn(w), Token(w)) \/ UNCHANGED storeVars
    BY <1>3 DEF NodeFinished
  <2>3. QED
    BY <2>1, <2>2 DEF StoreNext, StoreStep
<1>4. CASE LastFail(w) \/ LastFailRaises(w)
  <2>1. DocIn(w) \in Docs /\ Token(w) \in Issued(DocIn(w))
    BY <1>4, TokensWereIssued DEF LastFail, LastFailRaises
  <2>2. Finish(DocIn(w), Token(w), "FAILED") \/ UNCHANGED storeVars
    BY <1>4 DEF LastFail, LastFailRaises
  <2>3. "FAILED" \in Terminal /\ \A status \in Terminal :
            Finish(DocIn(w), Token(w), status) => StoreStep(DocIn(w))
    BY <2>1 DEF StoreStep, Terminal
  <2>4. QED
    BY <2>1, <2>2, <2>3 DEF StoreNext
<1>5. CASE Record(w)
  <2>1. /\ DocIn(w) \in Docs /\ Token(w) \in Issued(DocIn(w))
        /\ worker[w].verdict \in Terminal
    BY <1>5, TokensWereIssued DEF Record
  <2>2. \/ FinishUncommitted(DocIn(w), Token(w), worker[w].verdict)
        \/ UNCHANGED storeVars
    BY <1>5 DEF Record
  <2>3. FinishUncommitted(DocIn(w), Token(w), worker[w].verdict) => StoreStep(DocIn(w))
    BY <2>1 DEF StoreStep
  <2>4. QED
    BY <2>1, <2>2, <2>3 DEF StoreNext
<1>6. CASE PublishFails(w)
  BY <1>6, UndoIsAStoreStep DEF PublishFails
<1>7. CASE CommitResult(w) \/ CommitFails(w)
  <2>1. DocIn(w) \in Docs
    BY <1>7, TokensWereIssued DEF CommitResult, CommitFails
  <2>2. Undo(w) \/ Commit(DocIn(w))
    BY <1>7 DEF CommitResult, CommitFails
  <2>3. QED
    BY <2>1, <2>2, UndoIsAStoreStep DEF StoreNext, StoreStep
<1>8. QED
  BY <1>1, <1>2, <1>3, <1>4, <1>5, <1>6, <1>7 DEF Work

(* A beat, waiting or not, extends the lease or leaves the table alone. *)
BeatExtends(w) ==
    /\ beat[w].pc \in {"wait", "lock"}
    /\ \E noted \in {0, beat[w].token} :
           ExtendLease(BeatDoc(w), beat[w].token, noted, beat[w].asked)

LEMMA BeatsExtend ==
    ASSUME NEW w \in Workers, Beats(w)
    PROVE  /\ BeatExtends(w) \/ UNCHANGED storeVars
           /\ UNCHANGED <<worker, s3Vars>>
<1>1. CASE BeatLease(w)
  BY <1>1 DEF BeatLease, TryExtend, BeatExtends
<1>2. CASE BeatLocked(w)
  BY <1>2 DEF BeatLocked, TryExtend, BeatExtends
<1>3. CASE BeatVisibility(w)
  BY <1>3 DEF BeatVisibility
<1>4. QED
  BY <1>1, <1>2, <1>3 DEF Beats

LEMMA BeatsAreStoreSteps ==
    ASSUME PipelineInv, NEW w \in Workers, Beats(w)
    PROVE  [StoreNext]_storeVars
<1>1. CASE BeatExtends(w)
  <2>1. /\ BeatDoc(w) \in Docs /\ beat[w].token \in Issued(BeatDoc(w))
        /\ beat[w].asked \in Lease
    BY <1>1, TokensWereIssued DEF BeatExtends, PipelineInv, Beat
  <2>2. StoreStep(BeatDoc(w))
    BY <1>1, <2>1 DEF BeatExtends, StoreStep
  <2>3. QED
    BY <2>1, <2>2 DEF StoreNext
<1>2. QED
  BY <1>1, BeatsExtend

(* Every step of the pipeline is a step the table allows, or leaves it.    *)
LEMMA PipelineStepIsAStoreStep ==
    ASSUME PipelineInv, [Next]_vars
    PROVE  [StoreNext]_storeVars
<1>1. ASSUME NEW d \in Docs, Intake(d)
      PROVE  [StoreNext]_storeVars
  BY <1>1 DEF Intake, RequestSlot, PutObject, UploadComplete, StoreNext, StoreStep
<1>2. ASSUME NEW m \in Msgs, Notify(m)
      PROVE  [StoreNext]_storeVars
  BY <1>2 DEF Notify
<1>3. ASSUME NEW w \in Workers,
             Start(w) \/ Stop(w) \/ Sweeps(w) \/ Poll(w) \/ LoopEnds(w)
      PROVE  [StoreNext]_storeVars
  BY <1>3 DEF Start, Stop, Sweeps, ReapFirst, SkipReap, Poll, ReceiveNothing, Receive,
              Redrive, LoopEnds, StoreNext
<1>4. ASSUME NEW w \in Workers, Crash(w)
      PROVE  [StoreNext]_storeVars
  BY <1>4, UndoIsAStoreStep DEF Crash
<1>5. ASSUME NEW w \in Workers, ConnectionLost(w)
      PROVE  [StoreNext]_storeVars
  BY <1>5, UndoIsAStoreStep DEF ConnectionLost, Undo
<1>6. CASE Tick
  BY <1>6 DEF Tick, StoreNext
<1>7. CASE UNCHANGED vars
  BY <1>7 DEF vars
<1>8. QED
  BY <1>1, <1>2, <1>3, <1>4, <1>5, <1>6, <1>7, WorkIsAStoreStep, BeatsAreStoreSteps
  DEF Next

-----------------------------------------------------------------------------
(* The invariant is inductive. *)

(* Operations of the queue keep its type. *)
LEMMA QueueTypes ==
    ASSUME QueueTypeOK,
           \/ UNCHANGED msg
           \/ QueueTick
           \/ \E m \in Msgs : \/ Send(m) \/ Deliver(m) \/ MoveToDeadLetter(m) \/ Hide(m)
                             \/ \E receipt : Remove(m, receipt)
    PROVE  QueueTypeOK'
<1>1. CASE UNCHANGED msg
  BY <1>1 DEF QueueTypeOK
<1>2. CASE QueueTick
  BY <1>2, QueueAssumption DEF QueueTick, QueueTypeOK, Message
<1>3. ASSUME NEW m \in Msgs, Send(m) \/ Deliver(m) \/ MoveToDeadLetter(m) \/ Hide(m)
      PROVE  QueueTypeOK'
  <2>1. CASE Deliver(m)
    BY <2>1, QueueAssumption DEF Deliver, QueueTypeOK, Message
  <2>2. CASE Send(m) \/ MoveToDeadLetter(m) \/ Hide(m)
    BY <2>2, QueueAssumption DEF Send, MoveToDeadLetter, Hide, QueueTypeOK, Message
  <2>3. QED
    BY <1>3, <2>1, <2>2
<1>4. ASSUME NEW m \in Msgs, NEW receipt, Remove(m, receipt)
      PROVE  QueueTypeOK'
  <2> DEFINE gone == [msg[m] EXCEPT !.state = "deleted", !.hidden = 0]
  <2>0. msg[m] \in Message
    BY DEF QueueTypeOK
  <2>1. gone \in Message
    <3>1. 0 \in 0 .. VisibilitySeconds
      BY QueueAssumption
    <3>2. QED
      BY <2>0, <3>1 DEF Message
  <2>2. \/ UNCHANGED msg
        \/ msg' = [msg EXCEPT ![m] = gone]
        \/ msg' = [msg EXCEPT ![m] = msg[m]]
    BY <1>4 DEF Remove
  <2>3. QED
    BY <2>0, <2>1, <2>2 DEF QueueTypeOK
<1>5. QED
  BY <1>1, <1>2, <1>3, <1>4

(* Workers with no message and heartbeats that are off are well formed. *)
LEMMA IdleOK ==
    ASSUME NEW r
    PROVE  /\ WorkerOK(At("top"), r) /\ WorkerOK(At("down"), r)
           /\ BeatOK(NoBeat, r)
  BY QueueAssumption, StoreAssumption
  DEF WorkerOK, BeatOK, At, NoBeat, Worker, Beat, PC, Verdict, Busy, Owning, InTxn,
      Lease, Forgotten

LEMMA OKGrows ==
    ASSUME StoreInv, [StoreNext]_storeVars, NEW v, NEW b
    PROVE  /\ WorkerOK(v, row) => WorkerOK(v, row')
           /\ BeatOK(b, row) => BeatOK(b, row')
<1>1. \A d \in Docs : /\ row[d].attempt \in Nat /\ row'[d].attempt \in Nat
                      /\ row'[d].attempt >= row[d].attempt
  BY AttemptsGrow
<1>2. QED
  BY <1>1 DEF WorkerOK, BeatOK, Worker, Beat

(* A step of the worker's control: its token is kept or dropped, and its   *)
(* heartbeat left alone or stopped.                                        *)
LEMMA ControlStep ==
    ASSUME PipelineInv, [StoreNext]_storeVars, QueueTypeOK', S3TypeOK',
           NEW w \in Workers, NEW v,
           worker' = [worker EXCEPT ![w] = v],
           WorkerOK(v, row),
           v.token = 0 \/ (v.token = Token(w) /\ v.msg = worker[w].msg),
           \/ UNCHANGED beat
           \/ StopBeat(w)
           \/ beat' = [beat EXCEPT ![w] = NoBeat]
    PROVE  PipelineInv'
<1>1. WorkerOK(v, row')
  BY OKGrows DEF PipelineInv
<1>2. BeatOK(beat[w], row') /\ BeatOK(NoBeat, row')
  BY OKGrows, IdleOK DEF PipelineInv
<1>3. BeatOK([beat[w] EXCEPT !.stop = TRUE], row')
  BY <1>2 DEF BeatOK, Beat
<1>4. PICK b : beat' = [beat EXCEPT ![w] = b] /\ BeatOK(b, row')
  <2>1. beat = [beat EXCEPT ![w] = beat[w]]
    BY DEF PipelineInv
  <2>2. [beat EXCEPT ![w].stop = TRUE] = [beat EXCEPT ![w] = [beat[w] EXCEPT !.stop = TRUE]]
    OBVIOUS
  <2>3. QED
    BY <1>2, <1>3, <2>1, <2>2 DEF StopBeat
<1>5. QED
  BY <1>1, <1>4, WorkerStep

(* A worker that goes elsewhere in the code keeps what it has in hand. *)
LEMMA GotoOK ==
    ASSUME PipelineInv, NEW w \in Workers, NEW pc \in PC,
           \/ worker[w].pc \in {"down", "top"} /\ pc \in {"top", "recv"}
           \/ worker[w].pc = "claim" /\ pc = "peek"
           \/ worker[w].pc = "peek" /\ pc = "ack"
           \/ worker[w].pc \in {"fetch", "graph"} /\ pc \in {"graph", "lastfail"}
           \/ worker[w].pc \in Owning /\ pc = "ack"
           \/ worker[w].pc \in {"record"} \cup InTxn /\ pc \in InTxn
    PROVE  LET v == [worker[w] EXCEPT !.pc = pc]
           IN  WorkerOK(v, row) /\ v.token = Token(w) /\ v.msg = worker[w].msg
<1>1. WorkerOK(worker[w], row)
  BY DEF PipelineInv
<1>2. QED
  BY <1>1 DEF WorkerOK, Worker, Token, Busy, Owning, InTxn

LEMMA WorkInv ==
    ASSUME PipelineInv, NEW w \in Workers, Work(w)
    PROVE  PipelineInv'
<1> USE DEF Busy, Owning, InTxn
<1>0. /\ [StoreNext]_storeVars
      /\ QueueTypeOK /\ S3TypeOK /\ worker \in [Workers -> Worker]
      /\ WorkerOK(worker[w], row)
      /\ WorkerOK(At("top"), row) /\ At("top").token = 0
      /\ DocIn(w) \in Docs => row[DocIn(w)].attempt \in Nat
  BY WorkIsAStoreStep, IdleOK
  DEF PipelineInv, At, StoreInv, StoreTypeOK, Row
<1>1. QueueTypeOK'
  BY <1>0, QueueTypes
  DEF Work, ClaimDocument, ClaimRefused, Peek, Fetch, FetchFails, NodeFinished,
      GraphRaises, GraphEnds, LastFail, LastFailRaises, Record, Extend, Publish,
      PublishFails, CommitResult, CommitFails, Acknowledge, ProcessRaises, WorkerOK
<1>2. S3TypeOK'
  <2>1. CASE Publish(w) \/ PublishFails(w)
    <3>1. Token(w) \in Nat /\ DocIn(w) \in Docs
      BY <1>0, <2>1, TokensWereIssued DEF Publish, PublishFails, WorkerOK, Worker, Token
    <3>2. QED
      BY <1>0, <2>1, <3>1 DEF Publish, PublishFails, S3TypeOK
  <2>2. CASE ~(Publish(w) \/ PublishFails(w))
    BY <1>0, <2>2
    DEF Work, ClaimDocument, ClaimRefused, Peek, Fetch, FetchFails, NodeFinished,
        GraphRaises, GraphEnds, LastFail, LastFailRaises, Record, Extend,
        CommitResult, CommitFails, Acknowledge, ProcessRaises, s3Vars, S3TypeOK
  <2>3. QED
    BY <2>1, <2>2
(* Steps that end with the message left or deleted. *)
<1>3. CASE Leave(w) /\ (UNCHANGED beat \/ StopBeat(w))
  <2>1. PICK v : /\ worker' = [worker EXCEPT ![w] = v]
                 /\ WorkerOK(v, row) /\ v.token = 0
    BY <1>0, <1>3 DEF Leave
  <2>2. UNCHANGED beat \/ StopBeat(w)
    BY <1>3
  <2>3. QED
    BY <1>0, <1>1, <1>2, <2>1, <2>2, ControlStep
(* Steps that go on. *)
<1>4. ASSUME NEW pc \in PC, Goto(w, pc), UNCHANGED beat \/ StopBeat(w),
             LET v == [worker[w] EXCEPT !.pc = pc]
             IN  WorkerOK(v, row) /\ v.token = Token(w) /\ v.msg = worker[w].msg
      PROVE  PipelineInv'
  <2>1. worker' = [worker EXCEPT ![w] = [worker[w] EXCEPT !.pc = pc]]
    BY <1>4 DEF Goto
  <2>2. QED
    BY <1>0, <1>1, <1>2, <1>4, <2>1, ControlStep
<1>5. ASSUME NEW pc \in PC, Goto(w, pc), UNCHANGED beat \/ StopBeat(w),
             \/ worker[w].pc = "claim" /\ pc = "peek"
             \/ worker[w].pc = "peek" /\ pc = "ack"
             \/ worker[w].pc \in {"fetch", "graph"} /\ pc \in {"graph", "lastfail"}
             \/ worker[w].pc \in Owning /\ pc = "ack"
             \/ worker[w].pc \in {"record"} \cup InTxn /\ pc \in InTxn
      PROVE  PipelineInv'
  BY <1>4, <1>5, GotoOK
<1>6. CASE ClaimDocument(w)
  <2> DEFINE v == [worker[w] EXCEPT !.pc = "fetch", !.token = row'[DocIn(w)].attempt]
  <2>1. DocIn(w) \in Docs /\ row[DocIn(w)].attempt \in Nat
        /\ row'[DocIn(w)].attempt = row[DocIn(w)].attempt + 1
    BY <1>0, <1>6, TokensWereIssued
    DEF ClaimDocument, Claim, PipelineInv, StoreInv, StoreTypeOK, Row
  <2>2. worker' = [worker EXCEPT ![w] = v]
    BY <1>6 DEF ClaimDocument
  <2>3. WorkerOK(v, row') /\ v.token > row[DocOf[v.msg]].attempt
    BY <1>0, <1>6, <2>1 DEF ClaimDocument, WorkerOK, Worker, PC, DocIn
  <2>4. BeatOK(beat[w], row') /\ beat' = [beat EXCEPT ![w] = beat[w]]
    BY <1>0, <1>6, StillOK DEF ClaimDocument, PipelineInv
  <2> HIDE DEF v
  <2>5. QED
    BY <1>0, <1>1, <1>2, <2>2, <2>3, <2>4, WorkerStep
<1>7. CASE Fetch(w)
  <2> DEFINE v == [worker[w] EXCEPT !.pc = "graph"]
             b == [NoBeat EXCEPT !.pc = "wait", !.msg = worker[w].msg, !.token = Token(w)]
  <2>1. worker' = [worker EXCEPT ![w] = v]
    BY <1>7 DEF Fetch, Goto
  <2>2. WorkerOK(v, row) /\ v.token = Token(w) /\ v.msg = worker[w].msg
    BY <1>7, GotoOK DEF Fetch, PC
  <2>3. WorkerOK(v, row')
    BY <1>0, <2>2, OKGrows DEF PipelineInv
  <2>4. BeatOK(b, row) /\ BeatOK(beat[w], row')
    <3>1. LeaseSeconds \in Lease
      BY StoreAssumption DEF Lease, Forgotten
    <3>2. QED
      BY <1>0, <1>7, <3>1, StillOK
      DEF Fetch, WorkerOK, BeatOK, Beat, Worker, NoBeat, Token, PipelineInv
  <2>5. BeatOK(b, row')
    BY <1>0, <2>4, OKGrows DEF PipelineInv
  <2>6. beat' = [beat EXCEPT ![w] = b] \/ beat' = [beat EXCEPT ![w] = beat[w]]
    BY <1>7 DEF Fetch, PipelineInv
  <2> HIDE DEF v, b
  <2>7. QED
    BY <1>0, <1>1, <1>2, <2>1, <2>2, <2>3, <2>4, <2>5, <2>6, WorkerStep
<1>8. ASSUME NEW verdict \in Terminal, GraphEnds(w, verdict)
      PROVE  PipelineInv'
  <2> DEFINE v == [worker[w] EXCEPT !.pc = "record", !.verdict = verdict]
  <2>1. worker' = [worker EXCEPT ![w] = v]
    BY <1>8 DEF GraphEnds
  <2>2. WorkerOK(v, row) /\ v.token = Token(w) /\ v.msg = worker[w].msg
    BY <1>0, <1>8 DEF GraphEnds, WorkerOK, Worker, PC, Verdict, Token
  <2> HIDE DEF v
  <2>3. QED
    BY <1>0, <1>1, <1>2, <1>8, <2>1, <2>2, ControlStep DEF GraphEnds
<1>9. CASE NodeFinished(w)
  <2>1. CASE UNCHANGED workerVars
    <3>1. worker' = [worker EXCEPT ![w] = worker[w]] /\ UNCHANGED beat
      BY <1>0, <2>1 DEF workerVars
    <3>2. QED
      BY <1>0, <1>1, <1>2, <3>1, ControlStep DEF Token
  <2>2. QED
    BY <1>3, <1>9, <2>1 DEF NodeFinished
<1>10. CASE ClaimRefused(w)
  BY <1>5, <1>10 DEF ClaimRefused, PC
<1>11. CASE Peek(w)
  BY <1>3, <1>5, <1>11 DEF Peek, PC
<1>12. CASE FetchFails(w)
  BY <1>3, <1>5, <1>12 DEF FetchFails, PC
<1>13. CASE GraphRaises(w)
  BY <1>3, <1>5, <1>13 DEF GraphRaises, PC
<1>14. CASE LastFail(w)
  BY <1>5, <1>14 DEF LastFail, PC
<1>15. CASE LastFailRaises(w)
  BY <1>3, <1>15 DEF LastFailRaises
<1>16. CASE Record(w)
  BY <1>3, <1>5, <1>16 DEF Record, PC
<1>17. CASE Extend(w)
  BY <1>5, <1>17 DEF Extend, PC
<1>18. CASE Publish(w)
  BY <1>5, <1>18 DEF Publish, PC
<1>19. CASE PublishFails(w)
  BY <1>3, <1>19 DEF PublishFails
<1>20. CASE CommitResult(w)
  BY <1>5, <1>20 DEF CommitResult, PC
<1>21. CASE CommitFails(w) \/ Acknowledge(w) \/ ProcessRaises(w)
  BY <1>3, <1>21 DEF CommitFails, Acknowledge, ProcessRaises
<1>22. QED
  BY <1>6, <1>7, <1>8, <1>9, <1>10, <1>11, <1>12, <1>13, <1>14, <1>15, <1>16, <1>17,
     <1>18, <1>19, <1>20, <1>21 DEF Work

(* Polling, stopping, dying: the worker's hands are empty afterwards, or   *)
(* hold a message it has not claimed yet.                                  *)
LEMMA PollInv ==
    ASSUME PipelineInv, NEW w \in Workers,
           \/ Start(w) \/ Stop(w) \/ Sweeps(w) \/ Poll(w) \/ LoopEnds(w) \/ Crash(w)
    PROVE  PipelineInv'
<1>0. /\ [StoreNext]_storeVars
      /\ QueueTypeOK /\ S3TypeOK /\ WorkerOK(worker[w], row)
      /\ worker \in [Workers -> Worker] /\ beat \in [Workers -> Beat]
      /\ WorkerOK(At("top"), row) /\ WorkerOK(At("down"), row)
      /\ At("top").token = 0 /\ At("down").token = 0
  BY PipelineStepIsAStoreStep, IdleOK DEF PipelineInv, At, Next
<1>1. QueueTypeOK' /\ S3TypeOK'
  BY <1>0, QueueTypes
  DEF Start, Stop, Sweeps, ReapFirst, SkipReap, Poll, ReceiveNothing, Receive, Redrive,
      LoopEnds, Crash, s3Vars, S3TypeOK
<1>2. CASE Start(w) \/ Sweeps(w)
  <2>1. PICK pc \in {"top", "recv"} : Goto(w, pc) /\ UNCHANGED beat
    BY <1>2 DEF Start, Sweeps, ReapFirst, SkipReap
  <2> DEFINE v == [worker[w] EXCEPT !.pc = pc]
  <2>2. worker' = [worker EXCEPT ![w] = v]
    BY <2>1 DEF Goto
  <2>3. WorkerOK(v, row) /\ v.token = Token(w) /\ v.msg = worker[w].msg
    BY <1>2, <2>1, GotoOK DEF Start, Sweeps, ReapFirst, SkipReap, PC
  <2> HIDE DEF v
  <2>4. QED
    BY <1>0, <1>1, <2>1, <2>2, <2>3, ControlStep
<1>3. CASE ReceiveNothing(w)
  BY <1>0, <1>1, <1>3, ControlStep DEF ReceiveNothing, Leave
<1>4. CASE Stop(w) \/ LoopEnds(w) \/ Crash(w)
  BY <1>0, <1>1, <1>4, ControlStep DEF Stop, LoopEnds, Crash, Die
<1>5. ASSUME NEW m \in Msgs, Redrive(w, m)
      PROVE  PipelineInv'
  <2>1. worker' = [worker EXCEPT ![w] = worker[w]] /\ UNCHANGED beat
    BY <1>0, <1>5 DEF Redrive, workerVars
  <2>2. QED
    BY <1>0, <1>1, <2>1, ControlStep DEF Token
<1>6. ASSUME NEW m \in Msgs, Receive(w, m)
      PROVE  PipelineInv'
  <2> DEFINE v == [At(IF DocOf[m] \in Docs THEN "claim" ELSE "ack")
                     EXCEPT !.msg = m, !.receipt = msg'[m].count]
  <2>1. worker' = [worker EXCEPT ![w] = v] /\ UNCHANGED beat
    BY <1>6 DEF Receive
  <2>2. msg'[m].count \in 0 .. MaxReceiveCount
    BY <1>1 DEF QueueTypeOK, Message
  <2>3. WorkerOK(v, row) /\ v.token = 0
    BY <2>2 DEF WorkerOK, Worker, At, PC, Verdict, Busy, Owning, InTxn
  <2> HIDE DEF v
  <2>4. QED
    BY <1>0, <1>1, <2>1, <2>3, ControlStep
<1>7. QED
  BY <1>2, <1>3, <1>4, <1>5, <1>6 DEF Poll

(* The heartbeat thread moves no worker. *)
LEMMA BeatsInv ==
    ASSUME PipelineInv, NEW w \in Workers, Beats(w)
    PROVE  PipelineInv'
<1>0. /\ [StoreNext]_storeVars
      /\ QueueTypeOK /\ S3TypeOK
      /\ BeatOK(beat[w], row) /\ BeatOK(NoBeat, row)
      /\ worker \in [Workers -> Worker] /\ beat \in [Workers -> Beat]
  BY BeatsAreStoreSteps, IdleOK DEF PipelineInv
<1>1. QueueTypeOK' /\ S3TypeOK'
  BY <1>0, QueueTypes, BeatsExtend
  DEF Beats, BeatLease, BeatLocked, BeatVisibility, BeatOK, s3Vars, S3TypeOK
<1>2. worker' = [worker EXCEPT ![w] = worker[w]]
  BY <1>0, BeatsExtend
<1>3. PICK b : beat' = [beat EXCEPT ![w] = b] /\ BeatOK(b, row)
  <2>0. LeaseSeconds \in Lease
    BY StoreAssumption DEF Lease, Forgotten
  <2>1. ASSUME beat[w].pc \in {"wait", "lock"}, TryExtend(w)
        PROVE  \E b : beat' = [beat EXCEPT ![w] = b] /\ BeatOK(b, row)
    <3>1. PICK held \in BOOLEAN :
              beat' = [beat EXCEPT ![w] = [beat[w] EXCEPT !.pc = "vis",
                                             !.asked = LeaseSeconds, !.held = held]]
      BY <2>1 DEF TryExtend
    <3>2. BeatOK([beat[w] EXCEPT !.pc = "vis", !.asked = LeaseSeconds, !.held = held], row)
      BY <1>0, <2>0, <2>1 DEF BeatOK, Beat
    <3>3. QED
      BY <3>1, <3>2
  <2>2. ASSUME NEW pc \in {"wait", "lost"}, BeatEnds(w, pc),
               beat[w].pc \in {"lock", "vis"}
        PROVE  \E b : beat' = [beat EXCEPT ![w] = b] /\ BeatOK(b, row)
    <3>1. \/ beat' = [beat EXCEPT ![w] = NoBeat]
          \/ beat' = [beat EXCEPT ![w] = [beat[w] EXCEPT !.pc = pc,
                                            !.asked = LeaseSeconds, !.held = FALSE]]
      BY <2>2 DEF BeatEnds
    <3>2. BeatOK([beat[w] EXCEPT !.pc = pc, !.asked = LeaseSeconds, !.held = FALSE], row)
      BY <1>0, <2>0, <2>2 DEF BeatOK, Beat
    <3>3. QED
      BY <1>0, <3>1, <3>2
  <2>3. CASE BeatLease(w)
    <3>1. \/ TryExtend(w)
          \/ beat' = [beat EXCEPT ![w] = [beat[w] EXCEPT !.pc = "lock"]]
          \/ beat' = [beat EXCEPT ![w] = NoBeat]
      BY <2>3 DEF BeatLease
    <3>2. BeatOK([beat[w] EXCEPT !.pc = "lock"], row)
      BY <1>0, <2>3 DEF BeatLease, BeatOK, Beat
    <3>3. QED
      BY <1>0, <2>1, <2>3, <3>1, <3>2 DEF BeatLease
  <2>4. CASE BeatLocked(w)
    BY <2>1, <2>2, <2>4 DEF BeatLocked
  <2>5. CASE BeatVisibility(w)
    BY <2>2, <2>5 DEF BeatVisibility
  <2>6. QED
    BY <2>3, <2>4, <2>5 DEF Beats
<1>4. WorkerOK(worker[w], row') /\ BeatOK(b, row')
  BY <1>0, <1>3, StillOK, OKGrows DEF PipelineInv
<1>5. QED
  BY <1>0, <1>1, <1>2, <1>3, <1>4, WorkerStep DEF Token

(* Steps of the client, S3, the database and the clocks: no worker and no  *)
(* heartbeat moves.                                                        *)
LEMMA EnvironmentInv ==
    ASSUME PipelineInv, [StoreNext]_storeVars, QueueTypeOK', S3TypeOK',
           UNCHANGED workerVars
    PROVE  PipelineInv'
<1>1. StoreInv'
  BY StoreNextInv DEF PipelineInv
<1>2. UNCHANGED <<worker, beat>>
  BY DEF workerVars
<1>3. \A w \in Workers : WorkerOK(worker'[w], row') /\ BeatOK(beat'[w], row')
  BY <1>2, StillOK
<1>4. NoSharedToken'
  BY <1>2 DEF PipelineInv, NoSharedToken, Token, DocIn
<1>5. QED
  BY <1>1, <1>2, <1>3, <1>4 DEF PipelineInv

(* Time ages the lease that a waiting beat has asked for. *)
LEMMA TickInv ==
    ASSUME PipelineInv, Tick
    PROVE  PipelineInv'
<1>1. StoreInv' /\ [StoreNext]_storeVars
  BY StoreNextInv DEF PipelineInv, Tick, StoreNext
<1>2. QueueTypeOK' /\ S3TypeOK' /\ UNCHANGED worker
  BY QueueTypes DEF PipelineInv, Tick, s3Vars, S3TypeOK
<1>3. ASSUME NEW w \in Workers
      PROVE  BeatOK(beat'[w], row')
  <2>1. BeatOK(beat[w], row') /\ beat'[w] = AskedAges(beat[w])
    BY <1>1, StillOK DEF Tick
  <2>2. ASSUME beat[w].asked > Forgotten
        PROVE  beat[w].asked - 1 \in Lease
    BY <2>1, <2>2, StoreAssumption DEF BeatOK, Beat, Lease, Forgotten
  <2>3. QED
    BY <2>1, <2>2 DEF AskedAges, BeatOK, Beat
<1>4. \A w \in Workers : WorkerOK(worker'[w], row') /\ BeatOK(beat'[w], row')
  BY <1>1, <1>2, <1>3, StillOK
<1>5. beat' \in [Workers -> Beat]
  BY <1>3 DEF Tick, BeatOK
<1>6. NoSharedToken'
  BY <1>2 DEF PipelineInv, NoSharedToken, Token, DocIn
<1>7. QED
  BY <1>1, <1>2, <1>4, <1>5, <1>6 DEF PipelineInv

LEMMA PipelineNextInv ==
    ASSUME PipelineInv, [Next]_vars
    PROVE  PipelineInv'
<1>0. [StoreNext]_storeVars /\ QueueTypeOK /\ S3TypeOK
  BY PipelineStepIsAStoreStep DEF PipelineInv
<1>1. ASSUME NEW d \in Docs, Intake(d)
      PROVE  PipelineInv'
  <2>1. QueueTypeOK' /\ S3TypeOK' /\ UNCHANGED workerVars
    BY <1>0, <1>1, QueueTypes
    DEF Intake, RequestSlot, PutObject, UploadComplete, s3Vars, S3TypeOK
  <2>2. QED
    BY <1>0, <2>1, EnvironmentInv
<1>2. ASSUME NEW m \in Msgs, Notify(m)
      PROVE  PipelineInv'
  <2>1. QueueTypeOK' /\ S3TypeOK' /\ UNCHANGED workerVars
    BY <1>0, <1>2, QueueTypes DEF Notify, s3Vars, S3TypeOK
  <2>2. QED
    BY <1>0, <2>1, EnvironmentInv
<1>3. ASSUME NEW w \in Workers, ConnectionLost(w)
      PROVE  PipelineInv'
  <2>1. QueueTypeOK' /\ S3TypeOK' /\ UNCHANGED workerVars
    BY <1>0, <1>3, QueueTypes DEF ConnectionLost, s3Vars, S3TypeOK
  <2>2. QED
    BY <1>0, <2>1, EnvironmentInv
<1>4. CASE UNCHANGED vars
  <2>1. QueueTypeOK' /\ S3TypeOK' /\ UNCHANGED workerVars
    BY <1>0, <1>4, QueueTypes DEF vars, s3Vars, S3TypeOK
  <2>2. QED
    BY <1>0, <2>1, EnvironmentInv
<1>5. QED
  BY <1>1, <1>2, <1>3, <1>4, TickInv, PollInv, WorkInv, BeatsInv DEF Next

LEMMA PipelineInitInv == Init => PipelineInv
<1> SUFFICES ASSUME Init
             PROVE  PipelineInv
  OBVIOUS
<1>1. StoreInv
  BY StoreInitInv DEF Init
<1>2. QueueTypeOK /\ S3TypeOK
  BY QueueAssumption DEF Init, QueueInit, QueueTypeOK, Message, S3TypeOK
<1>3. \A w \in Workers : WorkerOK(worker[w], row) /\ BeatOK(beat[w], row)
  BY IdleOK DEF Init
<1>4. worker \in [Workers -> Worker] /\ beat \in [Workers -> Beat]
  BY <1>3 DEF Init, WorkerOK, BeatOK
<1>5. NoSharedToken
  BY DEF Init, NoSharedToken, Token, At
<1>6. QED
  BY <1>1, <1>2, <1>3, <1>4, <1>5 DEF PipelineInv

(* The invariant holds of every behaviour of the pipeline. *)
THEOREM PipelineInvariant == Spec => []PipelineInv
<1>1. Init => PipelineInv
  BY PipelineInitInv
<1>2. PipelineInv /\ [Next]_vars => PipelineInv'
  BY PipelineNextInv
<1>3. QED
  BY <1>1, <1>2, PTL DEF Spec

(* Every variable keeps its type. *)
THEOREM TypeCorrect == Spec => []TypeOK
<1>1. PipelineInv => TypeOK
  BY DEF PipelineInv, TypeOK, StoreInv, S3TypeOK
<1>2. QED
  BY <1>1, PipelineInvariant, PTL

(* No two workers hold the same token for a document (claim.py 63), for    *)
(* any number of workers, redeliveries, duplicates and crashes.            *)
THEOREM TokensAreNotShared == Spec => []NoSharedToken
<1>1. PipelineInv => NoSharedToken
  BY DEF PipelineInv
<1>2. QED
  BY <1>1, PipelineInvariant, PTL

(* The workers use the table as it lets its clients: what is proved of the *)
(* table, the fence and the life cycle among it, holds of the pipeline.    *)
THEOREM PipelineImplementsStore == Spec => ImplementsStore
<1>1. Init => StoreInit
  BY DEF Init
<1>2. PipelineInv /\ [Next]_vars => [StoreNext]_storeVars
  BY PipelineStepIsAStoreStep
<1>3. QED
  BY <1>1, <1>2, PipelineInvariant, PTL DEF Spec, ImplementsStore, StoreSpec

(* A lease that lapsed comes back with a new attempt, or with a beat of its *)
(* own that asked in time (HEARTBEAT_SQL), however long the beats wait for *)
(* a finishing write.                                                      *)
THEOREM LeasesAreNotRevived == Spec => LeaseNotRevived
<1>1. ImplementsStore => StoreSpec
  BY DEF ImplementsStore
<1>2. QED
  BY <1>1, PipelineImplementsStore, LapsedLeasesStayLapsed, PTL

-----------------------------------------------------------------------------
(* A COMPLETED document has a report, whatever the database drops.         *)

(* Only a worker about to publish stores a report, under its own token. *)
LEMMA ReportsAreTheirWorkers ==
    ASSUME PipelineInv, [Next]_vars, NEW d \in Docs
    PROVE  \/ report'[d] = report[d]
           \/ \E w \in Workers :
                 worker[w].pc = "publish" /\ DocIn(w) = d /\ report'[d] = Token(w)
<1>0. report \in [Docs -> Nat]
  BY DEF PipelineInv, S3TypeOK
<1>1. ASSUME NEW w \in Workers, Publish(w) \/ PublishFails(w)
      PROVE  \/ report'[d] = report[d]
             \/ worker[w].pc = "publish" /\ DocIn(w) = d /\ report'[d] = Token(w)
  BY <1>0, <1>1 DEF Publish, PublishFails
<1>2. CASE ~\E w \in Workers : Publish(w) \/ PublishFails(w)
  <2>1. ASSUME NEW w \in Workers, Work(w) PROVE UNCHANGED report
    BY <1>2, <2>1
    DEF Work, ClaimDocument, ClaimRefused, Peek, Fetch, FetchFails, NodeFinished,
        GraphRaises, GraphEnds, LastFail, LastFailRaises, Acknowledge, ProcessRaises,
        Record, Extend, CommitResult, CommitFails, s3Vars
  <2>2. ASSUME NEW w \in Workers,
               Start(w) \/ Stop(w) \/ Sweeps(w) \/ Poll(w) \/ LoopEnds(w)
        PROVE  UNCHANGED report
    BY <2>2 DEF Start, Stop, Sweeps, ReapFirst, SkipReap, Poll, ReceiveNothing, Receive,
                Redrive, LoopEnds, s3Vars
  <2>3. ASSUME NEW w \in Workers, Crash(w) \/ ConnectionLost(w) \/ Beats(w)
        PROVE  UNCHANGED report
    BY <2>3, BeatsExtend DEF Crash, ConnectionLost, s3Vars
  <2>4. ASSUME (\E e \in Docs : Intake(e)) \/ (\E m \in Msgs : Notify(m)) \/ Tick
        PROVE  UNCHANGED report
    BY <2>4 DEF Intake, RequestSlot, PutObject, UploadComplete, Notify, Tick, s3Vars
  <2>5. QED
    BY <2>1, <2>2, <2>3, <2>4 DEF Next, vars, s3Vars
<1>3. QED
  BY <1>1, <1>2

(* The step makes no document COMPLETED. *)
NoNewResult ==
    \A d \in Docs : row'[d].status = "COMPLETED" =>
        row[d].status = "COMPLETED" /\ row'[d].attempt = row[d].attempt

(* Only a commit, or a finishing write that says so, completes a document. *)
LEMMA QuietStatements ==
    ASSUME StoreInv, NEW d, NEW token, NEW noted, NEW asked, NEW status,
           \/ Insert(d) \/ MarkQueued(d) \/ Claim(d)
           \/ ExtendLease(d, token, noted, asked) \/ RecordStep(d, token)
           \/ Finish(d, token, "FAILED") \/ FinishUncommitted(d, token, status)
           \/ Rollback(d) \/ Reap \/ StoreTick \/ UNCHANGED storeVars
    PROVE  NoNewResult
<1>0. row \in [Docs -> Row]
  BY DEF StoreInv, StoreTypeOK
<1>1. CASE Insert(d) \/ MarkQueued(d) \/ Claim(d) \/ RecordStep(d, token)
  BY <1>0, <1>1 DEF Insert, MarkQueued, Claim, RecordStep, NoNewResult, Row
<1>2. CASE ExtendLease(d, token, noted, asked)
  BY <1>0, <1>2 DEF ExtendLease, NoNewResult, Row
<1>3. CASE Finish(d, token, "FAILED")
  BY <1>0, <1>3 DEF Finish, Settled, NoNewResult, Row
<1>4. CASE FinishUncommitted(d, token, status) \/ Rollback(d) \/ UNCHANGED storeVars
  BY <1>4 DEF FinishUncommitted, Rollback, storeVars, NoNewResult
<1>5. CASE Reap
  BY <1>0, <1>5 DEF Reap, Reaped, NoNewResult, Row
<1>6. CASE StoreTick
  <2>1. ASSUME NEW e \in Docs
        PROVE  Aged(row[e]).status = row[e].status /\ Aged(row[e]).attempt = row[e].attempt
    BY <1>0 DEF Aged, Row
  <2>2. QED
    BY <1>6, <2>1 DEF StoreTick, NoNewResult
<1>7. QED
  BY <1>1, <1>2, <1>3, <1>4, <1>5, <1>6

(* Rolling back, or not: nothing completes. *)
LEMMA UndoIsQuiet ==
    ASSUME PipelineInv, NEW w \in Workers, Undo(w)
    PROVE  /\ NoNewResult /\ UNCHANGED row
           /\ \A d \in Docs : d # DocIn(w) => open'[d] = open[d]
           /\ ~HoldsTxn(w) => UNCHANGED open
  BY DEF Undo, Rollback, storeVars, NoNewResult, PipelineInv, StoreInv, StoreTypeOK

(* Only the worker that commits completes a document. *)
LEMMA CompletionsAreCommits ==
    ASSUME PipelineInv, [Next]_vars, NEW d \in Docs, row'[d].status = "COMPLETED"
    PROVE  \/ row[d].status = "COMPLETED"
           \/ \E w \in Workers : worker[w].pc = "commit" /\ DocIn(w) = d
<1>0. StoreInv /\ row \in [Docs -> Row]
  BY DEF PipelineInv, StoreInv, StoreTypeOK
<1>1. ASSUME NEW w \in Workers, CommitResult(w) \/ CommitFails(w), ~Undo(w)
      PROVE  row[d].status = "COMPLETED" \/ (worker[w].pc = "commit" /\ DocIn(w) = d)
  BY <1>0, <1>1 DEF CommitResult, CommitFails, Commit
<1>2. ASSUME NEW w \in Workers, Undo(w)
      PROVE  row[d].status = "COMPLETED"
  BY <1>2, UndoIsQuiet DEF NoNewResult
<1>3. ASSUME NEW w \in Workers, Work(w), ~(CommitResult(w) \/ CommitFails(w)), ~Undo(w)
      PROVE  row[d].status = "COMPLETED"
  <2>1. \/ Claim(DocIn(w)) \/ RecordStep(DocIn(w), Token(w))
        \/ Finish(DocIn(w), Token(w), "FAILED")
        \/ FinishUncommitted(DocIn(w), Token(w), worker[w].verdict)
        \/ UNCHANGED storeVars
    BY <1>3
    DEF Work, ClaimDocument, ClaimRefused, Peek, Fetch, FetchFails, NodeFinished,
        GraphRaises, GraphEnds, LastFail, LastFailRaises, Acknowledge, ProcessRaises,
        Record, Extend, Publish, PublishFails
  <2>2. QED
    BY <1>0, <2>1, QuietStatements DEF NoNewResult
<1>4. ASSUME NEW w \in Workers, Beats(w)
      PROVE  row[d].status = "COMPLETED"
  <2>1. \/ \E noted, asked : ExtendLease(BeatDoc(w), beat[w].token, noted, asked)
        \/ UNCHANGED storeVars
    BY <1>4, BeatsExtend DEF BeatExtends
  <2>2. QED
    BY <1>0, <2>1, QuietStatements DEF NoNewResult
<1>5. ASSUME NEW w \in Workers,
             \/ Start(w) \/ Stop(w) \/ Sweeps(w) \/ Poll(w) \/ LoopEnds(w)
             \/ Crash(w) \/ ConnectionLost(w)
      PROVE  row[d].status = "COMPLETED"
  <2>1. Reap \/ Undo(w) \/ UNCHANGED storeVars
    BY <1>5 DEF Start, Stop, Sweeps, ReapFirst, SkipReap, Poll, ReceiveNothing, Receive,
                Redrive, LoopEnds, Crash, ConnectionLost, Undo
  <2>2. QED
    BY <1>0, <1>2, <2>1, QuietStatements DEF NoNewResult
<1>6. CASE \/ \E e \in Docs : Intake(e)
           \/ \E m \in Msgs : Notify(m)
           \/ Tick \/ UNCHANGED vars
  <2>1. \/ \E e \in Docs : Insert(e) \/ MarkQueued(e)
        \/ StoreTick \/ UNCHANGED storeVars
    BY <1>6 DEF Intake, RequestSlot, PutObject, UploadComplete, Notify, Tick, vars
  <2>2. QED
    BY <1>0, <2>1, QuietStatements DEF NoNewResult
<1>7. QED
  BY <1>1, <1>2, <1>3, <1>4, <1>5, <1>6 DEF Next

(* A worker comes to its commit only by publishing. *)
LEMMA CommitsComeByPublish ==
    ASSUME PipelineInv, [Next]_vars, NEW w \in Workers, worker'[w].pc = "commit"
    PROVE  /\ worker'[w].msg = worker[w].msg
           /\ worker[w].pc = "commit" \/ Publish(w)
<1>0. worker \in [Workers -> Worker]
  BY DEF PipelineInv
<1>1. ASSUME NEW x \in Workers, Work(x), ~Publish(x)
      PROVE  worker'[w] = worker[w]
  BY <1>0, <1>1
  DEF Work, ClaimDocument, ClaimRefused, Peek, Fetch, FetchFails, NodeFinished,
      GraphRaises, GraphEnds, LastFail, LastFailRaises, Acknowledge, ProcessRaises,
      Record, Extend, PublishFails, CommitResult, CommitFails, Goto, Leave, At,
      workerVars, Worker
<1>2. ASSUME NEW x \in Workers, Publish(x)
      PROVE  worker'[w] = worker[w] \/ (x = w /\ worker'[w].msg = worker[w].msg)
  BY <1>0, <1>2 DEF Publish, Goto, Worker
<1>3. ASSUME NEW x \in Workers,
             \/ Start(x) \/ Stop(x) \/ Sweeps(x) \/ Poll(x) \/ LoopEnds(x)
             \/ Crash(x) \/ ConnectionLost(x)
      PROVE  worker'[w] = worker[w]
  <2>1. ASSUME NEW m \in Msgs, Receive(x, m)
        PROVE  worker'[w] = worker[w]
    <3>1. w # x => worker'[w] = worker[w]
      BY <1>0, <2>1 DEF Receive
    <3>2. worker'[x].pc \in {"claim", "ack"}
      BY <1>0, <2>1 DEF Receive, At
    <3>3. QED
      BY <3>1, <3>2
  <2>2. CASE \/ Goto(x, "top") \/ Goto(x, "recv") \/ Leave(x) \/ Die(x)
             \/ UNCHANGED worker
    BY <1>0, <2>2 DEF Goto, Leave, Die, At, Worker
  <2>3. QED
    BY <1>3, <2>1, <2>2
    DEF Start, Stop, Sweeps, ReapFirst, SkipReap, Poll, ReceiveNothing, Redrive,
        LoopEnds, Crash, ConnectionLost, workerVars
<1>4. ASSUME NEW x \in Workers, Beats(x)
      PROVE  worker'[w] = worker[w]
  BY <1>4, BeatsExtend
<1>5. CASE \/ \E d \in Docs : Intake(d)
           \/ \E m \in Msgs : Notify(m)
           \/ Tick \/ UNCHANGED vars
  BY <1>5 DEF Intake, RequestSlot, PutObject, UploadComplete, Notify, Tick, vars, workerVars
<1>6. QED
  BY <1>1, <1>2, <1>3, <1>4, <1>5 DEF Next

(* The inductive invariant: what a worker is about to commit has a report. *)
ReportFirst ==
    /\ \A w \in Workers : worker[w].pc = "commit" => report[DocIn(w)] \in Issued(DocIn(w))
    /\ CompletedHasReport

LEMMA ReportFirstNext ==
    ASSUME PipelineInv, ReportFirst, [Next]_vars
    PROVE  ReportFirst'
<1>1. ASSUME NEW d \in Docs
      PROVE  /\ row[d].attempt \in Nat /\ row'[d].attempt \in Nat
             /\ row'[d].attempt >= row[d].attempt
  BY PipelineStepIsAStoreStep, AttemptsGrow DEF PipelineInv
<1>2. ASSUME NEW w \in Workers, worker[w].pc \in {"publish", "commit"}
      PROVE  DocIn(w) \in Docs /\ Token(w) \in Issued(DocIn(w))
  BY <1>2, TokensWereIssued DEF Busy, Owning, InTxn
<1>3. ASSUME NEW d \in Docs, report[d] \in Issued(d)
      PROVE  report'[d] \in Issued(d)'
  <2>1. report'[d] \in Issued(d)
    BY <1>2, <1>3, ReportsAreTheirWorkers
  <2>2. QED
    BY <1>1, <2>1 DEF Issued
<1>4. ASSUME NEW w \in Workers, worker'[w].pc = "commit"
      PROVE  report'[DocIn(w)'] \in Issued(DocIn(w))'
  <2>1. DocIn(w)' = DocIn(w) /\ (worker[w].pc = "commit" \/ Publish(w))
    BY <1>4, CommitsComeByPublish DEF DocIn
  <2>2. CASE worker[w].pc = "commit"
    <3>1. report'[DocIn(w)] \in 1 .. row'[DocIn(w)].attempt
      BY <1>2, <1>3, <2>2 DEF ReportFirst, Issued
    <3>2. QED
      BY <2>1, <3>1 DEF Issued
  <2>3. CASE Publish(w)
    <3>1. DocIn(w) \in Docs /\ Token(w) \in Issued(DocIn(w))
      BY <1>2, <2>3 DEF Publish
    <3>2. report'[DocIn(w)] = Token(w)
      BY <2>3, <3>1 DEF Publish, PipelineInv, S3TypeOK
    <3>3. report'[DocIn(w)] \in 1 .. row'[DocIn(w)].attempt
      BY <1>1, <3>1, <3>2 DEF Issued
    <3>4. QED
      BY <2>1, <3>3 DEF Issued
  <2>4. QED
    BY <2>1, <2>2, <2>3
<1>5. ASSUME NEW d \in Docs, row'[d].status = "COMPLETED"
      PROVE  report'[d] \in Issued(d)'
  BY <1>3, <1>5, CompletionsAreCommits DEF ReportFirst, CompletedHasReport
<1>6. QED
  BY <1>4, <1>5 DEF ReportFirst, CompletedHasReport

(* A COMPLETED document has the report of one of its own attempts          *)
(* (main.py 334-337), also when the database drops transactions, and for   *)
(* any number of workers, redeliveries and crashes.                        *)
THEOREM CompletedHasReportAlways == Spec => []CompletedHasReport
<1>1. Init => ReportFirst
  BY DEF Init, StoreInit, NoRow, At, ReportFirst, CompletedHasReport
<1>2. ReportFirst => CompletedHasReport
  BY DEF ReportFirst
<1>3. QED
  BY <1>1, <1>2, ReportFirstNext, PipelineInvariant, PTL DEF Spec

-----------------------------------------------------------------------------
(* The stored report is the winner's, when the database drops no           *)
(* connection that has a transaction open.                                 *)

(* A worker past its fenced write has its transaction open, and one past   *)
(* the put has its own report stored.                                      *)
TxnOK(v, o, stored) ==
    /\ v.pc \in InTxn => o[DocOf[v.msg]] = [token |-> v.token, status |-> v.verdict]
    /\ v.pc = "commit" => stored[DocOf[v.msg]] = v.token

ReportInv ==
    /\ \A w \in Workers : TxnOK(worker[w], open, report)
    /\ ReportIsTheWinners

(* What a worker does to its own document's transaction and report, while  *)
(* it holds the lock or nobody does, leaves the other workers' alone: two  *)
(* transactions on one document would share a token.                       *)
LEMMA OthersUndisturbed ==
    ASSUME PipelineInv, ReportInv, NEW w \in Workers,
           \A x \in Workers : x # w => worker'[x] = worker[x],
           \A d \in Docs : d # DocIn(w) => open'[d] = open[d] /\ report'[d] = report[d],
           HoldsTxn(w) \/ Free(DocIn(w)) \/ UNCHANGED <<open, report>>
    PROVE  \A x \in Workers : x # w => TxnOK(worker'[x], open', report')
<1> SUFFICES ASSUME NEW x \in Workers, x # w, worker[x].pc \in InTxn
             PROVE  TxnOK(worker[x], open', report')
  BY DEF TxnOK, InTxn
<1>1. /\ DocIn(x) \in Docs /\ Token(x) # 0 /\ Token(x) \in Nat
      /\ open[DocIn(x)] = [token |-> Token(x), status |-> worker[x].verdict]
      /\ worker[x].pc = "commit" => report[DocIn(x)] = Token(x)
  BY DEF PipelineInv, ReportInv, TxnOK, WorkerOK, Worker, DocIn, Token, Busy, Owning
<1>2. CASE DocIn(x) # DocIn(w) \/ UNCHANGED <<open, report>>
  BY <1>1, <1>2 DEF TxnOK, DocIn, Token
<1>3. CASE DocIn(x) = DocIn(w) /\ Free(DocIn(w))
  BY <1>1, <1>3 DEF Free, NoTxn
<1>4. CASE DocIn(x) = DocIn(w) /\ HoldsTxn(w)
  BY <1>1, <1>4 DEF HoldsTxn, PipelineInv, NoSharedToken
<1>5. QED
  BY <1>2, <1>3, <1>4

(* The row a worker has a transaction on is still being processed, under   *)
(* the worker's own attempt.                                               *)
LEMMA HolderIsLatest ==
    ASSUME PipelineInv, ReportInv, NEW w \in Workers, worker[w].pc \in InTxn
    PROVE  /\ DocIn(w) \in Docs /\ HoldsTxn(w)
           /\ open[DocIn(w)] = [token |-> Token(w), status |-> worker[w].verdict]
           /\ row[DocIn(w)].status = "PROCESSING"
           /\ row[DocIn(w)].attempt = Token(w)
<1>1. /\ DocIn(w) \in Docs /\ Token(w) # 0
      /\ open[DocIn(w)] = [token |-> Token(w), status |-> worker[w].verdict]
  BY DEF PipelineInv, ReportInv, TxnOK, WorkerOK, DocIn, Token, Busy, Owning
<1>2. open[DocIn(w)] # NoTxn
  BY <1>1 DEF NoTxn
<1>3. QED
  BY <1>1, <1>2 DEF PipelineInv, StoreInv, OpenIsLatest, HoldsTxn, InTxn

(* Steps that complete nothing and store nothing keep the winners' reports.*)
LEMMA QuietReports ==
    ASSUME ReportIsTheWinners, NoNewResult, UNCHANGED report
    PROVE  ReportIsTheWinners'
  BY DEF ReportIsTheWinners, NoNewResult

(* Steps of a worker outside the recording of its result. *)
LEMMA QuietWork ==
    ASSUME PipelineInv, ReportInv, NEW w \in Workers,
           \/ ClaimDocument(w) \/ ClaimRefused(w) \/ Peek(w) \/ Fetch(w)
           \/ FetchFails(w) \/ NodeFinished(w) \/ GraphRaises(w)
           \/ \E verdict \in Terminal : GraphEnds(w, verdict)
           \/ LastFail(w) \/ LastFailRaises(w) \/ Acknowledge(w) \/ ProcessRaises(w)
    PROVE  ReportInv'
<1>0. StoreInv /\ worker \in [Workers -> Worker]
  BY DEF PipelineInv
<1>1. NoNewResult
  <2>1. \/ Claim(DocIn(w)) \/ RecordStep(DocIn(w), Token(w))
        \/ Finish(DocIn(w), Token(w), "FAILED") \/ UNCHANGED storeVars
    BY DEF ClaimDocument, ClaimRefused, Peek, Fetch, FetchFails, NodeFinished,
           GraphRaises, GraphEnds, LastFail, LastFailRaises, Acknowledge, ProcessRaises
  <2>2. QED
    BY <1>0, <2>1, QuietStatements
<1>2. UNCHANGED <<open, report>>
  BY DEF ClaimDocument, ClaimRefused, Peek, Fetch, FetchFails, NodeFinished, GraphRaises,
         GraphEnds, LastFail, LastFailRaises, Acknowledge, ProcessRaises, s3Vars,
         Claim, RecordStep, Finish, storeVars
<1>3. /\ \A x \in Workers : x # w => worker'[x] = worker[x]
      /\ worker'[w].pc \notin InTxn
  BY <1>0
  DEF ClaimDocument, ClaimRefused, Peek, Fetch, FetchFails, NodeFinished, GraphRaises,
      GraphEnds, LastFail, LastFailRaises, Acknowledge, ProcessRaises, Goto, Leave, At,
      workerVars, InTxn, Worker
<1>4. \A x \in Workers : x # w => TxnOK(worker'[x], open', report')
  BY <1>2, <1>3, OthersUndisturbed
<1>5. TxnOK(worker'[w], open', report')
  BY <1>3 DEF TxnOK, InTxn
<1>6. ReportIsTheWinners'
  BY <1>1, <1>2, QuietReports DEF ReportInv
<1>7. QED
  BY <1>4, <1>5, <1>6 DEF ReportInv

(* The fenced write, and the steps that publish its report and commit it.  *)
LEMMA RecordingWork ==
    ASSUME PipelineInv, ReportInv, NEW w \in Workers,
           \/ Record(w) \/ Extend(w) \/ Publish(w) \/ PublishFails(w)
           \/ CommitResult(w) \/ CommitFails(w)
    PROVE  ReportInv'
<1>0. /\ StoreInv /\ worker \in [Workers -> Worker] /\ WorkerOK(worker[w], row)
      /\ row \in [Docs -> Row] /\ open \in [Docs -> Txn] /\ report \in [Docs -> Nat]
      /\ ReportIsTheWinners
      /\ DocIn(w) \in Docs
  BY TokensWereIssued
  DEF PipelineInv, StoreInv, StoreTypeOK, S3TypeOK, ReportInv, Record, Extend, Publish,
      PublishFails, CommitResult, CommitFails, Busy, Owning, InTxn
<1> DEFINE d == DocIn(w)
<1>1. /\ \A x \in Workers : x # w => worker'[x] = worker[x]
      /\ \A e \in Docs : e # d => open'[e] = open[e] /\ report'[e] = report[e]
  BY <1>0, UndoIsQuiet
  DEF Record, Extend, Publish, PublishFails, CommitResult, CommitFails, Goto, Leave,
      FinishUncommitted, Commit, storeVars, s3Vars
<1>2. HoldsTxn(w) \/ Free(d) \/ UNCHANGED <<open, report>>
  BY HolderIsLatest
  DEF Record, Extend, Publish, PublishFails, CommitResult, CommitFails,
      FinishUncommitted, storeVars, s3Vars, InTxn
<1>3. \A x \in Workers : x # w => TxnOK(worker'[x], open', report')
  BY <1>1, <1>2, OthersUndisturbed
<1>4. CASE Record(w)
  <2>1. NoNewResult /\ UNCHANGED report
    BY <1>0, <1>4, QuietStatements DEF Record, s3Vars
  <2>2. TxnOK(worker'[w], open', report')
    <3>1. CASE FinishUncommitted(d, Token(w), worker[w].verdict) /\ Goto(w, "extend")
      BY <1>0, <3>1 DEF FinishUncommitted, Goto, TxnOK, InTxn, DocIn, Token, Worker
    <3>2. CASE Leave(w)
      BY <1>0, <3>2 DEF Leave, At, TxnOK, InTxn
    <3>3. QED
      BY <1>4, <3>1, <3>2 DEF Record
  <2>3. QED
    BY <1>0, <1>3, <2>1, <2>2, QuietReports DEF ReportInv
<1>5. CASE Extend(w)
  <2>1. NoNewResult /\ UNCHANGED <<open, report>>
    BY <1>0, <1>5, QuietStatements DEF Extend, s3Vars, storeVars
  <2>2. TxnOK(worker'[w], open', report')
    BY <1>0, <1>5, <2>1, HolderIsLatest
    DEF Extend, Goto, TxnOK, InTxn, DocIn, Token, Worker
  <2>3. QED
    BY <1>0, <1>3, <2>1, <2>2, QuietReports DEF ReportInv
<1>6. CASE Publish(w)
  <2>1. NoNewResult /\ UNCHANGED open /\ UNCHANGED row
    BY <1>0, <1>6, QuietStatements DEF Publish, storeVars
  <2>2. row[d].status = "PROCESSING" /\ open[d] = [token |-> Token(w), status |-> worker[w].verdict]
    BY <1>6, HolderIsLatest DEF Publish, InTxn
  <2>3. TxnOK(worker'[w], open', report')
    BY <1>0, <1>6, <2>1, <2>2 DEF Publish, Goto, TxnOK, InTxn, DocIn, Token, Worker
  <2>4. ReportIsTheWinners'
    BY <1>0, <1>1, <2>1, <2>2 DEF ReportIsTheWinners
  <2>5. QED
    BY <1>3, <2>3, <2>4 DEF ReportInv
<1>7. CASE PublishFails(w)
  <2>1. row[d].status = "PROCESSING" /\ UNCHANGED row
    BY <1>7, HolderIsLatest, UndoIsQuiet DEF PublishFails, InTxn
  <2>2. TxnOK(worker'[w], open', report')
    BY <1>0, <1>7 DEF PublishFails, Leave, At, TxnOK, InTxn
  <2>3. ReportIsTheWinners'
    BY <1>0, <1>1, <2>1 DEF ReportIsTheWinners
  <2>4. QED
    BY <1>3, <2>2, <2>3 DEF ReportInv
<1>8. CASE CommitResult(w) \/ CommitFails(w)
  <2>1. /\ row[d].attempt = Token(w) /\ report[d] = Token(w)
        /\ UNCHANGED report
    BY <1>8, HolderIsLatest
    DEF CommitResult, CommitFails, s3Vars, InTxn, ReportInv, TxnOK, DocIn, Token
  <2>2. Undo(w) \/ Commit(d)
    BY <1>8 DEF CommitResult, CommitFails
  <2>3. ReportIsTheWinners'
    <3>1. CASE Undo(w)
      BY <1>0, <2>1, <3>1, UndoIsQuiet, QuietReports DEF PipelineInv
    <3>2. CASE Commit(d)
      <4>1. row'[d].attempt = row[d].attempt
        BY <1>0, <3>2, AttemptKept DEF Commit
      <4>2. \A e \in Docs : e # d => row'[e] = row[e]
        BY <1>0, <3>2 DEF Commit
      <4>3. QED
        BY <1>0, <2>1, <4>1, <4>2 DEF ReportIsTheWinners
    <3>3. QED
      BY <2>2, <3>1, <3>2
  <2>4. TxnOK(worker'[w], open', report')
    BY <1>0, <1>8 DEF CommitResult, CommitFails, Goto, Leave, At, TxnOK, InTxn, Worker
  <2>5. QED
    BY <1>3, <2>3, <2>4 DEF ReportInv
<1>9. QED
  BY <1>4, <1>5, <1>6, <1>7, <1>8

(* Everything else: no transaction is opened or closed but a dying         *)
(* worker's own.                                                           *)
LEMMA OtherStepsReport ==
    ASSUME PipelineInv, ReportInv, ~ConnectionsDrop, [Next]_vars,
           ~\E w \in Workers : Work(w)
    PROVE  ReportInv'
<1>0. StoreInv /\ worker \in [Workers -> Worker] /\ ReportIsTheWinners
  BY DEF PipelineInv, ReportInv
<1>1. ASSUME NEW w \in Workers, Crash(w)
      PROVE  ReportInv'
  <2>1. NoNewResult /\ UNCHANGED report
    BY <1>1, UndoIsQuiet DEF Crash, s3Vars
  <2>2. /\ \A x \in Workers : x # w => worker'[x] = worker[x]
        /\ \A d \in Docs : d # DocIn(w) => open'[d] = open[d] /\ report'[d] = report[d]
        /\ HoldsTxn(w) \/ UNCHANGED <<open, report>>
    BY <1>0, <1>1, <2>1, UndoIsQuiet DEF Crash, Die
  <2>3. TxnOK(worker'[w], open', report')
    BY <1>0, <1>1 DEF Crash, Die, At, TxnOK, InTxn
  <2>4. QED
    BY <1>0, <2>1, <2>2, <2>3, OthersUndisturbed, QuietReports DEF ReportInv
<1>2. ASSUME NEW w \in Workers,
             Start(w) \/ Stop(w) \/ Sweeps(w) \/ Poll(w) \/ LoopEnds(w)
      PROVE  ReportInv'
  <2>1. Reap \/ UNCHANGED storeVars
    BY <1>2 DEF Start, Stop, Sweeps, ReapFirst, SkipReap, Poll, ReceiveNothing, Receive,
                Redrive, LoopEnds
  <2>2. NoNewResult
    BY <1>0, <2>1, QuietStatements
  <2>3. UNCHANGED <<open, report>>
    BY <1>2, <2>1
    DEF Reap, storeVars, s3Vars, Start, Stop, Sweeps, ReapFirst, SkipReap, Poll,
        ReceiveNothing, Receive, Redrive, LoopEnds
  <2>4. /\ \A x \in Workers : x # w => worker'[x] = worker[x]
        /\ worker'[w].pc \notin InTxn \/ worker'[w] = worker[w]
    <3>1. CASE \E pc \in {"top", "recv"} : Goto(w, pc)
      BY <1>0, <3>1 DEF Goto, InTxn, Worker
    <3>2. CASE Leave(w) \/ Die(w) \/ UNCHANGED worker
      BY <1>0, <3>2 DEF Leave, Die, At, InTxn
    <3>3. ASSUME NEW m \in Msgs, Receive(w, m)
          PROVE  /\ \A x \in Workers : x # w => worker'[x] = worker[x]
                 /\ worker'[w].pc \in {"claim", "ack"}
      BY <1>0, <3>3 DEF Receive, At
    <3>4. QED
      BY <1>2, <3>1, <3>2, <3>3
      DEF Start, Stop, Sweeps, ReapFirst, SkipReap, Poll, ReceiveNothing, Redrive,
          LoopEnds, workerVars, InTxn
  <2>5. TxnOK(worker'[w], open', report')
    BY <2>3, <2>4 DEF TxnOK, InTxn, ReportInv
  <2>6. QED
    BY <1>0, <2>2, <2>3, <2>4, <2>5, OthersUndisturbed, QuietReports DEF ReportInv
<1>3. ASSUME UNCHANGED <<worker, open, report>>, NoNewResult
      PROVE  ReportInv'
  BY <1>0, <1>3, QuietReports DEF ReportInv, TxnOK
<1>4. ASSUME NEW w \in Workers, Beats(w)
      PROVE  ReportInv'
  <2>1. \/ \E noted, asked : ExtendLease(BeatDoc(w), beat[w].token, noted, asked)
        \/ UNCHANGED storeVars
    BY <1>4, BeatsExtend DEF BeatExtends
  <2>2. UNCHANGED <<worker, open, report>>
    BY <1>4, <2>1, BeatsExtend DEF ExtendLease, storeVars, s3Vars
  <2>3. QED
    BY <1>0, <1>3, <2>1, <2>2, QuietStatements
<1>5. ASSUME NEW d \in Docs, Intake(d)
      PROVE  ReportInv'
  <2>1. Insert(d) \/ MarkQueued(d) \/ UNCHANGED storeVars
    BY <1>5 DEF Intake, RequestSlot, PutObject, UploadComplete
  <2>2. UNCHANGED <<worker, open, report>>
    BY <1>5, <2>1
    DEF Intake, RequestSlot, PutObject, UploadComplete, Insert, MarkQueued, storeVars,
        workerVars, s3Vars
  <2>3. QED
    BY <1>0, <1>3, <2>1, <2>2, QuietStatements
<1>6. ASSUME (\E m \in Msgs : Notify(m)) \/ Tick \/ UNCHANGED vars
      PROVE  ReportInv'
  <2>1. StoreTick \/ UNCHANGED storeVars
    BY <1>6 DEF Notify, Tick, vars
  <2>2. UNCHANGED <<worker, open, report>>
    BY <1>6, <2>1 DEF Notify, Tick, vars, StoreTick, storeVars, workerVars, s3Vars
  <2>3. QED
    BY <1>0, <1>3, <2>1, <2>2, QuietStatements
<1>7. \A w \in Workers : ~ConnectionLost(w)
  BY DEF ConnectionLost
<1>8. QED
  BY <1>1, <1>2, <1>4, <1>5, <1>6, <1>7 DEF Next

(* Who records a result holds the row's transaction, and its report is the *)
(* one that is stored when the transaction commits (_record).              *)
THEOREM RecordingInvariant ==
    ASSUME ~ConnectionsDrop
    PROVE  Spec => [](PipelineInv /\ ReportInv)
<1>1. Init => PipelineInv /\ ReportInv
  BY PipelineInitInv
  DEF Init, StoreInit, NoRow, At, ReportInv, TxnOK, InTxn, ReportIsTheWinners
<1>2. PipelineInv /\ ReportInv /\ [Next]_vars => PipelineInv' /\ ReportInv'
  <2> SUFFICES ASSUME PipelineInv, ReportInv, [Next]_vars
               PROVE  PipelineInv' /\ ReportInv'
    OBVIOUS
  <2>1. CASE \E w \in Workers : Work(w)
    BY <2>1, PipelineNextInv, QuietWork, RecordingWork DEF Work
  <2>2. CASE ~\E w \in Workers : Work(w)
    BY <2>2, PipelineNextInv, OtherStepsReport
  <2>3. QED
    BY <2>1, <2>2
<1>3. QED
  BY <1>1, <1>2, PTL DEF Spec

(* A COMPLETED document has a stored report, and it is that of the attempt *)
(* the row describes (main.py 322-337): whatever raises, lapses, crashes   *)
(* or is delivered twice, as long as the database drops no connection that *)
(* has a transaction open.                                                 *)
THEOREM WinnersReport ==
    ASSUME ~ConnectionsDrop
    PROVE  Spec => []ReportIsTheWinners
<1>1. ReportInv => ReportIsTheWinners
  BY DEF ReportInv
<1>2. QED
  BY <1>1, RecordingInvariant, PTL

-----------------------------------------------------------------------------
(* A settled row matches no statement. *)
LEMMA SettledRowsStay ==
    ASSUME StoreInv, [StoreNext]_storeVars, NEW d \in Docs, Settling(d)
    PROVE  row'[d] = row[d]
<1>0. row \in [Docs -> Row] /\ row[d].status \in Terminal /\ Free(d)
  BY DEF StoreInv, StoreTypeOK, OpenIsLatest, Free, Settling, Terminal
<1>1. ASSUME NEW e \in Docs, StoreStep(e)
      PROVE  row'[d] = row[d]
  <2>1. CASE e = d
    BY <1>0, <1>1, <2>1
    DEF StoreStep, Insert, MarkQueued, Claim, Claimable, Commit, Rollback, ExtendLease,
        CurrentWhen, RecordStep, SameAttempt, Finish, FinishUncommitted, Current, Terminal
  <2>2. CASE e # d
    BY <1>0, <1>1, <2>2
    DEF StoreStep, Insert, MarkQueued, Claim, Commit, Rollback, ExtendLease, RecordStep,
        Finish, FinishUncommitted
  <2>3. QED
    BY <2>1, <2>2
<1>2. CASE Reap
  BY <1>0, <1>2 DEF Reap, Reaped, Stuck, Abandoned, Terminal
<1>3. CASE StoreTick
  BY <1>0, <1>3 DEF StoreTick, Aged, Terminal
<1>4. QED
  BY <1>1, <1>2, <1>3 DEF StoreNext, storeVars

(* Only a worker in its finishing transaction stores a report. *)
LEMMA SettledReportsStay ==
    ASSUME PipelineInv, ReportInv, [Next]_vars, NEW d \in Docs, Settling(d)
    PROVE  report'[d] = report[d]
<1>1. ASSUME NEW w \in Workers, worker[w].pc = "publish"
      PROVE  DocIn(w) # d
  BY <1>1, HolderIsLatest DEF InTxn, Settling, Terminal
<1>2. QED
  BY <1>1, ReportsAreTheirWorkers

(* A terminal document's row and report are final: no late worker,         *)
(* heartbeat, progress note, redelivery or sweep changes either (claim.py, *)
(* _record), as long as the database drops no open transaction.            *)
THEOREM TerminalStays ==
    ASSUME ~ConnectionsDrop
    PROVE  Spec => TerminalIsFinal
<1>1. Spec => [](PipelineInv /\ ReportInv)
  BY RecordingInvariant
<1>2. PipelineInv /\ ReportInv /\ [Next]_vars =>
        \A d \in Docs : Settling(d) => row'[d] = row[d] /\ report'[d] = report[d]
  BY PipelineStepIsAStoreStep, SettledRowsStay, SettledReportsStay DEF PipelineInv
<1>3. QED
  BY <1>1, <1>2, PTL DEF Spec, TerminalIsFinal

-----------------------------------------------------------------------------
(***************************************************************************)
(* The ack rule (main.py, _process 208-222): a message is deleted before   *)
(* its last delivery only when its work is over.  A worker looks at the    *)
(* row, and deletes the message later; in between anybody may act.  It is  *)
(* right because what the worker has seen stays so: a finished document is *)
(* finished for good, and a document whose object is in the bucket and     *)
(* that has no row never gets one.                                         *)
(***************************************************************************)
(* What the ack rule asks of a row: it is terminal, or missing. *)
Finished(r) == r.status \in Terminal \cup {"ABSENT"}

(* An object is posted to a URL its row's insert came before, or is foreign. *)
ObjectsHaveRows ==
    \A d \in Docs : object[d] => d \in Foreign \/ row[d].status # "ABSENT"

(* S3 notifies of objects it has. *)
SentHaveObjects ==
    \A m \in Msgs : msg[m].state # "unsent" /\ DocOf[m] \in Docs => object[DocOf[m]]

(* The message in a worker's hand, the queue being q and the rows r.       *)
HandOK(v, q, r) ==
    /\ v.pc \in Busy \cup {"ack"} =>
           q[v.msg].state # "unsent" /\ v.receipt <= q[v.msg].count
    /\ v.pc = "lastfail" => v.receipt >= MaxReceiveCount
    /\ v.pc = "ack" /\ DocOf[v.msg] \in Docs =>
           v.receipt >= MaxReceiveCount \/ Finished(r[DocOf[v.msg]])

(* The inductive invariant, on top of PipelineInv. *)
AckInv ==
    /\ ObjectsHaveRows
    /\ SentHaveObjects
    /\ \A w \in Workers : HandOK(worker[w], msg, row)
    /\ EarlyAckMeansFinished

(* No statement but the insert gives a document its row ...                *)
LEMMA RowsComeByInsert ==
    ASSUME StoreInv, NEW d \in Docs, NEW e \in Docs, NEW token, NEW noted, NEW asked,
           NEW status,
           \/ Insert(e) /\ e # d
           \/ MarkQueued(e) \/ Claim(e) \/ Commit(e) \/ Rollback(e)
           \/ ExtendLease(e, token, noted, asked) \/ RecordStep(e, token)
           \/ Finish(e, token, status) \/ FinishUncommitted(e, token, status)
           \/ Reap \/ StoreTick \/ UNCHANGED storeVars
    PROVE  row[d].status = "ABSENT" => row'[d].status = "ABSENT"
<1> SUFFICES ASSUME row[d].status = "ABSENT"
             PROVE  row'[d].status = "ABSENT"
  OBVIOUS
<1>0. row \in [Docs -> Row] /\ Free(d)
  BY DEF StoreInv, StoreTypeOK, OpenIsLatest, Free
<1>1. CASE e # d /\ ~(Reap \/ StoreTick)
  BY <1>0, <1>1
  DEF Insert, MarkQueued, Claim, Commit, Rollback, ExtendLease, RecordStep, Finish,
      FinishUncommitted, storeVars
<1>2. CASE e = d /\ ~(Reap \/ StoreTick)
  BY <1>0, <1>2
  DEF MarkQueued, Claim, Claimable, Commit, Rollback, ExtendLease, CurrentWhen,
      RecordStep, SameAttempt, Finish, FinishUncommitted, Current, storeVars
<1>3. CASE Reap
  BY <1>0, <1>3 DEF Reap, Reaped, Stuck, Abandoned
<1>4. CASE StoreTick
  BY <1>0, <1>4 DEF StoreTick, Aged
<1>5. QED
  BY <1>1, <1>2, <1>3, <1>4

(* ... and none takes it away. *)
LEMMA RowsRemain ==
    ASSUME StoreInv, [StoreNext]_storeVars, NEW d \in Docs, row[d].status # "ABSENT"
    PROVE  row'[d].status # "ABSENT"
<1>0. row \in [Docs -> Row] /\ open \in [Docs -> Txn]
  BY DEF StoreInv, StoreTypeOK
<1>1. ASSUME NEW e \in Docs, StoreStep(e)
      PROVE  row'[d].status # "ABSENT"
  <2>1. CASE Commit(e)
    <3>1. open[e].status \in Terminal
      BY <1>0, <2>1 DEF Commit, Free, Txn, NoTxn
    <3>2. row'[d] = IF d = e THEN Settled(row[e], open[e].status) ELSE row[d]
      BY <1>0, <2>1 DEF Commit
    <3>3. QED
      BY <1>0, <3>1, <3>2 DEF Settled, Terminal, Row
  <2>2. CASE Insert(e) \/ MarkQueued(e) \/ Claim(e) \/ Rollback(e)
    BY <1>0, <2>2 DEF Insert, MarkQueued, Claim, Rollback, Row
  <2>3. ASSUME NEW token, NEW noted, NEW asked,
               ExtendLease(e, token, noted, asked) \/ RecordStep(e, token)
        PROVE  row'[d].status # "ABSENT"
    BY <1>0, <2>3 DEF ExtendLease, RecordStep, Row
  <2>4. ASSUME NEW token, NEW status \in Terminal,
               Finish(e, token, status) \/ FinishUncommitted(e, token, status)
        PROVE  row'[d].status # "ABSENT"
    BY <1>0, <2>4 DEF Finish, FinishUncommitted, Settled, Terminal, Row
  <2>5. QED
    BY <1>1, <2>1, <2>2, <2>3, <2>4 DEF StoreStep, Terminal
<1>2. CASE Reap
  BY <1>0, <1>2 DEF Reap, Reaped, Row
<1>3. CASE StoreTick
  BY <1>0, <1>3 DEF StoreTick, Aged, Row
<1>4. QED
  BY <1>1, <1>2, <1>3 DEF StoreNext, storeVars

(* A foreign object never gets a row: the insert is the API's, which knows *)
(* no foreign document.                                                    *)
LEMMA ForeignStaysAbsent ==
    ASSUME PipelineInv, [Next]_vars, NEW d \in Foreign, row[d].status = "ABSENT"
    PROVE  row'[d].status = "ABSENT"
<1>0. StoreInv /\ d \in Docs
  BY PipelineAssumption DEF PipelineInv
<1>1. ASSUME NEW e \in Docs, Intake(e)
      PROVE  row'[d].status = "ABSENT"
  <2>1. \/ Insert(e) /\ e # d
        \/ MarkQueued(e) \/ UNCHANGED storeVars
    BY <1>1 DEF Intake, RequestSlot, PutObject, UploadComplete
  <2>2. QED
    BY <1>0, <2>1, RowsComeByInsert
<1>2. ASSUME NEW w \in Workers, Work(w)
      PROVE  row'[d].status = "ABSENT"
  <2>1. CASE worker[w].pc \notin Busy
    <3>1. UNCHANGED storeVars
      BY <1>2, <2>1
      DEF Work, ClaimDocument, ClaimRefused, Peek, Fetch, FetchFails, NodeFinished,
          GraphRaises, GraphEnds, LastFail, LastFailRaises, Acknowledge, ProcessRaises,
          Record, Extend, Publish, PublishFails, CommitResult, CommitFails, Busy, Owning, InTxn
    <3>2. QED
      BY <1>0, <3>1, RowsComeByInsert
  <2>2. CASE worker[w].pc \in Busy
    <3>1. DocIn(w) \in Docs
      BY <2>2 DEF PipelineInv, WorkerOK, DocIn
    <3>2. \/ Claim(DocIn(w)) \/ Commit(DocIn(w)) \/ Rollback(DocIn(w))
          \/ RecordStep(DocIn(w), Token(w))
          \/ \E status \in Terminal : \/ Finish(DocIn(w), Token(w), status)
                                      \/ FinishUncommitted(DocIn(w), Token(w), status)
          \/ UNCHANGED storeVars
      BY <1>2, <2>2
      DEF Work, ClaimDocument, ClaimRefused, Peek, Fetch, FetchFails, NodeFinished,
          GraphRaises, GraphEnds, LastFail, LastFailRaises, Acknowledge, ProcessRaises,
          Record, Extend, Publish, PublishFails, CommitResult, CommitFails, Undo,
          PipelineInv, WorkerOK, InTxn, Terminal
    <3>3. QED
      BY <1>0, <3>1, <3>2, RowsComeByInsert
  <2>3. QED
    BY <2>1, <2>2
<1>3. ASSUME NEW w \in Workers, Beats(w)
      PROVE  row'[d].status = "ABSENT"
  <2>1. CASE UNCHANGED storeVars
    BY <1>0, <2>1, RowsComeByInsert
  <2>2. CASE ~UNCHANGED storeVars
    <3>1. PICK noted, asked : ExtendLease(BeatDoc(w), beat[w].token, noted, asked)
      BY <1>3, <2>2, BeatsExtend DEF BeatExtends
    <3>2. BeatDoc(w) \in Docs
      BY <1>3, <2>2, BeatsExtend, TokensWereIssued DEF BeatExtends
    <3>3. QED
      BY <1>0, <3>1, <3>2, RowsComeByInsert
  <2>3. QED
    BY <2>1, <2>2
<1>4. ASSUME NEW w \in Workers, Crash(w) \/ ConnectionLost(w)
      PROVE  row'[d].status = "ABSENT"
  <2>1. UNCHANGED row
    BY <1>4 DEF Crash, ConnectionLost, Undo, Rollback, storeVars
  <2>2. QED
    BY <2>1
<1>5. ASSUME NEW w \in Workers, Start(w) \/ Stop(w) \/ Sweeps(w) \/ Poll(w) \/ LoopEnds(w)
      PROVE  row'[d].status = "ABSENT"
  <2>1. Reap \/ UNCHANGED storeVars
    BY <1>5 DEF Start, Stop, Sweeps, ReapFirst, SkipReap, Poll, ReceiveNothing, Receive,
                Redrive, LoopEnds
  <2>2. QED
    BY <1>0, <2>1, RowsComeByInsert
<1>6. CASE Tick \/ UNCHANGED vars \/ \E m \in Msgs : Notify(m)
  <2>1. StoreTick \/ UNCHANGED storeVars
    BY <1>6 DEF Tick, Notify, vars
  <2>2. QED
    BY <1>0, <2>1, RowsComeByInsert
<1>7. QED
  BY <1>1, <1>2, <1>3, <1>4, <1>5, <1>6 DEF Next

(* What a sent message names stays finished. *)
LEMMA FinishedStays ==
    ASSUME PipelineInv, AckInv, [Next]_vars, NEW d \in Docs, object[d], Finished(row[d])
    PROVE  Finished(row'[d])
<1>1. CASE row[d].status \in Terminal
  BY <1>1, PipelineStepIsAStoreStep, SettledRowsStay DEF PipelineInv, Settling, Finished
<1>2. CASE row[d].status = "ABSENT"
  BY <1>2, ForeignStaysAbsent DEF AckInv, ObjectsHaveRows, Finished
<1>3. QED
  BY <1>1, <1>2 DEF Finished

(* Messages are sent by S3's notification only, and never unsent; their    *)
(* deliveries are never uncounted; only an acknowledgement deletes one.    *)
QueueGoesOn(m) ==
    /\ msg[m].state # "unsent" => msg'[m].state # "unsent"
    /\ msg[m].count <= msg'[m].count
    /\ msg'[m].state # "unsent" => msg[m].state # "unsent" \/ Notify(m)
    /\ msg'[m].state = "deleted" =>
           \/ msg[m].state = "deleted"
           \/ \E w \in Workers : Acknowledge(w) /\ worker[w].msg = m

LEMMA QueueStep ==
    ASSUME PipelineInv, [Next]_vars, NEW m \in Msgs
    PROVE  QueueGoesOn(m)
<1>0. msg \in [Msgs -> Message] /\ msg[m].count \in Nat
  BY QueueAssumption DEF PipelineInv, QueueTypeOK, Message
<1>1. ASSUME NEW n \in Msgs, Deliver(n) \/ MoveToDeadLetter(n) \/ Hide(n)
      PROVE  QueueGoesOn(m)
  <2>1. CASE Deliver(n)
    <3>1. msg[n].state = "queued" /\ msg'[m].state = msg[m].state
      BY <1>0, <2>1 DEF Deliver, Visible, Message
    <3>2. msg'[m].count = IF m = n THEN msg[m].count + 1 ELSE msg[m].count
      BY <1>0, <2>1 DEF Deliver, Message
    <3>3. QED
      BY <1>0, <3>1, <3>2 DEF QueueGoesOn
  <2>2. CASE MoveToDeadLetter(n) \/ Hide(n)
    <3>1. msg[n].state = "queued" /\ msg'[m].count = msg[m].count
      BY <1>0, <2>2 DEF MoveToDeadLetter, Hide, Visible, InFlight, Message
    <3>2. msg'[m].state = msg[m].state \/ (m = n /\ msg'[m].state = "dead")
      BY <1>0, <2>2 DEF MoveToDeadLetter, Hide, Message
    <3>3. QED
      BY <1>0, <3>1, <3>2 DEF QueueGoesOn
  <2>3. QED
    BY <1>1, <2>1, <2>2
<1>2. CASE QueueTick \/ UNCHANGED msg
  <2>1. msg'[m].state = msg[m].state /\ msg'[m].count = msg[m].count
    BY <1>0, <1>2 DEF QueueTick, Message
  <2>2. QED
    BY <1>0, <2>1 DEF QueueGoesOn
<1>3. ASSUME NEW n \in Msgs, Notify(n)
      PROVE  QueueGoesOn(m)
  <2>1. /\ msg'[m].state # "unsent" => msg[m].state # "unsent" \/ m = n
        /\ msg[m].state # "unsent" => msg'[m].state # "unsent"
        /\ msg[m].count <= msg'[m].count
        /\ msg'[m].state = "deleted" => msg[m].state = "deleted"
    BY <1>0, <1>3 DEF Notify, Send, Message
  <2>2. QED
    BY <1>3, <2>1 DEF QueueGoesOn
<1>4. ASSUME NEW w \in Workers, Acknowledge(w)
      PROVE  QueueGoesOn(m)
  <2>1. /\ msg[m].state # "unsent" <=> msg'[m].state # "unsent"
        /\ msg[m].count = msg'[m].count
        /\ msg'[m].state = "deleted" => msg[m].state = "deleted" \/ worker[w].msg = m
    <3>1. worker[w].msg \in Msgs
      BY <1>4 DEF Acknowledge, PipelineInv, WorkerOK
    <3>2. CASE m = worker[w].msg /\ msg[m].state = "queued" /\ ~UNCHANGED msg
      <4>1. msg'[m] = [[msg[m] EXCEPT !.state = "deleted"] EXCEPT !.hidden = 0]
        BY <1>0, <1>4, <3>1, <3>2 DEF Acknowledge, Remove
      <4>2. msg'[m].state = "deleted" /\ msg'[m].count = msg[m].count
        BY <1>0, <4>1 DEF Message
      <4>3. QED
        BY <3>2, <4>2
    <3>3. CASE ~(m = worker[w].msg /\ msg[m].state = "queued" /\ ~UNCHANGED msg)
      <4>1. msg'[m] = msg[m]
        BY <1>0, <1>4, <3>1, <3>3 DEF Acknowledge, Remove
      <4>2. QED
        BY <4>1
    <3>4. QED
      BY <3>2, <3>3
  <2>2. QED
    BY <1>0, <1>4, <2>1 DEF QueueGoesOn
<1>5. ASSUME NEW w \in Workers, Extend(w)
      PROVE  \E n \in Msgs : Hide(n)
  BY <1>5 DEF Extend, PipelineInv, WorkerOK, Busy, Owning, InTxn
<1>6. ASSUME NEW w \in Workers, Work(w), ~Acknowledge(w), ~Extend(w)
      PROVE  UNCHANGED msg
  BY <1>6
  DEF Work, ClaimDocument, ClaimRefused, Peek, Fetch, FetchFails, NodeFinished,
      GraphRaises, GraphEnds, LastFail, LastFailRaises, ProcessRaises, Record, Publish,
      PublishFails, CommitResult, CommitFails
<1>7. ASSUME NEW w \in Workers, Beats(w)
      PROVE  UNCHANGED msg \/ \E n \in Msgs : Hide(n)
  BY <1>7 DEF Beats, BeatLease, BeatLocked, BeatVisibility, PipelineInv, BeatOK
<1>8. ASSUME NEW w \in Workers,
             \/ Start(w) \/ Stop(w) \/ Sweeps(w) \/ Poll(w) \/ LoopEnds(w)
             \/ Crash(w) \/ ConnectionLost(w)
      PROVE  UNCHANGED msg \/ \E n \in Msgs : Deliver(n) \/ MoveToDeadLetter(n)
  BY <1>8 DEF Start, Stop, Sweeps, ReapFirst, SkipReap, Poll, ReceiveNothing, Receive,
              Redrive, LoopEnds, Crash, ConnectionLost
<1>9. CASE (\E d \in Docs : Intake(d)) \/ Tick \/ UNCHANGED vars
  <2>1. UNCHANGED msg \/ QueueTick
    BY <1>9 DEF Intake, RequestSlot, PutObject, UploadComplete, Tick, vars
  <2>2. QED
    BY <1>2, <2>1
<1>10. QED
  BY <1>1, <1>2, <1>3, <1>4, <1>5, <1>6, <1>7, <1>8, <1>9 DEF Next

(* Objects come after their rows, and messages after their objects.        *)
LEMMA IntakeInOrder ==
    ASSUME PipelineInv, AckInv, [Next]_vars
    PROVE  ObjectsHaveRows' /\ SentHaveObjects'
<1>0. /\ object \in [Docs -> BOOLEAN] /\ msg \in [Msgs -> Message]
      /\ ObjectsHaveRows /\ SentHaveObjects
  BY DEF PipelineInv, S3TypeOK, QueueTypeOK, AckInv
<1>1. \A d \in Docs : row[d].status # "ABSENT" => row'[d].status # "ABSENT"
  BY PipelineStepIsAStoreStep, RowsRemain DEF PipelineInv
<1>2. ASSUME NEW d \in Docs
      PROVE  /\ object[d] => object'[d]
             /\ object'[d] => object[d] \/ d \in Foreign \/ row[d].status # "ABSENT"
  <2>1. ASSUME NEW e \in Docs, PutObject(e)
        PROVE  /\ object[d] => object'[d]
               /\ object'[d] => object[d] \/ d \in Foreign \/ row[d].status # "ABSENT"
    BY <1>0, <2>1 DEF PutObject
  <2>2. CASE UNCHANGED object
    BY <2>2
  <2>3. ASSUME NEW w \in Workers, Work(w) PROVE UNCHANGED object
    BY <2>3
    DEF Work, ClaimDocument, ClaimRefused, Peek, Fetch, FetchFails, NodeFinished,
        GraphRaises, GraphEnds, LastFail, LastFailRaises, Acknowledge, ProcessRaises,
        Record, Extend, Publish, PublishFails, CommitResult, CommitFails, s3Vars
  <2>4. ASSUME NEW w \in Workers,
               Start(w) \/ Stop(w) \/ Sweeps(w) \/ Poll(w) \/ LoopEnds(w)
        PROVE  UNCHANGED object
    BY <2>4 DEF Start, Stop, Sweeps, ReapFirst, SkipReap, Poll, ReceiveNothing, Receive,
                Redrive, LoopEnds, s3Vars
  <2>5. ASSUME NEW w \in Workers, Crash(w) \/ ConnectionLost(w) \/ Beats(w)
        PROVE  UNCHANGED object
    BY <2>5, BeatsExtend DEF Crash, ConnectionLost, s3Vars
  <2>6. ASSUME NEW e \in Docs, Intake(e), ~PutObject(e)
        PROVE  UNCHANGED object
    BY <2>6 DEF Intake, RequestSlot, UploadComplete, s3Vars
  <2>7. CASE (\E m \in Msgs : Notify(m)) \/ Tick \/ UNCHANGED vars
    <3>1. UNCHANGED object
      BY <2>7 DEF Notify, Tick, vars, s3Vars
    <3>2. QED
      BY <2>2, <3>1
  <2>8. QED
    BY <2>1, <2>2, <2>3, <2>4, <2>5, <2>6, <2>7 DEF Next
<1>3. ObjectsHaveRows'
  BY <1>0, <1>1, <1>2 DEF ObjectsHaveRows
<1>4. ASSUME NEW m \in Msgs, msg'[m].state # "unsent", DocOf[m] \in Docs
      PROVE  object[DocOf[m]]
  <2>1. msg[m].state # "unsent" \/ Notify(m)
    BY <1>4, QueueStep DEF QueueGoesOn
  <2>2. QED
    BY <1>0, <1>4, <2>1 DEF Notify, SentHaveObjects
<1>5. SentHaveObjects'
  BY <1>0, <1>2, <1>4 DEF SentHaveObjects
<1>6. QED
  BY <1>3, <1>5

(* A worker that has let go of its message, and one that goes on with it.  *)
LEMMA HandStep ==
    ASSUME PipelineInv, AckInv, [Next]_vars, NEW w \in Workers,
           \/ worker'[w].pc \notin Busy \cup {"ack"}
           \/ /\ worker[w].pc \in Busy \cup {"ack"}
              /\ worker'[w].msg = worker[w].msg
              /\ worker'[w].receipt = worker[w].receipt
              /\ worker'[w].pc = "lastfail" =>
                     worker[w].pc = "lastfail" \/ LastAttempt(w)
              /\ worker'[w].pc = "ack" /\ DocIn(w) \in Docs =>
                     \/ worker[w].pc \in {"ack", "lastfail"} \/ LastAttempt(w)
                     \/ Finished(row[DocIn(w)]) \/ Finished(row'[DocIn(w)])
    PROVE  HandOK(worker'[w], msg', row')
<1>0. HandOK(worker[w], msg, row) /\ SentHaveObjects
  BY DEF AckInv
<1>1. CASE worker'[w].pc \notin Busy \cup {"ack"}
  BY <1>1 DEF HandOK, Busy, Owning
<1>2. CASE worker'[w].pc \in Busy \cup {"ack"}
  <2> DEFINE m == worker[w].msg
  <2>1. /\ m \in Msgs /\ worker[w].receipt \in Nat
        /\ msg[m].state # "unsent" /\ worker[w].receipt <= msg[m].count
        /\ worker'[w].msg = m /\ worker'[w].receipt = worker[w].receipt
    BY <1>0, <1>2, QueueAssumption DEF PipelineInv, WorkerOK, Worker, HandOK
  <2>2. msg'[m].state # "unsent" /\ msg[m].count <= msg'[m].count
    BY <2>1, QueueStep DEF QueueGoesOn
  <2>3. msg[m].count \in Nat /\ msg'[m].count \in Nat
    <3>1. QueueTypeOK /\ QueueTypeOK'
      BY PipelineNextInv DEF PipelineInv
    <3>2. QED
      BY <2>1, <3>1, QueueAssumption DEF QueueTypeOK, Message
  <2>4. worker'[w].receipt <= msg'[m].count
    BY <2>1, <2>2, <2>3
  <2>5. DocOf[m] \in Docs /\ Finished(row[DocOf[m]]) => Finished(row'[DocOf[m]])
    BY <1>0, <2>1, FinishedStays DEF SentHaveObjects
  <2>6. worker'[w].pc = "lastfail" => worker'[w].receipt >= MaxReceiveCount
    BY <1>0, <1>2, <2>1 DEF HandOK, LastAttempt
  <2>7. worker'[w].pc = "ack" /\ DocOf[m] \in Docs =>
            worker'[w].receipt >= MaxReceiveCount \/ Finished(row'[DocOf[m]])
    BY <1>0, <1>2, <2>1, <2>5 DEF HandOK, LastAttempt, DocIn
  <2>8. QED
    BY <2>1, <2>2, <2>4, <2>6, <2>7 DEF HandOK
<1>3. QED
  BY <1>1, <1>2

(* What a worker does with its message leads to "ack" only by the ack rule. *)
LEMMA HandWork ==
    ASSUME PipelineInv, AckInv, [Next]_vars, NEW w \in Workers, Work(w)
    PROVE  HandOK(worker'[w], msg', row')
<1>0. worker \in [Workers -> Worker] /\ WorkerOK(worker[w], row)
  BY DEF PipelineInv
<1>1. CASE Peek(w)
  BY <1>0, <1>1, HandStep DEF Peek, Goto, Leave, At, Busy, Owning, InTxn, Worker, Finished
<1>2. CASE CommitResult(w)
  <2>1. DocIn(w) \in Docs /\ Finished(row'[DocIn(w)])
    <3>1. DocIn(w) \in Docs
      BY <1>0, <1>2 DEF CommitResult, WorkerOK, DocIn, Busy, Owning, InTxn
    <3>2. open[DocIn(w)].status \in Terminal /\ row \in [Docs -> Row]
      BY <1>2, <3>1 DEF CommitResult, Commit, Free, PipelineInv, StoreInv, StoreTypeOK, Txn, NoTxn
    <3>3. row'[DocIn(w)] = Settled(row[DocIn(w)], open[DocIn(w)].status)
      BY <1>2, <3>1, <3>2 DEF CommitResult, Commit
    <3>4. QED
      BY <3>1, <3>2, <3>3 DEF Settled, Finished, Row
  <2>2. QED
    BY <1>0, <1>2, <2>1, HandStep DEF CommitResult, Goto, Busy, Owning, InTxn, Worker
<1>3. CASE FetchFails(w) \/ GraphRaises(w) \/ LastFail(w) \/ LastFailRaises(w)
  BY <1>0, <1>3, HandStep
  DEF FetchFails, GraphRaises, LastFail, LastFailRaises, Goto, Leave, At, Busy, Owning,
      InTxn, Worker
<1>4. CASE \/ ClaimDocument(w) \/ ClaimRefused(w) \/ Fetch(w) \/ NodeFinished(w)
           \/ \E verdict \in Terminal : GraphEnds(w, verdict)
  BY <1>0, <1>4, HandStep
  DEF ClaimDocument, ClaimRefused, Fetch, NodeFinished, GraphEnds, Goto, Leave, At, Busy,
      Owning, InTxn, Worker, workerVars
<1>5. CASE \/ Record(w) \/ Extend(w) \/ Publish(w) \/ PublishFails(w) \/ CommitFails(w)
           \/ Acknowledge(w) \/ ProcessRaises(w)
  BY <1>0, <1>5, HandStep
  DEF Record, Extend, Publish, PublishFails, CommitFails, Acknowledge, ProcessRaises, Goto,
      Leave, At, Busy, Owning, InTxn, Worker
<1>6. QED
  BY <1>1, <1>2, <1>3, <1>4, <1>5 DEF Work

LEMMA HandPoll ==
    ASSUME PipelineInv, AckInv, [Next]_vars, NEW w \in Workers, Poll(w)
    PROVE  HandOK(worker'[w], msg', row')
<1>0. worker \in [Workers -> Worker] /\ msg \in [Msgs -> Message]
  BY DEF PipelineInv, QueueTypeOK
<1>1. ASSUME NEW m \in Msgs, Receive(w, m)
      PROVE  HandOK(worker'[w], msg', row')
  <2>1. /\ worker'[w].pc = IF DocOf[m] \in Docs THEN "claim" ELSE "ack"
        /\ worker'[w].msg = m /\ worker'[w].receipt = msg'[m].count
    BY <1>0, <1>1 DEF Receive, At
  <2>2. msg'[m].state = "queued" /\ msg'[m].count \in Nat
    BY <1>0, <1>1, QueueAssumption DEF Receive, Deliver, Visible, Message
  <2>3. QED
    BY <2>1, <2>2 DEF HandOK
<1>2. CASE ReceiveNothing(w) \/ \E m \in Msgs : Redrive(w, m)
  BY <1>0, <1>2, HandStep
  DEF ReceiveNothing, Redrive, Leave, At, workerVars, Busy, Owning, InTxn
<1>3. QED
  BY <1>1, <1>2 DEF Poll

(* Every step keeps what each worker has in hand. *)
LEMMA HandsInv ==
    ASSUME PipelineInv, AckInv, [Next]_vars, NEW x \in Workers
    PROVE  HandOK(worker'[x], msg', row')
<1>0. worker \in [Workers -> Worker]
  BY DEF PipelineInv
<1>1. CASE worker'[x] = worker[x]
  BY <1>1, HandStep
<1>2. ASSUME NEW w \in Workers, Work(w) \/ Poll(w)
      PROVE  w # x => worker'[x] = worker[x]
  BY <1>0, <1>2
  DEF Work, ClaimDocument, ClaimRefused, Peek, Fetch, FetchFails, NodeFinished,
      GraphRaises, GraphEnds, LastFail, LastFailRaises, Acknowledge, ProcessRaises,
      Record, Extend, Publish, PublishFails, CommitResult, CommitFails, Poll, Receive,
      ReceiveNothing, Redrive, Goto, Leave, workerVars
<1>3. ASSUME NEW w \in Workers,
             Start(w) \/ Stop(w) \/ Sweeps(w) \/ LoopEnds(w) \/ Crash(w)
      PROVE  HandOK(worker'[x], msg', row')
  <2>1. worker'[x] = worker[x] \/ worker'[x].pc \in {"down", "top", "recv"}
    BY <1>0, <1>3
    DEF Start, Stop, Sweeps, ReapFirst, SkipReap, LoopEnds, Crash, Die, Goto, At, Worker
  <2>2. QED
    BY <1>1, <2>1, HandStep DEF Busy, Owning, InTxn
<1>4. ASSUME NEW w \in Workers, Beats(w) \/ ConnectionLost(w)
      PROVE  worker'[x] = worker[x]
  BY <1>4, BeatsExtend DEF ConnectionLost, workerVars
<1>5. CASE \/ \E d \in Docs : Intake(d)
           \/ \E m \in Msgs : Notify(m)
           \/ Tick \/ UNCHANGED vars
  <2>1. UNCHANGED worker
    BY <1>5 DEF Intake, RequestSlot, PutObject, UploadComplete, Notify, Tick, vars, workerVars
  <2>2. QED
    BY <1>1, <2>1
<1>6. QED
  BY <1>1, <1>2, <1>3, <1>4, <1>5, HandWork, HandPoll DEF Next

(* A message is deleted early by a worker in whose hand it was finished.   *)
LEMMA EarlyAckInv ==
    ASSUME PipelineInv, AckInv, [Next]_vars
    PROVE  EarlyAckMeansFinished'
<1> SUFFICES ASSUME NEW m \in Msgs, msg'[m].state = "deleted",
                    msg'[m].count < MaxReceiveCount, DocOf[m] \in Docs
             PROVE  Finished(row'[DocOf[m]])
  BY DEF EarlyAckMeansFinished, Finished
<1>0. msg[m].count \in Nat /\ msg'[m].count \in Nat /\ msg[m].count <= msg'[m].count
  <2>1. QueueTypeOK /\ QueueTypeOK'
    BY PipelineNextInv DEF PipelineInv
  <2>2. QED
    BY <2>1, QueueStep, QueueAssumption DEF QueueGoesOn, QueueTypeOK, Message
<1>1. msg[m].state # "unsent" /\ Finished(row[DocOf[m]])
  <2>1. CASE msg[m].state = "deleted"
    BY <1>0, <2>1, QueueAssumption DEF AckInv, EarlyAckMeansFinished, Finished
  <2>2. ASSUME NEW w \in Workers, Acknowledge(w), worker[w].msg = m
        PROVE  msg[m].state # "unsent" /\ Finished(row[DocOf[m]])
    <3>1. HandOK(worker[w], msg, row) /\ worker[w].pc = "ack" /\ worker[w].receipt \in Nat
      BY <2>2, QueueAssumption DEF AckInv, Acknowledge, PipelineInv, Worker
    <3>2. worker[w].receipt < MaxReceiveCount
      BY <1>0, <2>2, <3>1, QueueAssumption DEF HandOK
    <3>3. QED
      BY <2>2, <3>1, <3>2, QueueAssumption DEF HandOK
  <2>3. QED
    BY <2>1, <2>2, QueueStep DEF QueueGoesOn
<1>2. object[DocOf[m]]
  BY <1>1 DEF AckInv, SentHaveObjects
<1>3. QED
  BY <1>1, <1>2, FinishedStays

(* A message deleted before its last delivery names a document that is     *)
(* finished or has no row, or no document (_process 208-222), for any      *)
(* number of workers, duplicates, crashes and dropped transactions.        *)
THEOREM EarlyAckMeansFinishedAlways == Spec => []EarlyAckMeansFinished
<1>1. Init => AckInv
  BY DEF Init, QueueInit, AckInv, ObjectsHaveRows, SentHaveObjects, HandOK, At, Busy,
         Owning, InTxn, EarlyAckMeansFinished
<1>2. PipelineInv /\ AckInv /\ [Next]_vars => AckInv'
  BY IntakeInOrder, HandsInv, EarlyAckInv DEF AckInv
<1>3. AckInv => EarlyAckMeansFinished
  BY DEF AckInv
<1>4. QED
  BY <1>1, <1>2, <1>3, PipelineInvariant, PTL DEF Spec
===============================================================================
