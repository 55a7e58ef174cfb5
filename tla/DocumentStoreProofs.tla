------------------------- MODULE DocumentStoreProofs -------------------------
(***************************************************************************)
(* Theorems about DocumentStore, for every set of documents, every length  *)
(* of lease and margin, and every client that presents issued tokens.      *)
(***************************************************************************)
EXTENDS DocumentStore, TLAPS

(* Before its first claim a document has no attempt. *)
UnclaimedIsFresh ==
    \A d \in Docs : row[d].status \in {"ABSENT", "UPLOADING", "QUEUED", "EXPIRED"} =>
        row[d].attempt = 0

(* A row being processed has a lease. *)
ProcessingIsLeased ==
    \A d \in Docs : row[d].status = "PROCESSING" => row[d].lease \in Lease

(* The inductive invariant of the table. *)
StoreInv ==
    /\ StoreTypeOK
    /\ OpenIsLatest
    /\ SettledByLatest
    /\ ProgressIsCurrent
    /\ UnclaimedIsFresh
    /\ ProcessingIsLeased

USE DEF Terminal, Nobody, TheReaper

(* The invariant, as it reads for one document. *)
RowInv(r, o, s) ==
    /\ r \in Row
    /\ o \in Txn
    /\ s \in Nat \cup {TheReaper}
    /\ o # NoTxn => r.status = "PROCESSING" /\ o.token = r.attempt
    /\ r.status \in Terminal => s \in {r.attempt, TheReaper}
    /\ r.step \in {0, r.attempt}
    /\ r.status \in {"ABSENT", "UPLOADING", "QUEUED", "EXPIRED"} => r.attempt = 0
    /\ r.status = "PROCESSING" => r.lease \in Lease

(* The invariant of the table is the invariant of each of its rows. *)
LEMMA StoreInvByRow ==
    ASSUME row \in [Docs -> Row], open \in [Docs -> Txn],
           settledBy \in [Docs -> Nat \cup {TheReaper}]
    PROVE  StoreInv <=> \A d \in Docs : RowInv(row[d], open[d], settledBy[d])
  BY DEF StoreInv, StoreTypeOK, OpenIsLatest, SettledByLatest, ProgressIsCurrent,
         UnclaimedIsFresh, ProcessingIsLeased, RowInv

(* The statement writes a whole row: the table is well formed after it and *)
(* only document d has changed.                                            *)
LEMMA OneRow ==
    ASSUME StoreInv, NEW d \in Docs,
           NEW r, NEW o, NEW s, RowInv(r, o, s),
           row' = [row EXCEPT ![d] = r],
           open' = [open EXCEPT ![d] = o],
           settledBy' = [settledBy EXCEPT ![d] = s]
    PROVE  StoreInv'
  BY DEF StoreInv, StoreTypeOK, OpenIsLatest, SettledByLatest, ProgressIsCurrent,
         UnclaimedIsFresh, ProcessingIsLeased, RowInv

(* A statement that commits and leaves transactions alone. *)
LEMMA OneStatement ==
    ASSUME StoreInv, NEW d \in Docs, NEW r, NEW s,
           RowInv(r, open[d], s),
           row' = [row EXCEPT ![d] = r],
           UNCHANGED open,
           settledBy' = [settledBy EXCEPT ![d] = s]
    PROVE  StoreInv'
<1>1. open' = [open EXCEPT ![d] = open[d]]
  BY DEF StoreInv, StoreTypeOK
<1>2. QED
  BY <1>1, OneRow

(* Rows stay well formed whatever statement a client runs on a document. *)
LEMMA StoreStepInv ==
    ASSUME StoreInv, NEW d \in Docs, StoreStep(d)
    PROVE  StoreInv'
<1> DEFINE R == row[d]
<1>0. /\ RowInv(R, open[d], settledBy[d])
      /\ row \in [Docs -> Row] /\ open \in [Docs -> Txn]
      /\ settledBy \in [Docs -> Nat \cup {TheReaper}]
      /\ settledBy = [settledBy EXCEPT ![d] = settledBy[d]]
      /\ row = [row EXCEPT ![d] = row[d]]
  BY StoreInvByRow DEF StoreInv, StoreTypeOK
<1>1. CASE Insert(d)
  <2> DEFINE r == [R EXCEPT !.status = "UPLOADING"]
  <2>1. row' = [row EXCEPT ![d] = r]
    BY <1>0, <1>1 DEF Insert
  <2>2. RowInv(r, open[d], settledBy[d])
    BY <1>0, <1>1 DEF Insert, RowInv, Row, Status
  <2>3. UNCHANGED open /\ settledBy' = [settledBy EXCEPT ![d] = settledBy[d]]
    BY <1>0, <1>1 DEF Insert
  <2> HIDE DEF r
  <2>4. QED
    BY <2>1, <2>2, <2>3, OneStatement
<1>2. CASE MarkQueued(d)
  <2> DEFINE r == [R EXCEPT !.status = "QUEUED"]
  <2>1. row' = [row EXCEPT ![d] = r]
    BY <1>0, <1>2 DEF MarkQueued
  <2>2. RowInv(r, open[d], settledBy[d])
    BY <1>0, <1>2 DEF MarkQueued, RowInv, Row, Status
  <2>3. UNCHANGED open /\ settledBy' = [settledBy EXCEPT ![d] = settledBy[d]]
    BY <1>0, <1>2 DEF MarkQueued
  <2> HIDE DEF r
  <2>4. QED
    BY <2>1, <2>2, <2>3, OneStatement
<1>3. CASE Claim(d)
  <2> DEFINE r == [R EXCEPT !.status = "PROCESSING", !.lease = LeaseSeconds,
                            !.attempt = @ + 1, !.step = 0]
  <2>1. row' = [row EXCEPT ![d] = r]
    BY <1>0, <1>3 DEF Claim
  <2>2. RowInv(r, open[d], settledBy[d])
    BY <1>0, <1>3, StoreAssumption
    DEF Claim, Claimable, Free, RowInv, Row, Status, Lease, Forgotten
  <2>3. UNCHANGED open /\ settledBy' = [settledBy EXCEPT ![d] = settledBy[d]]
    BY <1>0, <1>3 DEF Claim
  <2> HIDE DEF r
  <2>4. QED
    BY <2>1, <2>2, <2>3, OneStatement
<1>4. CASE Commit(d)
  <2> DEFINE r == Settled(R, open[d].status)
  <2>1. /\ row' = [row EXCEPT ![d] = r]
        /\ open' = [open EXCEPT ![d] = NoTxn]
        /\ settledBy' = [settledBy EXCEPT ![d] = open[d].token]
    BY <1>0, <1>4 DEF Commit
  <2>2. RowInv(r, NoTxn, open[d].token)
    BY <1>0, <1>4 DEF Commit, Free, Settled, RowInv, Row, Txn, NoTxn, Status
  <2> HIDE DEF r
  <2>3. QED
    BY <2>1, <2>2, OneRow
<1>5. CASE Rollback(d)
  <2>1. /\ row' = [row EXCEPT ![d] = R]
        /\ open' = [open EXCEPT ![d] = NoTxn]
        /\ settledBy' = [settledBy EXCEPT ![d] = settledBy[d]]
    BY <1>0, <1>5 DEF Rollback
  <2>2. RowInv(R, NoTxn, settledBy[d])
    BY <1>0 DEF RowInv, Txn
  <2> HIDE DEF R
  <2>3. QED
    BY <2>1, <2>2, OneRow
<1>6. ASSUME NEW token \in Issued(d), NEW noted \in {0, token},
             NEW asked \in Lease, ExtendLease(d, token, noted, asked)
      PROVE  StoreInv'
  <2> DEFINE r == [R EXCEPT !.lease = asked,
                            !.step = IF noted = 0 THEN @ ELSE noted]
  <2>1. row' = [row EXCEPT ![d] = r]
    BY <1>0, <1>6 DEF ExtendLease
  <2>2. RowInv(r, open[d], settledBy[d])
    <3>1. asked \in Lease /\ noted \in {0, R.attempt}
      BY <1>6 DEF ExtendLease, CurrentWhen, SameAttempt
    <3>2. R.status = "PROCESSING" /\ open[d] = NoTxn
      BY <1>6 DEF ExtendLease, CurrentWhen, SameAttempt, Free
    <3>3. QED
      BY <1>0, <3>1, <3>2 DEF RowInv, Row
  <2>3. UNCHANGED open /\ settledBy' = [settledBy EXCEPT ![d] = settledBy[d]]
    BY <1>0, <1>6 DEF ExtendLease
  <2> HIDE DEF r
  <2>4. QED
    BY <2>1, <2>2, <2>3, OneStatement
<1>7. ASSUME NEW token \in Issued(d), RecordStep(d, token)
      PROVE  StoreInv'
  <2> DEFINE r == [R EXCEPT !.step = token]
  <2>1. row' = [row EXCEPT ![d] = r]
    BY <1>0, <1>7 DEF RecordStep
  <2>2. RowInv(r, open[d], settledBy[d])
    BY <1>0, <1>7 DEF RecordStep, SameAttempt, RowInv, Row
  <2>3. UNCHANGED open /\ settledBy' = [settledBy EXCEPT ![d] = settledBy[d]]
    BY <1>0, <1>7 DEF RecordStep
  <2> HIDE DEF r
  <2>4. QED
    BY <2>1, <2>2, <2>3, OneStatement
<1>8. ASSUME NEW token \in Issued(d), NEW status \in Terminal,
             Finish(d, token, status)
      PROVE  StoreInv'
  <2> DEFINE r == Settled(R, status)
  <2>1. row' = [row EXCEPT ![d] = r]
    BY <1>0, <1>8 DEF Finish
  <2>2. RowInv(r, open[d], token)
    BY <1>0, <1>8 DEF Finish, Free, Current, Settled, RowInv, Row, Status, Issued
  <2>3. UNCHANGED open /\ settledBy' = [settledBy EXCEPT ![d] = token]
    BY <1>0, <1>8 DEF Finish
  <2> HIDE DEF r
  <2>4. QED
    BY <2>1, <2>2, <2>3, OneStatement
<1>9. ASSUME NEW token \in Issued(d), NEW status \in Terminal,
             FinishUncommitted(d, token, status)
      PROVE  StoreInv'
  <2> DEFINE o == [token |-> token, status |-> status]
  <2>1. /\ row' = [row EXCEPT ![d] = R]
        /\ open' = [open EXCEPT ![d] = o]
        /\ settledBy' = [settledBy EXCEPT ![d] = settledBy[d]]
    BY <1>0, <1>9 DEF FinishUncommitted
  <2>2. RowInv(R, o, settledBy[d])
    BY <1>0, <1>9 DEF FinishUncommitted, Current, RowInv, Row, Txn, Issued
  <2> HIDE DEF R, o
  <2>3. QED
    BY <2>1, <2>2, OneRow
<1>10. QED
  BY <1>1, <1>2, <1>3, <1>4, <1>5, <1>6, <1>7, <1>8, <1>9 DEF StoreStep

(* Both sweeps, and the passing of time, work row by row. *)
LEMMA ReapInv ==
    ASSUME StoreInv, Reap
    PROVE  StoreInv'
<1>1. \A d \in Docs : RowInv(row[d], open[d], settledBy[d])
  BY StoreInvByRow DEF StoreInv, StoreTypeOK
<1>2. ASSUME NEW d \in Docs
      PROVE  RowInv(row'[d], open'[d], settledBy'[d])
  <2>1. CASE Stuck(row[d])
    BY <1>1, <2>1 DEF Reap, Reaped, Stuck, Free, RowInv, Row, Status
  <2>2. CASE ~Stuck(row[d])
    BY <1>1, <2>2 DEF Reap, Reaped, Abandoned, RowInv, Row, Status
  <2>3. QED
    BY <2>1, <2>2
<1>3. /\ row' = [d \in Docs |-> row'[d]]
      /\ settledBy' = [d \in Docs |-> settledBy'[d]]
      /\ open' \in [Docs -> Txn]
  BY DEF Reap, StoreInv, StoreTypeOK
<1>4. row' \in [Docs -> Row] /\ settledBy' \in [Docs -> Nat \cup {TheReaper}]
  BY <1>2, <1>3 DEF RowInv
<1>5. QED
  BY <1>2, <1>3, <1>4
  DEF StoreInv, StoreTypeOK, OpenIsLatest, SettledByLatest, ProgressIsCurrent,
      UnclaimedIsFresh, ProcessingIsLeased, RowInv

LEMMA StoreTickInv ==
    ASSUME StoreInv, StoreTick
    PROVE  StoreInv'
<1>1. \A d \in Docs : RowInv(row[d], open[d], settledBy[d])
  BY StoreInvByRow DEF StoreInv, StoreTypeOK
<1>2. ASSUME NEW d \in Docs
      PROVE  RowInv(row'[d], open'[d], settledBy'[d])
  <2>0. row'[d] = Aged(row[d]) /\ UNCHANGED <<open, settledBy>>
    BY DEF StoreTick
  <2>1. CASE row[d].status = "PROCESSING"
    BY <1>1, <2>0, <2>1, StoreAssumption DEF Aged, RowInv, Row, Lease, Forgotten
  <2>2. CASE row[d].status = "UPLOADING"
    BY <1>1, <2>0, <2>2, StoreAssumption DEF Aged, RowInv, Row
  <2>3. CASE row[d].status \notin {"PROCESSING", "UPLOADING"}
    BY <1>1, <2>0, <2>3 DEF Aged, RowInv
  <2>4. QED
    BY <2>1, <2>2, <2>3
<1>3. /\ row' = [d \in Docs |-> row'[d]]
      /\ UNCHANGED <<open, settledBy>>
  BY DEF StoreTick
<1>4. row' \in [Docs -> Row]
  BY <1>2, <1>3 DEF RowInv
<1>5. QED
  BY <1>2, <1>3, <1>4
  DEF StoreInv, StoreTypeOK, OpenIsLatest, SettledByLatest, ProgressIsCurrent,
      UnclaimedIsFresh, ProcessingIsLeased, RowInv

LEMMA StoreInitInv == StoreInit => StoreInv
  BY StoreAssumption
  DEF StoreInit, StoreInv, StoreTypeOK, OpenIsLatest, SettledByLatest,
      ProgressIsCurrent, UnclaimedIsFresh, ProcessingIsLeased, NoRow, NoTxn, Row, Txn

LEMMA StoreNextInv ==
    ASSUME StoreInv, [StoreNext]_storeVars
    PROVE  StoreInv'
<1>1. CASE \E d \in Docs : StoreStep(d)
  BY <1>1, StoreStepInv
<1>2. CASE Reap
  BY <1>2, ReapInv
<1>3. CASE StoreTick
  BY <1>3, StoreTickInv
<1>4. CASE UNCHANGED storeVars
  BY <1>4
  DEF storeVars, StoreInv, StoreTypeOK, OpenIsLatest, SettledByLatest,
      ProgressIsCurrent, UnclaimedIsFresh, ProcessingIsLeased
<1>5. QED
  BY <1>1, <1>2, <1>3, <1>4 DEF StoreNext

(* The invariant holds of every behaviour of the table. *)
THEOREM StoreInvariant == StoreSpec => []StoreInv
<1>1. StoreInit => StoreInv
  BY StoreInitInv
<1>2. StoreInv /\ [StoreNext]_storeVars => StoreInv'
  BY StoreNextInv
<1>3. QED
  BY <1>1, <1>2, PTL DEF StoreSpec

(* Rows, open transactions and settlements keep their types. *)
THEOREM StoreTypeCorrect == StoreSpec => []StoreTypeOK
  BY StoreInvariant, PTL DEF StoreInv

(* A terminal status is the latest attempt's or the reaper's, whichever    *)
(* tokens clients present and however leases lapse (the fence of claim.py).*)
THEOREM Fencing == StoreSpec => []SettledByLatest
  BY StoreInvariant, PTL DEF StoreInv

(* The progress a document shows is the current attempt's (record_step).   *)
THEOREM Progress == StoreSpec => []ProgressIsCurrent
  BY StoreInvariant, PTL DEF StoreInv

(* An uncommitted finishing write is the latest attempt's (_finish).       *)
THEOREM OpenWrites == StoreSpec => []OpenIsLatest
  BY StoreInvariant, PTL DEF StoreInv

(* Finishing, sweeping and ageing a row keep its attempt. *)
LEMMA AttemptKept ==
    ASSUME NEW r \in Row, NEW status
    PROVE  /\ Settled(r, status).attempt = r.attempt
           /\ Reaped(r).attempt = r.attempt
           /\ Aged(r).attempt = r.attempt
<1>1. Settled(r, status).attempt = r.attempt
  BY DEF Settled, Row
<1>2. Reaped(r).attempt = r.attempt
  BY DEF Reaped, Row
<1>3. Aged(r).attempt = r.attempt
  <2>1. CASE r.status = "PROCESSING"
    BY <2>1 DEF Aged, Row
  <2>2. CASE r.status = "UPLOADING"
    BY <2>2 DEF Aged, Row
  <2>3. CASE r.status \notin {"PROCESSING", "UPLOADING"}
    BY <2>3 DEF Aged
  <2>4. QED
    BY <2>1, <2>2, <2>3
<1>4. QED
  BY <1>1, <1>2, <1>3

(* attempt_count never goes down. *)
LEMMA AttemptsGrow ==
    ASSUME StoreInv, [StoreNext]_storeVars, NEW d \in Docs
    PROVE  /\ row[d].attempt \in Nat /\ row'[d].attempt \in Nat
           /\ row'[d].attempt >= row[d].attempt
<1>0. /\ row \in [Docs -> Row] /\ row[d] \in Row /\ row[d].attempt \in Nat
  BY DEF StoreInv, StoreTypeOK, Row
<1>1. CASE \E e \in Docs : StoreStep(e)
  <2>1. PICK e \in Docs : StoreStep(e)
    BY <1>1
  <2>2. CASE Claim(e)
    BY <1>0, <2>2 DEF Claim, Row
  <2>3. CASE Insert(e) \/ MarkQueued(e) \/ Commit(e) \/ Rollback(e)
    BY <1>0, <2>3, AttemptKept DEF Insert, MarkQueued, Commit, Rollback, Row
  <2>4. ASSUME NEW token \in Issued(e), NEW noted \in {0, token},
               NEW asked \in Lease, ExtendLease(e, token, noted, asked)
        PROVE  row'[d].attempt = row[d].attempt
    BY <1>0, <2>4 DEF ExtendLease, Row
  <2>5. ASSUME NEW token \in Issued(e), RecordStep(e, token)
        PROVE  row'[d].attempt = row[d].attempt
    BY <1>0, <2>5 DEF RecordStep, Row
  <2>6. ASSUME NEW token \in Issued(e), NEW status \in Terminal,
               Finish(e, token, status) \/ FinishUncommitted(e, token, status)
        PROVE  row'[d].attempt = row[d].attempt
    BY <1>0, <2>6, AttemptKept DEF Finish, FinishUncommitted
  <2>7. QED
    BY <1>0, <2>1, <2>2, <2>3, <2>4, <2>5, <2>6 DEF StoreStep
<1>2. CASE Reap
  BY <1>0, <1>2, AttemptKept DEF Reap
<1>3. CASE StoreTick
  BY <1>0, <1>3, AttemptKept DEF StoreTick
<1>4. CASE UNCHANGED storeVars
  BY <1>0, <1>4 DEF storeVars
<1>5. QED
  BY <1>1, <1>2, <1>3, <1>4 DEF StoreNext

-----------------------------------------------------------------------------
(* Leases. *)

Revived(d) ==
    /\ row[d].status = "PROCESSING" /\ row[d].lease <= 0
    /\ row'[d].status = "PROCESSING" /\ row'[d].lease > row[d].lease

RenewedInTime(d) ==
    /\ row'[d].attempt = row[d].attempt
    /\ row'[d].lease < LeaseSeconds + row[d].lease

(* Only a claim raises a lease that is not live, or a beat that asked while *)
(* it was.                                                                 *)
LEMMA RevivedByClaim ==
    ASSUME StoreInv, [StoreNext]_storeVars, NEW d \in Docs, Revived(d)
    PROVE  row'[d].attempt = row[d].attempt + 1 \/ RenewedInTime(d)
<1>0. /\ row \in [Docs -> Row]
      /\ row[d] \in Row /\ row[d].lease \in Int
      /\ open[d] # NoTxn => row[d].status = "PROCESSING"
  BY StoreAssumption DEF StoreInv, StoreTypeOK, ProcessingIsLeased, OpenIsLatest,
                         Revived, Lease, Forgotten
<1>1. ~(row[d] = row'[d])
  BY <1>0 DEF Revived
<1>2. ASSUME NEW e \in Docs, StoreStep(e)
      PROVE  row'[d].attempt = row[d].attempt + 1 \/ RenewedInTime(d)
  <2>1. CASE Claim(e)
    BY <1>0, <1>1, <2>1 DEF Claim, Row
  <2>2. CASE Commit(e)
    BY <1>0, <1>1, <2>2 DEF Commit, Settled, Free, Revived, StoreInv, StoreTypeOK, Txn
  <2>3. CASE Insert(e) \/ MarkQueued(e) \/ Rollback(e)
    BY <1>0, <1>1, <2>3 DEF Insert, MarkQueued, Rollback, Revived, Row
  <2>4. ASSUME NEW token \in Issued(e), NEW noted \in {0, token},
               NEW asked \in Lease, ExtendLease(e, token, noted, asked)
        PROVE  RenewedInTime(d)
    <3>1. /\ d = e
          /\ row'[d].lease = asked /\ row'[d].attempt = row[d].attempt
          /\ row[d].lease > asked - LeaseSeconds
      BY <1>0, <1>1, <2>4 DEF ExtendLease, CurrentWhen, Row
    <3>2. LeaseSeconds \in Int /\ asked \in Int
      BY StoreAssumption DEF Lease, Forgotten
    <3>3. QED
      BY <1>0, <3>1, <3>2 DEF RenewedInTime
  <2>5. ASSUME NEW token \in Issued(e), RecordStep(e, token)
        PROVE  FALSE
    BY <1>0, <1>1, <2>5 DEF RecordStep, Revived, Row
  <2>6. ASSUME NEW token \in Issued(e), NEW status \in Terminal,
               Finish(e, token, status) \/ FinishUncommitted(e, token, status)
        PROVE  FALSE
    BY <1>0, <1>1, <2>6 DEF Finish, FinishUncommitted, Settled, Revived, Row
  <2>7. QED
    BY <1>2, <2>1, <2>2, <2>3, <2>4, <2>5, <2>6 DEF StoreStep
<1>3. CASE Reap
  BY <1>0, <1>1, <1>3 DEF Reap, Reaped, Stuck, Abandoned, Revived, Row
<1>4. CASE StoreTick
  BY <1>0, <1>1, <1>4 DEF StoreTick, Aged, Revived, Row
<1>5. CASE UNCHANGED storeVars
  BY <1>1, <1>5 DEF storeVars
<1>6. QED
  BY <1>2, <1>3, <1>4, <1>5 DEF StoreNext

(* A lease that lapsed comes back only with a new attempt, or by a beat of *)
(* its own that asked in time, for no longer than that beat would have had *)
(* at once: less than lease_seconds after it lapsed (HEARTBEAT_SQL).       *)
THEOREM LapsedLeasesStayLapsed == StoreSpec => LeaseNotRevived
<1>1. StoreInv /\ [StoreNext]_storeVars =>
        \A d \in Docs :
            Revived(d) => row'[d].attempt = row[d].attempt + 1 \/ RenewedInTime(d)
  BY RevivedByClaim
<1>2. StoreInv /\ [StoreNext]_storeVars =>
        [\A d \in Docs :
            /\ row[d].status = "PROCESSING" /\ row[d].lease <= 0
            /\ row'[d].status = "PROCESSING" /\ row'[d].lease > row[d].lease
            => \/ row'[d].attempt = row[d].attempt + 1
               \/ /\ row'[d].attempt = row[d].attempt
                  /\ row'[d].lease < LeaseSeconds + row[d].lease]_storeVars
  BY <1>1 DEF Revived, RenewedInTime
<1>3. QED
  BY <1>2, StoreInvariant, PTL DEF StoreSpec, LeaseNotRevived

-----------------------------------------------------------------------------
(* The table implements the life cycle. *)

statusBar == [d \in Docs |-> row[d].status]
attemptBar == [d \in Docs |-> row[d].attempt]

LEMMA LifecycleInitMapped == StoreInit => LC!LifecycleInit
  BY DEF StoreInit, NoRow, LC!LifecycleInit, LC!Nobody

(* Each write to one row is one step of the life cycle, or none. *)
LEMMA StoreStepMapped ==
    ASSUME StoreInv, NEW d \in Docs, StoreStep(d)
    PROVE  LC!LifecycleNext \/ UNCHANGED LC!lifecycleVars
<1>0. /\ row \in [Docs -> Row] /\ open \in [Docs -> Txn]
      /\ row[d].attempt \in Nat
      /\ row[d].status \in {"ABSENT", "UPLOADING", "QUEUED", "EXPIRED"} =>
            row[d].attempt = 0
  BY DEF StoreInv, StoreTypeOK, UnclaimedIsFresh, Row
<1>1. CASE Insert(d) \/ MarkQueued(d)
  <2>1. LC!Intake(d)
    BY <1>0, <1>1 DEF Insert, MarkQueued, LC!Intake, Row
  <2>2. QED
    BY <2>1 DEF LC!LifecycleNext
<1>2. CASE Claim(d)
  <2>1. LC!Attempt(d)
    BY <1>0, <1>2 DEF Claim, Claimable, LC!Attempt, LC!Terminal, Row
  <2>2. QED
    BY <2>1 DEF LC!LifecycleNext
<1>3. CASE Commit(d)
  <2>1. row[d].status = "PROCESSING" /\ open[d].token = row[d].attempt
        /\ open[d].status \in Terminal
    BY <1>0, <1>3 DEF Commit, Free, StoreInv, OpenIsLatest, Txn
  <2>2. LC!Settle(d)
    BY <1>0, <1>3, <2>1 DEF Commit, Settled, LC!Settle, LC!Terminal, Row
  <2>3. QED
    BY <2>2 DEF LC!LifecycleNext
<1>4. CASE Rollback(d)
  BY <1>4 DEF Rollback, LC!lifecycleVars
<1>5. ASSUME NEW token \in Issued(d), NEW noted \in {0, token},
             NEW asked \in Lease, ExtendLease(d, token, noted, asked)
      PROVE  UNCHANGED LC!lifecycleVars
  BY <1>0, <1>5 DEF ExtendLease, LC!lifecycleVars, Row
<1>6. ASSUME NEW token \in Issued(d), RecordStep(d, token)
      PROVE  UNCHANGED LC!lifecycleVars
  BY <1>0, <1>6 DEF RecordStep, LC!lifecycleVars, Row
<1>7. ASSUME NEW token \in Issued(d), NEW status \in Terminal,
             Finish(d, token, status)
      PROVE  LC!LifecycleNext
  <2>1. LC!Settle(d)
    BY <1>0, <1>7 DEF Finish, Current, Settled, LC!Settle, LC!Terminal, Row
  <2>2. QED
    BY <2>1 DEF LC!LifecycleNext
<1>8. ASSUME NEW token \in Issued(d), NEW status \in Terminal,
             FinishUncommitted(d, token, status)
      PROVE  UNCHANGED LC!lifecycleVars
  BY <1>8 DEF FinishUncommitted, LC!lifecycleVars
<1>9. QED
  BY <1>1, <1>2, <1>3, <1>4, <1>5, <1>6, <1>7, <1>8 DEF StoreStep

LEMMA ReapMapped ==
    ASSUME StoreInv, Reap
    PROVE  LC!Sweep
<1> DEFINE failed == {d \in Docs : Stuck(row[d])}
           expired == {d \in Docs : Abandoned(row[d])}
<1>0. row \in [Docs -> Row]
  BY DEF StoreInv, StoreTypeOK
<1>1. /\ failed \in SUBSET {d \in Docs : statusBar[d] = "PROCESSING"}
      /\ expired \in SUBSET {d \in Docs : statusBar[d] = "UPLOADING"}
  BY DEF Stuck, Abandoned, statusBar
<1>2. ASSUME NEW d \in Docs
      PROVE  /\ statusBar'[d] = IF d \in failed THEN "FAILED"
                                ELSE IF d \in expired THEN "EXPIRED"
                                ELSE statusBar[d]
             /\ attemptBar'[d] = attemptBar[d]
  BY <1>0 DEF Reap, Reaped, Stuck, Abandoned, statusBar, attemptBar, Row
<1>3. /\ statusBar' = [d \in Docs |-> IF d \in failed THEN "FAILED"
                                      ELSE IF d \in expired THEN "EXPIRED"
                                      ELSE statusBar[d]]
      /\ UNCHANGED attemptBar
  BY <1>2 DEF statusBar, attemptBar
<1>4. settledBy' = [d \in Docs |-> IF d \in failed THEN LC!TheReaper
                                   ELSE settledBy[d]]
  BY DEF Reap, LC!TheReaper
<1> HIDE DEF failed, expired
<1>5. QED
  BY <1>1, <1>3, <1>4 DEF LC!Sweep, statusBar, attemptBar

LEMMA StoreTickMapped ==
    ASSUME StoreInv, StoreTick
    PROVE  UNCHANGED LC!lifecycleVars
<1>1. row \in [Docs -> Row]
  BY DEF StoreInv, StoreTypeOK
<1>2. ASSUME NEW d \in Docs
      PROVE  row'[d].status = row[d].status /\ row'[d].attempt = row[d].attempt
  BY <1>1 DEF StoreTick, Aged, Row
<1>3. QED
  BY <1>2 DEF StoreTick, LC!lifecycleVars

(* Every behaviour of the table is one of the life cycle: intake only      *)
(* before the first attempt, attempts numbered one by one, and a single    *)
(* settlement by the latest attempt or the reaper.                         *)
THEOREM LifecycleRefined == StoreSpec => ImplementsLifecycle
<1>1. StoreInit => LC!LifecycleInit
  BY LifecycleInitMapped
<1>2. StoreInv /\ [StoreNext]_storeVars => [LC!LifecycleNext]_(LC!lifecycleVars)
  <2> SUFFICES ASSUME StoreInv, [StoreNext]_storeVars
               PROVE  LC!LifecycleNext \/ UNCHANGED LC!lifecycleVars
    OBVIOUS
  <2>1. CASE \E d \in Docs : StoreStep(d)
    BY <2>1, StoreStepMapped
  <2>2. CASE Reap
    BY <2>2, ReapMapped DEF LC!LifecycleNext
  <2>3. CASE StoreTick
    BY <2>3, StoreTickMapped
  <2>4. CASE UNCHANGED storeVars
    BY <2>4 DEF storeVars, LC!lifecycleVars
  <2>5. QED
    BY <2>1, <2>2, <2>3, <2>4 DEF StoreNext
<1>3. QED
  BY <1>1, <1>2, StoreInvariant, PTL DEF StoreSpec, ImplementsLifecycle, LC!LifecycleSpec
=============================================================================
