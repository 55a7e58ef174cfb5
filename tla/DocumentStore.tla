---------------------------- MODULE DocumentStore ----------------------------
(***************************************************************************)
(* The documents table and the statements that move a row: the API's       *)
(* insert and upload-complete, the worker's claim, heartbeat, progress and *)
(* finishing writes (worker/consumer/claim.py), the reaper's two sweeps    *)
(* (worker/consumer/reaper.py).                                            *)
(*                                                                         *)
(* Every statement is one action over committed rows.  A finishing write   *)
(* may stay uncommitted (commit=False): it is then an entry of `open`,     *)
(* which holds the row's lock until Commit or Rollback.  PostgreSQL tests  *)
(* a WHERE clause on the committed row first, so a statement that does not *)
(* match returns at once and one that matches a locked row waits: every    *)
(* action that writes a row has Free(d) beside its WHERE clause.           *)
(*                                                                         *)
(* A lease is the time left of it, moved by Tick: live above 0, expired    *)
(* below 0, neither at 0.  It stops counting one unit past the reaper's    *)
(* margin, where no statement can tell two values apart.  now() is the     *)
(* start of the transaction, which is the instant of the statement unless  *)
(* it waits: a heartbeat that waited says so (`asked` of ExtendLease).     *)
(***************************************************************************)
EXTENDS Integers

CONSTANTS
    Docs,           \* document ids
    LeaseSeconds,   \* CFG.lease_seconds
    GraceSeconds,   \* CFG.processing_grace_seconds
    UploadExpiry,   \* CFG.upload_expiry_seconds
    NULL            \* SQL NULL

ASSUME StoreAssumption ==
    /\ LeaseSeconds \in Nat \ {0}
    /\ GraceSeconds \in Nat
    /\ UploadExpiry \in Nat
    /\ NULL \notin Int

VARIABLES
    row,        \* the committed row of each document
    open,       \* the uncommitted finishing write on it, if any
    settledBy   \* history: the attempt that wrote the terminal status

storeVars == <<row, open, settledBy>>

Status == {"UPLOADING", "QUEUED", "EXPIRED", "PROCESSING", "COMPLETED", "FAILED"}
Terminal == {"COMPLETED", "FAILED"}

Forgotten == -(GraceSeconds + 1)     \* the least lease the model tells apart
Lease == Forgotten .. LeaseSeconds

(* current_step is abstracted to the attempt that wrote it, 0 for NULL. *)
Row == [status : Status \cup {"ABSENT"},
        lease : Lease \cup {NULL},
        attempt : Nat,
        step : Nat,
        age : 0 .. UploadExpiry + 1]

NoRow == [status |-> "ABSENT", lease |-> NULL, attempt |-> 0, step |-> 0, age |-> 0]

NoTxn == [token |-> 0, status |-> "NONE"]
Txn == [token : Nat \ {0}, status : Terminal] \cup {NoTxn}

(* Values of settledBy that are not an attempt. *)
Nobody == 0
TheReaper == -1

StoreTypeOK ==
    /\ row \in [Docs -> Row]
    /\ open \in [Docs -> Txn]
    /\ settledBy \in [Docs -> Nat \cup {TheReaper}]

StoreInit ==
    /\ row = [d \in Docs |-> NoRow]
    /\ open = [d \in Docs |-> NoTxn]
    /\ settledBy = [d \in Docs |-> Nobody]

-----------------------------------------------------------------------------
(* WHERE clauses. *)

(* Mutant: the claim does not name the statuses it accepts (claim.py 28). *)
ClaimableUnlessHeld(r) ==
    r.status # "ABSENT" /\ (r.status = "PROCESSING" => r.lease < 0)

(* CLAIMABLE, or an expired lease: the condition of CLAIM_SQL. *)
Claimable(r) ==
    \/ r.status \in {"UPLOADING", "QUEUED", "EXPIRED"}
    \/ r.status = "PROCESSING" /\ r.lease < 0

(* Mutant: a live lease is checked, but not whose it is (claim.py 56). *)
CurrentAnyHolder(r, token) ==
    r.status = "PROCESSING" /\ r.lease > 0

(* The fence of HEARTBEAT_SQL, COMPLETE_SQL and FAIL_SQL. *)
Current(r, token) ==
    r.status = "PROCESSING" /\ r.lease > 0 /\ r.attempt = token

(* Mutant: progress is not fenced. *)
SameAttemptUnfenced(r, token) == r.status = "PROCESSING"

(* The fence of STEP_SQL: progress does not ask for a live lease. *)
SameAttempt(r, token) ==
    r.status = "PROCESSING" /\ r.attempt = token

(* Current, as it was when a transaction began that by now would grant     *)
(* `asked`, lease_seconds after its start: lease_expires_at > now(), now() *)
(* being LeaseSeconds - asked ago.                                         *)
CurrentWhen(r, token, asked) ==
    SameAttempt(r, token) /\ r.lease > asked - LeaseSeconds

Stuck(r) == r.status = "PROCESSING" /\ r.lease < -GraceSeconds
Abandoned(r) == r.status = "UPLOADING" /\ r.age > UploadExpiry

(* Mutant: the uncommitted write holds no lock. *)
FreeAlways(d) == TRUE

Free(d) == open[d] = NoTxn

-----------------------------------------------------------------------------
(* The API. *)

(* create_document inserts the row and commits before it presigns. *)
Insert(d) ==
    /\ row[d].status = "ABSENT"
    /\ row' = [row EXCEPT ![d].status = "UPLOADING"]
    /\ UNCHANGED <<open, settledBy>>

(* Mutant: the UPDATE of upload_complete is not conditional. *)
MarkQueuedAlways(d) ==
    /\ row[d].status # "ABSENT"
    /\ Free(d)
    /\ row' = [row EXCEPT ![d].status = "QUEUED"]
    /\ UNCHANGED <<open, settledBy>>

(* The conditional UPDATE of upload_complete; zero rows is a normal race. *)
MarkQueued(d) ==
    /\ row[d].status = "UPLOADING"
    /\ Free(d)
    /\ row' = [row EXCEPT ![d].status = "QUEUED"]
    /\ UNCHANGED <<open, settledBy>>

-----------------------------------------------------------------------------
(* The worker. *)

(* Mutant: only a fresh document gets a new attempt, a reclaim keeps it. *)
ClaimKeepsAttempt(d) ==
    /\ Claimable(row[d])
    /\ Free(d)
    /\ row' = [row EXCEPT ![d].status = "PROCESSING",
                          ![d].lease = LeaseSeconds,
                          ![d].attempt = IF row[d].status = "PROCESSING"
                                         THEN @ ELSE @ + 1,
                          ![d].step = 0]
    /\ UNCHANGED <<open, settledBy>>

Claim(d) ==
    /\ Claimable(row[d])
    /\ Free(d)
    /\ row' = [row EXCEPT ![d].status = "PROCESSING",
                          ![d].lease = LeaseSeconds,
                          ![d].attempt = @ + 1,
                          ![d].step = 0]
    /\ UNCHANGED <<open, settledBy>>

(* Mutant: a beat adds to what is left of the lease. *)
ExtendLeaseFurther(d, token, noted, asked) ==
    /\ CurrentWhen(row[d], token, asked)
    /\ Free(d)
    /\ row' = [row EXCEPT ![d].lease = @ + LeaseSeconds,
                          ![d].step = IF noted = 0 THEN @ ELSE noted]
    /\ UNCHANGED <<open, settledBy>>

(* Mutant: the new lease counts from the grant (clock_timestamp()). *)
ExtendLeaseFromGrant(d, token, noted, asked) ==
    /\ CurrentWhen(row[d], token, asked)
    /\ Free(d)
    /\ row' = [row EXCEPT ![d].lease = LeaseSeconds,
                          ![d].step = IF noted = 0 THEN @ ELSE noted]
    /\ UNCHANGED <<open, settledBy>>

(* `noted` is the heartbeat's current_step, 0 while no node has finished:  *)
(* COALESCE keeps the column then.  `asked` is what the new lease comes to *)
(* when it is granted: LeaseSeconds, less the wait for the row's lock.     *)
ExtendLease(d, token, noted, asked) ==
    /\ CurrentWhen(row[d], token, asked)
    /\ Free(d)
    /\ row' = [row EXCEPT ![d].lease = asked,
                          ![d].step = IF noted = 0 THEN @ ELSE noted]
    /\ UNCHANGED <<open, settledBy>>

RecordStep(d, token) ==
    /\ SameAttempt(row[d], token)
    /\ Free(d)
    /\ row' = [row EXCEPT ![d].step = token]
    /\ UNCHANGED <<open, settledBy>>

(* The row COMPLETE_SQL and FAIL_SQL write. *)
Settled(r, status) == [r EXCEPT !.status = status, !.lease = NULL, !.step = 0]

(* _finish with commit=True: the write and its commit. *)
Finish(d, token, status) ==
    /\ Current(row[d], token)
    /\ Free(d)
    /\ row' = [row EXCEPT ![d] = Settled(@, status)]
    /\ settledBy' = [settledBy EXCEPT ![d] = token]
    /\ UNCHANGED open

(* _finish with commit=False: the write matched and keeps the row's lock. *)
FinishUncommitted(d, token, status) ==
    /\ Current(row[d], token)
    /\ Free(d)
    /\ open' = [open EXCEPT ![d] = [token |-> token, status |-> status]]
    /\ UNCHANGED <<row, settledBy>>

Commit(d) ==
    /\ ~Free(d)
    /\ row' = [row EXCEPT ![d] = Settled(@, open[d].status)]
    /\ settledBy' = [settledBy EXCEPT ![d] = open[d].token]
    /\ open' = [open EXCEPT ![d] = NoTxn]

(* conn.rollback(), and what PostgreSQL does when the connection is gone. *)
Rollback(d) ==
    /\ ~Free(d)
    /\ open' = [open EXCEPT ![d] = NoTxn]
    /\ UNCHANGED <<row, settledBy>>

-----------------------------------------------------------------------------
(* The reaper. *)

(* Mutant: only abandoned uploads are swept. *)
ReapedUploadsOnly(r) ==
    IF Abandoned(r) THEN [r EXCEPT !.status = "EXPIRED"] ELSE r

(* REAP_PROCESSING_SQL and REAP_UPLOADING_SQL on one row. *)
Reaped(r) ==
    IF Stuck(r) THEN [r EXCEPT !.status = "FAILED", !.lease = NULL, !.step = 0]
    ELSE IF Abandoned(r) THEN [r EXCEPT !.status = "EXPIRED"]
    ELSE r

(* reap: both sweeps, one transaction; it waits for a lock on any match. *)
Reap ==
    /\ \A d \in Docs : Stuck(row[d]) => Free(d)
    /\ row' = [d \in Docs |-> Reaped(row[d])]
    /\ settledBy' = [d \in Docs |-> IF Stuck(row[d]) THEN TheReaper
                                    ELSE settledBy[d]]
    /\ UNCHANGED open

-----------------------------------------------------------------------------
(* Time, as the rows see it. *)

Aged(r) ==
    CASE r.status = "PROCESSING" ->
            [r EXCEPT !.lease = IF @ > Forgotten THEN @ - 1 ELSE @]
      [] r.status = "UPLOADING" ->
            [r EXCEPT !.age = IF @ <= UploadExpiry THEN @ + 1 ELSE @]
      [] OTHER -> r

StoreTick ==
    /\ row' = [d \in Docs |-> Aged(row[d])]
    /\ UNCHANGED <<open, settledBy>>

-----------------------------------------------------------------------------
(* The table under any clients at all: a client may present, at any time,  *)
(* any token a claim has ever returned.                                    *)

Issued(d) == 1 .. row[d].attempt

StoreStep(d) ==
    \/ Insert(d)
    \/ MarkQueued(d)
    \/ Claim(d)
    \/ Commit(d)
    \/ Rollback(d)
    \/ \E token \in Issued(d) :
        \/ \E noted \in {0, token}, asked \in Lease :
                ExtendLease(d, token, noted, asked)
        \/ RecordStep(d, token)
        \/ \E status \in Terminal : \/ Finish(d, token, status)
                                    \/ FinishUncommitted(d, token, status)

StoreNext ==
    \/ \E d \in Docs : StoreStep(d)
    \/ Reap
    \/ StoreTick

StoreSpec == StoreInit /\ [][StoreNext]_storeVars

-----------------------------------------------------------------------------
(* A terminal status is the latest attempt's, or the reaper's: no attempt  *)
(* that was superseded ever settles a document (claim.py 54-63, 76-77).    *)
SettledByLatest ==
    \A d \in Docs : row[d].status \in Terminal =>
        settledBy[d] \in {row[d].attempt, TheReaper}

(* The progress shown for a document is the current attempt's own: neither *)
(* a superseded worker's report nor a leftover of the attempt before       *)
(* (record_step, and current_step = NULL in CLAIM_SQL).                    *)
ProgressIsCurrent ==
    \A d \in Docs : row[d].step \in {0, row[d].attempt}

(* An expired lease comes back only with a claim, which takes a new        *)
(* attempt, or with a beat of its own attempt that asked while it lived    *)
(* and then waited for the row; that one is over less than lease_seconds   *)
(* after the lease it renews was, however long it waited (HEARTBEAT_SQL).  *)
LeaseNotRevived ==
    [][\A d \in Docs :
          /\ row[d].status = "PROCESSING" /\ row[d].lease <= 0
          /\ row'[d].status = "PROCESSING" /\ row'[d].lease > row[d].lease
          => \/ row'[d].attempt = row[d].attempt + 1
             \/ /\ row'[d].attempt = row[d].attempt
                /\ row'[d].lease < LeaseSeconds + row[d].lease]_storeVars

(* While a finishing write is uncommitted the row is untouched by anyone   *)
(* else, so what commits is the attempt that was fenced (_finish).         *)
OpenIsLatest ==
    \A d \in Docs : open[d] # NoTxn =>
        row[d].status = "PROCESSING" /\ open[d].token = row[d].attempt

(* The life cycle the table implements. *)
LC == INSTANCE Lifecycle WITH
        status <- [d \in Docs |-> row[d].status],
        attempt <- [d \in Docs |-> row[d].attempt]

ImplementsLifecycle == LC!LifecycleSpec
=============================================================================
