------------------------------ MODULE Lifecycle ------------------------------
(***************************************************************************)
(* What a document is promised, with no lease, clock, transaction or       *)
(* worker: the status life cycle of ARCHITECTURE section 3, numbered       *)
(* processing attempts, and one settlement, written by the latest attempt  *)
(* or by the platform on its behalf (the reaper).                          *)
(*                                                                         *)
(* DocumentStore implements it; see DocumentStoreProofs and MCStore.       *)
(***************************************************************************)
EXTENDS Integers

CONSTANT Docs

VARIABLES
    status,     \* documents.status, "ABSENT" while there is no row
    attempt,    \* documents.attempt_count
    settledBy   \* history: the attempt that wrote the terminal status

lifecycleVars == <<status, attempt, settledBy>>

(* Status of models.py; "ABSENT" stands for the missing row. *)
Statuses == {"ABSENT", "UPLOADING", "QUEUED", "EXPIRED",
             "PROCESSING", "COMPLETED", "FAILED"}
Terminal == {"COMPLETED", "FAILED"}

(* Values of settledBy that are not an attempt. *)
Nobody == 0
TheReaper == -1

LifecycleInit ==
    /\ status = [d \in Docs |-> "ABSENT"]
    /\ attempt = [d \in Docs |-> 0]
    /\ settledBy = [d \in Docs |-> Nobody]

(* Intake moves a document forward, and only while no attempt was made. *)
Intake(d) ==
    /\ attempt[d] = 0
    /\ \/ status[d] = "ABSENT" /\ status' = [status EXCEPT ![d] = "UPLOADING"]
       \/ /\ status[d] = "UPLOADING"
          /\ \E s \in {"QUEUED", "EXPIRED"} : status' = [status EXCEPT ![d] = s]
    /\ UNCHANGED <<attempt, settledBy>>

(* A new attempt supersedes the one before it. *)
Attempt(d) ==
    /\ status[d] \notin Terminal \cup {"ABSENT"}
    /\ status' = [status EXCEPT ![d] = "PROCESSING"]
    /\ attempt' = [attempt EXCEPT ![d] = @ + 1]
    /\ UNCHANGED settledBy

(* One settlement, by the attempt that is the latest when it is written. *)
Settle(d) ==
    /\ status[d] = "PROCESSING"
    /\ \E s \in Terminal : status' = [status EXCEPT ![d] = s]
    /\ settledBy' = [settledBy EXCEPT ![d] = attempt[d]]
    /\ UNCHANGED attempt

(* The reaper sweeps any number of documents in one transaction. *)
Sweep ==
    \E failed \in SUBSET {d \in Docs : status[d] = "PROCESSING"},
       expired \in SUBSET {d \in Docs : status[d] = "UPLOADING"} :
        /\ status' = [d \in Docs |-> IF d \in failed THEN "FAILED"
                                     ELSE IF d \in expired THEN "EXPIRED"
                                     ELSE status[d]]
        /\ settledBy' = [d \in Docs |-> IF d \in failed THEN TheReaper
                                        ELSE settledBy[d]]
        /\ UNCHANGED attempt

LifecycleNext ==
    \/ \E d \in Docs : Intake(d) \/ Attempt(d) \/ Settle(d)
    \/ Sweep

LifecycleSpec == LifecycleInit /\ [][LifecycleNext]_lifecycleVars
=============================================================================
