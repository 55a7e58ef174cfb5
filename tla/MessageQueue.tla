---------------------------- MODULE MessageQueue ----------------------------
(***************************************************************************)
(* The SQS queue between S3 and the workers, as infra/data.tf configures   *)
(* it and the worker uses it: at-least-once delivery under a visibility    *)
(* timeout, a receive count, and a redrive policy that moves a message     *)
(* to the dead letter queue once its deliveries are used up.  The service  *)
(* itself is external.                                                     *)
(***************************************************************************)
EXTENDS Integers

CONSTANTS
    Msgs,               \* the messages S3 may send
    VisibilitySeconds,  \* the visibility timeout, LEASE_SECONDS in both uses
    MaxReceiveCount     \* maxReceiveCount of the redrive policy

ASSUME QueueAssumption ==
    /\ VisibilitySeconds \in Nat \ {0}
    /\ MaxReceiveCount \in Nat \ {0}

VARIABLE msg

(* "unsent" before S3 sends it, "dead" once in the dead letter queue. *)
Message == [state : {"unsent", "queued", "deleted", "dead"},
            hidden : 0 .. VisibilitySeconds,
            count : 0 .. MaxReceiveCount]

QueueTypeOK == msg \in [Msgs -> Message]

QueueInit ==
    msg = [m \in Msgs |-> [state |-> "unsent", hidden |-> 0, count |-> 0]]

Visible(m) == msg[m].state = "queued" /\ msg[m].hidden = 0

(* Only a message in flight can have its visibility timeout changed. *)
InFlight(m) == msg[m].state = "queued" /\ msg[m].hidden > 0

Send(m) ==
    /\ msg[m].state = "unsent"
    /\ msg' = [msg EXCEPT ![m].state = "queued"]

(* receive_message: hides the message and counts the delivery. *)
Deliver(m) ==
    /\ Visible(m)
    /\ msg[m].count < MaxReceiveCount
    /\ msg' = [msg EXCEPT ![m].hidden = VisibilitySeconds, ![m].count = @ + 1]

(* The redrive policy, applied when the message would be delivered again. *)
MoveToDeadLetter(m) ==
    /\ Visible(m)
    /\ msg[m].count = MaxReceiveCount
    /\ msg' = [msg EXCEPT ![m].state = "dead"]

(* change_message_visibility *)
Hide(m) ==
    /\ InFlight(m)
    /\ msg' = [msg EXCEPT ![m].hidden = VisibilitySeconds]

(* delete_message, with the handle of delivery number `receipt`.  The      *)
(* latest handle deletes; SQS accepts an older one and may do nothing.     *)
Remove(m, receipt) ==
    \/ msg' = [msg EXCEPT ![m] = IF @.state = "queued"
                                 THEN [@ EXCEPT !.state = "deleted", !.hidden = 0]
                                 ELSE @]
    \/ receipt # msg[m].count /\ UNCHANGED msg

QueueTick ==
    msg' = [m \in Msgs |-> [msg[m] EXCEPT !.hidden = IF @ > 0 THEN @ - 1 ELSE 0]]
=============================================================================
