--------------------------- MODULE DocumentedClaims ---------------------------
(***************************************************************************)
(* What comments, docstrings and tests of the repository say of the        *)
(* pipeline and the code does not keep.  Each has a run that shows how it  *)
(* breaks; PROJECT.json's findings quote the line.                         *)
(***************************************************************************)
EXTENDS MCPipeline

(* "The ack rule that matters": a message about a document is deleted only *)
(* when the work is provably finished (main.py 209-213, test_ack_rules).   *)
AckMeansFinished ==
    \A m \in Msgs : msg[m].state = "deleted" /\ DocOf[m] \in Docs =>
        row[DocOf[m]].status \in Terminal \cup {"ABSENT"}

(* "These cover the two cases where nobody does" write a status (reaper.py *)
(* 3-4): a document handed to the queue is settled in the end.             *)
QueuedSettles ==
    \A d \in Docs : row[d].status = "QUEUED" ~> row[d].status \in Terminal
=============================================================================
