------------------------------- MODULE MCPage -------------------------------
(* A page that opens on a document that is done or nearly, and uploads one. *)
EXTENDS Page

CONSTANTS d1, d2

MCDocs == {d1, d2}

MCPageInit ==
    /\ PageInit
    /\ server[d1] \in {"COMPLETED", "PROCESSING"} /\ server[d2] = "ABSENT"

MCPageSpec == MCPageInit /\ [][PageNext]_pageVars /\ PageFairness
=============================================================================
