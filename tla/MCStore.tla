------------------------------- MODULE MCStore -------------------------------
(* Small instance of DocumentStore: attempts are capped at MaxAttempts. *)
EXTENDS DocumentStore

CONSTANT MaxAttempts

MCNext == StoreNext /\ \A d \in Docs : row'[d].attempt <= MaxAttempts

MCSpec == StoreInit /\ [][MCNext]_storeVars
=============================================================================
