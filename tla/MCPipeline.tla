------------------------------ MODULE MCPipeline ------------------------------
(* Small instances of Pipeline. *)
EXTENDS Pipeline, TLC

CONSTANTS m1, m2, m3, d1, d2

(* One delivery history for one document. *)
OneMessage == m1 :> d1
(* S3 sent the notification of one object twice. *)
Duplicated == m1 :> d1 @@ m2 :> d1
(* A document, an object that no row stands for, and the S3 test event. *)
Mixed == m1 :> d1 @@ m2 :> d2 @@ m3 :> NotADocument

Symmetry == Permutations(Workers)
=============================================================================
