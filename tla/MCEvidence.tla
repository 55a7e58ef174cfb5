------------------------------ MODULE MCEvidence ------------------------------
(* Small instances of Evidence: texts of two letters, a separator, a space. *)
EXTENDS Evidence

(* A number that keeps a tail; a name, masked whole; free text. *)
MCOrder == <<"number", "name", "summary">>

MCValues == {NULL, <<"a", "b">>, <<"a", " ", "b">>, <<"a", "b", "b">>, <<"b", "-", "b">>}
MCSnippets == {NULL, <<"b">>, <<"a", " ", " ", "b">>, <<" ">>}
MCSources == {<<"a", " ", "b">>, <<"b", "a", "b", "a">>}
MCQuotes == {NULL, <<"a", "b", "a", "b">>, <<"b", " ", "a", " ", " ", "b">>}
MCWellFormed == {<<"a", "b">>}

(* "Scrubbing every value, not only the ones on sensitive fields, is what  *)
(* makes that impossible rather than unlikely" (mask.py 241-242): no field *)
(* of the report carries a value that a tagged field was given.            *)
TaggedValuesAreScrubbed ==
    stage = "masked" =>
        \A f \in Sensitive \ TailAllowed, u \in Fields \ Sensitive :
            Truthy(answer[f].value) /\ extracted[u].value # NULL =>
                ~Quoting(extracted[u].value, answer[f].value)
=============================================================================
