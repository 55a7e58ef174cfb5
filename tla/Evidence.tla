------------------------------- MODULE Evidence -------------------------------
(***************************************************************************)
(* The deterministic rules between extraction and report: rules/snippets.py*)
(* checks every value's evidence, rules/validate.py what is required and   *)
(* well formed, rules/mask.py scrubs the values the schema tags as         *)
(* sensitive out of every text that goes on to the report.                 *)
(*                                                                         *)
(* A text is a sequence of characters: Letters are the alphanumeric ones,  *)
(* up to case, which both matchers ignore; Space is any white space; the   *)
(* others separate.  A cell of a nested row is a field never tagged.       *)
(***************************************************************************)
EXTENDS Integers, Sequences, FiniteSets, SequencesExt

CONSTANTS
    Letters, Separators,
    FieldOrder,         \* the schema's fields, in its order
    Sensitive,          \* those tagged pii
    TailAllowed,        \* those tagged pii: "tail"
    Required,           \* REQUIRED_FIELDS
    Checked,            \* dates, amounts and numbers, which have a format
    WellFormed,         \* the texts of that format
    VISIBLE_TAIL, MIN_LENGTH_FOR_TAIL,
    Values, Snippets, Sources, Quotes,  \* bounds of the model: texts, or NULL
    NULL                \* None

Fields == ToSet(FieldOrder)

Space == " "
MASK_CHAR == "*"

Characters == Letters \cup Separators \cup {Space, MASK_CHAR}

Text == Seq(Characters)

ASSUME EvidenceAssumption ==
    /\ Space \notin Letters /\ MASK_CHAR \notin Letters
    /\ FieldOrder \in Seq(Fields)
    /\ \A i, j \in DOMAIN FieldOrder : FieldOrder[i] = FieldOrder[j] => i = j
    /\ TailAllowed \subseteq Sensitive /\ Sensitive \subseteq Fields
    /\ Required \subseteq Fields /\ Checked \subseteq Fields
    /\ VISIBLE_TAIL \in Nat /\ MIN_LENGTH_FOR_TAIL \in Nat
    /\ VISIBLE_TAIL < MIN_LENGTH_FOR_TAIL
    /\ \A text \in (Values \cup Snippets \cup Sources \cup Quotes) \ {NULL} : text \in Text
    /\ NULL \notin Sources

VARIABLES
    stage,      \* what the last node has done: "classified", "extracted",
                \* "validated", "unsupported", "masked"
    document,   \* its text, and whether it is image_only
    answer,     \* history: what the model extracted
    extracted,
    errors,     \* validation_errors: the field named, the value quoted
    missing,    \* missing_fields
    notes,      \* classification_notes
    trace,      \* the detail of a step of the trace
    held        \* history: extracted as masking found it

evidenceVars == <<stage, document, answer, extracted, errors, missing, notes, trace, held>>

Nothing == [value |-> NULL, snippet |-> NULL, verified |-> NULL]

(* Python's truth of a text or None. *)
Truthy(text) == text \notin {NULL, <<>>}

(* The places of a text that its normal form keeps: of a run of spaces the *)
(* last, of those at its ends none.                                        *)
Kept(text) ==
    {i \in DOMAIN text :
        text[i] = Space => /\ \E j \in 1 .. i - 1 : text[j] # Space
                           /\ i < Len(text) /\ text[i + 1] # Space}

(* The normal form of the first k places, for each k. *)
NormalTo(text) ==
    LET kept == Kept(text)
        to[k \in 0 .. Len(text)] ==
            IF k = 0 THEN <<>>
            ELSE IF k \in kept THEN Append(to[k - 1], text[k])
            ELSE to[k - 1]
    IN  to

Normalise(text) == NormalTo(text)[Len(text)]

EvidenceInit ==
    /\ stage = "classified"
    /\ document \in [text : Sources, image_only : {FALSE}]
                    \cup [text : {<<>>}, image_only : {TRUE}]
    /\ answer = [f \in Fields |-> Nothing]
    /\ extracted = answer
    /\ errors = {}
    /\ missing = {}
    /\ notes \in Quotes
    /\ trace = notes
    /\ held = answer

-----------------------------------------------------------------------------
(* One extraction, of whatever the model answers; Graph asks again. *)
Extract ==
    /\ stage = "classified"
    /\ stage' = "extracted"
    /\ answer' \in [Fields -> [value : Values, snippet : Snippets, verified : {NULL}]]
    /\ extracted' = answer'
    /\ UNCHANGED <<document, errors, missing, notes, trace, held>>

(* validate *)

VerifySnippet(snippet) == Normalise(snippet) \in SubSeqs(Normalise(document.text))

(* Mutant: a field without a snippet is not rejected. *)
RejectedIfFound(f) ==
    /\ ~document.image_only
    /\ f.value # NULL
    /\ Truthy(f.snippet) /\ ~VerifySnippet(f.snippet)

Rejected(f) ==
    /\ ~document.image_only
    /\ f.value # NULL
    /\ ~Truthy(f.snippet) \/ ~VerifySnippet(f.snippet)

(* verify_all and _verify_rows, for one field or cell. *)
Verified(f) ==
    IF document.image_only \/ f.value = NULL THEN [f EXCEPT !.verified = NULL]
    ELSE IF Rejected(f) THEN [f EXCEPT !.value = NULL, !.verified = FALSE]
    ELSE [f EXCEPT !.verified = TRUE]

Missing(ex) == {f \in Required : ex[f].value = NULL}

(* What the format checks say quotes the value, what verification says     *)
(* quotes nothing.                                                         *)
Errors(ex) ==
    {[field |-> f, quote |-> <<>>] : f \in {g \in Fields : Rejected(extracted[g])}}
    \cup {[field |-> f, quote |-> ex[f].value] :
             f \in {g \in Checked : ex[g].value \notin WellFormed \cup {NULL}}}

Validate ==
    /\ stage = "extracted"
    /\ stage' = "validated"
    /\ extracted' = [f \in Fields |-> Verified(extracted[f])]
    /\ errors' = Errors(extracted')
    /\ missing' = Missing(extracted')
    /\ UNCHANGED <<document, answer, notes, trace, held>>

-----------------------------------------------------------------------------
(* mask_pii *)

LettersOf(text) == {i \in DOMAIN text : text[i] \in Letters}

(* How many letters the mask of a text shows. *)
Shown(text, tail) ==
    IF tail /\ Cardinality(LettersOf(text)) >= MIN_LENGTH_FOR_TAIL THEN VISIBLE_TAIL ELSE 0

(* Separators and what is already masked are not counted, nor masked. *)
MaskValue(text, tail) ==
    LET letters == LettersOf(text)
        shown == Shown(text, tail)
    IN  [i \in DOMAIN text |->
            IF i \in letters /\ Cardinality({j \in letters : j >= i}) > shown
            THEN MASK_CHAR ELSE text[i]]

(* Mutant: a text is looked for exactly as it is written. *)
FoundAtVerbatim(text, secret, i, j) == SubSeq(text, i, j) = secret

(* _occurrence_pattern: the secret's words, with any spaces between. *)
FoundAt(text, secret, i, j) ==
    /\ text[i] # Space /\ text[j] # Space
    /\ Normalise(SubSeq(text, i, j)) = Normalise(secret)

Occurrences(text, secret) ==
    {span \in (DOMAIN text) \X (DOMAIN text) :
        span[1] <= span[2] /\ FoundAt(text, secret, span[1], span[2])}

(* re.sub goes from left to right and never back into what it replaced:    *)
(* Done(text, secret)[i] is how far it is when it has looked at place i.   *)
Done(text, secret) ==
    LET spans == Occurrences(text, secret)
        done[i \in 0 .. Len(text)] ==
            IF i = 0 THEN 0
            ELSE IF done[i - 1] < i /\ \E span \in spans : span[1] = i
            THEN (CHOOSE span \in spans : span[1] = i)[2]
            ELSE done[i - 1]
    IN  done

Substituted(text, secret) ==
    LET done == Done(text, secret)
    IN  {span \in Occurrences(text, secret) : done[span[1] - 1] < span[1]}

RedactOne(text, secret) ==
    LET spans == Substituted(text, secret.text)
        masked(span) == MaskValue(SubSeq(text, span[1], span[2]), secret.tail)
    IN  [k \in DOMAIN text |->
            IF \E span \in spans : span[1] <= k /\ k <= span[2]
            THEN LET span == CHOOSE s \in spans : s[1] <= k /\ k <= s[2]
                 IN  masked(span)[k - span[1] + 1]
            ELSE text[k]]

(* The text after each secret in turn; one of spaces alone is passed over. *)
After(text, secrets) ==
    LET after[k \in 0 .. Len(secrets)] ==
            IF k = 0 THEN text
            ELSE IF Normalise(secrets[k].text) = <<>> THEN after[k - 1]
            ELSE RedactOne(after[k - 1], secrets[k])
    IN  after

(* _redact_occurrences *)
Redact(text, secrets) ==
    IF text = NULL THEN NULL ELSE After(text, secrets)[Len(secrets)]

(* Mutant: the secrets are taken in the schema's order. *)
SecretsUnsorted(ex) ==
    LET tagged == SelectSeq(FieldOrder, LAMBDA f : f \in Sensitive /\ Truthy(ex[f].value))
    IN  [k \in DOMAIN tagged |-> [text |-> ex[tagged[k]].value,
                                  tail |-> tagged[k] \in TailAllowed]]

(* The tagged fields with a value, in the order in which Before puts them. *)
Before(ex, f, g) ==
    \/ Len(ex[f].value) > Len(ex[g].value)
    \/ /\ Len(ex[f].value) = Len(ex[g].value)
       /\ \E i, j \in DOMAIN FieldOrder : i < j /\ FieldOrder[i] = f /\ FieldOrder[j] = g

Tagged(ex) == {f \in Sensitive : Truthy(ex[f].value)}

SortedFields(ex) ==
    [k \in 1 .. Cardinality(Tagged(ex)) |->
        CHOOSE f \in Tagged(ex) : Cardinality({g \in Tagged(ex) : Before(ex, g, f)}) = k - 1]

(* The values to look for, the longest first, else in the schema's order. *)
Secrets(ex) ==
    LET sorted == SortedFields(ex)
    IN  [k \in DOMAIN sorted |-> [text |-> ex[sorted[k]].value,
                                  tail |-> sorted[k] \in TailAllowed]]

(* One field of mask_state, or a cell of _mask_rows. *)
Masked(f, ex, secrets) ==
    IF f \notin Sensitive THEN [ex[f] EXCEPT !.value = Redact(@, secrets),
                                             !.snippet = Redact(@, secrets)]
    ELSE IF ~Truthy(ex[f].value) THEN [ex[f] EXCEPT !.value = NULL, !.snippet = NULL]
    ELSE [ex[f] EXCEPT !.value = MaskValue(@, f \in TailAllowed),
                       !.snippet = Redact(@, secrets)]

(* _safe_notes: with nothing to look for, notes are dropped. *)
SafeNotes(secrets) ==
    IF Truthy(notes) /\ secrets = <<>> THEN NULL ELSE Redact(notes, secrets)

(* mask_state, which the node mask_pii calls. *)
MaskPii ==
    LET secrets == Secrets(extracted) IN
    /\ stage \in {"validated", "unsupported"}
    /\ stage' = "masked"
    /\ held' = extracted
    /\ extracted' = [f \in Fields |-> Masked(f, extracted, secrets)]
    /\ errors' = {[e EXCEPT !.quote = Redact(@, secrets)] : e \in errors}
    /\ notes' = SafeNotes(secrets)
    /\ trace' = IF Truthy(trace) THEN Redact(trace, secrets) ELSE NULL
    /\ UNCHANGED <<document, answer, missing>>

(* Instead of extraction and validation: there are no fields. *)
MarkUnsupported ==
    /\ stage = "classified"
    /\ stage' = "unsupported"
    /\ extracted' = [f \in Fields |-> Nothing]
    /\ errors' = {}
    /\ missing' = {}
    /\ UNCHANGED <<document, answer, notes, trace, held>>

EvidenceNext == Extract \/ Validate \/ MaskPii \/ MarkUnsupported

EvidenceSpec == EvidenceInit /\ [][EvidenceNext]_evidenceVars

-----------------------------------------------------------------------------
(* A text that is NULL says nothing. *)
Says(texts) == texts \ {NULL}

(* What the report is assembled from, but for the values of tail fields,   *)
(* which show their last letters.                                          *)
Published ==
    Says({extracted[f].value : f \in Fields \ TailAllowed}
         \cup {extracted[f].snippet : f \in Fields}
         \cup {e.quote : e \in errors} \cup {notes, trace})

(* A text quotes a value, however it is spaced. *)
Quoting(text, value) ==
    LET normal == Normalise(value)
    IN  \E i, j \in DOMAIN text : i <= j /\ Normalise(SubSeq(text, i, j)) = normal

(* Two occurrences of a value may share letters. *)
OverlapsItself(text) ==
    \E n \in 1 .. Len(text) - 1 : SubSeq(text, 1, n) = SubSeq(text, Len(text) - n + 1, Len(text))

(* Nothing of it is masked already. *)
Plain(text) == \A i \in DOMAIN text : text[i] # MASK_CHAR

(* A tagged field holds a value with something to mask. *)
Holds(f) == /\ Truthy(held[f].value)
            /\ LettersOf(held[f].value) # {} /\ Plain(held[f].value)

(* Of two occurrences that share characters only the first is replaced:    *)
(* the second may keep its tail, or a separator it starts with.            *)
Escapes(f) ==
    LET value == Normalise(held[f].value)
    IN  OverlapsItself(value) /\ (f \in TailAllowed \/ value[1] \notin Letters)

(* No value that a tagged field holds when masking runs is left in any text *)
(* of the report, wherever it was quoted and however it was spaced: not in *)
(* another field, a snippet, an error, the notes or the trace (mask.py     *)
(* 14-20).                                                                 *)
HeldValuesAreScrubbed ==
    stage = "masked" =>
        \A f \in Sensitive : Holds(f) /\ ~Escapes(f) =>
            \A text \in Published : ~Quoting(text, held[f].value)

(* Another value, at least as long, is found at a place the span touches.  *)
TouchedBy(g, text, span) ==
    \/ ~Plain(held[g].value)
    \/ \E other \in Occurrences(text, held[g].value) :
          other[1] <= span[2] /\ span[1] <= other[2]

(* A value is masked whole wherever another field quotes it, whatever      *)
(* shorter ones it contains or overlaps: no letter of it is left but its   *)
(* tail, if it has one (mask.py 194-195).                                  *)
LongerIsMaskedWhole ==
    stage = "masked" =>
        \A f \in Sensitive, u \in Fields \ Sensitive :
            /\ Holds(f) /\ ~OverlapsItself(Normalise(held[f].value))
            /\ held[u].value # NULL
            => \A span \in Occurrences(held[u].value, held[f].value) :
                 \/ \E g \in Sensitive \ {f} :
                       /\ Truthy(held[g].value) /\ Len(held[g].value) >= Len(held[f].value)
                       /\ TouchedBy(g, held[u].value, span)
                 \/ Cardinality({k \in span[1] .. span[2] : extracted[u].value[k] \in Letters})
                        <= Shown(held[f].value, f \in TailAllowed)

(* There is no snippet, or it is not in the document.  One of spaces alone *)
(* is always found.                                                        *)
Fabricated(snippet) ==
    \/ ~Truthy(snippet)
    \/ Normalise(snippet) # <<>> /\ ~Quoting(document.text, snippet)

(* A value whose evidence is not in the document is gone for good, and the *)
(* run knows it: an error names the field, and a required field is missing *)
(* too, so the outcome cannot be COMPLETE (snippets.py 47-51, validate.py  *)
(* 259-263).                                                               *)
FabricationIsRecorded ==
    stage \in {"validated", "masked"} /\ ~document.image_only =>
        \A f \in Fields : answer[f].value # NULL /\ Fabricated(answer[f].snippet) =>
            /\ extracted[f].value = NULL
            /\ \E e \in errors : e.field = f
            /\ f \in Required => f \in missing
=============================================================================
