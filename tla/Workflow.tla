------------------------------- MODULE Workflow -------------------------------
(***************************************************************************)
(* Graph with the document it runs on: how rules/parse.py reads the file,  *)
(* what llm/prompts.py shows of it to the model, and how rules/validate.py *)
(* judges the answer: the sums of an invoice, the dates of a claim, and    *)
(* what is required.  The extraction is the model's, so any; of the fields *)
(* that are neither amounts nor dates it says only what came of them.      *)
(***************************************************************************)
EXTENDS Graph

CONSTANTS
    Files,                  \* the documents that may be uploaded
    Cells,                  \* fields as a model may answer them
    DateCells,
    MaxRows,                \* bound of the model: line items
    Rests,                  \* what may come of the other fields
    ROUNDING_TOLERANCE,
    ScannedTextThreshold,   \* CONFIG.scanned_text_threshold
    MaxPages,               \* CONFIG.max_pages
    Garbled,                \* a value that is no date, and no amount
    NULL                    \* None

VARIABLES
    file,           \* raw_bytes, content_type and filename
    reading,        \* text, page_images, image_only
    shown,          \* history: what the last prompt held of the document
    answer,         \* history: what the model extracted
    fields,         \* extracted, as the last node left it
    observations

readingVars == <<file, reading, observations>>
fieldVars == <<shown, answer, fields>>
workflowVars == <<graphVars, readingVars, fieldVars>>

(* evidence: the snippet.  "none" is no snippet, or an empty one; "blank"  *)
(* white space; "found" words that a document with text has; "absent"      *)
(* words that it does not have.  verified: NULL is None.                   *)
EvidenceKind == {"none", "blank", "found", "absent"}
Cell(value, evidence) == [value |-> value, evidence |-> evidence, verified |-> NULL]
NoCell == Cell(NULL, "none")

ASSUME WorkflowAssumption ==
    /\ ROUNDING_TOLERANCE \in Nat /\ MaxRows \in Nat
    /\ ScannedTextThreshold \in Nat \ {0} /\ MaxPages \in Nat \ {0}
    /\ \A f \in Files : f.pages \in Nat \ {0} /\ f.letters \in Nat
    /\ NULL # Garbled /\ NULL \notin BOOLEAN
    /\ \A cell \in Cells :
            cell = Cell(cell.value, cell.evidence) /\ cell.evidence \in EvidenceKind
    /\ \A cell \in DateCells :
            cell = Cell(cell.value, cell.evidence) /\ cell.evidence \in EvidenceKind
    /\ Rests \subseteq [missing : BOOLEAN, invalid : BOOLEAN, secrets : BOOLEAN]

(* missing, invalid: a required field has no value, a check found fault.   *)
Unremarkable == [missing |-> FALSE, invalid |-> FALSE, secrets |-> FALSE]

Rows == SeqOf(Cells, MaxRows)

(* The three generic types require nothing. *)
RestsOf(type) == {rest \in Rests : rest.missing => type \in DOMAIN EXTRACTOR_BY_TYPE}

(* One shape for all schemas; each has its own amounts and dates. *)
Blank == [rows |-> <<>>, total |-> NoCell, incident |-> NoCell, filed |-> NoCell,
          rest |-> Unremarkable]

Answers(type) ==
    CASE type = "invoice" -> [rows : Rows, total : Cells, incident : {NoCell},
                              filed : {NoCell}, rest : RestsOf(type)]
      [] type = "claim_form" -> [rows : {<<>>}, total : {NoCell}, incident : DateCells,
                                 filed : DateCells, rest : RestsOf(type)]
      [] OTHER -> [rows : {<<>>}, total : {NoCell}, incident : {NoCell},
                   filed : {NoCell}, rest : RestsOf(type)]

Unread == [text |-> "none", images |-> 0, image_only |-> FALSE]

WorkflowInit ==
    /\ GraphInit
    /\ file \in Files
    /\ reading = Unread
    /\ shown = "none"
    /\ answer = Blank /\ fields = Blank
    /\ observations = {}

-----------------------------------------------------------------------------
(* rules/parse.py *)

(* A specific content type is believed, a generic one leaves it to the     *)
(* file name.                                                              *)
DetectKind(f) == IF f.content = "generic" THEN f.suffix ELSE f.content

Readable(f) == DetectKind(f) \in {"pdf", "docx", "image"} /\ f.opens

(* The pages' texts are joined by newlines, which count. *)
LengthOfText(f) == f.letters + f.pages - 1

TextOf(f) == IF f.letters > 0 THEN "some" ELSE IF LengthOfText(f) > 0 THEN "blank" ELSE "none"

AsImages(n) == [text |-> "none", images |-> n, image_only |-> TRUE]

(* Mutant: what little text a scanned PDF has is kept beside its images.   *)
LoadPdfKeepsText(f) ==
    IF LengthOfText(f) >= ScannedTextThreshold
    THEN [text |-> TextOf(f), images |-> 0, image_only |-> FALSE]
    ELSE [AsImages(IF f.pages > MaxPages THEN MaxPages ELSE f.pages) EXCEPT !.text = TextOf(f)]

LoadPdf(f) ==
    IF LengthOfText(f) >= ScannedTextThreshold
    THEN [text |-> TextOf(f), images |-> 0, image_only |-> FALSE]
    ELSE AsImages(IF f.pages > MaxPages THEN MaxPages ELSE f.pages)

LoadDocx(f) == [text |-> IF f.letters > 0 THEN "some" ELSE "none",
                images |-> 0, image_only |-> FALSE]

Reading(f) ==
    CASE DetectKind(f) = "pdf" -> LoadPdf(f)
      [] DetectKind(f) = "docx" -> LoadDocx(f)
      [] DetectKind(f) = "image" -> AsImages(1)

Load ==
    /\ Readable(file)
    /\ LoadDocument
    /\ reading' = Reading(file)
    /\ observations' = {o \in {"image only", "pages dropped"} :
            /\ reading'.image_only
            /\ o = "pages dropped" => DetectKind(file) = "pdf" /\ file.pages > MaxPages}
    /\ UNCHANGED <<file, fieldVars>>

(* UnreadableDocument; a page or an image may also fail to be rendered. *)
LoadFails ==
    /\ next = "load_document"
    /\ Readable(file) => Reading(file).image_only
    /\ Fails
    /\ UNCHANGED <<readingVars, fieldVars>>

-----------------------------------------------------------------------------
(* llm/prompts.py: only one of the two is ever sent. *)
Prompt ==
    IF reading.image_only /\ reading.images > 0 /\ reading.text = "none"
    THEN "images" ELSE reading.text

AskType ==
    /\ Classify
    /\ shown' = Prompt
    /\ UNCHANGED <<readingVars, answer, fields>>

(* _extract: the errors of the last validation go with the question. *)
AskFields ==
    /\ \E node \in Extractors : Extract(node)
    /\ shown' = Prompt
    /\ answer' \in Answers(s.doc_type)
    /\ fields' = answer'
    /\ observations' = observations \cup
            (IF s.attempts > 0 /\ s.errors # "none" THEN {"retried"} ELSE {})
    /\ UNCHANGED <<file, reading>>

-----------------------------------------------------------------------------
(* rules/validate.py *)

(* White space normalises to nothing, which is in any text, an empty one   *)
(* included; words are in none that is blank.                              *)
Supported(cell) ==
    cell.evidence = "blank" \/ (cell.evidence = "found" /\ reading.text = "some")

Rejected(cell) == ~reading.image_only /\ cell.value # NULL /\ ~Supported(cell)

VerifyCell(cell) ==
    IF reading.image_only \/ cell.value = NULL THEN [cell EXCEPT !.verified = NULL]
    ELSE IF Rejected(cell) THEN [cell EXCEPT !.value = NULL, !.verified = FALSE]
    ELSE [cell EXCEPT !.verified = TRUE]

VerifyAll(ex) ==
    [ex EXCEPT !.rows = [i \in DOMAIN @ |-> VerifyCell(@[i])],
               !.total = VerifyCell(@),
               !.incident = VerifyCell(@),
               !.filed = VerifyCell(@)]

CellsOf(ex) == {ex.rows[i] : i \in DOMAIN ex.rows} \cup {ex.total, ex.incident, ex.filed}

IsParsed(cell) == cell.value \notin {NULL, Garbled}

(* Python refuses to compare a datetime that has an offset with one that   *)
(* has none.                                                               *)
Incomparable(ex) ==
    /\ IsParsed(ex.incident) /\ IsParsed(ex.filed)
    /\ ex.incident.value.aware # ex.filed.value.aware

IsAfter(date, other) ==
    IsParsed(date) /\ IsParsed(other) /\ date.value.day > other.value.day

Amounts(rows) == [i \in DOMAIN rows |-> rows[i].value]
SumOf(amounts) == FoldLeft(LAMBDA sum, amount : sum + amount, 0, amounts)

Differ(sum, total) == sum - total > ROUNDING_TOLERANCE \/ total - sum > ROUNDING_TOLERANCE

(* Mutant: the rows that survived are summed.                              *)
BadSumOfSurvivors(ex) ==
    /\ ex.rows # <<>> /\ ex.total.value # NULL
    /\ IsParsed(ex.total) /\ Differ(SumOf(Amounts(SelectSeq(ex.rows, IsParsed))), ex.total.value)

(* The line items, once there is a total: a row that cannot be summed is   *)
(* an error, and so is a sum that is not the total.                        *)
BadSum(ex) ==
    /\ ex.rows # <<>> /\ ex.total.value # NULL
    /\ \/ \E i \in DOMAIN ex.rows : ~IsParsed(ex.rows[i])
       \/ IsParsed(ex.total) /\ Differ(SumOf(Amounts(ex.rows)), ex.total.value)

(* The rest's own checks are Evidence's. *)
Invalid(ex) ==
    \/ \E cell \in CellsOf(fields) : Rejected(cell)
    \/ \E cell \in {ex.incident, ex.filed, ex.total} : cell.value = Garbled
    \/ IsAfter(ex.incident, ex.filed)
    \/ BadSum(ex)
    \/ ex.rest.invalid

(* _is_present of REQUIRED_FIELDS: a list is there if it has a row. *)
Missing(type, ex) ==
    \/ type = "invoice" /\ (ex.rows = <<>> \/ ex.total.value = NULL)
    \/ type = "claim_form" /\ ex.incident.value = NULL
    \/ ex.rest.missing

Judge ==
    LET verified == VerifyAll(fields) IN
    /\ ~Incomparable(verified)
    /\ Validated(Missing(s.doc_type, verified), Invalid(verified), fields.rest.secrets)
    /\ fields' = verified
    /\ observations' = observations \cup
            (IF reading.image_only THEN {"unverified"} ELSE {})
    /\ UNCHANGED <<file, reading, shown, answer>>

(* The TypeError is the wrapper's to classify, and terminal. *)
JudgeFails ==
    /\ next = "validate" /\ Incomparable(VerifyAll(fields))
    /\ Fails
    /\ UNCHANGED <<readingVars, fieldVars>>

Decline ==
    /\ MarkUnsupported
    /\ fields' = Blank
    /\ observations' = observations \cup {"manual review"}
    /\ UNCHANGED <<file, reading, shown, answer>>

-----------------------------------------------------------------------------
(* What masking and the report do to texts is Graph's and Evidence's. *)
OtherNodes ==
    /\ \/ MaskPii \/ GenerateReport \/ RecordFailure
       \/ next \notin {"load_document", "validate"} /\ Fails
       \/ Raises
    /\ UNCHANGED <<readingVars, fieldVars>>

WorkflowNext ==
    \/ Load \/ LoadFails \/ AskType \/ AskFields
    \/ Judge \/ JudgeFails \/ Decline \/ OtherNodes

WorkflowSpec == WorkflowInit /\ [][WorkflowNext]_workflowVars

-----------------------------------------------------------------------------
WorkflowTypeOK ==
    /\ GraphTypeOK
    /\ file \in Files
    /\ reading \in [text : {"none", "blank", "some"}, images : 0 .. MaxPages,
                    image_only : BOOLEAN]
    /\ shown \in {"images", "none", "blank", "some"}
    /\ observations \subseteq {"image only", "pages dropped", "retried", "unverified",
                               "manual review"}

(* An extraction that passes as right: every value has evidence that       *)
(* verification accepts, every row counts, the rows sum to the total, the  *)
(* dates are dates in order.                                               *)
Sound(type, ex) ==
    /\ ~ex.rest.missing /\ ~ex.rest.invalid
    /\ \A cell \in CellsOf(ex) : ~Rejected(cell) /\ cell.value # Garbled
    /\ type = "invoice" =>
        /\ ex.rows # <<>> /\ ex.total.value # NULL
        /\ \A i \in DOMAIN ex.rows : ex.rows[i].value # NULL
        /\ ~Differ(SumOf(Amounts(ex.rows)), ex.total.value)
    /\ type = "claim_form" =>
        ex.incident.value # NULL /\ ~IsAfter(ex.incident, ex.filed)

(* A document is COMPLETE exactly if the last answer the model gave is     *)
(* sound: nothing that was rejected on the way makes a sum come out or a   *)
(* date fall away unseen (validate.py 200-248, outcome_for).               *)
CompleteIsSound ==
    next = "end" /\ Recorded \in {"COMPLETE", "INCOMPLETE"} =>
        (Recorded = "COMPLETE" <=> Sound(s.doc_type, answer))

(* What a report says of a value's evidence is true of the run: not        *)
(* verified means the model read images, and the report says so; verified  *)
(* means it read text, and one with words in it if words are the evidence  *)
(* (ReportView 15-25, prompts.py 8-10).  White space is evidence of any    *)
(* text, of blank pages and of none at all (snippets.py 34-36).            *)
VerdictIsOfWhatWasShown ==
    next = "end" /\ Recorded \in {"COMPLETE", "INCOMPLETE"} =>
        \A cell \in CellsOf(fields) : cell.value # NULL =>
            \/ /\ cell.verified = NULL /\ shown = "images"
               /\ {"image only", "unverified"} \subseteq observations
            \/ /\ cell.verified = TRUE /\ shown # "images" /\ "unverified" \notin observations
               /\ cell.evidence = "blank" \/ (cell.evidence = "found" /\ shown = "some")
=============================================================================
