---------------------------- MODULE WorkflowProofs ----------------------------
(***************************************************************************)
(* Theorems about Workflow, for every document, threshold, tolerance and   *)
(* answer: it implements Graph, a COMPLETE document is sound, and what a   *)
(* report says of a value's evidence is true of what the model was shown.  *)
(***************************************************************************)
EXTENDS Workflow, GraphProofs

(* A cell as the model answers it. *)
IsCell(cell) == cell = Cell(cell.value, cell.evidence)

(* An extraction as the model answers it. *)
IsAnswer(type, ex) ==
    /\ ex = [rows |-> ex.rows, total |-> ex.total, incident |-> ex.incident,
             filed |-> ex.filed, rest |-> ex.rest]
    /\ ex.rows \in Seq(Cells) /\ \A cell \in CellsOf(ex) : IsCell(cell)
    /\ ex.rest \in [missing : BOOLEAN, invalid : BOOLEAN, secrets : BOOLEAN]
    /\ type # "invoice" => ex.rows = <<>> /\ ex.total = NoCell
    /\ type # "claim_form" => ex.incident = NoCell /\ ex.filed = NoCell

(* A document is read as text or as images; only of images is a report     *)
(* told that nothing was verified.                                         *)
ReadingIsKnown ==
    IF reading.image_only
    THEN reading.images > 0 /\ reading.text = "none" /\ "image only" \in observations
    ELSE reading.text # "images" /\ "unverified" \notin observations

(* What is judged is what was answered, to a prompt of this document.      *)
AnswerIsKept ==
    next = "validate" =>
        fields = answer /\ IsAnswer(s.doc_type, answer) /\ shown = Prompt

Verdict(cell) ==
    \/ /\ cell.verified = NULL /\ shown = "images"
       /\ {"image only", "unverified"} \subseteq observations
    \/ /\ cell.verified = TRUE /\ shown # "images" /\ "unverified" \notin observations
       /\ cell.evidence = "blank" \/ (cell.evidence = "found" /\ shown = "some")

(* What was judged last: it decides the outcome, and was judged right.     *)
VerdictIsKnown ==
    next \in {"mask_pii", "generate_report"} /\ ~HasTerminalError(s) /\ s.outcome = "NONE" =>
        /\ ~s.missing /\ s.errors = "none" <=> Sound(s.doc_type, answer)
        /\ \A cell \in CellsOf(fields) : cell.value # NULL => Verdict(cell)

RulesInv ==
    /\ ReadingIsKnown /\ AnswerIsKept /\ VerdictIsKnown
    /\ CompleteIsSound /\ VerdictIsOfWhatWasShown

WorkflowInv == GraphInv /\ RulesInv /\ file \in Files

-----------------------------------------------------------------------------
USE WorkflowAssumption

LEMMA VerifiedCell ==
    ASSUME NEW cell, IsCell(cell)
    PROVE  /\ VerifyCell(cell).value = IF Rejected(cell) THEN NULL ELSE cell.value
           /\ VerifyCell(cell).value # NULL =>
                \/ reading.image_only /\ VerifyCell(cell).verified = NULL
                \/ /\ ~reading.image_only /\ VerifyCell(cell).verified = TRUE
                   /\ \/ VerifyCell(cell).evidence = "blank"
                      \/ VerifyCell(cell).evidence = "found" /\ reading.text = "some"
<1>1. cell = [value |-> cell.value, evidence |-> cell.evidence, verified |-> NULL]
  BY DEF IsCell, Cell
<1>2. CASE reading.image_only \/ cell.value = NULL
  <2>1. PICK c : c = VerifyCell(cell) /\ c = [cell EXCEPT !.verified = NULL]
    BY <1>2 DEF VerifyCell
  <2>2. c = [value |-> cell.value, evidence |-> cell.evidence, verified |-> NULL]
    BY <1>1, <2>1
  <2> QED
    BY <1>2, <2>1, <2>2 DEF Rejected
<1>3. CASE ~(reading.image_only \/ cell.value = NULL) /\ Rejected(cell)
  <2>1. PICK c : c = VerifyCell(cell) /\ c = [cell EXCEPT !.value = NULL, !.verified = FALSE]
    BY <1>3 DEF VerifyCell
  <2>2. c = [value |-> NULL, evidence |-> cell.evidence, verified |-> FALSE]
    BY <1>1, <2>1
  <2> QED
    BY <1>3, <2>1, <2>2
<1>4. CASE ~(reading.image_only \/ cell.value = NULL) /\ ~Rejected(cell)
  <2>1. PICK c : c = VerifyCell(cell) /\ c = [cell EXCEPT !.verified = TRUE]
    BY <1>4 DEF VerifyCell
  <2>2. c = [value |-> cell.value, evidence |-> cell.evidence, verified |-> TRUE]
    BY <1>1, <2>1
  <2> QED
    BY <1>4, <2>1, <2>2 DEF Rejected, Supported
<1> QED
  BY <1>2, <1>3, <1>4

LEMMA VerifiedAnswer ==
    ASSUME NEW type, NEW ex, IsAnswer(type, ex)
    PROVE  LET v == VerifyAll(ex) IN
           /\ DOMAIN v.rows = DOMAIN ex.rows
           /\ \A i \in DOMAIN ex.rows : v.rows[i] = VerifyCell(ex.rows[i])
           /\ v.rows = <<>> <=> ex.rows = <<>>
           /\ v.total = VerifyCell(ex.total) /\ v.incident = VerifyCell(ex.incident)
           /\ v.filed = VerifyCell(ex.filed) /\ v.rest = ex.rest
           /\ CellsOf(v) = {VerifyCell(cell) : cell \in CellsOf(ex)}
<1> DEFINE rows == [i \in DOMAIN ex.rows |-> VerifyCell(ex.rows[i])]
<1>1. PICK v : /\ v = VerifyAll(ex)
               /\ v = [ex EXCEPT !.rows = rows, !.total = VerifyCell(ex.total),
                                 !.incident = VerifyCell(ex.incident),
                                 !.filed = VerifyCell(ex.filed)]
  BY DEF VerifyAll
<1>2. DOMAIN rows = DOMAIN ex.rows
      /\ \A i \in DOMAIN ex.rows : rows[i] = VerifyCell(ex.rows[i])
  OBVIOUS
<1>3. rows = <<>> <=> ex.rows = <<>>
  <2>1. ex.rows \in Seq(Cells)
    BY DEF IsAnswer
  <2>2. CASE ex.rows = <<>>
    BY <2>2
  <2>3. CASE ex.rows # <<>>
    <3>1. 1 \in DOMAIN rows
      BY <2>1, <2>3
    <3>2. rows # <<>>
      BY <3>1
    <3> QED
      BY <2>3, <3>2
  <2> QED
    BY <2>2, <2>3
<1> HIDE DEF rows
<1>4. v = [rows |-> rows, total |-> VerifyCell(ex.total),
           incident |-> VerifyCell(ex.incident), filed |-> VerifyCell(ex.filed),
           rest |-> ex.rest]
  BY <1>1 DEF IsAnswer
<1>5. /\ v.rows = rows /\ v.total = VerifyCell(ex.total)
      /\ v.incident = VerifyCell(ex.incident)
      /\ v.filed = VerifyCell(ex.filed) /\ v.rest = ex.rest
  BY <1>4
<1>6. CellsOf(v) = {VerifyCell(cell) : cell \in CellsOf(ex)}
  BY <1>2, <1>5 DEF CellsOf
<1> QED
  BY <1>1, <1>2, <1>3, <1>5, <1>6

(* Judged without fault is sound: a value that was rejected, or a row that *)
(* does not count, is always met by one of the checks.                     *)
LEMMA JudgedIsSound ==
    ASSUME NEW type, IsAnswer(type, fields)
    PROVE  LET v == VerifyAll(fields) IN
           ~Missing(type, v) /\ ~Invalid(v) <=> Sound(type, fields)
<1> DEFINE v == VerifyAll(fields)
           Kept == \A cell \in CellsOf(fields) : ~Rejected(cell)
<1>1. /\ DOMAIN v.rows = DOMAIN fields.rows
      /\ \A i \in DOMAIN fields.rows : v.rows[i] = VerifyCell(fields.rows[i])
      /\ v.rows = <<>> <=> fields.rows = <<>>
      /\ v.total = VerifyCell(fields.total) /\ v.incident = VerifyCell(fields.incident)
      /\ v.filed = VerifyCell(fields.filed) /\ v.rest = fields.rest
  BY VerifiedAnswer
<1> HIDE DEF v
<1>2. /\ fields.total \in CellsOf(fields) /\ fields.incident \in CellsOf(fields)
      /\ fields.filed \in CellsOf(fields)
      /\ \A i \in DOMAIN fields.rows : fields.rows[i] \in CellsOf(fields)
      /\ \A cell \in CellsOf(fields) :
            cell \in {fields.total, fields.incident, fields.filed}
            \/ \E i \in DOMAIN fields.rows : cell = fields.rows[i]
  BY DEF CellsOf
<1>3. \A cell \in CellsOf(fields) : IsCell(cell)
  BY DEF IsAnswer
<1>4. ASSUME Kept
      PROVE  /\ \A i \in DOMAIN fields.rows : v.rows[i].value = fields.rows[i].value
             /\ v.total.value = fields.total.value
             /\ v.incident.value = fields.incident.value
             /\ v.filed.value = fields.filed.value
             /\ Amounts(v.rows) = Amounts(fields.rows)
  <2>1. \A cell \in CellsOf(fields) : VerifyCell(cell).value = cell.value
    BY <1>3, <1>4, VerifiedCell
  <2>2. /\ \A i \in DOMAIN fields.rows : v.rows[i].value = fields.rows[i].value
        /\ v.total.value = fields.total.value
        /\ v.incident.value = fields.incident.value
        /\ v.filed.value = fields.filed.value
    BY <1>1, <1>2, <2>1
  <2> QED
    BY <1>1, <2>2 DEF Amounts
<1>5. /\ NoCell.value = NULL
      /\ type # "invoice" => fields.rows = <<>> /\ fields.total = NoCell
      /\ type # "claim_form" => fields.incident = NoCell /\ fields.filed = NoCell
  BY DEF IsAnswer, NoCell, Cell
<1>6. ASSUME ~Missing(type, v), ~Invalid(v)
      PROVE  Sound(type, fields)
  <2>1. /\ Kept
        /\ v.incident.value # Garbled /\ v.filed.value # Garbled /\ v.total.value # Garbled
        /\ ~IsAfter(v.incident, v.filed) /\ ~BadSum(v) /\ ~v.rest.invalid
    BY <1>6 DEF Invalid
  <2>2. /\ type = "invoice" => v.rows # <<>> /\ v.total.value # NULL
        /\ type = "claim_form" => v.incident.value # NULL
        /\ ~v.rest.missing
    BY <1>6 DEF Missing
  <2>3. type = "invoice" =>
            /\ \A i \in DOMAIN fields.rows : fields.rows[i].value \notin {NULL, Garbled}
            /\ ~Differ(SumOf(Amounts(fields.rows)), fields.total.value)
    BY <1>1, <1>4, <2>1, <2>2 DEF BadSum, IsParsed
  <2>4. type # "invoice" => DOMAIN fields.rows = {}
    BY <1>5
  <2>5. \A cell \in CellsOf(fields) : cell.value # Garbled
    BY <1>2, <1>4, <2>1, <2>3, <2>4
  <2>6. ~IsAfter(fields.incident, fields.filed)
    BY <1>4, <2>1 DEF IsAfter, IsParsed
  <2> QED
    BY <1>1, <1>4, <2>1, <2>2, <2>3, <2>5, <2>6 DEF Sound
<1>7. ASSUME Sound(type, fields)
      PROVE  ~Missing(type, v) /\ ~Invalid(v)
  <2>1. /\ Kept /\ \A cell \in CellsOf(fields) : cell.value # Garbled
        /\ ~fields.rest.missing /\ ~fields.rest.invalid
    BY <1>7 DEF Sound
  <2>2. ~Missing(type, v)
    BY <1>1, <1>4, <1>7, <2>1 DEF Sound, Missing
  <2>3. ~IsAfter(v.incident, v.filed)
    BY <1>4, <1>5, <1>7, <2>1 DEF Sound, IsAfter, IsParsed
  <2>4. ~BadSum(v)
    <3>1. CASE type = "invoice"
      BY <1>1, <1>2, <1>4, <1>7, <2>1, <3>1 DEF Sound, BadSum, IsParsed
    <3>2. CASE type # "invoice"
      BY <1>1, <1>5, <3>2 DEF BadSum
    <3> QED
      BY <3>1, <3>2
  <2>5. /\ v.incident.value # Garbled /\ v.filed.value # Garbled
        /\ v.total.value # Garbled /\ ~v.rest.invalid
    BY <1>1, <1>2, <1>4, <2>1
  <2> QED
    BY <2>1, <2>2, <2>3, <2>4, <2>5 DEF Invalid
<1> QED
  BY <1>6, <1>7 DEF v

LEMMA AnswersAre ==
    ASSUME NEW type, NEW ex \in Answers(type)
    PROVE  IsAnswer(type, ex)
<1>1. IsCell(NoCell)
  BY DEF IsCell, NoCell, Cell
<1>2. \A cell \in Cells \cup DateCells : IsCell(cell)
  BY DEF IsCell
<1>3. \A rows \in Rows : rows \in Seq(Cells)
  BY DEF Rows, SeqOf
<1>4. <<>> \in Seq(Cells)
  OBVIOUS
<1>5. \A rest \in RestsOf(type) :
        rest \in [missing : BOOLEAN, invalid : BOOLEAN, secrets : BOOLEAN]
  BY DEF RestsOf
<1>6. CASE type = "invoice"
  <2>1. ex \in [rows : Rows, total : Cells, incident : {NoCell}, filed : {NoCell},
                rest : RestsOf(type)]
    BY <1>6 DEF Answers
  <2>2. \A i \in DOMAIN ex.rows : ex.rows[i] \in Cells
    BY <1>3, <2>1
  <2>3. \A cell \in CellsOf(ex) : IsCell(cell)
    BY <1>1, <1>2, <2>1, <2>2 DEF CellsOf
  <2> QED
    BY <1>3, <1>5, <1>6, <2>1, <2>3 DEF IsAnswer
<1>7. CASE type = "claim_form"
  <2>1. ex \in [rows : {<<>>}, total : {NoCell}, incident : DateCells, filed : DateCells,
                rest : RestsOf(type)]
    BY <1>7 DEF Answers
  <2>2. DOMAIN ex.rows = {}
    BY <2>1
  <2>3. \A cell \in CellsOf(ex) : IsCell(cell)
    BY <1>1, <1>2, <2>1, <2>2 DEF CellsOf
  <2> QED
    BY <1>4, <1>5, <1>7, <2>1, <2>3 DEF IsAnswer
<1>8. CASE type \notin {"invoice", "claim_form"}
  <2>1. ex \in [rows : {<<>>}, total : {NoCell}, incident : {NoCell}, filed : {NoCell},
                rest : RestsOf(type)]
    BY <1>8 DEF Answers
  <2>2. DOMAIN ex.rows = {}
    BY <2>1
  <2>3. \A cell \in CellsOf(ex) : IsCell(cell)
    BY <1>1, <1>2, <2>1, <2>2 DEF CellsOf
  <2> QED
    BY <1>4, <1>5, <1>8, <2>1, <2>3 DEF IsAnswer
<1> QED
  BY <1>6, <1>7, <1>8

(* A document is read as text, or as at least one image. *)
LEMMA ReadingIs ==
    ASSUME NEW f \in Files, Readable(f)
    PROVE  IF Reading(f).image_only
           THEN Reading(f).images > 0 /\ Reading(f).text = "none"
           ELSE Reading(f).text # "images"
<1>1. f.pages \in Nat \ {0}
  OBVIOUS
<1>2. CASE DetectKind(f) = "pdf"
  BY <1>1, <1>2 DEF Reading, LoadPdf, AsImages, TextOf
<1>3. CASE DetectKind(f) = "docx"
  BY <1>3 DEF Reading, LoadDocx
<1>4. CASE DetectKind(f) = "image"
  BY <1>4 DEF Reading, AsImages
<1> QED
  BY <1>2, <1>3, <1>4 DEF Readable

LEMMA PromptIs ==
    ASSUME ReadingIsKnown
    PROVE  Prompt = IF reading.image_only THEN "images" ELSE reading.text
  BY DEF ReadingIsKnown, Prompt

-----------------------------------------------------------------------------
(* Every step is one of Graph's, with what the rules make of it. *)

LEMMA StepIsGraphStep ==
    ASSUME AnswerIsKept, [WorkflowNext]_workflowVars
    PROVE  [GraphNext]_graphVars
<1>1. CASE Load
  BY <1>1 DEF Load, GraphNext
<1>2. CASE LoadFails
  BY <1>2 DEF LoadFails, GraphNext
<1>3. CASE AskType
  BY <1>3 DEF AskType, GraphNext
<1>4. CASE AskFields
  BY <1>4 DEF AskFields, GraphNext
<1>5. CASE Judge
  <2> DEFINE v == VerifyAll(fields)
  <2>1. Validated(Missing(s.doc_type, v), Invalid(v), fields.rest.secrets)
    BY <1>5 DEF Judge
  <2>2. next = "validate"
    BY <2>1 DEF Validated, Returns
  <2>3. fields.rest.secrets \in BOOLEAN
    BY <2>2 DEF AnswerIsKept, IsAnswer
  <2>4. Missing(s.doc_type, v) \in BOOLEAN /\ Invalid(v) \in BOOLEAN
    BY DEF Missing, Invalid
  <2> QED
    BY <2>1, <2>3, <2>4 DEF Validate, GraphNext
<1>6. CASE JudgeFails
  BY <1>6 DEF JudgeFails, GraphNext
<1>7. CASE Decline
  BY <1>7 DEF Decline, GraphNext
<1>8. CASE OtherNodes
  BY <1>8 DEF OtherNodes, GraphNext
<1>9. CASE UNCHANGED workflowVars
  BY <1>9 DEF workflowVars, graphVars
<1> QED
  BY <1>1, <1>2, <1>3, <1>4, <1>5, <1>6, <1>7, <1>8, <1>9 DEF WorkflowNext

(* Where a step that fails leads, and what it leaves of the state.         *)
LEMMA FailsLeads ==
    ASSUME GraphInv, Fails
    PROVE  /\ next' \in {"mask_pii", "record_failure"} /\ HasTerminalError(s')
<1>1. s \in State /\ next \in Nodes
  BY DEF GraphInv, GraphTypeOK, Fails
<1>2. PICK u : /\ u = s'
               /\ u = [s EXCEPT !.error = next,
                                !.trace = Append(@, [node |-> next, status |-> "error",
                                                     detail |-> Detail(next)])]
  BY DEF Fails
<1>3. u.error = next
  BY <1>1, <1>2 DEF State
<1>4. HasTerminalError(s')
  BY <1>1, <1>2, <1>3, NodesAre DEF HasTerminalError
<1>5. next' = Edge(next, s') /\ next # "record_failure"
  BY DEF Fails
<1> QED
  BY <1>1, <1>4, <1>5, Edges, NodesAre, ExtractorsAre
     DEF ContinueOrFail, RouteByType, RouteByValidation

LEMMA LoadKeeps ==
    ASSUME WorkflowInv, Load
    PROVE  ReadingIsKnown' /\ next' \in {"classify", "record_failure"}
<1>1. ReadingIsKnown'
  BY ReadingIs DEF WorkflowInv, RulesInv, Load, ReadingIsKnown
<1>2. next' = Edge("load_document", s')
  BY DEF Load, LoadDocument, Returns
<1> QED
  BY <1>1, <1>2, Edges, NodesAre DEF ContinueOrFail

LEMMA AskTypeLeads ==
    ASSUME Classify
    PROVE  next' \in Extractors \cup {"mark_unsupported", "record_failure"}
<1>1. next' = Edge("classify", s')
  BY DEF Classify, Returns
<1> QED
  BY <1>1, Edges, NodesAre, ExtractorOfType DEF RouteByType, ContinueOrFail

LEMMA AskFieldsKeeps ==
    ASSUME WorkflowInv, AskFields
    PROVE  ReadingIsKnown' /\ AnswerIsKept' /\ next' = "validate"
<1>1. s'.doc_type = s.doc_type /\ next' = "validate"
  BY ExtractDoes DEF WorkflowInv, RulesInv, AskFields
<1>2. ReadingIsKnown'
  BY DEF WorkflowInv, RulesInv, AskFields, ReadingIsKnown
<1>3. IsAnswer(s.doc_type, answer') /\ fields' = answer' /\ shown' = Prompt
  BY AnswersAre DEF AskFields
<1>4. AnswerIsKept'
  BY <1>1, <1>3 DEF AnswerIsKept, AskFields, Prompt, IsAnswer, CellsOf
<1> QED
  BY <1>1, <1>2, <1>4

LEMMA JudgeKeeps ==
    ASSUME WorkflowInv, Judge
    PROVE  ReadingIsKnown' /\ VerdictIsKnown' /\ next' \in Extractors \cup {"mask_pii"}
<1> DEFINE v == VerifyAll(fields)
           missing == Missing(s.doc_type, v)
           invalid == Invalid(v)
           secrets == fields.rest.secrets
<1>1. Validated(missing, invalid, secrets) /\ next = "validate"
  BY DEF Judge, Validated, Returns
<1>2. /\ fields = answer /\ IsAnswer(s.doc_type, fields) /\ shown = Prompt
      /\ ReadingIsKnown /\ GraphInv
  BY <1>1 DEF WorkflowInv, RulesInv, AnswerIsKept
<1>3. secrets \in BOOLEAN
  BY <1>2 DEF IsAnswer
<1>4. missing \in BOOLEAN /\ invalid \in BOOLEAN
  BY DEF Missing, Invalid
<1>5. ~missing /\ ~invalid <=> Sound(s.doc_type, answer)
  BY <1>2, JudgedIsSound
<1>6. CellsOf(v) = {VerifyCell(cell) : cell \in CellsOf(fields)}
  BY <1>2, VerifiedAnswer
<1>7. v = VerifyAll(fields)
  OBVIOUS
<1> HIDE DEF missing, invalid, secrets, v
<1>8. /\ s'.doc_type = s.doc_type /\ s'.missing = missing
      /\ s'.errors = "none" <=> ~invalid
      /\ next' = Edge("validate", s') /\ s'.error = s.error
  BY <1>1, <1>2, <1>3, <1>4, ValidateDoes
<1>9. /\ fields' = v /\ answer' = answer /\ reading' = reading /\ shown' = shown
      /\ observations' = observations \cup (IF reading.image_only THEN {"unverified"} ELSE {})
  BY <1>7 DEF Judge
<1>10. ReadingIsKnown'
  BY <1>2, <1>9 DEF ReadingIsKnown
<1>11. Sound(s.doc_type, answer)' <=> Sound(s.doc_type, answer)
  BY <1>8, <1>9 DEF Sound, Rejected, Supported
<1>12. ASSUME NEW cell \in CellsOf(v), cell.value # NULL
       PROVE  Verdict(cell)'
  <2>1. PICK asked \in CellsOf(fields) : cell = VerifyCell(asked)
    BY <1>6, <1>12
  <2>2. \/ reading.image_only /\ cell.verified = NULL
        \/ /\ ~reading.image_only /\ cell.verified = TRUE
           /\ cell.evidence = "blank" \/ (cell.evidence = "found" /\ reading.text = "some")
    BY <1>2, <1>12, <2>1, VerifiedCell DEF IsAnswer
  <2>3. shown = IF reading.image_only THEN "images" ELSE reading.text
    BY <1>2, PromptIs
  <2> QED
    BY <1>2, <1>9, <2>2, <2>3 DEF Verdict, ReadingIsKnown
<1>13. VerdictIsKnown'
  BY <1>8, <1>5, <1>9, <1>11, <1>12 DEF VerdictIsKnown, CellsOf
<1>14. next' \in Extractors \cup {"mask_pii"}
  <2>1. s.error = "NONE"
    BY <1>1, <1>2 DEF GraphInv, ErrorsStop, HasTerminalError
  <2> QED
    BY <1>8, <2>1, Edges, NodesAre, ExtractorOfType
       DEF RouteByValidation, ContinueOrFail, HasTerminalError
<1> QED
  BY <1>10, <1>13, <1>14

LEMMA DeclineLeads ==
    ASSUME GraphInv, MarkUnsupported
    PROVE  next' = "mask_pii" /\ s'.outcome = "UNSUPPORTED"
<1>1. s \in State
  BY DEF GraphInv, GraphTypeOK
<1>2. PICK u : /\ u = [s EXCEPT !.outcome = "UNSUPPORTED", !.extracted = "none",
                                !.missing = FALSE, !.errors = "none"]
               /\ Returns("mark_unsupported", u)
  BY DEF MarkUnsupported
<1>3. "outcome" \in DOMAIN u /\ u.outcome = "UNSUPPORTED"
  BY <1>1, <1>2 DEF State
<1>4. PICK w : w = s' /\ w = [u EXCEPT !.trace = Append(@, [node |-> "mark_unsupported",
                                                            status |-> "ok",
                                                            detail |-> "none"])]
  BY <1>2 DEF Returns
<1>5. w.outcome = "UNSUPPORTED"
  BY <1>3, <1>4
<1> QED
  BY <1>2, <1>4, <1>5, Edges, NodesAre DEF Returns

LEMMA RecordFailureLeads ==
    ASSUME GraphInv, RecordFailure
    PROVE  next' = "end" /\ Recorded' = "FAILED"
<1>1. s \in State
  BY DEF GraphInv, GraphTypeOK
<1>2. PICK u : /\ u = [s EXCEPT !.report = [outcome |-> "FAILED", texts |-> {Detail(s.error)},
                                            trace |-> FullTrace(s)]]
               /\ Returns("record_failure", u)
  BY DEF RecordFailure
<1>3. next' = "end" /\ HasTerminalError(s)
  BY <1>2, Edges, NodesAre DEF Returns, GraphInv, FailureIsKnown
<1>4. "error" \in DOMAIN u /\ u.error = s.error
  BY <1>1, <1>2 DEF State
<1>5. PICK w : w = s' /\ w = [u EXCEPT !.trace = Append(@, [node |-> "record_failure",
                                                            status |-> "ok",
                                                            detail |-> "none"])]
  BY <1>2 DEF Returns
<1>6. w.error = s.error
  BY <1>4, <1>5
<1>7. OutcomeIsWhatHappened'
  BY RecordFailureKeeps DEF GraphInv
<1> QED
  BY <1>3, <1>5, <1>6, <1>7 DEF OutcomeIsWhatHappened, HasTerminalError

LEMMA MaskKeeps ==
    ASSUME WorkflowInv, MaskPii, UNCHANGED <<readingVars, fieldVars>>
    PROVE  VerdictIsKnown' /\ next' \in {"generate_report", "record_failure"}
<1>1. GraphInv /\ VerdictIsKnown
  BY DEF WorkflowInv, RulesInv
<1>2. /\ next = "mask_pii" /\ next' = Edge("mask_pii", s')
      /\ s'.doc_type = s.doc_type /\ s'.error = s.error /\ s'.outcome = s.outcome
      /\ s'.missing = s.missing /\ s'.errors = Redact(s, s.errors)
  BY <1>1, MaskPiiDoes
<1>3. s'.errors = "none" <=> s.errors = "none"
  BY <1>2 DEF Redact
<1>4. /\ answer' = answer /\ fields' = fields /\ reading' = reading /\ shown' = shown
      /\ observations' = observations
  BY DEF readingVars, fieldVars
<1>5. Sound(s.doc_type, answer)' <=> Sound(s.doc_type, answer)
  BY <1>2, <1>4 DEF Sound, Rejected, Supported
<1>6. \A cell : Verdict(cell)' <=> Verdict(cell)
  BY <1>4 DEF Verdict
<1>7. VerdictIsKnown'
  BY <1>1, <1>2, <1>3, <1>4, <1>5, <1>6 DEF VerdictIsKnown, HasTerminalError, CellsOf
<1>8. next' \in {"generate_report", "record_failure"}
  BY <1>2, Edges, NodesAre DEF ContinueOrFail
<1> QED
  BY <1>7, <1>8

LEMMA GenerateKeeps ==
    ASSUME WorkflowInv, GenerateReport, UNCHANGED <<readingVars, fieldVars>>
    PROVE  CompleteIsSound' /\ VerdictIsOfWhatWasShown' /\ next' = "end"
<1>1. GraphInv /\ VerdictIsKnown
  BY DEF WorkflowInv, RulesInv
<1>2. /\ next = "generate_report" /\ next' = "end"
      /\ s'.doc_type = s.doc_type /\ s.error = "NONE" /\ Recorded' = OutcomeFor(s)
  BY <1>1, GenerateReportDoes
<1>3. s.outcome \in {"NONE", "UNSUPPORTED"}
  BY <1>1, <1>2 DEF GraphInv, OutcomeIsKnown
<1>4. /\ answer' = answer /\ fields' = fields /\ reading' = reading /\ shown' = shown
      /\ observations' = observations
  BY DEF readingVars, fieldVars
<1>5. Sound(s.doc_type, answer)' <=> Sound(s.doc_type, answer)
  BY <1>2, <1>4 DEF Sound, Rejected, Supported
<1>6. CASE s.outcome = "UNSUPPORTED"
  <2>1. Recorded' = "UNSUPPORTED"
    BY <1>2, <1>6 DEF OutcomeFor
  <2> QED
    BY <1>2, <2>1 DEF CompleteIsSound, VerdictIsOfWhatWasShown
<1>7. CASE s.outcome = "NONE"
  <2>1. Recorded' = "COMPLETE" <=> ~s.missing /\ s.errors = "none"
    BY <1>2, <1>7 DEF OutcomeFor
  <2>2. /\ ~s.missing /\ s.errors = "none" <=> Sound(s.doc_type, answer)
        /\ \A cell \in CellsOf(fields) : cell.value # NULL => Verdict(cell)
    BY <1>1, <1>2, <1>7 DEF VerdictIsKnown, HasTerminalError
  <2>3. CompleteIsSound'
    BY <1>5, <2>1, <2>2 DEF CompleteIsSound
  <2>4. VerdictIsOfWhatWasShown'
    <3>1. \A cell : Verdict(cell)' <=> Verdict(cell)
      BY <1>4 DEF Verdict
    <3>2. \A cell \in CellsOf(fields)' : cell.value # NULL => Verdict(cell)'
      BY <1>4, <2>2, <3>1 DEF CellsOf
    <3> QED
      BY <3>2 DEF VerdictIsOfWhatWasShown, Verdict
  <2> QED
    BY <1>2, <2>3, <2>4
<1> QED
  BY <1>3, <1>6, <1>7

LEMMA WorkflowStepKeeps ==
    ASSUME WorkflowInv, [WorkflowNext]_workflowVars
    PROVE  WorkflowInv'
<1> USE NodesAre, ExtractorsAre
<1>1. GraphInv' /\ GraphInv
  BY StepIsGraphStep, GraphStepKeeps DEF WorkflowInv, RulesInv
<1>2. file' \in Files
  BY DEF WorkflowInv, WorkflowNext, Load, LoadFails, AskType, AskFields, Judge, JudgeFails,
         Decline, OtherNodes, readingVars, workflowVars
<1> SUFFICES RulesInv'
  BY <1>1, <1>2 DEF WorkflowInv
<1>3. ASSUME next' \notin {"validate", "mask_pii", "generate_report", "end"}, ReadingIsKnown'
      PROVE  RulesInv'
  BY <1>3 DEF RulesInv, AnswerIsKept, VerdictIsKnown, CompleteIsSound, VerdictIsOfWhatWasShown
<1>4. ASSUME UNCHANGED readingVars
      PROVE  ReadingIsKnown'
  BY <1>4 DEF WorkflowInv, RulesInv, ReadingIsKnown, readingVars
<1>5. ASSUME Fails, UNCHANGED readingVars
      PROVE  RulesInv'
  <2>1. next' \in {"mask_pii", "record_failure"} /\ HasTerminalError(s')
    BY <1>1, <1>5, FailsLeads
  <2> QED
    BY <1>4, <1>5, <2>1
       DEF RulesInv, AnswerIsKept, VerdictIsKnown, CompleteIsSound, VerdictIsOfWhatWasShown
<1>6. CASE Load
  BY <1>3, <1>6, LoadKeeps
<1>7. CASE LoadFails
  BY <1>5, <1>7 DEF LoadFails
<1>8. CASE AskType
  BY <1>3, <1>4, <1>8, AskTypeLeads DEF AskType
<1>9. CASE AskFields
  BY <1>9, AskFieldsKeeps DEF RulesInv, VerdictIsKnown, CompleteIsSound, VerdictIsOfWhatWasShown
<1>10. CASE Judge
  BY <1>10, JudgeKeeps DEF RulesInv, AnswerIsKept, CompleteIsSound, VerdictIsOfWhatWasShown
<1>11. CASE JudgeFails
  BY <1>5, <1>11 DEF JudgeFails
<1>12. CASE Decline
  <2>1. next' = "mask_pii" /\ s'.outcome = "UNSUPPORTED"
    BY <1>1, <1>12, DeclineLeads DEF Decline
  <2>2. ReadingIsKnown'
    BY <1>12 DEF WorkflowInv, RulesInv, ReadingIsKnown, Decline
  <2> QED
    BY <2>1, <2>2
       DEF RulesInv, AnswerIsKept, VerdictIsKnown, CompleteIsSound, VerdictIsOfWhatWasShown
<1>13. CASE OtherNodes
  <2>1. UNCHANGED <<readingVars, fieldVars>>
    BY <1>13 DEF OtherNodes
  <2>2. CASE MaskPii
    BY <1>4, <2>1, <2>2, MaskKeeps
       DEF RulesInv, AnswerIsKept, CompleteIsSound, VerdictIsOfWhatWasShown
  <2>3. CASE GenerateReport
    BY <1>4, <2>1, <2>3, GenerateKeeps DEF RulesInv, AnswerIsKept, VerdictIsKnown
  <2>4. CASE RecordFailure
    BY <1>1, <1>4, <2>1, <2>4, RecordFailureLeads
       DEF RulesInv, AnswerIsKept, VerdictIsKnown, CompleteIsSound, VerdictIsOfWhatWasShown
  <2>5. CASE Fails
    BY <1>5, <2>1, <2>5
  <2>6. CASE Raises
    BY <1>3, <1>4, <2>1, <2>6 DEF Raises
  <2> QED
    BY <1>13, <2>2, <2>3, <2>4, <2>5, <2>6 DEF OtherNodes
<1>14. CASE UNCHANGED workflowVars
  BY <1>14
     DEF WorkflowInv, RulesInv, workflowVars, graphVars, readingVars, fieldVars, ReadingIsKnown,
     AnswerIsKept, IsAnswer, Prompt, VerdictIsKnown, Verdict, CompleteIsSound, Recorded,
     VerdictIsOfWhatWasShown, Sound, Rejected, Supported
<1> QED
  BY <1>6, <1>7, <1>8, <1>9, <1>10, <1>11, <1>12, <1>13, <1>14 DEF WorkflowNext

LEMMA ReadingTypes ==
    ASSUME NEW f \in Files, Readable(f)
    PROVE  Reading(f) \in [text : {"none", "blank", "some"}, images : 0 .. MaxPages,
                           image_only : BOOLEAN]
<1>1. f.pages \in Nat \ {0} /\ MaxPages \in Nat \ {0}
  OBVIOUS
<1>2. CASE DetectKind(f) = "pdf"
  <2>1. TextOf(f) \in {"none", "blank", "some"}
    BY DEF TextOf
  <2> QED
    BY <1>1, <1>2, <2>1 DEF Reading, LoadPdf, AsImages
<1>3. CASE DetectKind(f) = "docx"
  BY <1>1, <1>3 DEF Reading, LoadDocx
<1>4. CASE DetectKind(f) = "image"
  BY <1>1, <1>4 DEF Reading, AsImages
<1> QED
  BY <1>2, <1>3, <1>4 DEF Readable

LEMMA WorkflowTypeStep ==
    ASSUME WorkflowTypeOK, GraphTypeOK', [WorkflowNext]_workflowVars
    PROVE  WorkflowTypeOK'
<1> USE DEF WorkflowTypeOK
<1>1. Prompt \in {"images", "none", "blank", "some"}
  BY DEF Prompt
<1>2. CASE Load
  <2>1. reading' \in [text : {"none", "blank", "some"}, images : 0 .. MaxPages,
                      image_only : BOOLEAN]
    BY <1>2, ReadingTypes DEF Load
  <2> QED
    BY <1>2, <2>1 DEF Load, fieldVars
<1>3. CASE LoadFails
  BY <1>3 DEF LoadFails, readingVars, fieldVars
<1>4. CASE AskType
  BY <1>1, <1>4 DEF AskType, readingVars
<1>5. CASE AskFields
  BY <1>1, <1>5 DEF AskFields
<1>6. CASE Judge
  BY <1>6 DEF Judge
<1>7. CASE JudgeFails
  BY <1>7 DEF JudgeFails, readingVars, fieldVars
<1>8. CASE Decline
  BY <1>8 DEF Decline
<1>9. CASE OtherNodes
  BY <1>9 DEF OtherNodes, readingVars, fieldVars
<1>10. CASE UNCHANGED workflowVars
  BY <1>10 DEF workflowVars, readingVars, fieldVars
<1> QED
  BY <1>2, <1>3, <1>4, <1>5, <1>6, <1>7, <1>8, <1>9, <1>10 DEF WorkflowNext

-----------------------------------------------------------------------------
(* What every state of a run satisfies, for any documents and answers: it  *)
(* relates the state of the graph to what was read, asked and answered.    *)
THEOREM WorkflowIsInvariant == WorkflowSpec => []WorkflowInv
<1>1. WorkflowInit => WorkflowInv
  <2> SUFFICES ASSUME WorkflowInit PROVE WorkflowInv
    OBVIOUS
  <2>1. GraphInv /\ next = "load_document"
    BY GraphInitHolds DEF WorkflowInit, GraphInit
  <2> QED
    BY <2>1 DEF WorkflowInit, WorkflowInv, RulesInv, ReadingIsKnown, Unread, AnswerIsKept,
                VerdictIsKnown, CompleteIsSound, VerdictIsOfWhatWasShown
<1>2. WorkflowInv /\ [WorkflowNext]_workflowVars => WorkflowInv'
  BY WorkflowStepKeeps
<1> QED
  BY <1>1, <1>2, PTL DEF WorkflowSpec

(* Parsing, prompting and judging are one way for Graph's nodes to answer: *)
(* every run with a real document is a run of the workflow (build_graph),  *)
(* so Graph's theorems hold of it.                                         *)
THEOREM WorkflowImplementsGraph == WorkflowSpec => GraphSpec
<1>1. WorkflowInit => GraphInit
  BY DEF WorkflowInit
<1>2. WorkflowInv /\ [WorkflowNext]_workflowVars => [GraphNext]_graphVars
  BY StepIsGraphStep DEF WorkflowInv, RulesInv
<1> QED
  BY <1>1, <1>2, WorkflowIsInvariant, PTL DEF WorkflowSpec, GraphSpec

(* For every tolerance and any number of rows, a document is COMPLETE      *)
(* exactly if its last answer is sound, by the evidence that verification  *)
(* accepts (validate.py, snippets.py, outcome_for).                        *)
THEOREM CompleteIsSoundAlways == WorkflowSpec => []CompleteIsSound
<1>1. WorkflowInv => CompleteIsSound
  BY DEF WorkflowInv, RulesInv
<1> QED
  BY <1>1, WorkflowIsInvariant, PTL

(* For every threshold and page limit, a report says verified only of what *)
(* was read as text, with words if words are the evidence, and not         *)
(* verified only of images (load_pdf, prompts.py, verify_all).             *)
THEOREM VerdictIsOfWhatWasShownAlways == WorkflowSpec => []VerdictIsOfWhatWasShown
<1>1. WorkflowInv => VerdictIsOfWhatWasShown
  BY DEF WorkflowInv, RulesInv
<1> QED
  BY <1>1, WorkflowIsInvariant, PTL

(* Whatever the documents, what is read, shown and observed is of its type.*)
THEOREM WorkflowTypeOKAlways == WorkflowSpec => []WorkflowTypeOK
<1>1. WorkflowInit => WorkflowTypeOK
  <2> SUFFICES ASSUME WorkflowInit PROVE WorkflowTypeOK
    OBVIOUS
  <2>1. GraphTypeOK
    BY GraphInitHolds DEF WorkflowInit, GraphInv
  <2> QED
    BY <2>1 DEF WorkflowInit, WorkflowTypeOK, Unread
<1>2. WorkflowInv' /\ WorkflowTypeOK /\ [WorkflowNext]_workflowVars => WorkflowTypeOK'
  BY WorkflowTypeStep DEF WorkflowInv, GraphInv
<1> QED
  BY <1>1, <1>2, WorkflowIsInvariant, PTL DEF WorkflowSpec
=============================================================================
