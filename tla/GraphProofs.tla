----------------------------- MODULE GraphProofs -----------------------------
(***************************************************************************)
(* Theorems about Graph, for every retry budget: whatever the model        *)
(* answers, whatever validation finds and whichever nodes fail.            *)
(***************************************************************************)
EXTENDS Graph, FiniteSetTheorems, SequenceTheorems, TLAPS

Early == {"load_document", "classify", "mark_unsupported"}
Left == {"record_failure", "end", "raised"}

ExtractorRan == \E node \in Extractors : RanOk(node)

(* Nothing has been extracted yet, and nothing has failed.                 *)
EarlyIsEmpty ==
    next \in Early =>
        /\ s.extracted = "none" /\ s.errors = "none" /\ ~s.secrets
        /\ s.outcome = "NONE" /\ s.error = "NONE" /\ s.masked_trace = <<>>
        /\ s.attempts = 0
        /\ Extractions = {}

(* How many steps the run may have taken by then.                          *)
StepsAreCounted ==
    LET steps == Len(s.trace)
        most == 2 * MaxExtractionAttempts
    IN /\ next = "load_document" => steps = 0
       /\ next = "classify" => steps <= 1
       /\ next = "mark_unsupported" => steps <= 2
       /\ next \in Extractors => steps <= 2 + 2 * s.attempts
       /\ next = "validate" => steps <= 1 + 2 * s.attempts
       /\ next = "mask_pii" => steps <= 2 + most
       /\ next = "generate_report" => steps <= 3 + most
       /\ next = "record_failure" => steps <= 4 + most
       /\ next \in Nodes => steps <= 4 + most

(* The budget: each extraction that is over counts.                        *)
BudgetIsKept ==
    /\ next \in Extractors =>
        /\ next = ExtractorOf(s.doc_type)
        /\ s.attempts < MaxExtractionAttempts
        /\ s.trace # <<>> /\ s.trace[Len(s.trace)].node \in {"classify", "validate"}
    /\ next \notin Left => Cardinality(Extractions) <= s.attempts

(* Only a failed node leads to record_failure.                             *)
FailureIsKnown == next = "record_failure" => HasTerminalError(s)

(* Where masking is due, no value a field holds is quoted unless there is  *)
(* one to look for; after it, none is quoted at all.                       *)
TextsAreKnown ==
    /\ next = "mask_pii" /\ ~s.secrets => s.extracted # "raw" /\ s.errors # "raw"
    /\ next = "generate_report" => "raw" \notin {s.extracted, s.errors, s.notes}

(* What no step of a masked trace may say. *)
Unmasked == {"raw", "exception"}

(* Before a run is lost no step says what a node that reads the document   *)
(* raised; the masked copy never does.                                     *)
TracesAreKnown ==
    /\ next \notin Left => \A i \in DOMAIN s.trace : s.trace[i].detail \notin Unmasked
    /\ Len(s.masked_trace) <= Len(s.trace)
    /\ \A i \in DOMAIN s.masked_trace :
        s.masked_trace[i].node = s.trace[i].node /\ s.masked_trace[i].detail \notin Unmasked

(* What the outcome will be decided by.                                    *)
OutcomeIsKnown ==
    /\ next # "end" => s.outcome \in {"NONE", "UNSUPPORTED"} /\ s.report = NoReport
    /\ next \in Extractors \cup {"validate"} => s.outcome = "NONE"
    /\ next = "validate" => ExtractorRan
    /\ next \in {"mask_pii", "generate_report"} /\ ~HasTerminalError(s) =>
        \/ s.outcome = "UNSUPPORTED" /\ ~ExtractorRan
        \/ s.outcome = "NONE" /\ ExtractorRan /\ RanOk("validate")

GraphInv ==
    /\ GraphTypeOK
    /\ EarlyIsEmpty
    /\ BudgetIsKept /\ StepsAreCounted /\ RetriesAreBounded
    /\ FailureIsKnown /\ ErrorsStop
    /\ TextsAreKnown /\ TracesAreKnown /\ ReportIsMasked
    /\ OutcomeIsKnown /\ OutcomeIsWhatHappened
    /\ TraceIsWhole

-----------------------------------------------------------------------------
USE GraphAssumption

LEMMA ExtractorsAre ==
    Extractors = {"extract_claim", "extract_invoice", "extract_identity", "extract_generic"}
  BY DEF Extractors, ExtractorOf, EXTRACTOR_BY_TYPE, DocType

LEMMA NodesAre ==
    Nodes = {"extract_claim", "extract_invoice", "extract_identity", "extract_generic",
             "load_document", "classify", "mark_unsupported", "validate", "mask_pii",
             "generate_report", "record_failure"}
  BY ExtractorsAre DEF Nodes

LEMMA ExtractorOfType ==
    ASSUME NEW type
    PROVE  ExtractorOf(type) \in Extractors
  BY ExtractorsAre DEF ExtractorOf, EXTRACTOR_BY_TYPE

(* A step more in the trace: what it says of who ran, and how often.       *)
LEMMA TraceGrows ==
    ASSUME NEW step \in StepRecord, s.trace \in Seq(StepRecord),
           s'.trace = Append(s.trace, step)
    PROVE  /\ s'.trace \in Seq(StepRecord)
           /\ Len(s.trace) \in Nat /\ Len(s'.trace) = Len(s.trace) + 1
           /\ \A i \in 1 .. Len(s.trace) : s'.trace[i] = s.trace[i]
           /\ s'.trace[Len(s.trace) + 1] = step
           /\ s'.trace # <<>>
  OBVIOUS

LEMMA RanGrows ==
    ASSUME NEW step \in StepRecord, s.trace \in Seq(StepRecord),
           s'.trace = Append(s.trace, step), NEW node
    PROVE  RanOk(node)' <=> RanOk(node) \/ (step.node = node /\ step.status = "ok")
<1>1. DOMAIN s.trace = 1 .. Len(s.trace) /\ DOMAIN s'.trace = 1 .. Len(s.trace) + 1
  BY TraceGrows
<1> QED
  BY <1>1, TraceGrows DEF RanOk

LEMMA ExtractionsGrow ==
    ASSUME NEW step \in StepRecord, s.trace \in Seq(StepRecord),
           s'.trace = Append(s.trace, step)
    PROVE  /\ IsFiniteSet(Extractions) /\ Cardinality(Extractions) \in Nat
           /\ step.node \in Extractors =>
                /\ Extractions' = Extractions \cup {Len(s.trace) + 1}
                /\ Cardinality(Extractions') = Cardinality(Extractions) + 1
           /\ step.node \notin Extractors => Extractions' = Extractions
<1>1. DOMAIN s.trace = 1 .. Len(s.trace) /\ DOMAIN s'.trace = 1 .. Len(s.trace) + 1
  BY TraceGrows
<1>2. Extractions \subseteq 1 .. Len(s.trace)
  BY <1>1 DEF Extractions
<1>3. IsFiniteSet(Extractions) /\ Cardinality(Extractions) \in Nat
  <2>1. IsFiniteSet(1 .. Len(s.trace))
    BY TraceGrows, FS_Interval
  <2>2. IsFiniteSet(Extractions)
    BY <1>2, <2>1, FS_Subset
  <2> QED
    BY <2>2, FS_CardinalityType
<1>4. step.node \in Extractors => Extractions' = Extractions \cup {Len(s.trace) + 1}
  BY <1>1, TraceGrows, ExtractorsAre DEF Extractions
<1>5. step.node \notin Extractors => Extractions' = Extractions
  BY <1>1, TraceGrows, ExtractorsAre DEF Extractions
<1>6. Len(s.trace) + 1 \notin Extractions
  BY <1>2, TraceGrows
<1> QED
  BY <1>3, <1>4, <1>5, <1>6, FS_AddElement

LEMMA Edges ==
    ASSUME NEW st, NEW node \in Nodes
    PROVE  /\ node = "load_document" => Edge(node, st) = ContinueOrFail(st, "classify")
           /\ node = "classify" => Edge(node, st) = RouteByType(st)
           /\ node \in Extractors => Edge(node, st) = ContinueOrFail(st, "validate")
           /\ node = "validate" => Edge(node, st) = RouteByValidation(st)
           /\ node = "mark_unsupported" => Edge(node, st) = "mask_pii"
           /\ node = "mask_pii" => Edge(node, st) = ContinueOrFail(st, "generate_report")
           /\ node = "generate_report" => Edge(node, st) = ContinueOrFail(st, "end")
           /\ node = "record_failure" => Edge(node, st) = "end"
  BY ExtractorsAre, NodesAre DEF Edge

LEMMA TraceStep ==
    ASSUME GraphInv, NEW step \in StepRecord, s'.trace = Append(s.trace, step),
           next' \notin Left => next \notin Left /\ step.detail \notin Unmasked,
           s'.masked_trace = s.masked_trace
    PROVE  TracesAreKnown'
<1>1. s.trace \in Seq(StepRecord) /\ s.masked_trace \in Seq(StepRecord)
  BY DEF GraphInv, GraphTypeOK, State
<1>2. DOMAIN s.trace = 1 .. Len(s.trace) /\ DOMAIN s'.trace = 1 .. Len(s.trace) + 1
  BY <1>1, TraceGrows
<1> QED
  BY <1>1, <1>2, TraceGrows DEF GraphInv, TracesAreKnown

(* Retries stay in their place, whatever the step is. *)
LEMMA RetriesStep ==
    ASSUME GraphInv, NEW step \in StepRecord, s'.trace = Append(s.trace, step),
           next \in Nodes, step.node = next,
           s'.doc_type = s.doc_type \/ next = "classify",
           Len(s'.trace) <= 2 * MaxExtractionAttempts + 5
    PROVE  RetriesAreBounded'
<1> USE NodesAre, ExtractorsAre
<1>1. s.trace \in Seq(StepRecord) /\ s.attempts \in 0 .. MaxExtractionAttempts
  BY DEF GraphInv, GraphTypeOK, State
<1>2. DOMAIN s.trace = 1 .. Len(s.trace) /\ DOMAIN s'.trace = 1 .. Len(s.trace) + 1
  BY <1>1, TraceGrows
<1>3. Cardinality(Extractions') <= MaxExtractionAttempts
  <2>1. CASE next \in Extractors
    BY <1>1, <2>1, ExtractionsGrow DEF GraphInv, BudgetIsKept, Left
  <2>2. CASE next \notin Extractors
    BY <1>1, <2>2, ExtractionsGrow DEF GraphInv, RetriesAreBounded
  <2> QED
    BY <2>1, <2>2
<1>4. ASSUME NEW i \in Extractions'
      PROVE  /\ s'.trace[i].node = ExtractorOf(s'.doc_type)
             /\ i > 1 /\ s'.trace[i - 1].node \in {"classify", "validate"}
  <2>1. CASE i \in Extractions
    <3>1. next # "classify"
      BY <2>1 DEF GraphInv, EarlyIsEmpty, Early
    <3>2. i \in 1 .. Len(s.trace)
      BY <1>2, <2>1 DEF Extractions
    <3>3. /\ s.trace[i].node = ExtractorOf(s.doc_type)
          /\ i > 1 /\ s.trace[i - 1].node \in {"classify", "validate"}
      BY <2>1 DEF GraphInv, RetriesAreBounded
    <3>4. i - 1 \in 1 .. Len(s.trace)
      BY <1>1, <3>2, <3>3
    <3> QED
      BY <1>1, <3>1, <3>2, <3>3, <3>4, TraceGrows
  <2>2. CASE i \notin Extractions
    <3>1. i = Len(s.trace) + 1 /\ next \in Extractors
      BY <1>1, <2>2, ExtractionsGrow
    <3>2. /\ next = ExtractorOf(s.doc_type)
          /\ s.trace # <<>> /\ s.trace[Len(s.trace)].node \in {"classify", "validate"}
      BY <3>1 DEF GraphInv, BudgetIsKept
    <3>3. Len(s.trace) \in 1 .. Len(s.trace)
      BY <1>1, <3>2
    <3> QED
      BY <1>1, <3>1, <3>2, <3>3, TraceGrows
  <2> QED
    BY <2>1, <2>2
<1> QED
  BY <1>3, <1>4 DEF RetriesAreBounded

(* What every step inside the run keeps that does not depend on the node.  *)
LEMMA InsideStep ==
    ASSUME GraphInv, NEW step \in StepRecord, s'.trace = Append(s.trace, step),
           next \in Nodes \ Left, next' \in Nodes, step.node = next,
           s'.report = s.report, TracesAreKnown',
           s'.doc_type = s.doc_type \/ next = "classify",
           s' \in State, EarlyIsEmpty', BudgetIsKept', StepsAreCounted',
           FailureIsKnown', ErrorsStop', TextsAreKnown', OutcomeIsKnown'
    PROVE  GraphInv'
<1> USE NodesAre, ExtractorsAre
<1>1. next' # "end" /\ s'.report = NoReport
  BY DEF GraphInv, OutcomeIsKnown, Left
<1>2. ReportIsMasked' /\ OutcomeIsWhatHappened' /\ TraceIsWhole'
  BY <1>1 DEF ReportIsMasked, OutcomeIsWhatHappened, TraceIsWhole, NoReport
<1>3. Len(s'.trace) <= 2 * MaxExtractionAttempts + 5
  <2>1. s.trace \in Seq(StepRecord)
    BY DEF GraphInv, GraphTypeOK, State
  <2>2. Len(s'.trace) \in Nat
    BY <2>1, TraceGrows
  <2> QED
    BY <2>2 DEF StepsAreCounted
<1>4. RetriesAreBounded'
  BY <1>3, RetriesStep
<1>5. GraphTypeOK'
  BY DEF GraphTypeOK
<1> QED
  BY <1>2, <1>4, <1>5 DEF GraphInv

-----------------------------------------------------------------------------
(* The nodes, one by one. *)

OkStep(node) == [node |-> node, status |-> "ok", detail |-> "none"]

(* u is what the body returned: the rest is the wrapper's and the edge's.  *)
LEMMA Returned ==
    ASSUME GraphInv, NEW node \in Nodes, NEW u \in State, u.trace = s.trace, Returns(node, u)
    PROVE  /\ next = node /\ next' = Edge(node, s')
           /\ s' = [doc_type |-> u.doc_type, confident |-> u.confident, notes |-> u.notes,
                    extracted |-> u.extracted, secrets |-> u.secrets, attempts |-> u.attempts,
                    missing |-> u.missing, errors |-> u.errors, outcome |-> u.outcome,
                    error |-> u.error, report |-> u.report,
                    trace |-> Append(s.trace, OkStep(node)), masked_trace |-> u.masked_trace]
           /\ s' \in State
           /\ s.trace \in Seq(StepRecord) /\ OkStep(node) \in StepRecord
           /\ OkStep(node).node = node /\ OkStep(node).status = "ok"
           /\ OkStep(node).detail = "none"
           /\ s'.trace = Append(s.trace, OkStep(node))
           /\ Len(s.trace) \in Nat /\ Len(s'.trace) = Len(s.trace) + 1
<1> DEFINE step == OkStep(node)
<1>1. step \in StepRecord /\ step.node = node /\ step.status = "ok" /\ step.detail = "none"
  BY DEF OkStep, StepRecord, Message, Text
<1>2. next = node /\ next' = Edge(node, s') /\ s' = [u EXCEPT !.trace = Append(@, step)]
  BY DEF Returns, OkStep
<1> HIDE DEF step
<1>3. s.trace \in Seq(StepRecord) /\ Append(s.trace, step) \in Seq(StepRecord)
  BY <1>1 DEF State, GraphInv, GraphTypeOK
<1>4. s' = [doc_type |-> u.doc_type, confident |-> u.confident, notes |-> u.notes,
            extracted |-> u.extracted, secrets |-> u.secrets, attempts |-> u.attempts,
            missing |-> u.missing, errors |-> u.errors, outcome |-> u.outcome,
            error |-> u.error, report |-> u.report,
            trace |-> Append(s.trace, step), masked_trace |-> u.masked_trace]
  BY <1>2 DEF State
<1>5. s' \in State
  BY <1>3, <1>4 DEF State
<1>6. s'.trace = Append(s.trace, step)
  BY <1>4
<1>7. Len(s.trace) \in Nat /\ Len(s'.trace) = Len(s.trace) + 1
  BY <1>1, <1>3, <1>6, TraceGrows
<1> QED
  BY <1>1, <1>2, <1>3, <1>4, <1>5, <1>6, <1>7 DEF step

LEMMA EarlyFacts ==
    ASSUME GraphInv, next \in Early
    PROVE  /\ s \in State /\ s.extracted = "none" /\ s.errors = "none" /\ ~s.secrets
           /\ s.outcome = "NONE" /\ s.error = "NONE" /\ s.masked_trace = <<>>
           /\ s.attempts = 0 /\ Extractions = {} /\ ~ExtractorRan
           /\ s.report = NoReport
<1>1. ~ExtractorRan
  BY DEF GraphInv, EarlyIsEmpty, Extractions, ExtractorRan, RanOk
<1> QED
  BY <1>1, ExtractorsAre DEF GraphInv, GraphTypeOK, EarlyIsEmpty, OutcomeIsKnown, Early

LEMMA LoadDocumentKeeps ==
    ASSUME GraphInv, LoadDocument
    PROVE  GraphInv'
<1> USE NodesAre, ExtractorsAre
<1> DEFINE step == OkStep("load_document")
<1>1. s \in State /\ next \in Early /\ Len(s.trace) = 0
  BY DEF GraphInv, GraphTypeOK, LoadDocument, Returns, StepsAreCounted, Early
<1>2. /\ next = "load_document" /\ next' = Edge("load_document", s')
      /\ s' \in State /\ s'.trace = Append(s.trace, step)
      /\ s.trace \in Seq(StepRecord) /\ step \in StepRecord
      /\ step.node = "load_document" /\ step.detail = "none"
      /\ Len(s'.trace) = Len(s.trace) + 1
      /\ s'.doc_type = s.doc_type /\ s'.error = s.error /\ s'.report = s.report
      /\ s'.extracted = s.extracted /\ s'.errors = s.errors /\ s'.secrets = s.secrets
      /\ s'.outcome = s.outcome /\ s'.attempts = s.attempts
      /\ s'.masked_trace = s.masked_trace
  BY <1>1, Returned DEF LoadDocument
<1> HIDE DEF step
<1>3. next' = "classify"
  <2>1. next' = ContinueOrFail(s', "classify")
    BY <1>2, Edges
  <2> QED
    BY <1>1, <1>2, <2>1, EarlyFacts DEF ContinueOrFail, HasTerminalError
<1>4. Extractions' = {}
  BY <1>1, <1>2, EarlyFacts, ExtractionsGrow
<1>5. EarlyIsEmpty' /\ BudgetIsKept'
  BY <1>1, <1>2, <1>3, <1>4, EarlyFacts, FS_EmptySet DEF EarlyIsEmpty, BudgetIsKept
<1>6. StepsAreCounted'
  BY <1>1, <1>2, <1>3 DEF StepsAreCounted
<1>7. FailureIsKnown' /\ ErrorsStop' /\ TextsAreKnown' /\ OutcomeIsKnown'
  BY <1>1, <1>2, <1>3, EarlyFacts
     DEF FailureIsKnown, ErrorsStop, HasTerminalError, TextsAreKnown, OutcomeIsKnown
<1>8. TracesAreKnown'
  BY <1>2, TraceStep DEF Left, Unmasked
<1> QED
  BY <1>2, <1>3, <1>5, <1>6, <1>7, <1>8, InsideStep DEF Left

LEMMA ClassifyKeeps ==
    ASSUME GraphInv, Classify
    PROVE  GraphInv'
<1>1. s \in State
  BY DEF GraphInv, GraphTypeOK
<1> DEFINE step == OkStep("classify")
<1>2. s \in State /\ next \in Early /\ next = "classify" /\ Len(s.trace) <= 1
  BY <1>1 DEF GraphInv, GraphTypeOK, Classify, Returns, StepsAreCounted, Early
<1>3. PICK type \in DocType, confident \in BOOLEAN, notes \in {"none", "raw"} :
        Returns("classify", [s EXCEPT !.doc_type = type,
                                      !.confident = confident,
                                      !.notes = notes])
  BY DEF Classify
<1>4. PICK u : /\ u = [s EXCEPT !.doc_type = type, !.confident = confident, !.notes = notes]
               /\ Returns("classify", u)
  BY <1>3
<1>5. u = [doc_type |-> type, confident |-> confident, notes |-> notes,
           extracted |-> s.extracted, secrets |-> s.secrets, attempts |-> s.attempts,
           missing |-> s.missing, errors |-> s.errors, outcome |-> s.outcome,
           error |-> s.error, report |-> s.report, trace |-> s.trace,
           masked_trace |-> s.masked_trace]
  BY <1>1, <1>4 DEF State
<1> USE NodesAre, ExtractorsAre
<1>6. u \in State /\ u.trace = s.trace
  BY <1>2, <1>5 DEF State, Text
<1>7. /\ next' = Edge("classify", s')
      /\ s' \in State /\ s'.trace = Append(s.trace, step)
      /\ s.trace \in Seq(StepRecord) /\ step \in StepRecord
      /\ step.node = "classify" /\ step.detail = "none"
      /\ Len(s'.trace) = Len(s.trace) + 1 /\ Len(s.trace) \in Nat
      /\ s'.doc_type = type /\ s'.error = s.error /\ s'.report = s.report
      /\ s'.extracted = s.extracted /\ s'.errors = s.errors /\ s'.secrets = s.secrets
      /\ s'.outcome = s.outcome /\ s'.attempts = s.attempts
      /\ s'.masked_trace = s.masked_trace
  BY <1>5, <1>4, <1>6, Returned
<1> HIDE DEF step
<1>8. next' \in {"mark_unsupported", ExtractorOf(s'.doc_type)}
  <2>1. next' = RouteByType(s')
    BY <1>7, Edges
  <2> QED
    BY <1>2, <1>7, <2>1, EarlyFacts DEF RouteByType, ContinueOrFail, HasTerminalError
<1>9. next' \in Nodes \ Left /\ next' \notin {"load_document", "classify"}
      /\ next' \notin {"validate", "mask_pii", "generate_report", "record_failure"}
  BY <1>8, ExtractorOfType DEF Left
<1>10. Extractions' = {} /\ Cardinality(Extractions') = 0
  BY <1>2, <1>7, EarlyFacts, ExtractionsGrow, FS_EmptySet
<1>11. s'.trace # <<>> /\ s'.trace[Len(s'.trace)].node = "classify"
  BY <1>7, TraceGrows
<1>12. EarlyIsEmpty' /\ BudgetIsKept'
  BY <1>2, <1>7, <1>8, <1>9, <1>10, <1>11, EarlyFacts DEF EarlyIsEmpty, BudgetIsKept
<1>13. StepsAreCounted'
  BY <1>2, <1>7, <1>9, EarlyFacts DEF StepsAreCounted
<1>14. FailureIsKnown' /\ ErrorsStop' /\ TextsAreKnown' /\ OutcomeIsKnown'
  BY <1>2, <1>7, <1>9, EarlyFacts
     DEF FailureIsKnown, ErrorsStop, HasTerminalError, TextsAreKnown, OutcomeIsKnown
<1>15. TracesAreKnown'
  BY <1>2, <1>7, TraceStep DEF Left, Unmasked
<1> QED
  BY <1>2, <1>7, <1>9, <1>12, <1>13, <1>14, <1>15, InsideStep DEF Left

LEMMA ExtractDoes ==
    ASSUME GraphInv, NEW node \in Extractors, Extract(node)
    PROVE  LET step == OkStep(node) IN
           /\ s \in State /\ next = node /\ node \in Nodes /\ next' = "validate"
           /\ s.attempts < MaxExtractionAttempts /\ Cardinality(Extractions) <= s.attempts
           /\ Len(s.trace) <= 2 + 2 * s.attempts
           /\ s.error = "NONE" /\ s.outcome = "NONE" /\ s.report = NoReport
           /\ s.attempts \in Nat /\ s.attempts + 1 \in 0 .. MaxExtractionAttempts
           /\ s' \in State /\ s'.trace = Append(s.trace, step)
           /\ s.trace \in Seq(StepRecord) /\ step \in StepRecord
           /\ step.node = node /\ step.detail = "none" /\ step.status = "ok"
           /\ Len(s'.trace) = Len(s.trace) + 1 /\ Len(s.trace) \in Nat
           /\ s'.doc_type = s.doc_type /\ s'.error = s.error /\ s'.report = s.report
           /\ s'.outcome = s.outcome /\ s'.attempts = s.attempts + 1
           /\ s'.masked_trace = s.masked_trace
<1>1. s \in State
  BY DEF GraphInv, GraphTypeOK
<1> DEFINE step == OkStep(node)
<1>2. PICK u : /\ u = [s EXCEPT !.extracted = "raw", !.attempts = @ + 1, !.errors = "none"]
               /\ Returns(node, u)
  BY DEF Extract
<1>3. /\ s \in State /\ next = node
      /\ s.attempts < MaxExtractionAttempts /\ Cardinality(Extractions) <= s.attempts
      /\ Len(s.trace) <= 2 + 2 * s.attempts
      /\ s.error = "NONE" /\ s.outcome = "NONE" /\ s.report = NoReport
  BY <1>1, NodesAre, ExtractorsAre
     DEF GraphInv, GraphTypeOK, Extract, Returns, StepsAreCounted, BudgetIsKept, Left,
         OutcomeIsKnown, ErrorsStop, HasTerminalError
<1>4. u = [doc_type |-> s.doc_type, confident |-> s.confident, notes |-> s.notes,
           extracted |-> "raw", secrets |-> s.secrets, attempts |-> s.attempts + 1,
           missing |-> s.missing, errors |-> "none", outcome |-> s.outcome,
           error |-> s.error, report |-> s.report, trace |-> s.trace,
           masked_trace |-> s.masked_trace]
  BY <1>1, <1>2 DEF State
<1> USE NodesAre, ExtractorsAre
<1>5. s.attempts \in Nat /\ s.attempts + 1 \in 0 .. MaxExtractionAttempts
  BY <1>3 DEF State
<1>6. u \in State /\ u.trace = s.trace
  BY <1>3, <1>4, <1>5 DEF State, Text
<1>7. /\ next' = Edge(node, s')
      /\ s' \in State /\ s'.trace = Append(s.trace, step)
      /\ s.trace \in Seq(StepRecord) /\ step \in StepRecord
      /\ step.node = node /\ step.detail = "none" /\ step.status = "ok"
      /\ Len(s'.trace) = Len(s.trace) + 1 /\ Len(s.trace) \in Nat
      /\ s'.doc_type = s.doc_type /\ s'.error = s.error /\ s'.report = s.report
      /\ s'.outcome = s.outcome /\ s'.attempts = s.attempts + 1
      /\ s'.masked_trace = s.masked_trace
  BY <1>3, <1>4, <1>6, <1>2, Returned
<1> HIDE DEF step
<1>8. next' = "validate"
  <2>1. next' = ContinueOrFail(s', "validate")
    BY <1>7, Edges
  <2> QED
    BY <1>3, <1>7, <2>1 DEF ContinueOrFail, HasTerminalError
<1> QED
  BY <1>3, <1>5, <1>7, <1>8 DEF step

LEMMA ExtractKeeps ==
    ASSUME GraphInv, NEW node \in Extractors, Extract(node)
    PROVE  GraphInv'
<1> USE NodesAre, ExtractorsAre
<1> DEFINE step == OkStep(node)
<1>1. /\ s \in State /\ next = node /\ next' = "validate"
      /\ s.attempts < MaxExtractionAttempts /\ Cardinality(Extractions) <= s.attempts
      /\ Len(s.trace) <= 2 + 2 * s.attempts
      /\ s.error = "NONE" /\ s.outcome = "NONE" /\ s.report = NoReport
      /\ s.attempts \in Nat /\ s.attempts + 1 \in 0 .. MaxExtractionAttempts
      /\ s' \in State /\ s'.trace = Append(s.trace, step)
      /\ s.trace \in Seq(StepRecord) /\ step \in StepRecord
      /\ step.node = node /\ step.detail = "none" /\ step.status = "ok"
      /\ Len(s'.trace) = Len(s.trace) + 1 /\ Len(s.trace) \in Nat
      /\ s'.doc_type = s.doc_type /\ s'.error = s.error /\ s'.report = s.report
      /\ s'.outcome = s.outcome /\ s'.attempts = s.attempts + 1
      /\ s'.masked_trace = s.masked_trace
  BY ExtractDoes
<1> HIDE DEF step
<1>2. Cardinality(Extractions') = Cardinality(Extractions) + 1
      /\ Cardinality(Extractions) \in Nat
  BY <1>1, ExtractionsGrow
<1>3. EarlyIsEmpty' /\ BudgetIsKept'
  BY <1>1, <1>2 DEF EarlyIsEmpty, Early, BudgetIsKept
<1>4. StepsAreCounted'
  BY <1>1 DEF StepsAreCounted
<1>5. ExtractorRan'
  BY <1>1, RanGrows DEF ExtractorRan
<1>6. FailureIsKnown' /\ ErrorsStop' /\ TextsAreKnown' /\ OutcomeIsKnown'
  BY <1>1, <1>5
     DEF FailureIsKnown, ErrorsStop, HasTerminalError, TextsAreKnown, OutcomeIsKnown
<1>7. TracesAreKnown'
  BY <1>1, TraceStep DEF Left, Unmasked
<1> QED
  BY <1>1, <1>3, <1>4, <1>6, <1>7, InsideStep DEF Left

LEMMA ValidateDoes ==
    ASSUME GraphInv, NEW missing \in BOOLEAN, NEW invalid \in BOOLEAN, NEW secrets \in BOOLEAN,
           Validated(missing, invalid, secrets)
    PROVE  LET step == OkStep("validate")
               quotes == IF secrets THEN "raw" ELSE "cleared"
           IN
           /\ next = "validate" /\ next' = Edge("validate", s')
           /\ s' \in State /\ s'.trace = Append(s.trace, step)
           /\ s.trace \in Seq(StepRecord) /\ step \in StepRecord
           /\ step.node = "validate" /\ step.detail = "none" /\ step.status = "ok"
           /\ Len(s'.trace) = Len(s.trace) + 1 /\ Len(s.trace) \in Nat
           /\ s'.doc_type = s.doc_type /\ s'.error = s.error /\ s'.report = s.report
           /\ s'.outcome = s.outcome /\ s'.attempts = s.attempts
           /\ s'.secrets = secrets /\ s'.extracted = quotes
           /\ s'.errors = (IF invalid THEN quotes ELSE "none") /\ s'.missing = missing
           /\ s'.masked_trace = s.masked_trace
<1> DEFINE step == OkStep("validate")
           quotes == IF secrets THEN "raw" ELSE "cleared"
<1>1. s \in State
  BY DEF GraphInv, GraphTypeOK
<1>2. PICK u : /\ u = [s EXCEPT !.extracted = quotes, !.secrets = secrets, !.missing = missing,
                                !.errors = IF invalid THEN quotes ELSE "none"]
               /\ Returns("validate", u)
  BY DEF Validated
<1>3. quotes \in {"raw", "cleared"} /\ (~secrets => quotes = "cleared")
  OBVIOUS
<1> HIDE DEF quotes
<1>4. u = [doc_type |-> s.doc_type, confident |-> s.confident, notes |-> s.notes,
           extracted |-> quotes, secrets |-> secrets, attempts |-> s.attempts,
           missing |-> missing, errors |-> IF invalid THEN quotes ELSE "none",
           outcome |-> s.outcome, error |-> s.error, report |-> s.report,
           trace |-> s.trace, masked_trace |-> s.masked_trace]
  BY <1>1, <1>2 DEF State
<1> USE NodesAre, ExtractorsAre
<1>5. u \in State /\ u.trace = s.trace
  BY <1>1, <1>3, <1>4 DEF State, Text
<1>6. /\ next = "validate" /\ next' = Edge("validate", s')
      /\ s' \in State /\ s'.trace = Append(s.trace, step)
      /\ s.trace \in Seq(StepRecord) /\ step \in StepRecord
      /\ step.node = "validate" /\ step.detail = "none" /\ step.status = "ok"
      /\ Len(s'.trace) = Len(s.trace) + 1 /\ Len(s.trace) \in Nat
      /\ s'.doc_type = s.doc_type /\ s'.error = s.error /\ s'.report = s.report
      /\ s'.outcome = s.outcome /\ s'.attempts = s.attempts
      /\ s'.secrets = secrets /\ s'.extracted = quotes
      /\ s'.errors = (IF invalid THEN quotes ELSE "none") /\ s'.missing = missing
      /\ s'.masked_trace = s.masked_trace
  BY <1>4, <1>5, <1>2, Returned
<1> QED
  BY <1>6 DEF step, quotes

LEMMA ValidateKeeps ==
    ASSUME GraphInv, NEW missing \in BOOLEAN, NEW invalid \in BOOLEAN, NEW secrets \in BOOLEAN,
           Validated(missing, invalid, secrets)
    PROVE  GraphInv'
<1> DEFINE step == OkStep("validate")
           quotes == IF secrets THEN "raw" ELSE "cleared"
<1>1. quotes \in {"raw", "cleared"} /\ (~secrets => quotes = "cleared")
  OBVIOUS
<1> USE NodesAre, ExtractorsAre
<1>2. /\ next = "validate" /\ next' = Edge("validate", s')
      /\ s' \in State /\ s'.trace = Append(s.trace, step)
      /\ s.trace \in Seq(StepRecord) /\ step \in StepRecord
      /\ step.node = "validate" /\ step.detail = "none" /\ step.status = "ok"
      /\ Len(s'.trace) = Len(s.trace) + 1 /\ Len(s.trace) \in Nat
      /\ s'.doc_type = s.doc_type /\ s'.error = s.error /\ s'.report = s.report
      /\ s'.outcome = s.outcome /\ s'.attempts = s.attempts
      /\ s'.secrets = secrets /\ s'.extracted = quotes
      /\ s'.errors = (IF invalid THEN quotes ELSE "none") /\ s'.missing = missing
      /\ s'.masked_trace = s.masked_trace
  BY ValidateDoes
<1> HIDE DEF quotes
<1>3. s \in State
  BY DEF GraphInv, GraphTypeOK
<1>4. /\ s.error = "NONE" /\ s.outcome = "NONE" /\ s.report = NoReport /\ ExtractorRan
      /\ Cardinality(Extractions) <= s.attempts /\ Len(s.trace) <= 1 + 2 * s.attempts
      /\ s.attempts \in 0 .. MaxExtractionAttempts
  BY <1>3, <1>2 DEF GraphInv, StepsAreCounted, BudgetIsKept, Left, OutcomeIsKnown, ErrorsStop,
                    HasTerminalError, State
<1> HIDE DEF step
<1>5. \/ next' = "mask_pii"
      \/ next' = ExtractorOf(s'.doc_type) /\ s.attempts < MaxExtractionAttempts
  <2>1. next' = RouteByValidation(s')
    BY <1>2, Edges
  <2> QED
    BY <1>2, <1>4, <2>1 DEF RouteByValidation, ContinueOrFail, HasTerminalError
<1>6. next' \in Extractors \cup {"mask_pii"}
  BY <1>5, ExtractorOfType
<1>7. Extractions' = Extractions
  BY <1>2, ExtractionsGrow
<1>8. s'.trace # <<>> /\ s'.trace[Len(s'.trace)].node = "validate"
  BY <1>2, TraceGrows
<1>9. EarlyIsEmpty' /\ BudgetIsKept'
  BY <1>2, <1>4, <1>5, <1>6, <1>7, <1>8 DEF EarlyIsEmpty, Early, BudgetIsKept
<1>10. StepsAreCounted'
  BY <1>2, <1>4, <1>5, <1>6 DEF StepsAreCounted
<1>11. ExtractorRan' /\ RanOk("validate")'
  BY <1>2, <1>4, RanGrows DEF ExtractorRan
<1>12. FailureIsKnown' /\ ErrorsStop' /\ TextsAreKnown'
  BY <1>1, <1>2, <1>4, <1>6 DEF FailureIsKnown, ErrorsStop, HasTerminalError, TextsAreKnown
<1>13. OutcomeIsKnown'
  BY <1>2, <1>4, <1>6, <1>11 DEF OutcomeIsKnown
<1>14. TracesAreKnown'
  BY <1>2, TraceStep DEF Left, Unmasked
<1> QED
  BY <1>2, <1>6, <1>9, <1>10, <1>12, <1>13, <1>14, InsideStep DEF Left

LEMMA MarkUnsupportedKeeps ==
    ASSUME GraphInv, MarkUnsupported
    PROVE  GraphInv'
<1> DEFINE step == OkStep("mark_unsupported")
<1>1. s \in State
  BY DEF GraphInv, GraphTypeOK
<1>2. PICK u : /\ u = [s EXCEPT !.outcome = "UNSUPPORTED", !.extracted = "none",
                                !.missing = FALSE, !.errors = "none"]
               /\ Returns("mark_unsupported", u)
  BY DEF MarkUnsupported
<1>3. u = [doc_type |-> s.doc_type, confident |-> s.confident, notes |-> s.notes,
           extracted |-> "none", secrets |-> s.secrets, attempts |-> s.attempts,
           missing |-> FALSE, errors |-> "none", outcome |-> "UNSUPPORTED",
           error |-> s.error, report |-> s.report, trace |-> s.trace,
           masked_trace |-> s.masked_trace]
  BY <1>1, <1>2 DEF State
<1> USE NodesAre, ExtractorsAre
<1>4. u \in State /\ u.trace = s.trace
  BY <1>1, <1>3 DEF State, Text, Outcome
<1>5. /\ next = "mark_unsupported" /\ next' = Edge("mark_unsupported", s')
      /\ s' \in State /\ s'.trace = Append(s.trace, step)
      /\ s.trace \in Seq(StepRecord) /\ step \in StepRecord
      /\ step.node = "mark_unsupported" /\ step.detail = "none"
      /\ Len(s'.trace) = Len(s.trace) + 1 /\ Len(s.trace) \in Nat
      /\ s'.doc_type = s.doc_type /\ s'.error = s.error /\ s'.report = s.report
      /\ s'.outcome = "UNSUPPORTED" /\ s'.attempts = s.attempts
      /\ s'.extracted = "none" /\ s'.errors = "none"
      /\ s'.masked_trace = s.masked_trace
  BY <1>3, <1>4, <1>2, Returned
<1> HIDE DEF step
<1>6. next \in Early /\ next' = "mask_pii"
  BY <1>5, Edges DEF Early
<1>7. Extractions' = {} /\ ~ExtractorRan'
  <2>1. Extractions' = {}
    BY <1>5, <1>6, EarlyFacts, ExtractionsGrow
  <2> QED
    BY <2>1 DEF Extractions, ExtractorRan, RanOk
<1>8. EarlyIsEmpty' /\ BudgetIsKept'
  BY <1>5, <1>6, <1>7, EarlyFacts, FS_EmptySet DEF EarlyIsEmpty, Early, BudgetIsKept
<1>9. StepsAreCounted'
  BY <1>5, <1>6 DEF StepsAreCounted, GraphInv
<1>10. FailureIsKnown' /\ ErrorsStop' /\ TextsAreKnown' /\ OutcomeIsKnown'
  BY <1>5, <1>6, <1>7, EarlyFacts
     DEF FailureIsKnown, ErrorsStop, HasTerminalError, TextsAreKnown, OutcomeIsKnown
<1>11. TracesAreKnown'
  BY <1>5, TraceStep DEF Left, Unmasked
<1> QED
  BY <1>5, <1>6, <1>8, <1>9, <1>10, <1>11, InsideStep DEF Left

LEMMA RedactHides ==
    ASSUME NEW st, NEW text \in Text
    PROVE  /\ Redact(st, text) \in Text
           /\ (st.secrets \/ text # "raw") => Redact(st, text) # "raw"
  BY DEF Redact, Text

LEMMA MaskPiiDoes ==
    ASSUME GraphInv, MaskPii
    PROVE  LET step == OkStep("mask_pii")
               masked == [i \in DOMAIN s.trace |->
                            [s.trace[i] EXCEPT !.detail = Redact(s, @)]]
               extracted == Redact(s, s.extracted)
               errors == Redact(s, s.errors)
               notes == SafeNotes(s)
           IN
           /\ next = "mask_pii" /\ next' = Edge("mask_pii", s')
           /\ "raw" \notin {extracted, errors, notes}
           /\ masked \in Seq(StepRecord) /\ Len(masked) = Len(s.trace)
           /\ \A i \in 1 .. Len(s.trace) :
                masked[i].node = s.trace[i].node /\ masked[i].detail \notin Unmasked
           /\ s' \in State /\ s'.trace = Append(s.trace, step)
           /\ s.trace \in Seq(StepRecord) /\ step \in StepRecord
           /\ step.node = "mask_pii" /\ step.detail = "none" /\ step.status = "ok"
           /\ Len(s'.trace) = Len(s.trace) + 1 /\ Len(s.trace) \in Nat
           /\ s'.doc_type = s.doc_type /\ s'.error = s.error /\ s'.report = s.report
           /\ s'.outcome = s.outcome /\ s'.attempts = s.attempts /\ s'.missing = s.missing
           /\ s'.extracted = extracted /\ s'.errors = errors /\ s'.notes = notes
           /\ s'.masked_trace = masked
<1> DEFINE step == OkStep("mask_pii")
           masked == [i \in DOMAIN s.trace |->
                        [s.trace[i] EXCEPT !.detail = Redact(s, @)]]
           extracted == Redact(s, s.extracted)
           errors == Redact(s, s.errors)
           notes == SafeNotes(s)
<1>1. s \in State
  BY DEF GraphInv, GraphTypeOK
<1>2. PICK u : /\ u = [s EXCEPT !.extracted = extracted, !.errors = errors, !.notes = notes,
                                !.masked_trace = masked]
               /\ Returns("mask_pii", u)
  BY DEF MaskPii
<1>3. next = "mask_pii"
  BY <1>2 DEF Returns
<1>4. s.extracted \in Text /\ s.errors \in Text /\ s.notes \in Text /\ s.secrets \in BOOLEAN
  BY <1>1 DEF State
<1>5. /\ extracted \in Text \ {"raw"} /\ errors \in Text \ {"raw"}
      /\ notes \in Text \ {"raw"}
  BY <1>3, <1>4, RedactHides DEF GraphInv, TextsAreKnown, SafeNotes, Text
<1>6. /\ masked \in Seq(StepRecord) /\ Len(masked) = Len(s.trace)
      /\ \A i \in 1 .. Len(s.trace) :
            masked[i].node = s.trace[i].node /\ masked[i].detail \notin Unmasked
  <2>1. s.trace \in Seq(StepRecord)
    BY <1>1 DEF State
  <2>2. DOMAIN s.trace = 1 .. Len(s.trace) /\ Len(s.trace) \in Nat
    BY <2>1
  <2>3. ASSUME NEW i \in 1 .. Len(s.trace)
        PROVE  /\ masked[i] \in StepRecord
               /\ masked[i].node = s.trace[i].node /\ masked[i].detail \notin Unmasked
    <3>1. s.trace[i] \in StepRecord /\ s.trace[i].detail \notin Unmasked
      BY <1>3, <2>1, <2>2 DEF GraphInv, TracesAreKnown, Left
    <3>2. s.trace[i].detail \in Text
      BY <3>1 DEF StepRecord, Message, Unmasked
    <3>3. Redact(s, s.trace[i].detail) \in Text \ {"raw"}
      BY <3>1, <3>2, RedactHides DEF Unmasked
    <3>4. masked[i] = [s.trace[i] EXCEPT !.detail = Redact(s, s.trace[i].detail)]
      BY <2>2
    <3> HIDE DEF masked
    <3> QED
      BY <3>1, <3>3, <3>4 DEF StepRecord, Message, Unmasked, Text
  <2>4. masked = [i \in 1 .. Len(s.trace) |-> masked[i]]
    BY <2>2
  <2> HIDE DEF masked
  <2>5. masked \in [1 .. Len(s.trace) -> StepRecord]
    BY <2>3, <2>4
  <2>6. masked \in Seq(StepRecord)
    BY <2>2, <2>5
  <2>7. Len(masked) = Len(s.trace)
    BY <2>2, <2>5, <2>6
  <2> QED
    BY <2>3, <2>6, <2>7
<1> HIDE DEF masked, extracted, errors, notes
<1>7. u = [doc_type |-> s.doc_type, confident |-> s.confident, notes |-> notes,
           extracted |-> extracted, secrets |-> s.secrets, attempts |-> s.attempts,
           missing |-> s.missing, errors |-> errors, outcome |-> s.outcome,
           error |-> s.error, report |-> s.report, trace |-> s.trace,
           masked_trace |-> masked]
  BY <1>1, <1>2 DEF State
<1> USE NodesAre, ExtractorsAre
<1>8. u \in State /\ u.trace = s.trace
  BY <1>1, <1>5, <1>6, <1>7 DEF State
<1>9. /\ next' = Edge("mask_pii", s')
      /\ s' \in State /\ s'.trace = Append(s.trace, step)
      /\ s.trace \in Seq(StepRecord) /\ step \in StepRecord
      /\ step.node = "mask_pii" /\ step.detail = "none" /\ step.status = "ok"
      /\ Len(s'.trace) = Len(s.trace) + 1 /\ Len(s.trace) \in Nat
      /\ s'.doc_type = s.doc_type /\ s'.error = s.error /\ s'.report = s.report
      /\ s'.outcome = s.outcome /\ s'.attempts = s.attempts /\ s'.missing = s.missing
      /\ s'.extracted = extracted /\ s'.errors = errors /\ s'.notes = notes
      /\ s'.masked_trace = masked
  BY <1>7, <1>8, <1>2, Returned
<1> QED
  BY <1>3, <1>5, <1>6, <1>9 DEF step, masked, extracted, errors, notes

LEMMA MaskPiiKeeps ==
    ASSUME GraphInv, MaskPii
    PROVE  GraphInv'
<1> DEFINE step == OkStep("mask_pii")
           masked == [i \in DOMAIN s.trace |->
                        [s.trace[i] EXCEPT !.detail = Redact(s, @)]]
           extracted == Redact(s, s.extracted)
           errors == Redact(s, s.errors)
           notes == SafeNotes(s)
<1> USE NodesAre, ExtractorsAre
<1>1. /\ next = "mask_pii" /\ next' = Edge("mask_pii", s')
      /\ "raw" \notin {extracted, errors, notes}
      /\ masked \in Seq(StepRecord) /\ Len(masked) = Len(s.trace)
      /\ \A i \in 1 .. Len(s.trace) :
            masked[i].node = s.trace[i].node /\ masked[i].detail \notin Unmasked
      /\ s' \in State /\ s'.trace = Append(s.trace, step)
      /\ s.trace \in Seq(StepRecord) /\ step \in StepRecord
      /\ step.node = "mask_pii" /\ step.detail = "none" /\ step.status = "ok"
      /\ Len(s'.trace) = Len(s.trace) + 1 /\ Len(s.trace) \in Nat
      /\ s'.doc_type = s.doc_type /\ s'.error = s.error /\ s'.report = s.report
      /\ s'.outcome = s.outcome /\ s'.attempts = s.attempts /\ s'.missing = s.missing
      /\ s'.extracted = extracted /\ s'.errors = errors /\ s'.notes = notes
      /\ s'.masked_trace = masked
  BY MaskPiiDoes
<1> HIDE DEF masked, extracted, errors, notes, step
<1>2. next' = IF s.error = "NONE" THEN "generate_report" ELSE "record_failure"
  <2>1. next' = ContinueOrFail(s', "generate_report")
    BY <1>1, Edges
  <2> QED
    BY <1>1, <2>1 DEF ContinueOrFail, HasTerminalError
<1>3. Extractions' = Extractions
  BY <1>1, ExtractionsGrow
<1>4. EarlyIsEmpty' /\ BudgetIsKept'
  BY <1>1, <1>2, <1>3 DEF GraphInv, EarlyIsEmpty, Early, BudgetIsKept, Left
<1>5. StepsAreCounted'
  BY <1>1, <1>2 DEF StepsAreCounted, GraphInv
<1>6. /\ ExtractorRan' <=> ExtractorRan
      /\ RanOk("validate")' <=> RanOk("validate")
  BY <1>1, RanGrows DEF ExtractorRan
<1>7. FailureIsKnown' /\ ErrorsStop' /\ TextsAreKnown'
  BY <1>1, <1>2 DEF FailureIsKnown, ErrorsStop, HasTerminalError, TextsAreKnown
<1>8. OutcomeIsKnown'
  BY <1>1, <1>2, <1>6 DEF OutcomeIsKnown, GraphInv, HasTerminalError
<1>9. TracesAreKnown'
  <2>1. DOMAIN masked = 1 .. Len(s.trace) /\ DOMAIN s.trace = 1 .. Len(s.trace)
        /\ DOMAIN s'.trace = 1 .. Len(s.trace) + 1
    BY <1>1, TraceGrows
  <2>2. \A i \in 1 .. Len(s.trace) : s'.trace[i] = s.trace[i]
    BY <1>1, TraceGrows
  <2>3. s'.trace[Len(s.trace) + 1] = step
    BY <1>1, TraceGrows
  <2>4. \A i \in DOMAIN s.trace : s.trace[i].detail \notin Unmasked
    BY <1>1 DEF GraphInv, TracesAreKnown, Left
  <2> QED
    BY <1>1, <2>1, <2>2, <2>3, <2>4 DEF TracesAreKnown, Unmasked
<1> QED
  BY <1>1, <1>2, <1>4, <1>5, <1>7, <1>8, <1>9, InsideStep DEF Left

(* The report's trace is the trace so far, and quotes nothing.             *)
LEMMA FullTraceIsTrace ==
    ASSUME GraphInv
    PROVE  /\ FullTrace(s) \in Seq(StepRecord) /\ Len(FullTrace(s)) = Len(s.trace)
           /\ \A i \in 1 .. Len(s.trace) :
                FullTrace(s)[i].node = s.trace[i].node /\ FullTrace(s)[i].detail \notin Unmasked
<1> DEFINE m == Len(s.masked_trace)
           n == Len(s.trace) - m
           rest == [i \in 1 .. n |-> [s.trace[m + i] EXCEPT !.detail = "none"]]
<1>1. /\ s.trace \in Seq(StepRecord) /\ s.masked_trace \in Seq(StepRecord)
      /\ m \in Nat /\ n \in Nat
  BY DEF GraphInv, GraphTypeOK, State, TracesAreKnown
<1>2. \A i \in 1 .. m :
        s.masked_trace[i].node = s.trace[i].node /\ s.masked_trace[i].detail \notin Unmasked
  BY <1>1 DEF GraphInv, TracesAreKnown
<1>3. ASSUME NEW i \in 1 .. n
      PROVE  rest[i] \in StepRecord /\ rest[i].node = s.trace[m + i].node
             /\ rest[i].detail = "none"
  <2>1. s.trace[m + i] \in StepRecord
    BY <1>1
  <2>2. PICK r : r = rest[i] /\ r = [s.trace[m + i] EXCEPT !.detail = "none"]
    OBVIOUS
  <2> QED
    BY <2>1, <2>2 DEF StepRecord, Message, Text
<1>4. rest = [i \in 1 .. n |-> rest[i]]
  OBVIOUS
<1>5. FullTrace(s) = s.masked_trace \o rest
  BY DEF FullTrace
<1>6. n = Len(s.trace) - m /\ m = Len(s.masked_trace)
  OBVIOUS
<1> HIDE DEF rest, m, n
<1>7. rest \in [1 .. n -> StepRecord]
  BY <1>3, <1>4
<1>8. rest \in Seq(StepRecord)
  BY <1>1, <1>7, SeqDef
<1>9. Len(rest) = n
  BY <1>1, <1>7, <1>8, LenProperties
<1>10. /\ FullTrace(s) \in Seq(StepRecord) /\ Len(FullTrace(s)) = m + n
       /\ \A i \in 1 .. m + n :
             FullTrace(s)[i] = IF i <= m THEN s.masked_trace[i] ELSE rest[i - m]
  BY <1>1, <1>5, <1>8, <1>9, <1>6, ConcatProperties
<1>11. ASSUME NEW i \in 1 .. Len(s.trace)
       PROVE  FullTrace(s)[i].node = s.trace[i].node /\ FullTrace(s)[i].detail \notin Unmasked
  <2>1. i \in Nat /\ i \in 1 .. m + n /\ Len(s.trace) \in Nat
    BY <1>1, <1>6
  <2>2. CASE i <= m
    BY <1>1, <1>2, <1>10, <2>1, <2>2
  <2>3. CASE i > m
    <3>1. i - m \in 1 .. n /\ m + (i - m) = i
      BY <1>1, <2>1, <2>3
    <3>2. FullTrace(s)[i] = rest[i - m]
      BY <1>1, <1>10, <2>1, <2>3
    <3>3. /\ rest[i - m].node = s.trace[m + (i - m)].node
          /\ rest[i - m].detail = "none"
      BY <1>3, <3>1
    <3> QED
      BY <3>1, <3>2, <3>3 DEF Unmasked
  <2> QED
    BY <1>1, <2>1, <2>2, <2>3
<1>12. m + n = Len(s.trace)
  BY <1>1, <1>6
<1> QED
  BY <1>10, <1>11, <1>12

LEMMA WholeTrace ==
    ASSUME GraphInv, NEW step \in StepRecord, s'.trace = Append(s.trace, step),
           s'.report.trace = FullTrace(s)
    PROVE  TraceIsWhole' /\ \A i \in DOMAIN s'.report.trace : s'.report.trace[i].detail \notin Unmasked
<1> DEFINE a == NodesOf(FullTrace(s))
           b == NodesOf(s'.trace)
           n == Len(s.trace)
<1>1. s.trace \in Seq(StepRecord) /\ n \in Nat
  BY DEF GraphInv, GraphTypeOK, State
<1>2. FullTrace(s) \in Seq(StepRecord) /\ DOMAIN FullTrace(s) = 1 .. n
  BY <1>1, FullTraceIsTrace
<1>3. s'.trace \in Seq(StepRecord) /\ DOMAIN s'.trace = 1 .. n + 1
  BY <1>1, TraceGrows
<1>4. a = [i \in 1 .. n |-> FullTrace(s)[i].node]
  BY <1>2 DEF NodesOf
<1>5. b = [i \in 1 .. n + 1 |-> s'.trace[i].node]
  BY <1>3 DEF NodesOf
<1>6. b \in Seq(Nodes) /\ Len(b) = n + 1
  <2>1. ASSUME NEW i \in 1 .. n + 1
        PROVE  s'.trace[i].node \in Nodes
    <3>1. s'.trace[i] \in StepRecord
      BY <1>3
    <3> QED
      BY <3>1 DEF StepRecord
  <2>2. b \in [1 .. n + 1 -> Nodes]
    BY <1>5, <2>1
  <2> HIDE DEF b
  <2>3. b \in Seq(Nodes)
    BY <1>1, <2>2
  <2> QED
    BY <1>1, <2>2, <2>3
<1>7. \A i \in 1 .. n : a[i] = b[i]
  <2>1. \A i \in 1 .. n : FullTrace(s)[i].node = s.trace[i].node /\ s'.trace[i] = s.trace[i]
    BY <1>1, FullTraceIsTrace, TraceGrows
  <2> QED
    BY <1>1, <1>4, <1>5, <2>1
<1> HIDE DEF a, b
<1>8. Front(b) = [i \in 1 .. n |-> b[i]]
  BY <1>1, <1>6 DEF Front
<1>9. a = [i \in 1 .. n |-> a[i]]
  BY <1>4
<1>10. a = Front(b)
  BY <1>7, <1>8, <1>9
<1> QED
  BY <1>2, <1>10, FullTraceIsTrace DEF TraceIsWhole, a, b

(* The step that ends the run with a report. *)
LEMMA EndStep ==
    ASSUME GraphInv, NEW step \in StepRecord, s'.trace = Append(s.trace, step),
           next \in Nodes, next' = "end", step.node = next, s'.doc_type = s.doc_type,
           s' \in State, s'.report.trace = FullTrace(s), "raw" \notin s'.report.texts,
           "exception" \in s'.report.texts => s'.report.outcome = "FAILED",
           s'.masked_trace = s.masked_trace, OutcomeIsWhatHappened'
    PROVE  GraphInv'
<1> USE NodesAre, ExtractorsAre
<1>1. s.trace \in Seq(StepRecord) /\ Len(s.trace) <= 4 + 2 * MaxExtractionAttempts
  BY DEF GraphInv, GraphTypeOK, State, StepsAreCounted
<1>2. Len(s'.trace) <= 2 * MaxExtractionAttempts + 5
  BY <1>1, TraceGrows
<1>3. RetriesAreBounded'
  BY <1>2, RetriesStep
<1>4. TracesAreKnown'
  BY TraceStep DEF Left
<1>5. TraceIsWhole' /\ ReportIsMasked'
  BY WholeTrace DEF ReportIsMasked, Unmasked
<1>6. EarlyIsEmpty' /\ BudgetIsKept' /\ StepsAreCounted' /\ FailureIsKnown' /\ ErrorsStop'
  BY DEF EarlyIsEmpty, Early, BudgetIsKept, Left, StepsAreCounted, FailureIsKnown, ErrorsStop
<1>7. TextsAreKnown' /\ OutcomeIsKnown' /\ GraphTypeOK'
  BY DEF TextsAreKnown, OutcomeIsKnown, GraphTypeOK
<1> QED
  BY <1>3, <1>4, <1>5, <1>6, <1>7 DEF GraphInv

LEMMA GenerateReportDoes ==
    ASSUME GraphInv, GenerateReport
    PROVE  LET step == OkStep("generate_report")
               outcome == OutcomeFor(s)
               texts == {s.extracted, s.notes, s.errors}
           IN
           /\ next = "generate_report" /\ next \in Nodes /\ next' = "end"
           /\ outcome \in Outcome
           /\ outcome = "UNSUPPORTED" <=> s.outcome = "UNSUPPORTED"
           /\ outcome = "COMPLETE" => ~s.missing /\ s.errors = "none"
           /\ "raw" \notin texts /\ "exception" \notin texts
           /\ s' \in State /\ s'.trace = Append(s.trace, step)
           /\ s.trace \in Seq(StepRecord) /\ step \in StepRecord
           /\ step.node = "generate_report" /\ step.detail = "none" /\ step.status = "ok"
           /\ s'.doc_type = s.doc_type /\ s'.error = s.error /\ s.error = "NONE"
           /\ s'.report.outcome = outcome /\ s'.report.texts = texts
           /\ s'.report.trace = FullTrace(s)
           /\ s'.outcome = outcome /\ s'.missing = s.missing /\ s'.errors = s.errors
           /\ s'.masked_trace = s.masked_trace
           /\ Recorded' = outcome
<1> DEFINE step == OkStep("generate_report")
           outcome == OutcomeFor(s)
           texts == {s.extracted, s.notes, s.errors}
           full == FullTrace(s)
<1>1. s \in State
  BY DEF GraphInv, GraphTypeOK
<1>2. PICK u : /\ u = [s EXCEPT !.outcome = outcome,
                                !.report = [outcome |-> outcome, texts |-> texts,
                                            trace |-> full]]
               /\ Returns("generate_report", u)
  BY DEF GenerateReport
<1>3. next = "generate_report"
  BY <1>2 DEF Returns
<1>4. /\ outcome \in Outcome
      /\ outcome = "UNSUPPORTED" <=> s.outcome = "UNSUPPORTED"
      /\ outcome = "COMPLETE" => ~s.missing /\ s.errors = "none"
  BY <1>1 DEF OutcomeFor, Outcome, State
<1>5. texts \subseteq Text /\ "raw" \notin texts /\ "exception" \notin texts
  BY <1>1, <1>3 DEF GraphInv, TextsAreKnown, State, Text
<1>6. full \in Seq(StepRecord)
  BY FullTraceIsTrace
<1>7. full = FullTrace(s)
  OBVIOUS
<1> HIDE DEF outcome, texts, full
<1>8. u = [doc_type |-> s.doc_type, confident |-> s.confident, notes |-> s.notes,
           extracted |-> s.extracted, secrets |-> s.secrets, attempts |-> s.attempts,
           missing |-> s.missing, errors |-> s.errors, outcome |-> outcome,
           error |-> s.error,
           report |-> [outcome |-> outcome, texts |-> texts, trace |-> full],
           trace |-> s.trace, masked_trace |-> s.masked_trace]
  BY <1>1, <1>2 DEF State
<1>9. [outcome |-> outcome, texts |-> texts, trace |-> full] \in Report
  BY <1>4, <1>5, <1>6 DEF Report, Message
<1> USE NodesAre, ExtractorsAre
<1>10. u \in State /\ u.trace = s.trace
  BY <1>1, <1>4, <1>8, <1>9 DEF State
<1>11. /\ next' = Edge("generate_report", s')
       /\ s' \in State /\ s'.trace = Append(s.trace, step)
       /\ s.trace \in Seq(StepRecord) /\ step \in StepRecord
       /\ step.node = "generate_report" /\ step.detail = "none" /\ step.status = "ok"
       /\ s'.doc_type = s.doc_type /\ s'.error = s.error
       /\ s'.report.outcome = outcome /\ s'.report.texts = texts /\ s'.report.trace = full
       /\ s'.outcome = outcome /\ s'.missing = s.missing /\ s'.errors = s.errors
       /\ s'.masked_trace = s.masked_trace
  <2>1. Returns("generate_report", u) /\ "generate_report" \in Nodes
    BY <1>2
  <2>2. /\ u.doc_type = s.doc_type /\ u.error = s.error
        /\ u.report = [outcome |-> outcome, texts |-> texts, trace |-> full]
        /\ u.outcome = outcome /\ u.missing = s.missing /\ u.errors = s.errors
        /\ u.masked_trace = s.masked_trace
    BY <1>8
  <2> QED
    BY <1>10, <2>1, <2>2, Returned
<1> HIDE DEF step
<1>12. s.error = "NONE"
  BY <1>3 DEF GraphInv, ErrorsStop, HasTerminalError
<1>13. next' = "end"
  <2>1. next' = ContinueOrFail(s', "end")
    BY <1>11, Edges
  <2> QED
    BY <1>11, <1>12, <2>1 DEF ContinueOrFail, HasTerminalError
<1>14. Recorded' = outcome
  BY <1>4, <1>11 DEF Recorded, Outcome
<1> QED
  BY <1>3, <1>4, <1>5, <1>7, <1>11, <1>12, <1>13, <1>14 DEF step, outcome, texts

LEMMA GenerateReportKeeps ==
    ASSUME GraphInv, GenerateReport
    PROVE  GraphInv'
<1> USE NodesAre, ExtractorsAre
<1> DEFINE step == OkStep("generate_report")
           outcome == OutcomeFor(s)
           texts == {s.extracted, s.notes, s.errors}
<1>1. /\ next = "generate_report" /\ next \in Nodes /\ next' = "end"
      /\ outcome \in Outcome
      /\ outcome = "UNSUPPORTED" <=> s.outcome = "UNSUPPORTED"
      /\ outcome = "COMPLETE" => ~s.missing /\ s.errors = "none"
      /\ "raw" \notin texts /\ "exception" \notin texts
      /\ s' \in State /\ s'.trace = Append(s.trace, step)
      /\ s.trace \in Seq(StepRecord) /\ step \in StepRecord
      /\ step.node = "generate_report" /\ step.detail = "none" /\ step.status = "ok"
      /\ s'.doc_type = s.doc_type /\ s'.error = s.error /\ s.error = "NONE"
      /\ s'.report.outcome = outcome /\ s'.report.texts = texts
      /\ s'.report.trace = FullTrace(s)
      /\ s'.outcome = outcome /\ s'.missing = s.missing /\ s'.errors = s.errors
      /\ s'.masked_trace = s.masked_trace
      /\ Recorded' = outcome
  BY GenerateReportDoes
<1> HIDE DEF step, outcome, texts
<1>2. /\ ExtractorRan' <=> ExtractorRan
      /\ RanOk("validate")' <=> RanOk("validate")
  BY <1>1, RanGrows DEF ExtractorRan
<1>3. \/ s.outcome = "UNSUPPORTED" /\ ~ExtractorRan
      \/ s.outcome = "NONE" /\ ExtractorRan /\ RanOk("validate")
  BY <1>1 DEF GraphInv, OutcomeIsKnown, HasTerminalError
<1>4. OutcomeIsWhatHappened'
  BY <1>1, <1>2, <1>3
     DEF OutcomeIsWhatHappened, ExtractorRan, HasTerminalError, Outcome
<1> QED
  BY <1>1, <1>4, EndStep

LEMMA RecordFailureKeeps ==
    ASSUME GraphInv, RecordFailure
    PROVE  GraphInv'
<1> DEFINE step == OkStep("record_failure")
           full == FullTrace(s)
           report == [outcome |-> "FAILED", texts |-> {Detail(s.error)}, trace |-> full]
<1>1. s \in State
  BY DEF GraphInv, GraphTypeOK
<1>2. PICK u : u = [s EXCEPT !.report = report] /\ Returns("record_failure", u)
  BY DEF RecordFailure
<1>3. next = "record_failure" /\ HasTerminalError(s)
  BY <1>2 DEF Returns, GraphInv, FailureIsKnown
<1>4. full \in Seq(StepRecord)
  BY FullTraceIsTrace
<1>5. full = FullTrace(s)
  OBVIOUS
<1> HIDE DEF full
<1>6. /\ report \in Report /\ report.outcome = "FAILED" /\ report.texts = {Detail(s.error)}
      /\ report.trace = full
  BY <1>4 DEF Report, Detail, Message, Text
<1> HIDE DEF report
<1>7. u = [doc_type |-> s.doc_type, confident |-> s.confident, notes |-> s.notes,
           extracted |-> s.extracted, secrets |-> s.secrets, attempts |-> s.attempts,
           missing |-> s.missing, errors |-> s.errors, outcome |-> s.outcome,
           error |-> s.error, report |-> report, trace |-> s.trace,
           masked_trace |-> s.masked_trace]
  BY <1>1, <1>2 DEF State
<1> USE NodesAre, ExtractorsAre
<1>8. u \in State /\ u.trace = s.trace
  BY <1>1, <1>6, <1>7 DEF State
<1>9. /\ next' = Edge("record_failure", s')
      /\ s' \in State /\ s'.trace = Append(s.trace, step)
      /\ s.trace \in Seq(StepRecord) /\ step \in StepRecord
      /\ step.node = "record_failure" /\ step.detail = "none" /\ step.status = "ok"
      /\ s'.doc_type = s.doc_type /\ s'.error = s.error
      /\ s'.report = report /\ s'.masked_trace = s.masked_trace
  <2>1. Returns("record_failure", u) /\ "record_failure" \in Nodes
    BY <1>2
  <2>2. /\ u.doc_type = s.doc_type /\ u.error = s.error
        /\ u.report = report /\ u.masked_trace = s.masked_trace
    BY <1>7
  <2> QED
    BY <1>8, <2>1, <2>2, Returned
<1> HIDE DEF step
<1>10. next' = "end"
  BY <1>9, Edges
<1>11. OutcomeIsWhatHappened'
  BY <1>3, <1>6, <1>9 DEF OutcomeIsWhatHappened, Recorded, HasTerminalError
<1> QED
  BY <1>3, <1>5, <1>6, <1>9, <1>10, <1>11, EndStep DEF Detail

LEMMA FailsKeeps ==
    ASSUME GraphInv, Fails
    PROVE  GraphInv'
<1> DEFINE step == [node |-> next, status |-> "error", detail |-> Detail(next)]
<1>1. s \in State
  BY DEF GraphInv, GraphTypeOK
<1>2. /\ next \in Nodes \ {"record_failure"} /\ next' = Edge(next, s')
      /\ s' = [s EXCEPT !.error = next, !.trace = Append(@, step)]
  BY DEF Fails
<1>3. /\ step \in StepRecord /\ step.node = next /\ step.status = "error"
      /\ step.detail = Detail(next)
  BY <1>2 DEF StepRecord, Detail, Message, Text
<1> HIDE DEF step
<1>4. s.trace \in Seq(StepRecord) /\ Append(s.trace, step) \in Seq(StepRecord)
  BY <1>1, <1>3 DEF State
<1>5. s' = [doc_type |-> s.doc_type, confident |-> s.confident, notes |-> s.notes,
            extracted |-> s.extracted, secrets |-> s.secrets, attempts |-> s.attempts,
            missing |-> s.missing, errors |-> s.errors, outcome |-> s.outcome,
            error |-> next, report |-> s.report, trace |-> Append(s.trace, step),
            masked_trace |-> s.masked_trace]
  BY <1>1, <1>2 DEF State
<1>6. s' \in State
  BY <1>1, <1>2, <1>4, <1>5 DEF State
<1>7. /\ s'.trace = Append(s.trace, step) /\ s'.error = next /\ s'.doc_type = s.doc_type
      /\ s'.report = s.report /\ s'.outcome = s.outcome /\ s'.errors = s.errors
      /\ s'.extracted = s.extracted /\ s'.secrets = s.secrets
      /\ s'.attempts = s.attempts /\ s'.masked_trace = s.masked_trace
  BY <1>5
<1> USE NodesAre, ExtractorsAre
<1>8. HasTerminalError(s') /\ next # "NONE"
  BY <1>2, <1>7 DEF HasTerminalError
<1>9. next' = IF next = "mark_unsupported" THEN "mask_pii" ELSE "record_failure"
  BY <1>2, <1>8, Edges DEF ContinueOrFail, RouteByType, RouteByValidation
<1>10. Len(s'.trace) = Len(s.trace) + 1 /\ Len(s.trace) \in Nat
  BY <1>3, <1>4, <1>7, TraceGrows
<1>11. next = "mark_unsupported" => next \in Early /\ Extractions' = {} /\ step.detail \notin Unmasked
  BY <1>3, <1>4, <1>7, EarlyFacts, ExtractionsGrow DEF Early, Detail, Unmasked
<1>12. EarlyIsEmpty' /\ BudgetIsKept'
  <2>1. next' \in {"mask_pii", "record_failure"}
    BY <1>9
  <2>2. next' = "mask_pii" => Cardinality(Extractions') = 0 /\ s'.attempts = 0
    BY <1>7, <1>9, <1>11, EarlyFacts, FS_EmptySet
  <2> QED
    BY <2>1, <2>2 DEF EarlyIsEmpty, Early, BudgetIsKept, Left
<1>13. StepsAreCounted'
  <2>1. s.attempts \in 0 .. MaxExtractionAttempts
    BY <1>1 DEF State
  <2>2. next # "record_failure"
    BY <1>2
  <2>3. Len(s.trace) <= 3 + 2 * MaxExtractionAttempts
    BY <1>2, <1>10, <2>1 DEF GraphInv, StepsAreCounted
  <2> QED
    BY <1>9, <1>10, <2>3 DEF StepsAreCounted, GraphInv
<1>14. FailureIsKnown' /\ ErrorsStop'
  BY <1>7, <1>8, <1>9 DEF FailureIsKnown, ErrorsStop
<1>15. TextsAreKnown'
  BY <1>7, <1>9, <1>11, EarlyFacts DEF TextsAreKnown
<1>16. OutcomeIsKnown'
  BY <1>2, <1>7, <1>8, <1>9 DEF OutcomeIsKnown, GraphInv
<1>17. TracesAreKnown'
  BY <1>2, <1>3, <1>7, <1>9, <1>11, TraceStep DEF Left, Early
<1>18. next \in Nodes \ Left /\ next' \in Nodes
  BY <1>2, <1>9 DEF Left
<1> QED
  BY <1>3, <1>6, <1>7, <1>12, <1>13, <1>14, <1>15, <1>16, <1>17, <1>18, InsideStep

LEMMA RaisesKeeps ==
    ASSUME GraphInv, Raises
    PROVE  GraphInv'
<1> USE NodesAre, ExtractorsAre
<1>1. next \in Nodes /\ next' = "raised" /\ s' = s
  BY DEF Raises
<1>2. Extractions' = Extractions
  BY <1>1 DEF Extractions
<1>3. GraphTypeOK' /\ EarlyIsEmpty' /\ BudgetIsKept' /\ StepsAreCounted' /\ RetriesAreBounded'
  BY <1>1, <1>2 DEF GraphInv, GraphTypeOK, EarlyIsEmpty, Early, BudgetIsKept, Left,
                    StepsAreCounted, RetriesAreBounded
<1>4. FailureIsKnown' /\ ErrorsStop' /\ TextsAreKnown' /\ TracesAreKnown' /\ ReportIsMasked'
  BY <1>1 DEF GraphInv, FailureIsKnown, ErrorsStop, TextsAreKnown, TracesAreKnown, Left,
              ReportIsMasked
<1>5. OutcomeIsKnown' /\ OutcomeIsWhatHappened' /\ TraceIsWhole'
  BY <1>1 DEF GraphInv, OutcomeIsKnown, OutcomeIsWhatHappened, TraceIsWhole
<1> QED
  BY <1>3, <1>4, <1>5 DEF GraphInv

-----------------------------------------------------------------------------
LEMMA GraphInitHolds ==
    ASSUME GraphInit
    PROVE  GraphInv
<1> USE NodesAre, ExtractorsAre DEF GraphInit
<1>1. /\ s.trace = <<>> /\ s.masked_trace = <<>> /\ s.report = NoReport /\ s.error = "NONE"
      /\ next = "load_document" /\ s.attempts = 0
  OBVIOUS
<1>2. Extractions = {} /\ Cardinality(Extractions) = 0
  BY <1>1, FS_EmptySet DEF Extractions
<1>3. GraphTypeOK
  BY DEF GraphTypeOK, State, DocType, Text, Outcome, Report
<1>4. EarlyIsEmpty /\ BudgetIsKept /\ StepsAreCounted /\ RetriesAreBounded
  BY <1>1, <1>2 DEF EarlyIsEmpty, BudgetIsKept, StepsAreCounted, RetriesAreBounded
<1>5. FailureIsKnown /\ ErrorsStop /\ TextsAreKnown /\ TracesAreKnown /\ ReportIsMasked
  BY <1>1 DEF FailureIsKnown, ErrorsStop, HasTerminalError, TextsAreKnown, TracesAreKnown,
              ReportIsMasked, NoReport
<1>6. OutcomeIsKnown /\ OutcomeIsWhatHappened /\ TraceIsWhole
  BY <1>1 DEF OutcomeIsKnown, OutcomeIsWhatHappened, TraceIsWhole
<1> QED
  BY <1>3, <1>4, <1>5, <1>6 DEF GraphInv

LEMMA GraphStepKeeps ==
    ASSUME GraphInv, [GraphNext]_graphVars
    PROVE  GraphInv'
<1>1. CASE LoadDocument
  BY <1>1, LoadDocumentKeeps
<1>2. CASE Classify
  BY <1>2, ClassifyKeeps
<1>3. ASSUME NEW node \in Extractors, Extract(node)
      PROVE  GraphInv'
  BY <1>3, ExtractKeeps
<1>4. CASE Validate
  BY <1>4, ValidateKeeps DEF Validate
<1>5. CASE MarkUnsupported
  BY <1>5, MarkUnsupportedKeeps
<1>6. CASE MaskPii
  BY <1>6, MaskPiiKeeps
<1>7. CASE GenerateReport
  BY <1>7, GenerateReportKeeps
<1>8. CASE RecordFailure
  BY <1>8, RecordFailureKeeps
<1>9. CASE Fails
  BY <1>9, FailsKeeps
<1>10. CASE Raises
  BY <1>10, RaisesKeeps
<1>11. CASE UNCHANGED graphVars
  BY <1>11 DEF graphVars, GraphInv, GraphTypeOK, EarlyIsEmpty, BudgetIsKept, Extractions,
     StepsAreCounted, RetriesAreBounded, FailureIsKnown, ErrorsStop, TextsAreKnown,
     TracesAreKnown, ReportIsMasked, OutcomeIsKnown, ExtractorRan, RanOk,
     OutcomeIsWhatHappened, Recorded, TraceIsWhole
<1> QED
  BY <1>1, <1>2, <1>3, <1>4, <1>5, <1>6, <1>7, <1>8, <1>9, <1>10, <1>11 DEF GraphNext

(* The invariant the theorems below are read off: what every state of a    *)
(* run satisfies, whichever nodes ran, failed or raised.                   *)
THEOREM GraphIsInvariant == GraphSpec => []GraphInv
<1>1. GraphInit => GraphInv
  BY GraphInitHolds
<1>2. GraphInv /\ [GraphNext]_graphVars => GraphInv'
  BY GraphStepKeeps
<1> QED
  BY <1>1, <1>2, PTL DEF GraphSpec

(* Every state of a run is one the code's TypedDict can hold.              *)
THEOREM GraphTypeOKAlways == GraphSpec => []GraphTypeOK
<1>1. GraphInv => GraphTypeOK
  BY DEF GraphInv
<1> QED
  BY <1>1, GraphIsInvariant, PTL

(* Extraction is retried within the budget, by the node of the type, and   *)
(* only after a validation (route_by_validation).                          *)
THEOREM RetriesAreBoundedAlways == GraphSpec => []RetriesAreBounded
<1>1. GraphInv => RetriesAreBounded
  BY DEF GraphInv
<1> QED
  BY <1>1, GraphIsInvariant, PTL

(* No report quotes a sensitive value its field still holds, and only the  *)
(* summary and error of a failure say what was raised (build.py 82-84).    *)
THEOREM ReportIsMaskedAlways == GraphSpec => []ReportIsMasked
<1>1. GraphInv => ReportIsMasked
  BY DEF GraphInv
<1> QED
  BY <1>1, GraphIsInvariant, PTL

(* The outcome reported and recorded is what happened in the run           *)
(* (outcome_for, _record).                                                 *)
THEOREM OutcomeIsWhatHappenedAlways == GraphSpec => []OutcomeIsWhatHappened
<1>1. GraphInv => OutcomeIsWhatHappened
  BY DEF GraphInv
<1> QED
  BY <1>1, GraphIsInvariant, PTL

(* The report's trace names every node that ran before it (_full_trace).   *)
THEOREM TraceIsWholeAlways == GraphSpec => []TraceIsWhole
<1>1. GraphInv => TraceIsWhole
  BY DEF GraphInv
<1> QED
  BY <1>1, GraphIsInvariant, PTL

(* After a node that failed nothing runs but record_failure (node, build). *)
THEOREM ErrorsStopAlways == GraphSpec => []ErrorsStop
<1>1. GraphInv => ErrorsStop
  BY DEF GraphInv
<1> QED
  BY <1>1, GraphIsInvariant, PTL
=============================================================================
