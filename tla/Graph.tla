-------------------------------- MODULE Graph --------------------------------
(***************************************************************************)
(* One run of the LangGraph workflow (worker/graph): nodes that merge what *)
(* they return into a shared state, and routers that pick the next one.    *)
(* Model answers and validation results are any the code accepts.  The     *)
(* wrapper `node` turns what a body raises into an error in the state      *)
(* (terminal) or lets it leave the graph (transient).                      *)
(*                                                                         *)
(* Text is abstracted to which values of fields the schema tags as         *)
(* sensitive it may quote: "raw" one that its field still holds; "cleared" *)
(* only those that verification took from their field; "masked" what       *)
(* redaction of the held ones leaves, cleared ones perhaps; "plain" none;  *)
(* "none" is no text.  An "exception" says what str(exc) does, and no one  *)
(* looked for anything in it.                                              *)
(***************************************************************************)
EXTENDS Integers, FiniteSets, Sequences, SequencesExt

CONSTANT MaxExtractionAttempts      \* CONFIG.max_extraction_attempts

ASSUME GraphAssumption == MaxExtractionAttempts \in Nat \ {0}

VARIABLES
    next,   \* the node about to run, "end" after END, "raised" once it left
    s       \* the State the nodes share

graphVars == <<next, s>>

DocType == {"claim_form", "policy_document", "invoice", "identity_document",
            "customer_correspondence", "supporting_evidence", "unknown"}

EXTRACTOR_BY_TYPE == [claim_form |-> "extract_claim",
                      invoice |-> "extract_invoice",
                      identity_document |-> "extract_identity"]

ExtractorOf(type) ==
    IF type \in DOMAIN EXTRACTOR_BY_TYPE THEN EXTRACTOR_BY_TYPE[type]
    ELSE "extract_generic"

Extractors == {ExtractorOf(type) : type \in DocType}

Nodes == Extractors \cup
    {"load_document", "classify", "mark_unsupported", "validate", "mask_pii",
     "generate_report", "record_failure"}

Text == {"none", "plain", "cleared", "raw", "masked"}
Message == Text \cup {"exception"}
StepRecord == [node : Nodes, status : {"ok", "error"}, detail : Message]
Outcome == {"COMPLETE", "INCOMPLETE", "UNSUPPORTED"}

(* Values of report, an absent key included. *)
NoReport == [outcome |-> "NONE", texts |-> {}, trace |-> <<>>]

(* texts: extracted, notes, validation errors, summary, error.             *)
Report == [outcome : Outcome \cup {"FAILED"}, texts : SUBSET Message,
           trace : Seq(StepRecord)] \cup {NoReport}

(* masked_trace is absent, <<>>, until mask_pii has run: by then the trace *)
(* holds load_document at least.  secrets: a sensitive field has a value.  *)
State == [doc_type : DocType, confident : BOOLEAN, notes : Text,
          extracted : Text, secrets : BOOLEAN, attempts : 0 .. MaxExtractionAttempts,
          missing : BOOLEAN, errors : Text, outcome : Outcome \cup {"NONE"},
          error : Nodes \cup {"NONE"}, report : Report,
          trace : Seq(StepRecord), masked_trace : Seq(StepRecord)]

GraphTypeOK ==
    /\ next \in Nodes \cup {"end", "raised"}
    /\ s \in State

GraphInit ==
    /\ next = "load_document"
    /\ s = [doc_type |-> "unknown", confident |-> FALSE, notes |-> "none",
            extracted |-> "none", secrets |-> FALSE, attempts |-> 0,
            missing |-> FALSE, errors |-> "none", outcome |-> "NONE",
            error |-> "NONE", report |-> NoReport,
            trace |-> <<>>, masked_trace |-> <<>>]

-----------------------------------------------------------------------------
(* The routers, of the state the node left behind. *)

HasTerminalError(st) == st.error # "NONE"

ContinueOrFail(st, node) == IF HasTerminalError(st) THEN "record_failure" ELSE node

(* Mutant: the router does not look for an error. *)
RouteByTypeBlind(st) ==
    IF st.doc_type = "unknown" \/ ~st.confident
    THEN "mark_unsupported" ELSE ExtractorOf(st.doc_type)

RouteByType(st) ==
    ContinueOrFail(st, IF st.doc_type = "unknown" \/ ~st.confident
                       THEN "mark_unsupported" ELSE ExtractorOf(st.doc_type))

(* Mutant: the retry budget is counted from one. *)
RouteByValidationOnceMore(st) ==
    ContinueOrFail(st, IF st.errors # "none" /\ st.attempts <= MaxExtractionAttempts
                       THEN ExtractorOf(st.doc_type) ELSE "mask_pii")

(* Mutant: the retry goes to a shared node. *)
RouteByValidationShared(st) ==
    ContinueOrFail(st, IF st.errors # "none" /\ st.attempts < MaxExtractionAttempts
                       THEN "extract_generic" ELSE "mask_pii")

RouteByValidation(st) ==
    ContinueOrFail(st, IF st.errors # "none" /\ st.attempts < MaxExtractionAttempts
                       THEN ExtractorOf(st.doc_type) ELSE "mask_pii")

(* Mutant: an unsupported document goes straight to its report. *)
EdgeSkipsMask(node, st) ==
    CASE node = "load_document" -> ContinueOrFail(st, "classify")
      [] node = "classify" -> RouteByType(st)
      [] node \in Extractors -> ContinueOrFail(st, "validate")
      [] node = "validate" -> RouteByValidation(st)
      [] node = "mark_unsupported" -> "generate_report"
      [] node = "mask_pii" -> ContinueOrFail(st, "generate_report")
      [] node = "generate_report" -> ContinueOrFail(st, "end")
      [] node = "record_failure" -> "end"

(* build_graph *)
Edge(node, st) ==
    CASE node = "load_document" -> ContinueOrFail(st, "classify")
      [] node = "classify" -> RouteByType(st)
      [] node \in Extractors -> ContinueOrFail(st, "validate")
      [] node = "validate" -> RouteByValidation(st)
      [] node = "mark_unsupported" -> "mask_pii"
      [] node = "mask_pii" -> ContinueOrFail(st, "generate_report")
      [] node = "generate_report" -> ContinueOrFail(st, "end")
      [] node = "record_failure" -> "end"

-----------------------------------------------------------------------------
(* The wrapper `node`. *)

(* A body returned: its update is merged, the trace appended to. *)
Returns(node, update) ==
    /\ next = node
    /\ s' = [update EXCEPT !.trace =
                Append(@, [node |-> node, status |-> "ok", detail |-> "none"])]
    /\ next' = Edge(node, s')

(* str(exc): mark_unsupported reads a type and a number, the others what   *)
(* the document says.                                                      *)
Detail(node) == IF node = "mark_unsupported" THEN "plain" ELSE "exception"

(* A terminal exception: nothing the body computed is kept.                *)
(* record_failure only reads keys that are there.                          *)
Fails ==
    /\ next \in Nodes \ {"record_failure"}
    /\ s' = [s EXCEPT !.error = next,
                      !.trace = Append(@, [node |-> next, status |-> "error",
                                           detail |-> Detail(next)])]
    /\ next' = Edge(next, s')

(* A transient one leaves the graph, for SQS to redeliver. *)
Raises ==
    /\ next \in Nodes \ {"record_failure"}
    /\ next' = "raised"
    /\ UNCHANGED s

-----------------------------------------------------------------------------
(* The bodies. *)

LoadDocument == Returns("load_document", s)

Classify ==
    \E type \in DocType, confident \in BOOLEAN, notes \in {"none", "raw"} :
        Returns("classify", [s EXCEPT !.doc_type = type,
                                      !.confident = confident,
                                      !.notes = notes])

(* _extract *)
Extract(node) ==
    Returns(node, [s EXCEPT !.extracted = "raw",
                            !.attempts = @ + 1,
                            !.errors = "none"])

MarkUnsupported ==
    Returns("mark_unsupported", [s EXCEPT !.outcome = "UNSUPPORTED",
                                          !.extracted = "none",
                                          !.missing = FALSE,
                                          !.errors = "none"])

(* A value that snippet verification rejects is cleared from its field,    *)
(* though another may quote it.  `secrets`: a sensitive field still has    *)
(* one, and the rest may quote that too.                                   *)
Validated(missing, invalid, secrets) ==
    LET quotes == IF secrets THEN "raw" ELSE "cleared" IN
    Returns("validate", [s EXCEPT !.extracted = quotes,
                                  !.secrets = secrets,
                                  !.missing = missing,
                                  !.errors = IF invalid THEN quotes ELSE "none"])

Validate == \E missing, invalid, secrets \in BOOLEAN : Validated(missing, invalid, secrets)

(* _redact_occurrences of the values sensitive fields hold: with nothing   *)
(* to look for it changes nothing.                                         *)
Redact(st, text) == IF st.secrets /\ text # "none" THEN "masked" ELSE text

(* Notes are free text: with no value to scrub them with, they are dropped. *)
SafeNotes(st) == IF st.secrets THEN Redact(st, st.notes) ELSE "none"

(* mask_state *)
MaskPii ==
    Returns("mask_pii",
            [s EXCEPT !.extracted = Redact(s, @),
                      !.errors = Redact(s, @),
                      !.notes = SafeNotes(s),
                      !.masked_trace =
                          [i \in DOMAIN s.trace |->
                              [s.trace[i] EXCEPT !.detail = Redact(s, @)]]])

(* Mutant: what the last validation found missing is forgotten. *)
OutcomeForErrorsOnly(st) ==
    IF st.outcome = "UNSUPPORTED" THEN "UNSUPPORTED"
    ELSE IF st.errors # "none" THEN "INCOMPLETE"
    ELSE "COMPLETE"

OutcomeFor(st) ==
    IF st.outcome = "UNSUPPORTED" THEN "UNSUPPORTED"
    ELSE IF st.missing \/ st.errors # "none" THEN "INCOMPLETE"
    ELSE "COMPLETE"

(* Mutant: the masked copy alone, without the nodes that ran since. *)
MaskedTraceOnly(st) == st.masked_trace

(* _full_trace: the masked copy, and what ran since without its detail. *)
FullTrace(st) ==
    st.masked_trace \o
        [i \in 1 .. Len(st.trace) - Len(st.masked_trace) |->
            [st.trace[Len(st.masked_trace) + i] EXCEPT !.detail = "none"]]

(* The summary is the model's, of the extracted values it is given. *)
GenerateReport ==
    Returns("generate_report",
            [s EXCEPT !.outcome = OutcomeFor(s),
                      !.report = [outcome |-> OutcomeFor(s),
                                  texts |-> {s.extracted, s.notes, s.errors},
                                  trace |-> FullTrace(s)]])

(* A minimal report: none of the extracted texts is in it, but its summary *)
(* and its error say what the node that failed last raised.                *)
RecordFailure ==
    Returns("record_failure",
            [s EXCEPT !.report = [outcome |-> "FAILED", texts |-> {Detail(s.error)},
                                  trace |-> FullTrace(s)]])

GraphNext ==
    \/ LoadDocument \/ Classify
    \/ \E node \in Extractors : Extract(node)
    \/ Validate \/ MarkUnsupported \/ MaskPii
    \/ GenerateReport \/ RecordFailure
    \/ Fails \/ Raises

GraphSpec == GraphInit /\ [][GraphNext]_graphVars

-----------------------------------------------------------------------------
(* What the consumer makes of a finished run (_run_graph, _record): `final` *)
(* holds the last value each key was given, and FAILED reports no outcome.  *)
Recorded ==
    IF s.report.outcome = "FAILED" THEN "FAILED"
    ELSE IF s.outcome # "NONE" THEN s.outcome
    ELSE IF s.report.outcome # "NONE" THEN s.report.outcome
    ELSE "INCOMPLETE"

RanOk(node) == \E i \in DOMAIN s.trace : s.trace[i].node = node /\ s.trace[i].status = "ok"
Extractions == {i \in DOMAIN s.trace : s.trace[i].node \in Extractors}
NodesOf(trace) == [i \in DOMAIN trace |-> trace[i].node]

(* An extraction is retried at most up to the budget, always by the node   *)
(* of the document's type, and what it got was validated before it was     *)
(* asked again.  So every run ends (route_by_validation).                  *)
RetriesAreBounded ==
    /\ Cardinality(Extractions) <= MaxExtractionAttempts
    /\ \A i \in Extractions :
            /\ s.trace[i].node = ExtractorOf(s.doc_type)
            /\ i > 1 /\ s.trace[i - 1].node \in {"classify", "validate"}
    /\ Len(s.trace) <= 2 * MaxExtractionAttempts + 5

(* No report quotes a sensitive value that its field still holds, and the  *)
(* message of an exception, which nothing masks, is in none but a failure's*)
(* summary and error: never in a step of its trace (build.py 82-84,        *)
(* _full_trace).  Not promised, as the code does not keep it: that the     *)
(* exception's message is masked (nodes.py 444, 450), or that a value      *)
(* verification cleared is looked for.                                     *)
ReportIsMasked ==
    /\ "raw" \notin s.report.texts
    /\ "exception" \in s.report.texts => s.report.outcome = "FAILED"
    /\ \A i \in DOMAIN s.report.trace :
            s.report.trace[i].detail \notin {"raw", "exception"}

(* The run ends with a report whose outcome is what happened, and the row  *)
(* gets the same: FAILED if a node failed, UNSUPPORTED if nothing was      *)
(* extracted, COMPLETE only if the last validation found nothing wrong and *)
(* nothing missing (outcome_for, _record main.py 339-353).                 *)
OutcomeIsWhatHappened ==
    next = "end" =>
        /\ Recorded = s.report.outcome
        /\ (Recorded = "FAILED") <=> HasTerminalError(s)
        /\ (Recorded = "UNSUPPORTED") <=>
                ~HasTerminalError(s) /\ ~\E node \in Extractors : RanOk(node)
        /\ Recorded = "COMPLETE" => RanOk("validate") /\ ~s.missing /\ s.errors = "none"

(* The report's trace is every node that ran before it, in order           *)
(* (_full_trace).                                                          *)
TraceIsWhole ==
    next = "end" => NodesOf(s.report.trace) = Front(NodesOf(s.trace))

(* A terminal error stops the run: no node runs after one that failed but  *)
(* record_failure.  After mark_unsupported, whose edge does not look, the  *)
(* failure is met one node later (build.py 79-80).                         *)
ErrorsStop ==
    HasTerminalError(s) =>
        \/ next \in {"record_failure", "end", "raised"}
        \/ s.error = "mark_unsupported" /\ next = "mask_pii"

=============================================================================
