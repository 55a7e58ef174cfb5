SPECIFICATION WorkflowSpec
CONSTANTS
    MaxExtractionAttempts = 2
    Files <- MCFiles
    Cells <- MCCells
    DateCells <- MCDateCells
    MaxRows = 2
    Rests <- MCRests
    ROUNDING_TOLERANCE = 1
    ScannedTextThreshold = 3
    MaxPages = 1
    Garbled = Garbled
    NULL = NULL
INVARIANTS WorkflowTypeOK RetriesAreBounded ReportIsMasked OutcomeIsWhatHappened TraceIsWhole ErrorsStop
    CompleteIsSound VerdictIsOfWhatWasShown
CHECK_DEADLOCK FALSE
