SPECIFICATION EvidenceSpec
CONSTANTS
    Letters = {"a", "b"}
    Separators = {"-"}
    FieldOrder <- MCOrder
    Sensitive = {"name", "number"}
    TailAllowed = {"number"}
    Required = {"name"}
    Checked = {"number"}
    WellFormed <- MCWellFormed
    VISIBLE_TAIL = 1
    MIN_LENGTH_FOR_TAIL = 3
    Values <- MCValues
    Snippets <- MCSnippets
    Sources <- MCSources
    Quotes <- MCQuotes
    NULL = NULL
CHECK_DEADLOCK FALSE
INVARIANT TaggedValuesAreScrubbed
