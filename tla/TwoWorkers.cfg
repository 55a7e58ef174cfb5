SPECIFICATION Spec
CONSTANTS
    Docs = {d1}
    d1 = d1
    d2 = d2
    m1 = m1
    m2 = m2
    m3 = m3
    NULL = NULL
    NotADocument = NotADocument
    Workers = {w1, w2}
    Msgs = {m1}
    DocOf <- OneMessage
    Foreign = {}
    ConnectionsDrop = FALSE
    LeaseSeconds = 1
    VisibilitySeconds = 1
    MaxReceiveCount = 3
    GraceSeconds = 2
    UploadExpiry = 0
SYMMETRY Symmetry
INVARIANTS TypeOK NoSharedToken ReportIsTheWinners
PROPERTIES TerminalIsFinal
