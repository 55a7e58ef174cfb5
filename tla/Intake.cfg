SPECIFICATION Spec
CONSTANTS
    Docs = {d1, d2}
    d1 = d1
    d2 = d2
    m1 = m1
    m2 = m2
    m3 = m3
    NULL = NULL
    NotADocument = NotADocument
    Workers = {w1}
    Msgs = {m1, m2, m3}
    DocOf <- Mixed
    Foreign = {d2}
    ConnectionsDrop = TRUE
    LeaseSeconds = 2
    VisibilitySeconds = 1
    MaxReceiveCount = 2
    GraceSeconds = 2
    UploadExpiry = 0
INVARIANTS EarlyAckMeansFinished CompletedHasReport
PROPERTIES ImplementsStore LeaseNotRevived
