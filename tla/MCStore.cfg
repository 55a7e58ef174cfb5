SPECIFICATION MCSpec
CONSTANTS
    Docs = {d1, d2}
    NULL = NULL
    LeaseSeconds = 1
    GraceSeconds = 1
    UploadExpiry = 0
    MaxAttempts = 2
INVARIANTS SettledByLatest ProgressIsCurrent OpenIsLatest
PROPERTIES ImplementsLifecycle
