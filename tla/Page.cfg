SPECIFICATION MCPageSpec
CONSTANTS
    d1 = d1
    d2 = d2
    Docs <- MCDocs
    Nobody = Nobody
    MaxRequests = 2
    MaxSelections = 2
INVARIANTS PageTypeOK OneLoop AnnouncedOnce ReportIsOfSelected ReportIsReady UploadIsSeen
PROPERTIES ViewNeverGoesBack ReportStays ReportLoads
CHECK_DEADLOCK FALSE
