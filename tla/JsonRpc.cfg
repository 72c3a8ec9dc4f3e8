\* Every kind of message and of irregular input: cancellation, supersession, the
\* end of run() and liveness.
SPECIFICATION Spec
CONSTANTS
    Uris = {u1, u2}
    NoUri = NoUri
    Kinds = {"plain", "cancellable", "change", "notification", "shutdown",
             "unknown", "ignored"}
    Irregular = {"badJson", "readThrows", "badCancel", "late", "enqueueThrows"}
    MaxMessages = 3
    MaxExtra = 2
    MaxInputs = 4
    ParseFailureLimit = 1
INVARIANTS
    SupersededExactly
    CancelledNeverRuns
    EditsNeverSkipped
    WellFramed
    NoLostWakeup
PROPERTIES
    Terminates
    ImplementsService
