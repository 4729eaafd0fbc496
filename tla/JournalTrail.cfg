CONSTANTS
    Contents = {"action", "input"}
    Oversized = {"input"}
    MaxChunks = 3
    MaxOpens = 2
SPECIFICATION Spec
INVARIANTS
    AckedSurvive
    ReadsOneTrail
PROPERTIES
    AuditComplete
    TrailGrows
