CONSTANTS
    Contents = {"action", "input"}
    Oversized = {"input"}
    MaxChunks = 2
    MaxOpens = 1
SPECIFICATION Spec
PROPERTY
    RecoveryComplete
