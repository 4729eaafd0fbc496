CONSTANTS
    Slugs = {"lesson-rejected", "lesson-denied", "skill-x"}
    Skills = {"skill-x"}
    Cases = {1, 2}
    Holdout = {1}
    Fails <- MCFails
    Guards = {g1, g2, g3}
    Inert = {g3}
    Variants = {"v"}
    RingCap = 2
    MaxGuards = 4
    MaxGuarded = 2
    MaxSpoilt = 1
    Existing = {"skill-x"}
    Options <- MCOptions
    AuditSpan = 2
SPECIFICATION Spec
PROPERTY RevertRestores
CHECK_DEADLOCK FALSE
