CONSTANTS
    Slugs = {"lesson-rejected", "lesson-denied", "skill-x"}
    Skills = {"skill-x"}
    Cases = {1, 2}
    Holdout = {1}
    Fails <- MCFails
    Guards = {g1, g2, g3}
    Inert = {g3}
    Variants = {"v"}
    RingCap = 2
    MaxGuards = 4
    MaxGuarded = 2
    MaxSpoilt = 1
    Existing = {"lesson-denied"}
    Options <- MCOptions
    AuditSpan = 2
SYMMETRY AnyGuard
SPECIFICATION Spec
INVARIANTS NeverWorse GuardsHold RingKeepsRecent AuditMonotone
CHECK_DEADLOCK FALSE
