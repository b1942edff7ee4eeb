SPECIFICATION Spec
CONSTANTS
    Requests = {r1, r2}
    Decisions = {d1, d2}
    Approvers = {a1}
    Card = Card
    Questions = {q1}
    None = None
    MaxTurns = 1
SYMMETRY Symmetry
INVARIANT
    CardDecisionIsRemembered
CHECK_DEADLOCK FALSE
