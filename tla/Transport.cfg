CONSTANTS
    NoCode = NoCode
    Code = {199, 200, 299, 300, 407, 408, 409, 428, 429, 430, 499, 500, 599}
    MaxAttempts = 3

SPECIFICATION Spec

INVARIANTS
    RefusedOnEvidence
    PostsBounded

PROPERTIES
    MeetsContract

CHECK_DEADLOCK FALSE
