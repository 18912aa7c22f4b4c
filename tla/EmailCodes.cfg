CONSTANTS
    Registers = {g1, g2}
    Resends = {e1, e2}
    Verifiers = {v1, v2}
    Wrong = Wrong
    NoCode = NoCode
    NoDoc = NoDoc
    Lifetime = 3
    Cooldown = 3
    HandlerLimit = 1
    MaxAttempts = 2
    Faults = TRUE
SPECIFICATION Spec
INVARIANTS StoredCodeWasMailed AttemptsBounded
PROPERTIES LoginStays ConfirmedByFreshMail CooldownExplained
SYMMETRY Alike
