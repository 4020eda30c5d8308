SPECIFICATION Spec
CONSTANTS
    Null = Null
    x1 = x1
    x2 = x2
    job = job
    receipt = receipt
    rejection = rejection
    d1 = d1
    d2 = d2
    vague = vague
    plain = plain
    verified = verified
    Executor = {x1, x2}
    Message = {receipt, rejection, vague}
    Opportunity = {job}
    Signal <- mcSignals
    Allowed <- mcAllowed
    Dates = {d1, d2}
    Rest = {plain, verified}
    MaxEdits = 1
INVARIANTS EvidenceFirst OneMutation EffectsAreAccounted
PROPERTIES GuardedTransitions
SYMMETRY mcSymmetry
CHECK_DEADLOCK FALSE
