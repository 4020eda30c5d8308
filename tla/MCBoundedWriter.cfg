SPECIFICATION Spec
CONSTANTS
    Null = Null
    one = one
    two = two
    cv = cv
    letter = letter
    inspected = inspected
    tightened = tightened
    other = other
    fp = fp
    otherFp = otherFp
    Plan <- mcPlan
    Document <- mcDocument
    Form = {inspected, tightened, other}
    Fingerprint <- mcFingerprint
    Fit = {inspected, other}
    Approved = fp
    Stamp = {"first", "later"}
    MaxActs = 3
    MaxExecutions = 2
INVARIANT WritesAreBoundedAndCounted
PROPERTIES GateIsEarned LineageIsImmutable
CHECK_DEADLOCK FALSE
