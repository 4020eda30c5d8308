SPECIFICATION Spec
CONSTANTS
    Null = Null
    email = email
    cv = cv
    reviewed = reviewed
    renamed = renamed
    other = other
    fp = fp
    otherFp = otherFp
    Plan <- mcPlan
    Upload = {cv}
    Form = {reviewed, renamed, other}
    Fingerprint <- mcFingerprint
    Approved = fp
    Fixture = FALSE
    MaxPageActs = 2
    MaxObservations = 2
INVARIANTS NothingLeaves ApprovedWritesOnly AttemptedOnceAndCounted
PROPERTIES ReadyIsCertified EndedForGood CallsReturn
CHECK_DEADLOCK FALSE
