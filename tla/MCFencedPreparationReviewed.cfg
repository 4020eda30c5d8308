SPECIFICATION Spec
CONSTANTS
    Null = Null
    email = email
    cv = cv
    reviewed = reviewed
    renamed = renamed
    other = other
    fp = fp
    otherFp = otherFp
    Plan <- mcPlan
    Upload = {cv}
    Form = {reviewed, renamed, other}
    Fingerprint <- mcFingerprint
    Approved = fp
    Fixture = FALSE
    MaxPageActs = 2
    MaxObservations = 2
PROPERTIES WritesOnReviewedForm
CHECK_DEADLOCK FALSE
