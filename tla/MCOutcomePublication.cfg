SPECIFICATION OutcomeSpec
CONSTANTS
    NoFile = NoFile
    r1 = r1
    r2 = r2
    r3 = r3
    r4 = r4
    applied = applied
    conflicting = conflicting
    Run <- mcRun
    PayloadOf <- mcPayloadOf
INVARIANT RecordedMeansPublished
PROPERTY NeverReplaced
CHECK_DEADLOCK FALSE
