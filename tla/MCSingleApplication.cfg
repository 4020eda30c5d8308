SPECIFICATION FairSpec
CONSTANTS
    Null = Null
    p1 = p1
    p2 = p2
    k1 = k1
    e1 = e1
    q1 = q1
    v1 = v1
    ev1 = ev1
    ev2 = ev2
    Process <- mcProcess
    SubmitKeys <- mcSubmitKeys
    Executions <- mcExecutions
    Requisitions <- mcRequisitions
    Proofs <- mcProofs
    Evidence <- mcEvidence
    AttemptOf <- mcAttemptOf
    EvidenceOf <- mcEvidenceOf
    Steps = 2
    UploadSteps = {1}
    MaxLaunches = 3
    MaxDenied = 2
INVARIANTS OneDispatch ReportsAreHonest ConfirmedIsTrue
PROPERTIES ReservedAfterPreparation ImplementsOneApplication EveryRunReports
CHECK_DEADLOCK FALSE
