SPECIFICATION DurableSpec
SYMMETRY mcSymmetry
CONSTANTS
    Null = Null
    k1 = k1
    k2 = k2
    e1 = e1
    q1 = q1
    q2 = q2
    v1 = v1
    ev1 = ev1
    ev2 = ev2
    p1 = p1
    p2 = p2
    Process <- mcProcess
    MaxTime = 2
    SubmitKeys <- mcSubmitKeys
    Executions <- mcExecutions
    Requisitions <- mcRequisitions
    Proofs <- mcProofs
    Evidence <- mcEvidence
    Calls <- mcCalls
    Receipts <- mcReceipts
    Document <- mcDocuments
    Digest <- mcDigest
    ServiceTimes <- mcServiceTimes
    MaxAge = 1
    DirectCalls <- mcDirectCalls
INVARIANTS SlotAlwaysReadable OneGrant ConfirmationsAgree DispatchMatchesReservation
PROPERTIES SlotPermanent AbandonedStaysClosed
