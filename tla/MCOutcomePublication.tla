------------------------ MODULE MCOutcomePublication ------------------------
(* Four calls; the last one has other bytes to publish. *)
EXTENDS OutcomePublication

CONSTANTS r1, r2, r3, r4, applied, conflicting

mcRun       == {r1, r2, r3, r4}
mcPayloadOf == [r \in mcRun |-> IF r = r4 THEN conflicting ELSE applied]
mcSame      == [r \in mcRun |-> applied]
=============================================================================
