------------------------- MODULE MCGuardedMutation -------------------------
(* One opportunity and two executions; a receipt, a later rejection and a   *)
(* message that matches nothing exactly.                                    *)
EXTENDS GuardedMutation, TLC

CONSTANTS x1, x2, job, receipt, rejection, vague, d1, d2, plain, verified

mcSignal(kind, date, exact) == [kind |-> kind, date |-> date, opportunity |-> job, exact |-> exact]
mcSignals == (receipt :> mcSignal("receipt", d1, TRUE))
             @@ (rejection :> mcSignal("rejection", d2, TRUE))
             @@ (vague :> mcSignal("rejection", d1, FALSE))
mcAllowed == InitialAllowed
mcSymmetry == Permutations(Executor)
=============================================================================
