--------------------------- MODULE OneApplication ---------------------------
(***************************************************************************)
(* What the single-application lane promises, without processes, browsers  *)
(* or files: in the life of the host, one intent, at most one application  *)
(* sent to the employer and only once the uncertainty is on record, a      *)
(* confirmation only of an application that was sent, and a local outcome  *)
(* only of a confirmed one.  SingleApplication implements it.              *)
(***************************************************************************)
EXTENDS Integers

VARIABLES slot,          \* "free", "reserved", "uncertain", "confirmed"
          applications,  \* application requests that left for the employer
          recorded       \* the local outcome says Applied

vars == <<slot, applications, recorded>>

Init == slot = "free" /\ applications = 0 /\ recorded = FALSE

Reserve == slot = "free" /\ slot' = "reserved" /\ UNCHANGED <<applications, recorded>>

Begin == slot = "reserved" /\ slot' = "uncertain" /\ UNCHANGED <<applications, recorded>>

Send == /\ slot = "uncertain" /\ applications = 0
        /\ applications' = 1
        /\ UNCHANGED <<slot, recorded>>

Confirm == /\ slot = "uncertain" /\ applications = 1
           /\ slot' = "confirmed"
           /\ UNCHANGED <<applications, recorded>>

Record == /\ slot = "confirmed"
          /\ recorded' = TRUE
          /\ UNCHANGED <<slot, applications>>

Next == Reserve \/ Begin \/ Send \/ Confirm \/ Record

Spec == Init /\ [][Next]_vars
=============================================================================
