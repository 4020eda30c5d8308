-------------------------- MODULE MCBoundedWriter --------------------------
(* Two items; the inspected form, one with its fingerprint whose controls    *)
(* the plan does not fit (a shorter maxlength, say), and another form.       *)
EXTENDS BoundedWriter, TLC

CONSTANTS one, two, cv, letter, inspected, tightened, other, fp, otherFp

mcPlan == <<one, two>>
mcDocument == (one :> cv) @@ (two :> letter)
mcFingerprint == (inspected :> fp) @@ (tightened :> fp) @@ (other :> otherFp)
=============================================================================
