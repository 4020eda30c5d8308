------------------------ MODULE MCFencedPreparation ------------------------
(* One field and one document.  The reviewed form, one whose element ids    *)
(* have changed, which the fingerprint does not cover, and another form.    *)
EXTENDS FencedPreparation, TLC

CONSTANTS email, cv, reviewed, renamed, other, fp, otherFp

mcPlan == <<email, cv>>
mcFingerprint == (reviewed :> fp) @@ (renamed :> fp) @@ (other :> otherFp)
=============================================================================
