---------------------------- MODULE MCAdpCanary ----------------------------
(* Every canary, and the inspection of a posting, on a page that acts by     *)
(* itself up to twice, at any moment.                                        *)
EXTENDS LiveInspection, TLC
=============================================================================
