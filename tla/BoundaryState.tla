--------------------------- MODULE BoundaryState ---------------------------
(***************************************************************************)
(* The state of one OneClickNetworkBoundary (services/oneclick_target.py)  *)
(* and what its methods do to it.  Every method runs under the object's    *)
(* lock, so each is one function of the state.  Requests are told apart    *)
(* only as far as `allows` tells them apart: URLs are compared exactly.    *)
(***************************************************************************)
EXTENDS Integers

Phase == {"read", "upload", "submit", "closed"}

Boundary == [phase: Phase, upload_begun: BOOLEAN, submit_begun: BOOLEAN,
             blocked: Nat, attempts: Nat, allowed: Nat, uploads: Nat]

NewBoundary ==
    [phase |-> "read", upload_begun |-> FALSE, submit_begun |-> FALSE,
     blocked |-> 0, attempts |-> 0, allowed |-> 0, uploads |-> 0]

(* Requests a page can make: a POST to the resume URL, a POST to the        *)
(* application URL by script or by a form navigation, any other non-GET, a  *)
(* reviewed and an unreviewed GET, and one whose method is not even text.   *)
Request == {"upload", "application", "application_navigation", "other_write",
            "reviewed_read", "other_read", "malformed"}

-----------------------------------------------------------------------------
(* begin_upload, end_upload, begin_submit: PermissionError unless they may. *)

MayBeginUpload(b) == b.phase = "read" /\ ~b.upload_begun /\ ~b.submit_begun
BeginUpload(b)    == [b EXCEPT !.upload_begun = TRUE, !.phase = "upload"]

MayEndUpload(b) == b.phase = "upload"
EndUpload(b)    == [b EXCEPT !.phase = "read"]

MayBeginSubmit(b) == b.phase = "read" /\ ~b.submit_begun
BeginSubmit(b)    == [b EXCEPT !.submit_begun = TRUE, !.phase = "submit"]

-----------------------------------------------------------------------------
(* allows: its answer, and the state it leaves. *)

IsApplication(r) == r \in {"application", "application_navigation"}

Counted(b, r) == IF IsApplication(r) THEN [b EXCEPT !.attempts = @ + 1] ELSE b

AdmitsUpload(b, r) == r = "upload" /\ b.phase = "upload" /\ b.uploads = 0

AdmitsApplication(b, r) ==
    /\ r = "application" /\ b.phase = "submit"
    /\ Counted(b, r).attempts = 1 /\ b.allowed = 0

Admits(b, r) == r = "reviewed_read" \/ AdmitsUpload(b, r) \/ AdmitsApplication(b, r)

Denied(b, r) ==
    [Counted(b, r) EXCEPT !.blocked = @ + 1,
                          !.phase = IF IsApplication(r) THEN "closed" ELSE @]

AfterRequest(b, r) ==
    IF r \in {"reviewed_read", "other_read"} THEN b
    ELSE IF AdmitsUpload(b, r) THEN [b EXCEPT !.uploads = @ + 1]
    ELSE IF AdmitsApplication(b, r)
         THEN [Counted(b, r) EXCEPT !.allowed = @ + 1, !.phase = "closed"]
    ELSE Denied(b, r)
=============================================================================
