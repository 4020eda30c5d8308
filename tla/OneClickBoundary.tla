-------------------------- MODULE OneClickBoundary --------------------------
(***************************************************************************)
(* OneClickNetworkBoundary as an object of its own: the driver may call    *)
(* its methods in any order, also wrongly, while the page sends whatever   *)
(* it likes.  A call that raises PermissionError changes nothing, so it is *)
(* no step.  SingleApplication has one such object in every browser run.   *)
(***************************************************************************)
EXTENDS BoundaryState

VARIABLE object

BoundaryInit == object = NewBoundary

DriverBeginsUpload == MayBeginUpload(object) /\ object' = BeginUpload(object)
DriverEndsUpload   == MayEndUpload(object) /\ object' = EndUpload(object)
DriverBeginsSubmit == MayBeginSubmit(object) /\ object' = BeginSubmit(object)

PageRequests(r) == object' = AfterRequest(object, r)

BoundaryNext ==
    \/ DriverBeginsUpload \/ DriverEndsUpload \/ DriverBeginsSubmit
    \/ \E r \in Request : PageRequests(r)

BoundarySpec == BoundaryInit /\ [][BoundaryNext]_object

-----------------------------------------------------------------------------
(* Properties. *)

BoundaryTypeOK == object \in Boundary

(* However often the driver arms it and whatever the page sends, one upload *)
(* and one application request pass in the life of the object, and neither  *)
(* without its phase having been armed (class docstring, lines 119-126).    *)
OneOfEach ==
    /\ object.allowed =< 1 /\ object.uploads =< 1
    /\ object.allowed = 1 => object.submit_begun
    /\ object.uploads = 1 => object.upload_begun

(* Any POST to the application URL, admitted or not, leaves the object      *)
(* closed: a premature attempt or a retry disarms it (lines 232-235), and   *)
(* what the counters say agrees with it.                                    *)
AttemptCloses ==
    /\ object.attempts > 0 => object.phase = "closed"
    /\ object.allowed =< object.attempts
    /\ object.attempts =< object.allowed + object.blocked

(* A closed boundary admits no write for the rest of its life. *)
Writes == <<object.uploads, object.allowed>>
ClosedForGood ==
    [][object.phase = "closed" => object'.phase = "closed" /\ Writes' = Writes]_object
=============================================================================
