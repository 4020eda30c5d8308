----------------------- MODULE SingleApplicationProofs -----------------------
(***************************************************************************)
(* Theorems about SingleApplication for any number of invocations, any     *)
(* identities (shared or not), any number of pages and launches: the four  *)
(* safety invariants, the preparation property, and the refinement of      *)
(* OneApplication.                                                         *)
(*                                                                         *)
(* OneDispatch is not inductive: nothing in it says why a second run, or a *)
(* second request of the same run, is not let through.  The strengthening  *)
(* says that one invocation at most is engaged (it holds the slot it       *)
(* reserved, or its boundary was armed for submission), that the row       *)
(* follows its progress, and that an armed boundary which has admitted     *)
(* nothing means nobody has sent anything.                                 *)
(*                                                                         *)
(* And, at the end, about three parts of an application by themselves: the *)
(* reviewed inputs it starts from, the network boundary its page is        *)
(* behind, and the publication of the local record of its outcome.         *)
(***************************************************************************)
EXTENDS SingleApplication, ReviewedInputs, OneClickBoundary, OutcomePublication, LedgerRowProofs

Holding == {"reserved", "mark", "marked", "submit", "clicked", "answered",
            "confirmed", "outcome"}
Holds(p)   == pc[p] \in Holding
Armed(p)   == boundary[p].submit_begun
Engaged(p) == Holds(p) \/ Armed(p)

OneEngaged == \A p, q \in Process : Engaged(p) /\ Engaged(q) => p = q

Acknowledged(p) ==
    /\ Confirmed(row) /\ row.evidence_ref = EvidenceOf[p]
    /\ sent[p] = 1 /\ reply[p] = "success"

(* The row is where the invocation that holds the slot believes it to be. *)
RowFollows(p) ==
    /\ Holds(p) => row # Null /\ row.attempt = AttemptOf[p]
    /\ pc[p] \in {"reserved", "mark"} => row.status = "Validated"
    /\ pc[p] \in {"marked", "submit", "clicked", "answered"} =>
           row.status = "Submitted / Unconfirmed"
    /\ pc[p] = "answered" => sent[p] = 1
    /\ pc[p] \in {"confirmed", "outcome"} => Acknowledged(p)

(* A boundary is armed late, and what it has admitted accounts for what left. *)
Arming(p) ==
    /\ boundary[p].phase = "submit" => Armed(p)
    /\ Armed(p) => /\ pc[p] \in {"clicked", "answered", "confirmed", "outcome", "closing"}
                   /\ started[p]
    /\ Armed(p) /\ boundary[p].allowed = 0 => dispatched = 0
    /\ pc[p] \in {"reserved", "mark", "marked", "submit"} => dispatched = 0

(* The local variable `started` against the row, the progress and the report. *)
Reports(p) ==
    /\ started[p] => Started(row) /\ row.attempt = AttemptOf[p]
    /\ sent[p] =< dispatched
    /\ sent[p] > 0 => started[p]
    /\ pc[p] \in Preparing => ~started[p]
    /\ pc[p] \in Preparing \cup Dispatching => result[p] = "none"
    /\ pc[p] \in {"submit", "clicked", "answered", "confirmed"} => started[p]
    /\ result[p] \in {"BLOCKED", "DUPLICATE_OR_UNCERTAIN"} => ~started[p]
    /\ result[p] = "SUBMITTED_UNCONFIRMED" => started[p]
    /\ result[p] = "EMPLOYER_CONFIRMED" => Acknowledged(p)

(* What an invocation has done when it reaches the reservation. *)
Prepared(p) ==
    /\ pc[p] \in {"final", "recheck", "reserve"} => step[p] = Steps
    /\ pc[p] \in {"recheck", "reserve"} => uploads[p] = 1
    /\ pc[p] \in Browsing /\ uploads[p] = 1 => boundary[p].uploads = 1
    /\ pc[p] = "opened" => uploads[p] = 0

Local(p) == RowFollows(p) /\ Arming(p) /\ Reports(p) /\ Prepared(p)

OutcomeIsTrue == outcome = "Applied" => Confirmed(row) /\ dispatched = 1

IInv ==
    /\ TypeOK
    /\ OneEngaged
    /\ \A p \in Process : Local(p)
    /\ ~Started(row) => dispatched = 0
    /\ dispatched =< 1
    /\ Confirmed(row) => dispatched = 1
    /\ OutcomeIsTrue
-----------------------------------------------------------------------------
(* Lemmas about one boundary. *)

(* What the driver's calls leave behind. *)
LEMMA DriverCalls ==
    ASSUME NEW b \in Boundary
    PROVE  /\ NewBoundary \in Boundary
           /\ BeginUpload(b) \in Boundary /\ EndUpload(b) \in Boundary
           /\ BeginSubmit(b) \in Boundary
           /\ NewBoundary.phase = "read" /\ ~NewBoundary.submit_begun
           /\ BeginUpload(b).phase = "upload" /\ EndUpload(b).phase = "read"
           /\ BeginUpload(b).submit_begun = b.submit_begun
           /\ EndUpload(b).submit_begun = b.submit_begun
           /\ BeginSubmit(b).submit_begun
           /\ BeginUpload(b).allowed = b.allowed /\ EndUpload(b).allowed = b.allowed
           /\ BeginUpload(b).uploads = b.uploads /\ EndUpload(b).uploads = b.uploads
           /\ BeginSubmit(b).uploads = b.uploads
  BY DEF Boundary, Phase, NewBoundary, BeginUpload, EndUpload, BeginSubmit

(* What a request leaves behind: only an admitted application request counts *)
(* as allowed, and no request arms the boundary.                             *)
LEMMA RequestEffect ==
    ASSUME NEW b \in Boundary, NEW r \in Request
    PROVE  /\ AfterRequest(b, r) \in Boundary
           /\ AfterRequest(b, r).submit_begun = b.submit_begun
           /\ AfterRequest(b, r).phase = "submit" => b.phase = "submit"
           /\ b.uploads = 1 => AfterRequest(b, r).uploads = 1
           /\ AdmitsApplication(b, r) =>
                 b.phase = "submit" /\ b.allowed = 0 /\ AfterRequest(b, r).allowed = 1
           /\ ~AdmitsApplication(b, r) => AfterRequest(b, r).allowed = b.allowed
  <1> USE DEF Boundary, Phase
  <1> DEFINE c == [b EXCEPT !.attempts = @ + 1]
  <1>1. CASE r \in {"reviewed_read", "other_read"}
    BY <1>1 DEF AfterRequest, AdmitsApplication
  <1>2. CASE AdmitsUpload(b, r)
    <2>1. AfterRequest(b, r) = [b EXCEPT !.uploads = @ + 1] /\ ~AdmitsApplication(b, r)
      BY <1>2 DEF AfterRequest, AdmitsUpload, AdmitsApplication
    <2>2. QED
      BY <1>2, <2>1 DEF AdmitsUpload
  <1>3. CASE AdmitsApplication(b, r)
    <2>1. r = "application" /\ Counted(b, r) = c /\ b.phase = "submit" /\ b.allowed = 0
      BY <1>3 DEF AdmitsApplication, Counted, IsApplication
    <2>2. AfterRequest(b, r) = [c EXCEPT !.allowed = @ + 1, !.phase = "closed"]
      BY <1>3, <2>1 DEF AfterRequest, AdmitsUpload
    <2>3. AfterRequest(b, r) =
             [phase |-> "closed", upload_begun |-> b.upload_begun,
              submit_begun |-> b.submit_begun, blocked |-> b.blocked,
              attempts |-> b.attempts + 1, allowed |-> b.allowed + 1, uploads |-> b.uploads]
      BY <2>2
    <2>4. QED
      BY <1>3, <2>1, <2>3
  <1>4. CASE /\ r \notin {"reviewed_read", "other_read"}
             /\ ~AdmitsUpload(b, r) /\ ~AdmitsApplication(b, r)
    <2>1. AfterRequest(b, r) = Denied(b, r)
      BY <1>4 DEF AfterRequest
    <2>2. CASE IsApplication(r)
      <3>1. Denied(b, r) = [c EXCEPT !.blocked = @ + 1, !.phase = "closed"]
        BY <2>2 DEF Denied, Counted
      <3>2. AfterRequest(b, r) =
               [phase |-> "closed", upload_begun |-> b.upload_begun,
                submit_begun |-> b.submit_begun, blocked |-> b.blocked + 1,
                attempts |-> b.attempts + 1, allowed |-> b.allowed, uploads |-> b.uploads]
        BY <2>1, <3>1
      <3>3. QED
        BY <1>4, <3>2
    <2>3. CASE ~IsApplication(r)
      <3>1. AfterRequest(b, r) = [b EXCEPT !.blocked = @ + 1]
        BY <2>1, <2>3 DEF Denied, Counted
      <3>2. QED
        BY <1>4, <3>1
    <2>4. QED
      BY <2>2, <2>3
  <1>5. QED
    BY <1>1, <1>2, <1>3, <1>4
-----------------------------------------------------------------------------
(* The strengthening is inductive. *)

LEMMA InitInv == Init => IInv
  <1> SUFFICES ASSUME Init PROVE IInv
    OBVIOUS
  <1> USE DEF Init
  <1>1. TypeOK
    BY ParametersAssumption
    DEF TypeOK, NewBoundary, Boundary, Phase, Browsing, Preparing, Dispatching
  <1>2. \A p \in Process : ~Engaged(p) /\ ~Armed(p) /\ boundary[p].phase = "read"
    BY DEF Engaged, Holds, Holding, Armed, NewBoundary
  <1>3. OneEngaged
    BY <1>2 DEF OneEngaged
  <1>4. ASSUME NEW p \in Process PROVE Local(p)
    BY <1>2 DEF Local, RowFollows, Arming, Engaged, Holds, Reports, Preparing, Prepared,
                Browsing, Dispatching
  <1>5. QED
    BY <1>1, <1>3, <1>4 DEF IInv, OutcomeIsTrue, Confirmed

(* A step of one invocation that leaves the row and the count of requests   *)
(* alone disturbs only what is local to it.                                 *)
Mine(q) == <<pc[q], step[q], boundary[q], started[q], sent[q], reply[q], uploads[q], result[q]>>

LEMMA LocalStep ==
    ASSUME IInv, NEW p \in Process, TypeOK',
           UNCHANGED <<row, dispatched>>,
           \A q \in Process \ {p} : Mine(q)' = Mine(q),
           Engaged(p)' => Engaged(p), Local(p)', OutcomeIsTrue'
    PROVE  IInv'
  <1>1. ASSUME NEW q \in Process, q # p PROVE Local(q)' /\ (Engaged(q)' <=> Engaged(q))
    <2>1. Local(q) /\ Mine(q)' = Mine(q)
      BY <1>1 DEF IInv
    <2>2. RowFollows(q)' /\ (Engaged(q)' <=> Engaged(q))
      BY <2>1 DEF Mine, Local, RowFollows, Holds, Engaged, Armed, Acknowledged, Confirmed
    <2>3. Arming(q)'
      BY <2>1 DEF Mine, Local, Arming, Armed
    <2>4. Reports(q)'
      BY <2>1 DEF Mine, Local, Reports, Acknowledged, Started, Confirmed
    <2>5. Prepared(q)'
      BY <2>1 DEF Mine, Local, Prepared
    <2>6. QED
      BY <2>2, <2>3, <2>4, <2>5 DEF Local
  <1>2. OneEngaged'
    BY <1>1 DEF IInv, OneEngaged
  <1>3. (~Started(row) => dispatched = 0)' /\ (dispatched =< 1)'
    BY DEF IInv, Started
  <1>4. (Confirmed(row) => dispatched = 1)'
    BY DEF IInv, Confirmed
  <1>5. QED
    BY <1>1, <1>2, <1>3, <1>4 DEF IInv

(* A step that continues the row or sends a request keeps what is local to  *)
(* the invocations that are not engaged.                                    *)
LEMMA Bystander ==
    ASSUME IInv, NEW q \in Process, ~Engaged(q), Mine(q)' = Mine(q),
           row # Null => row' # Null /\ row'.attempt = row.attempt,
           Started(row) => Started(row)', Confirmed(row) => row' = row,
           dispatched' \in Nat, dispatched =< dispatched'
    PROVE  Local(q)' /\ ~Engaged(q)'
  <1>1. Local(q) /\ dispatched \in Nat /\ sent[q] \in Nat /\ ~Holds(q) /\ ~Armed(q)
    BY DEF IInv, TypeOK, Engaged
  <1>2. ~Engaged(q)' /\ ~Holds(q)' /\ ~Armed(q)'
    BY <1>1 DEF Mine, Engaged, Holds, Armed
  <1>3. RowFollows(q)'
    BY <1>2 DEF RowFollows, Holds, Holding
  <1>4. Arming(q)'
    BY <1>1, <1>2 DEF Mine, Local, Arming, Armed, Holds, Holding
  <1>5. Reports(q)'
    <2>1. Started(row) => row # Null
      BY DEF Started
    <2>2. Acknowledged(q) => Acknowledged(q)'
      BY DEF Acknowledged, Mine, Confirmed
    <2>3. QED
      BY <1>1, <2>1, <2>2 DEF Mine, Local, Reports
  <1>6. Prepared(q)'
    BY <1>1 DEF Mine, Local, Prepared
  <1>7. QED
    BY <1>2, <1>3, <1>4, <1>5, <1>6 DEF Local

(* A new invocation starts with a fresh boundary and nothing sent. *)
LEMMA LaunchPreserves ==
    ASSUME IInv, NEW p \in Process, Launch(p)
    PROVE  IInv'
  <1> USE DEF Launch, host, browser
  <1> TypeOK /\ boundary[p] \in Boundary /\ Local(p)
    BY DEF IInv, TypeOK
  <1>1. TypeOK'
    <2>1. /\ launches' \in Nat /\ step' \in [Process -> 1 .. Steps]
          /\ page' \in [Process -> {"reviewed", "drifted"}]
      BY ParametersAssumption DEF TypeOK
    <2> boundary' \in [Process -> Boundary]
      BY DriverCalls DEF TypeOK
    <2>2. /\ started' \in [Process -> BOOLEAN]
          /\ uploads' \in [Process -> Nat] /\ sent' \in [Process -> Nat]
          /\ reply' \in [Process -> {"none", "accepted", "success", "other"}]
      BY DEF TypeOK
    <2>3. /\ pc' \in [Process -> Browsing \cup {"off", "opened", "reported"}]
          /\ result' \in [Process -> Statuses \cup {"none"}]
      BY DEF TypeOK, Statuses
    <2>4. QED
      BY <2>1, <2>2, <2>3 DEF TypeOK
  <1>2. /\ UNCHANGED <<row, dispatched>>
        /\ \A q \in Process \ {p} : Mine(q)' = Mine(q)
    BY DEF TypeOK, Mine
  <1>3. Engaged(p)' => Engaged(p)
    <2>1. boundary'[p] = NewBoundary /\ pc'[p] \in {"opened", "reported"}
      BY DEF TypeOK
    <2>2. ~Armed(p)' /\ ~Holds(p)'
      BY <2>1, DriverCalls DEF Armed, Holds, Holding
    <2>3. QED
      BY <2>2 DEF Engaged
  <1>4. RowFollows(p)'
    BY DEF TypeOK, Local, RowFollows, Holds, Holding, Acknowledged, Confirmed
  <1>5. Arming(p)'
    <2>1. boundary'[p] = NewBoundary /\ pc'[p] \in {"opened", "reported"}
      BY DEF TypeOK
    <2>2. ~Armed(p)' /\ boundary'[p].phase # "submit"
      BY <2>1, DriverCalls DEF Armed
    <2>3. QED
      BY <2>1, <2>2 DEF Arming
  <1>6. Reports(p)'
    <2>1. ~started'[p] /\ sent'[p] = 0 /\ dispatched' \in Nat
      BY DEF TypeOK
    <2>2. /\ pc'[p] \notin {"submit", "clicked", "answered", "confirmed"}
          /\ result'[p] \notin {"SUBMITTED_UNCONFIRMED", "EMPLOYER_CONFIRMED"}
      BY DEF TypeOK
    <2>3. pc'[p] \in {"opened", "reported"} /\ (pc'[p] = "opened" => result'[p] = "none")
      BY DEF TypeOK
    <2>4. QED
      BY <2>1, <2>2, <2>3 DEF Reports, Preparing, Dispatching
  <1>7. Prepared(p)'
    BY DriverCalls DEF TypeOK, Local, Prepared, Browsing, Preparing, Dispatching
  <1>8. OutcomeIsTrue'
    BY DEF IInv, OutcomeIsTrue, Confirmed
  <1>9. QED
    BY <1>1, <1>2, <1>3, <1>4, <1>5, <1>6, <1>7, <1>8, LocalStep DEF Local

(* Closing the browser replaces the boundary. *)
LEMMA CloseAndReportPreserves ==
    ASSUME IInv, NEW p \in Process, CloseAndReport(p)
    PROVE  IInv'
  <1> USE DEF CloseAndReport, Goto, host, browser
  <1> TypeOK /\ boundary[p] \in Boundary /\ Local(p)
    BY DEF IInv, TypeOK
  <1>1. TypeOK'
    <2>1. boundary' \in [Process -> Boundary]
      BY DriverCalls DEF TypeOK
    <2>2. step' \in [Process -> 1 .. Steps] /\ page' \in [Process -> {"reviewed", "drifted"}]
      BY ParametersAssumption DEF TypeOK
    <2>3. pc' \in [Process -> Browsing \cup {"off", "opened", "reported"}]
      BY DEF TypeOK
    <2>4. QED
      BY <2>1, <2>2, <2>3 DEF TypeOK
  <1>2. /\ UNCHANGED <<row, dispatched>>
        /\ \A q \in Process \ {p} : Mine(q)' = Mine(q)
    BY DEF TypeOK, Mine
  <1>3. Engaged(p)' => Engaged(p)
    <2>1. boundary'[p] = NewBoundary /\ pc'[p] \in {"reported"}
      BY DEF TypeOK
    <2>2. ~Armed(p)' /\ ~Holds(p)'
      BY <2>1, DriverCalls DEF Armed, Holds, Holding
    <2>3. QED
      BY <2>2 DEF Engaged
  <1>4. RowFollows(p)'
    BY DEF TypeOK, Local, RowFollows, Holds, Holding, Acknowledged, Confirmed
  <1>5. Arming(p)'
    <2>1. boundary'[p] = NewBoundary /\ pc'[p] \in {"reported"}
      BY DEF TypeOK
    <2>2. ~Armed(p)' /\ boundary'[p].phase # "submit"
      BY <2>1, DriverCalls DEF Armed
    <2>3. QED
      BY <2>1, <2>2 DEF Arming
  <1>6. Reports(p)'
    BY DEF TypeOK, Local, Reports, RowFollows, Holds, Holding, Acknowledged, Confirmed,
           Started, Preparing, Dispatching
  <1>7. Prepared(p)'
    BY DriverCalls DEF TypeOK, Local, Prepared, Browsing, Preparing, Dispatching
  <1>8. OutcomeIsTrue'
    BY DEF IInv, OutcomeIsTrue, Confirmed
  <1>9. QED
    BY <1>1, <1>2, <1>3, <1>4, <1>5, <1>6, <1>7, <1>8, LocalStep DEF Local

(* The second has_intent. *)
LEMMA GatePreserves ==
    ASSUME IInv, NEW p \in Process, Gate(p)
    PROVE  IInv'
  <1> USE DEF Gate, Stop, host, browser
  <1> TypeOK /\ boundary[p] \in Boundary /\ Local(p)
    BY DEF IInv, TypeOK
  <1>1. TypeOK'
    BY ParametersAssumption DEF TypeOK, Browsing, Preparing, Dispatching, Statuses
  <1>2. /\ UNCHANGED <<row, dispatched>>
        /\ \A q \in Process \ {p} : Mine(q)' = Mine(q)
    BY DEF TypeOK, Mine
  <1>3. Engaged(p)' => Engaged(p)
    BY DEF TypeOK, Engaged, Holds, Holding, Armed, Preparing, Dispatching, Browsing
  <1>4. RowFollows(p)'
    BY DEF TypeOK, Local, RowFollows, Holds, Holding, Acknowledged, Confirmed
  <1>5. Arming(p)'
    BY DEF TypeOK, Local, Arming, Armed
  <1>6. Reports(p)'
    BY ZenonT(30) DEF TypeOK, Local, Reports, RowFollows, Holds, Holding, Acknowledged, Confirmed,
           Started, Preparing, Dispatching
  <1>7. Prepared(p)'
    BY DEF TypeOK, Local, Prepared, Browsing, Preparing, Dispatching
  <1>8. OutcomeIsTrue'
    BY DEF IInv, OutcomeIsTrue, Confirmed
  <1>9. QED
    BY <1>1, <1>2, <1>3, <1>4, <1>5, <1>6, <1>7, <1>8, LocalStep DEF Local

(* Opening the form. *)
LEMMA EnterPreserves ==
    ASSUME IInv, NEW p \in Process, Enter(p)
    PROVE  IInv'
  <1> USE DEF Enter, Goto, host, browser
  <1> TypeOK /\ boundary[p] \in Boundary /\ Local(p)
    BY DEF IInv, TypeOK
  <1>1. TypeOK'
    BY ParametersAssumption DEF TypeOK, Browsing, Preparing, Dispatching, Statuses
  <1>2. /\ UNCHANGED <<row, dispatched>>
        /\ \A q \in Process \ {p} : Mine(q)' = Mine(q)
    BY DEF TypeOK, Mine
  <1>3. Engaged(p)' => Engaged(p)
    BY DEF TypeOK, Engaged, Holds, Holding, Armed, Preparing, Dispatching, Browsing
  <1>4. RowFollows(p)'
    BY DEF TypeOK, Local, RowFollows, Holds, Holding, Acknowledged, Confirmed
  <1>5. Arming(p)'
    BY DEF TypeOK, Local, Arming, Armed
  <1>6. Reports(p)'
    BY DEF TypeOK, Local, Reports, RowFollows, Holds, Holding, Acknowledged, Confirmed,
           Started, Preparing, Dispatching
  <1>7. Prepared(p)'
    BY DEF TypeOK, Local, Prepared, Browsing, Preparing, Dispatching
  <1>8. OutcomeIsTrue'
    BY DEF IInv, OutcomeIsTrue, Confirmed
  <1>9. QED
    BY <1>1, <1>2, <1>3, <1>4, <1>5, <1>6, <1>7, <1>8, LocalStep DEF Local

(* One page filled. *)
LEMMA FillPreserves ==
    ASSUME IInv, NEW p \in Process, Fill(p)
    PROVE  IInv'
  <1> USE DEF Fill, Goto, host, browser
  <1> TypeOK /\ boundary[p] \in Boundary /\ Local(p)
    BY DEF IInv, TypeOK
  <1>1. TypeOK'
    BY ParametersAssumption DEF TypeOK, Browsing, Preparing, Dispatching, Statuses
  <1>2. /\ UNCHANGED <<row, dispatched>>
        /\ \A q \in Process \ {p} : Mine(q)' = Mine(q)
    BY DEF TypeOK, Mine
  <1>3. Engaged(p)' => Engaged(p)
    BY DEF TypeOK, Engaged, Holds, Holding, Armed, Preparing, Dispatching, Browsing
  <1>4. RowFollows(p)'
    BY DEF TypeOK, Local, RowFollows, Holds, Holding, Acknowledged, Confirmed
  <1>5. Arming(p)'
    BY DEF TypeOK, Local, Arming, Armed
  <1>6. Reports(p)'
    BY DEF TypeOK, Local, Reports, RowFollows, Holds, Holding, Acknowledged, Confirmed,
           Started, Preparing, Dispatching
  <1>7. Prepared(p)'
    BY DEF TypeOK, Local, Prepared, Browsing, Preparing, Dispatching
  <1>8. OutcomeIsTrue'
    BY DEF IInv, OutcomeIsTrue, Confirmed
  <1>9. QED
    BY <1>1, <1>2, <1>3, <1>4, <1>5, <1>6, <1>7, <1>8, LocalStep DEF Local

(* The upload is armed; submission is not. *)
LEMMA ArmUploadPreserves ==
    ASSUME IInv, NEW p \in Process, ArmUpload(p)
    PROVE  IInv'
  <1> USE DEF ArmUpload, Goto, host, browser
  <1> TypeOK /\ boundary[p] \in Boundary /\ Local(p)
    BY DEF IInv, TypeOK
  <1>1. TypeOK'
    BY DriverCalls, ParametersAssumption DEF TypeOK, Browsing, Preparing, Dispatching, Statuses
  <1>2. /\ UNCHANGED <<row, dispatched>>
        /\ \A q \in Process \ {p} : Mine(q)' = Mine(q)
    BY DEF TypeOK, Mine
  <1>3. Engaged(p)' => Engaged(p)
    BY DriverCalls DEF TypeOK, Engaged, Holds, Holding, Armed, Preparing, Dispatching, Browsing
  <1>4. RowFollows(p)'
    BY DEF TypeOK, Local, RowFollows, Holds, Holding, Acknowledged, Confirmed
  <1>5. Arming(p)'
    BY DriverCalls DEF TypeOK, Local, Arming, Armed
  <1>6. Reports(p)'
    BY DEF TypeOK, Local, Reports, RowFollows, Holds, Holding, Acknowledged, Confirmed,
           Started, Preparing, Dispatching
  <1>7. Prepared(p)'
    BY DriverCalls DEF TypeOK, Local, Prepared, Browsing, Preparing, Dispatching
  <1>8. OutcomeIsTrue'
    BY DEF IInv, OutcomeIsTrue, Confirmed
  <1>9. QED
    BY <1>1, <1>2, <1>3, <1>4, <1>5, <1>6, <1>7, <1>8, LocalStep DEF Local

(* The upload's phase ends. *)
LEMMA UploadedPreserves ==
    ASSUME IInv, NEW p \in Process, Uploaded(p)
    PROVE  IInv'
  <1> USE DEF Uploaded, Goto, host, browser
  <1> TypeOK /\ boundary[p] \in Boundary /\ Local(p)
    BY DEF IInv, TypeOK
  <1>1. TypeOK'
    BY DriverCalls, ParametersAssumption DEF TypeOK, Browsing, Preparing, Dispatching, Statuses
  <1>2. /\ UNCHANGED <<row, dispatched>>
        /\ \A q \in Process \ {p} : Mine(q)' = Mine(q)
    BY DEF TypeOK, Mine
  <1>3. Engaged(p)' => Engaged(p)
    BY DriverCalls DEF TypeOK, Engaged, Holds, Holding, Armed, Preparing, Dispatching, Browsing
  <1>4. RowFollows(p)'
    BY DEF TypeOK, Local, RowFollows, Holds, Holding, Acknowledged, Confirmed
  <1>5. Arming(p)'
    BY DriverCalls DEF TypeOK, Local, Arming, Armed
  <1>6. Reports(p)'
    BY DEF TypeOK, Local, Reports, RowFollows, Holds, Holding, Acknowledged, Confirmed,
           Started, Preparing, Dispatching
  <1>7. Prepared(p)'
    BY DriverCalls DEF TypeOK, Local, Prepared, Browsing, Preparing, Dispatching
  <1>8. OutcomeIsTrue'
    BY DEF IInv, OutcomeIsTrue, Confirmed
  <1>9. QED
    BY <1>1, <1>2, <1>3, <1>4, <1>5, <1>6, <1>7, <1>8, LocalStep DEF Local

(* The page is read again; the last one leads to the final step. *)
LEMMA RereadPreserves ==
    ASSUME IInv, NEW p \in Process, Reread(p)
    PROVE  IInv'
  <1> USE DEF Reread, host, browser
  <1> TypeOK /\ boundary[p] \in Boundary /\ Local(p)
    BY DEF IInv, TypeOK
  <1>1. TypeOK'
    BY ParametersAssumption DEF TypeOK, Browsing, Preparing, Dispatching, Statuses
  <1>2. /\ UNCHANGED <<row, dispatched>>
        /\ \A q \in Process \ {p} : Mine(q)' = Mine(q)
    BY DEF TypeOK, Mine
  <1>3. Engaged(p)' => Engaged(p)
    BY DEF TypeOK, Engaged, Holds, Holding, Armed, Preparing, Dispatching, Browsing
  <1>4. RowFollows(p)'
    BY DEF TypeOK, Local, RowFollows, Holds, Holding, Acknowledged, Confirmed
  <1>5. Arming(p)'
    BY DEF TypeOK, Local, Arming, Armed
  <1>6. Reports(p)'
    BY DEF TypeOK, Local, Reports, RowFollows, Holds, Holding, Acknowledged, Confirmed,
           Started, Preparing, Dispatching
  <1>7. Prepared(p)'
    BY DEF TypeOK, Local, Prepared, Browsing, Preparing, Dispatching
  <1>8. OutcomeIsTrue'
    BY DEF IInv, OutcomeIsTrue, Confirmed
  <1>9. QED
    BY <1>1, <1>2, <1>3, <1>4, <1>5, <1>6, <1>7, <1>8, LocalStep DEF Local

(* The final validation, with one resume verified. *)
LEMMA ValidatePreserves ==
    ASSUME IInv, NEW p \in Process, Validate(p)
    PROVE  IInv'
  <1> USE DEF Validate, Goto, host, browser
  <1> TypeOK /\ boundary[p] \in Boundary /\ Local(p)
    BY DEF IInv, TypeOK
  <1>1. TypeOK'
    BY ParametersAssumption DEF TypeOK, Browsing, Preparing, Dispatching, Statuses
  <1>2. /\ UNCHANGED <<row, dispatched>>
        /\ \A q \in Process \ {p} : Mine(q)' = Mine(q)
    BY DEF TypeOK, Mine
  <1>3. Engaged(p)' => Engaged(p)
    BY DEF TypeOK, Engaged, Holds, Holding, Armed, Preparing, Dispatching, Browsing
  <1>4. RowFollows(p)'
    BY DEF TypeOK, Local, RowFollows, Holds, Holding, Acknowledged, Confirmed
  <1>5. Arming(p)'
    BY DEF TypeOK, Local, Arming, Armed
  <1>6. Reports(p)'
    BY DEF TypeOK, Local, Reports, RowFollows, Holds, Holding, Acknowledged, Confirmed,
           Started, Preparing, Dispatching
  <1>7. Prepared(p)'
    BY DEF TypeOK, Local, Prepared, Browsing, Preparing, Dispatching
  <1>8. OutcomeIsTrue'
    BY DEF IInv, OutcomeIsTrue, Confirmed
  <1>9. QED
    BY <1>1, <1>2, <1>3, <1>4, <1>5, <1>6, <1>7, <1>8, LocalStep DEF Local

(* The last look at the surface. *)
LEMMA RecheckPreserves ==
    ASSUME IInv, NEW p \in Process, Recheck(p)
    PROVE  IInv'
  <1> USE DEF Recheck, Goto, host, browser
  <1> TypeOK /\ boundary[p] \in Boundary /\ Local(p)
    BY DEF IInv, TypeOK
  <1>1. TypeOK'
    BY ParametersAssumption DEF TypeOK, Browsing, Preparing, Dispatching, Statuses
  <1>2. /\ UNCHANGED <<row, dispatched>>
        /\ \A q \in Process \ {p} : Mine(q)' = Mine(q)
    BY DEF TypeOK, Mine
  <1>3. Engaged(p)' => Engaged(p)
    BY DEF TypeOK, Engaged, Holds, Holding, Armed, Preparing, Dispatching, Browsing
  <1>4. RowFollows(p)'
    BY DEF TypeOK, Local, RowFollows, Holds, Holding, Acknowledged, Confirmed
  <1>5. Arming(p)'
    BY DEF TypeOK, Local, Arming, Armed
  <1>6. Reports(p)'
    BY DEF TypeOK, Local, Reports, RowFollows, Holds, Holding, Acknowledged, Confirmed,
           Started, Preparing, Dispatching
  <1>7. Prepared(p)'
    BY DEF TypeOK, Local, Prepared, Browsing, Preparing, Dispatching
  <1>8. OutcomeIsTrue'
    BY DEF IInv, OutcomeIsTrue, Confirmed
  <1>9. QED
    BY <1>1, <1>2, <1>3, <1>4, <1>5, <1>6, <1>7, <1>8, LocalStep DEF Local

(* reserve_intent returns. *)
LEMMA IntentReturnedPreserves ==
    ASSUME IInv, NEW p \in Process, IntentReturned(p)
    PROVE  IInv'
  <1> USE DEF IntentReturned, Goto, host, browser
  <1> TypeOK /\ boundary[p] \in Boundary /\ Local(p)
    BY DEF IInv, TypeOK
  <1>1. TypeOK'
    BY ParametersAssumption DEF TypeOK, Browsing, Preparing, Dispatching, Statuses
  <1>2. /\ UNCHANGED <<row, dispatched>>
        /\ \A q \in Process \ {p} : Mine(q)' = Mine(q)
    BY DEF TypeOK, Mine
  <1>3. Engaged(p)' => Engaged(p)
    BY DEF TypeOK, Engaged, Holds, Holding, Armed, Preparing, Dispatching, Browsing
  <1>4. RowFollows(p)'
    BY DEF TypeOK, Local, RowFollows, Holds, Holding, Acknowledged, Confirmed
  <1>5. Arming(p)'
    BY DEF TypeOK, Local, Arming, Armed
  <1>6. Reports(p)'
    BY DEF TypeOK, Local, Reports, RowFollows, Holds, Holding, Acknowledged, Confirmed,
           Started, Preparing, Dispatching
  <1>7. Prepared(p)'
    BY DEF TypeOK, Local, Prepared, Browsing, Preparing, Dispatching
  <1>8. OutcomeIsTrue'
    BY DEF IInv, OutcomeIsTrue, Confirmed
  <1>9. QED
    BY <1>1, <1>2, <1>3, <1>4, <1>5, <1>6, <1>7, <1>8, LocalStep DEF Local

(* mark_started returns and started becomes TRUE over a started row. *)
LEMMA StartReturnedPreserves ==
    ASSUME IInv, NEW p \in Process, StartReturned(p)
    PROVE  IInv'
  <1> USE DEF StartReturned, Goto, host, browser
  <1> TypeOK /\ boundary[p] \in Boundary /\ Local(p)
    BY DEF IInv, TypeOK
  <1>1. TypeOK'
    BY ParametersAssumption DEF TypeOK, Browsing, Preparing, Dispatching, Statuses
  <1>2. /\ UNCHANGED <<row, dispatched>>
        /\ \A q \in Process \ {p} : Mine(q)' = Mine(q)
    BY DEF TypeOK, Mine
  <1>3. Engaged(p)' => Engaged(p)
    BY DEF TypeOK, Engaged, Holds, Holding, Armed, Preparing, Dispatching, Browsing
  <1>4. RowFollows(p)'
    BY DEF TypeOK, Local, RowFollows, Holds, Holding, Acknowledged, Confirmed
  <1>5. Arming(p)'
    BY DEF TypeOK, Local, Arming, Armed
  <1>6. Reports(p)'
    <2>1. Started(row) /\ row.attempt = AttemptOf[p]
      BY DEF Local, RowFollows, Holds, Holding, Started
    <2>2. started'[p] /\ pc'[p] = "submit" /\ Started(row)'
      BY <2>1 DEF TypeOK, Started
    <2>3. result'[p] = "none"
      BY DEF Local, Reports, Preparing
    <2>4. QED
      BY <2>1, <2>2, <2>3 DEF TypeOK, Local, Reports, Preparing
  <1>7. Prepared(p)'
    BY DEF TypeOK, Local, Prepared, Browsing, Preparing, Dispatching
  <1>8. OutcomeIsTrue'
    BY DEF IInv, OutcomeIsTrue, Confirmed
  <1>9. QED
    BY <1>1, <1>2, <1>3, <1>4, <1>5, <1>6, <1>7, <1>8, LocalStep DEF Local

(* The boundary is armed by the invocation that holds the slot, before anything was sent. *)
LEMMA SubmitOncePreserves ==
    ASSUME IInv, NEW p \in Process, SubmitOnce(p)
    PROVE  IInv'
  <1> USE DEF SubmitOnce, Goto, host, browser
  <1> TypeOK /\ boundary[p] \in Boundary /\ Local(p)
    BY DEF IInv, TypeOK
  <1>1. TypeOK'
    BY DriverCalls, ParametersAssumption DEF TypeOK, Browsing, Preparing, Dispatching, Statuses
  <1>2. /\ UNCHANGED <<row, dispatched>>
        /\ \A q \in Process \ {p} : Mine(q)' = Mine(q)
    BY DEF TypeOK, Mine
  <1>3. Engaged(p)' => Engaged(p)
    BY DriverCalls DEF TypeOK, Engaged, Holds, Holding, Armed, Preparing, Dispatching, Browsing
  <1>4. RowFollows(p)'
    BY DEF TypeOK, Local, RowFollows, Holds, Holding, Acknowledged, Confirmed
  <1>5. Arming(p)'
    BY DriverCalls DEF TypeOK, Local, Arming, Armed, Reports
  <1>6. Reports(p)'
    BY DEF TypeOK, Local, Reports, RowFollows, Holds, Holding, Acknowledged, Confirmed,
           Started, Preparing, Dispatching
  <1>7. Prepared(p)'
    BY DriverCalls DEF TypeOK, Local, Prepared, Browsing, Preparing, Dispatching
  <1>8. OutcomeIsTrue'
    BY DEF IInv, OutcomeIsTrue, Confirmed
  <1>9. QED
    BY <1>1, <1>2, <1>3, <1>4, <1>5, <1>6, <1>7, <1>8, LocalStep DEF Local

(* An answer can only follow the one request that left. *)
LEMMA AnswerPreserves ==
    ASSUME IInv, NEW p \in Process, Answer(p)
    PROVE  IInv'
  <1> USE DEF Answer, Goto, host, browser
  <1> TypeOK /\ boundary[p] \in Boundary /\ Local(p)
    BY DEF IInv, TypeOK
  <1>1. TypeOK'
    BY ParametersAssumption DEF TypeOK, Browsing, Preparing, Dispatching, Statuses
  <1>2. /\ UNCHANGED <<row, dispatched>>
        /\ \A q \in Process \ {p} : Mine(q)' = Mine(q)
    BY DEF TypeOK, Mine
  <1>3. Engaged(p)' => Engaged(p)
    BY DEF TypeOK, Engaged, Holds, Holding, Armed, Preparing, Dispatching, Browsing
  <1>4. RowFollows(p)'
    <2>1. sent[p] = 1
      BY DEF IInv, TypeOK, Local, Reports
    <2>2. pc'[p] = "answered"
      BY DEF TypeOK
    <2>3. QED
      BY <2>1, <2>2 DEF Local, RowFollows, Holds, Holding
  <1>5. Arming(p)'
    BY DEF TypeOK, Local, Arming, Armed
  <1>6. Reports(p)'
    BY DEF TypeOK, Local, Reports, RowFollows, Holds, Holding, Acknowledged, Confirmed,
           Started, Preparing, Dispatching
  <1>7. Prepared(p)'
    BY DEF TypeOK, Local, Prepared, Browsing, Preparing, Dispatching
  <1>8. OutcomeIsTrue'
    BY DEF IInv, OutcomeIsTrue, Confirmed
  <1>9. QED
    BY <1>1, <1>2, <1>3, <1>4, <1>5, <1>6, <1>7, <1>8, LocalStep DEF Local

(* The confirmation is reported by the run whose evidence the row holds. *)
LEMMA ConfirmReturnedPreserves ==
    ASSUME IInv, NEW p \in Process, ConfirmReturned(p)
    PROVE  IInv'
  <1> USE DEF ConfirmReturned, Goto, host, browser
  <1> TypeOK /\ boundary[p] \in Boundary /\ Local(p)
    BY DEF IInv, TypeOK
  <1>1. TypeOK'
    BY ParametersAssumption DEF TypeOK, Browsing, Preparing, Dispatching, Statuses
  <1>2. /\ UNCHANGED <<row, dispatched>>
        /\ \A q \in Process \ {p} : Mine(q)' = Mine(q)
    BY DEF TypeOK, Mine
  <1>3. Engaged(p)' => Engaged(p)
    BY DEF TypeOK, Engaged, Holds, Holding, Armed, Preparing, Dispatching, Browsing
  <1>4. RowFollows(p)'
    BY DEF TypeOK, Local, RowFollows, Holds, Holding, Acknowledged, Confirmed
  <1>5. Arming(p)'
    BY DEF TypeOK, Local, Arming, Armed
  <1>6. Reports(p)'
    BY DEF TypeOK, Local, Reports, RowFollows, Holds, Holding, Acknowledged, Confirmed,
           Started, Preparing, Dispatching
  <1>7. Prepared(p)'
    BY DEF TypeOK, Local, Prepared, Browsing, Preparing, Dispatching
  <1>8. OutcomeIsTrue'
    BY DEF IInv, OutcomeIsTrue, Confirmed
  <1>9. QED
    BY <1>1, <1>2, <1>3, <1>4, <1>5, <1>6, <1>7, <1>8, LocalStep DEF Local

(* The outcome is written over a confirmed row. *)
LEMMA WriteOutcomePreserves ==
    ASSUME IInv, NEW p \in Process, WriteOutcome(p)
    PROVE  IInv'
  <1> USE DEF WriteOutcome, Goto, host, browser
  <1> TypeOK /\ boundary[p] \in Boundary /\ Local(p)
    BY DEF IInv, TypeOK
  <1>1. TypeOK'
    BY ParametersAssumption DEF TypeOK, Browsing, Preparing, Dispatching, Statuses
  <1>2. /\ UNCHANGED <<row, dispatched>>
        /\ \A q \in Process \ {p} : Mine(q)' = Mine(q)
    BY DEF TypeOK, Mine
  <1>3. Engaged(p)' => Engaged(p)
    BY DEF TypeOK, Engaged, Holds, Holding, Armed, Preparing, Dispatching, Browsing
  <1>4. RowFollows(p)'
    BY DEF TypeOK, Local, RowFollows, Holds, Holding, Acknowledged, Confirmed
  <1>5. Arming(p)'
    BY DEF TypeOK, Local, Arming, Armed
  <1>6. Reports(p)'
    BY DEF TypeOK, Local, Reports, RowFollows, Holds, Holding, Acknowledged, Confirmed,
           Started, Preparing, Dispatching
  <1>7. Prepared(p)'
    BY DEF TypeOK, Local, Prepared, Browsing, Preparing, Dispatching
  <1>8. OutcomeIsTrue'
    BY DEF IInv, TypeOK, OutcomeIsTrue, Confirmed, Local, RowFollows, Reports, Acknowledged
  <1>9. QED
    BY <1>1, <1>2, <1>3, <1>4, <1>5, <1>6, <1>7, <1>8, LocalStep DEF Local

(* Any exception: what is reported follows the variable started. *)
LEMMA AbortPreserves ==
    ASSUME IInv, NEW p \in Process, Abort(p)
    PROVE  IInv'
  <1> USE DEF Abort, Stop, host, browser
  <1> TypeOK /\ boundary[p] \in Boundary /\ Local(p)
    BY DEF IInv, TypeOK
  <1>1. TypeOK'
    BY DriverCalls, ParametersAssumption DEF TypeOK, Browsing, Preparing, Dispatching, Statuses
  <1>2. /\ UNCHANGED <<row, dispatched>>
        /\ \A q \in Process \ {p} : Mine(q)' = Mine(q)
    BY DEF TypeOK, Mine
  <1>3. Engaged(p)' => Engaged(p)
    BY DriverCalls DEF TypeOK, Engaged, Holds, Holding, Armed, Preparing, Dispatching, Browsing
  <1>4. RowFollows(p)'
    BY DEF TypeOK, Local, RowFollows, Holds, Holding, Acknowledged, Confirmed
  <1>5. Arming(p)'
    BY DriverCalls DEF TypeOK, Local, Arming, Armed
  <1>6. Reports(p)'
    BY DEF TypeOK, Local, Reports, RowFollows, Holds, Holding, Acknowledged, Confirmed,
           Started, Preparing, Dispatching
  <1>7. Prepared(p)'
    BY DriverCalls DEF TypeOK, Local, Prepared, Browsing, Preparing, Dispatching
  <1>8. OutcomeIsTrue'
    BY DEF IInv, OutcomeIsTrue, Confirmed
  <1>9. QED
    BY <1>1, <1>2, <1>3, <1>4, <1>5, <1>6, <1>7, <1>8, LocalStep DEF Local

(* A killed process leaves the host as it was. *)
LEMMA CrashPreserves ==
    ASSUME IInv, NEW p \in Process, Crash(p)
    PROVE  IInv'
  <1> USE DEF Crash, host, browser
  <1> TypeOK /\ boundary[p] \in Boundary /\ Local(p)
    BY DEF IInv, TypeOK
  <1>1. TypeOK'
    <2>1. /\ step' \in [Process -> 1 .. Steps]
          /\ page' \in [Process -> {"reviewed", "drifted"}]
      BY ParametersAssumption DEF TypeOK
    <2> boundary' \in [Process -> Boundary]
      BY DriverCalls DEF TypeOK
    <2>2. /\ pc' \in [Process -> Browsing \cup {"off", "opened", "reported"}]
          /\ result' \in [Process -> Statuses \cup {"none"}]
      BY DEF TypeOK
    <2>3. QED
      BY <2>1, <2>2 DEF TypeOK
  <1>2. /\ UNCHANGED <<row, dispatched>>
        /\ \A q \in Process \ {p} : Mine(q)' = Mine(q)
    BY DEF TypeOK, Mine
  <1>3. Engaged(p)' => Engaged(p)
    BY DriverCalls DEF TypeOK, Engaged, Holds, Holding, Armed, Preparing, Dispatching, Browsing
  <1>4. RowFollows(p)'
    BY DEF TypeOK, Local, RowFollows, Holds, Holding, Acknowledged, Confirmed
  <1>5. Arming(p)'
    BY DriverCalls DEF TypeOK, Local, Arming, Armed
  <1>6. Reports(p)'
    BY DEF TypeOK, Local, Reports, RowFollows, Holds, Holding, Acknowledged, Confirmed,
           Started, Preparing, Dispatching
  <1>7. Prepared(p)'
    BY DriverCalls DEF TypeOK, Local, Prepared, Browsing, Preparing, Dispatching
  <1>8. OutcomeIsTrue'
    BY DEF IInv, OutcomeIsTrue, Confirmed
  <1>9. QED
    BY <1>1, <1>2, <1>3, <1>4, <1>5, <1>6, <1>7, <1>8, LocalStep DEF Local

(* The page changes by itself. *)
LEMMA PageDriftsPreserves ==
    ASSUME IInv, NEW p \in Process, PageDrifts(p)
    PROVE  IInv'
  <1> USE DEF PageDrifts, host, browser
  <1> TypeOK /\ boundary[p] \in Boundary /\ Local(p)
    BY DEF IInv, TypeOK
  <1>1. TypeOK'
    BY ParametersAssumption DEF TypeOK, Browsing, Preparing, Dispatching, Statuses
  <1>2. /\ UNCHANGED <<row, dispatched>>
        /\ \A q \in Process \ {p} : Mine(q)' = Mine(q)
    BY DEF TypeOK, Mine
  <1>3. Engaged(p)' => Engaged(p)
    BY DEF TypeOK, Engaged, Holds, Holding, Armed, Preparing, Dispatching, Browsing
  <1>4. RowFollows(p)'
    BY DEF TypeOK, Local, RowFollows, Holds, Holding, Acknowledged, Confirmed
  <1>5. Arming(p)'
    BY DEF TypeOK, Local, Arming, Armed
  <1>6. Reports(p)'
    BY DEF TypeOK, Local, Reports, RowFollows, Holds, Holding, Acknowledged, Confirmed,
           Started, Preparing, Dispatching
  <1>7. Prepared(p)'
    BY DEF TypeOK, Local, Prepared, Browsing, Preparing, Dispatching
  <1>8. OutcomeIsTrue'
    BY DEF IInv, OutcomeIsTrue, Confirmed
  <1>9. QED
    BY <1>1, <1>2, <1>3, <1>4, <1>5, <1>6, <1>7, <1>8, LocalStep DEF Local

(* The slot is taken by one invocation: nobody else is engaged with a free slot. *)
LEMMA ReserveIntentPreserves ==
    ASSUME IInv, NEW p \in Process, ReserveIntent(p)
    PROVE  IInv'
  <1> USE DEF ReserveIntent, Stop, browser
  <1> TypeOK /\ boundary[p] \in Boundary /\ Local(p)
    BY DEF IInv, TypeOK
  <1>1. CASE row # Null
    <2> USE <1>1
    <2>1. TypeOK'
      BY DEF TypeOK, Browsing, Statuses
    <2>2. /\ UNCHANGED <<row, dispatched>>
          /\ \A q \in Process \ {p} : Mine(q)' = Mine(q)
      BY DEF TypeOK, Mine
    <2>3. pc'[p] = "closing" /\ result'[p] = "BLOCKED" /\ UNCHANGED <<boundary, started, sent>>
      BY DEF TypeOK
    <2>4. Engaged(p)' => Engaged(p)
      BY <2>3 DEF Engaged, Holds, Holding, Armed
    <2>5. RowFollows(p)' /\ Arming(p)'
      BY <2>3 DEF Local, RowFollows, Holds, Holding, Arming, Armed
    <2>6. Reports(p)'
      BY <2>2, <2>3 DEF Local, Reports, Preparing, Dispatching, Started
    <2>7. Prepared(p)'
      BY <2>3 DEF Local, Prepared, Browsing, Preparing
    <2>8. OutcomeIsTrue'
      BY DEF IInv, OutcomeIsTrue, Confirmed
    <2>9. QED
      BY <2>1, <2>2, <2>4, <2>5, <2>6, <2>7, <2>8, LocalStep DEF Local
  <1>2. CASE row = Null
    <2>1. /\ row' = ReservedRow(AttemptOf[p], 0, 0)
          /\ pc' = [pc EXCEPT ![p] = "reserved"]
          /\ UNCHANGED <<outcome, dispatched, launches, step, page, boundary, started, sent,
                         reply, uploads, result>>
      BY <1>2
    <2>2. /\ AttemptOf[p] \in Attempt /\ row' \in Row /\ row' # Null
          /\ row'.attempt = AttemptOf[p] /\ row'.status = "Validated"
      BY <2>1, ParametersAssumption, ReservedRowValid DEF ReservedRow
    <2>3. TypeOK'
      BY <2>1, <2>2 DEF TypeOK, Browsing, Preparing
    <2>4. \A q \in Process : ~Started(row) /\ ~started[q] /\ ~Engaged(q)
      BY <1>2 DEF IInv, Local, Reports, RowFollows, Arming, Engaged, Started
    <2>5. ASSUME NEW q \in Process, q # p PROVE Local(q)' /\ ~Engaged(q)'
      <3>1. Mine(q)' = Mine(q)
        BY <2>1, <2>5 DEF Mine, TypeOK
      <3>2. QED
        BY <1>2, <2>1, <2>4, <3>1, Bystander DEF IInv, TypeOK, Started, Confirmed
    <2>6. /\ dispatched' = 0 /\ pc'[p] = "reserved"
          /\ ~Started(row)' /\ ~Confirmed(row)'
      BY <1>2, <2>1, <2>2, <2>4 DEF IInv, TypeOK, Started, Confirmed
    <2>7. RowFollows(p)' /\ Arming(p)'
      BY <2>1, <2>2, <2>4, <2>6 DEF Local, RowFollows, Arming, Engaged, Armed
    <2>8. Reports(p)'
      <3>1. result'[p] = "none" /\ sent'[p] = sent[p] /\ ~started'[p]
        BY <2>1, <2>4 DEF Local, Reports, Preparing
      <3>2. QED
        BY <2>1, <2>6, <3>1 DEF Local, Reports
    <2>9. Prepared(p)'
      BY <2>1, <2>6 DEF Local, Prepared, Browsing, Preparing
    <2>10. OneEngaged'
      BY <2>5 DEF OneEngaged
    <2>11. OutcomeIsTrue'
      BY <1>2, <2>1 DEF IInv, OutcomeIsTrue, Confirmed
    <2>12. QED
      BY <2>3, <2>5, <2>6, <2>7, <2>8, <2>9, <2>10, <2>11 DEF IInv, Local
  <1>3. QED
    BY <1>1, <1>2

(* The holder of the slot starts it; nothing has been sent yet. *)
LEMMA MarkStartedPreserves ==
    ASSUME IInv, NEW p \in Process, MarkStarted(p)
    PROVE  IInv'
  <1> USE DEF MarkStarted, Goto, browser
  <1> TypeOK /\ Local(p) /\ Holds(p)
    BY DEF IInv, Holds, Holding
  <1>1. /\ row \in Row /\ row # Null /\ row.status = "Validated"
        /\ row.attempt = AttemptOf[p] /\ dispatched = 0
    BY DEF TypeOK, Local, RowFollows, Arming
  <1>2. /\ row' \in Row /\ row' # Null /\ row'.attempt = row.attempt
        /\ row'.status = "Submitted / Unconfirmed" /\ Started(row)'
    BY <1>1, StartedRowFields DEF Started
  <1>3. TypeOK'
    BY <1>2 DEF TypeOK, Browsing, Preparing
  <1>4. ASSUME NEW q \in Process, q # p PROVE Local(q)' /\ ~Engaged(q)'
    <2>1. Mine(q)' = Mine(q)
      BY <1>4 DEF Mine, TypeOK
    <2>2. ~Engaged(q)
      BY <1>4 DEF IInv, OneEngaged, Engaged
    <2>3. /\ row # Null => row' # Null /\ row'.attempt = row.attempt
          /\ Started(row) => Started(row)'
          /\ Confirmed(row) => row' = row
      BY <1>1, <1>2 DEF Confirmed
    <2>4. dispatched' \in Nat /\ dispatched =< dispatched'
      BY <1>1
    <2>5. QED
      BY <2>1, <2>2, <2>3, <2>4, Bystander
  <1>5. pc'[p] = "marked" /\ dispatched' = 0
    BY <1>1 DEF TypeOK
  <1>6. RowFollows(p)' /\ Arming(p)'
    BY <1>1, <1>2, <1>5 DEF Local, RowFollows, Arming, Armed
  <1>7. Reports(p)' /\ Prepared(p)'
    BY <1>1, <1>2, <1>5 DEF Local, Reports, Prepared, Browsing, Preparing, Dispatching
  <1>8. OneEngaged'
    BY <1>4 DEF OneEngaged
  <1>9. OutcomeIsTrue'
    BY <1>1 DEF IInv, OutcomeIsTrue, Confirmed
  <1>10. ~Confirmed(row)'
    BY <1>2 DEF Confirmed
  <1>11. QED
    BY <1>2, <1>3, <1>4, <1>5, <1>6, <1>7, <1>8, <1>9, <1>10 DEF IInv, Local

(* The holder of the slot confirms it after the one request that left. *)
LEMMA ConfirmRowPreserves ==
    ASSUME IInv, NEW p \in Process, ConfirmRow(p)
    PROVE  IInv'
  <1> DEFINE ev == ObservedEvidence(p)
  <1> TypeOK /\ Local(p) /\ Holds(p)
    BY DEF ConfirmRow, Goto, IInv, Holds, Holding
  <1>0. /\ pc[p] = "answered" /\ pc' = [pc EXCEPT ![p] = "confirmed"]
        /\ reply[p] = "success" /\ ConfirmReturns(row, ev) /\ row' = AfterConfirm(row, ev, 0)
        /\ UNCHANGED <<outcome, dispatched, launches, step, page, boundary, started, sent,
                       reply, uploads, result>>
    BY DEF ConfirmRow, Goto, browser
  <1>1. /\ row \in Row /\ row # Null /\ row.status = "Submitted / Unconfirmed"
        /\ row.attempt = AttemptOf[p] /\ sent[p] = 1 /\ reply[p] = "success" /\ dispatched = 1
    <2>1. /\ row # Null /\ row.status = "Submitted / Unconfirmed"
          /\ row.attempt = AttemptOf[p]
      BY <1>0 DEF Local, RowFollows
    <2>2. sent[p] = 1
      BY <1>0 DEF Local, RowFollows
    <2>3. sent[p] =< dispatched
      BY DEF Local, Reports
    <2>4. dispatched \in Nat /\ dispatched =< 1
      BY DEF IInv, TypeOK
    <2>5. dispatched = 1
      BY <2>2, <2>3, <2>4
    <2>6. QED
      BY <1>0, <2>1, <2>2, <2>5 DEF TypeOK
  <1>2. ev \in ConfirmationEvidence /\ ev.evidence_ref = EvidenceOf[p]
    BY ParametersAssumption DEF ObservedEvidence, ConfirmationEvidence, Attempt
  <1>3. row' = ConfirmedRow(row, ev, 0)
    BY <1>0, <1>1 DEF AfterConfirm, ConfirmReturns
  <1>4. /\ row' \in Row /\ row' # Null /\ row'.attempt = row.attempt
        /\ row'.status = "Confirmed" /\ row'.evidence_ref = EvidenceOf[p]
    <2>1. 0 \in Nat
      OBVIOUS
    <2>2. QED
      BY <1>1, <1>2, <1>3, <2>1, ConfirmedRowFields, Zenon
  <1>5. Started(row)' /\ Confirmed(row)'
    BY <1>4 DEF Started, Confirmed
  <1>6. TypeOK'
    BY <1>0, <1>4 DEF TypeOK, Browsing, Dispatching
  <1>7. ASSUME NEW q \in Process, q # p PROVE Local(q)' /\ ~Engaged(q)'
    <2>1. Mine(q)' = Mine(q)
      BY <1>0, <1>7 DEF Mine, TypeOK
    <2>2. ~Engaged(q)
      BY <1>7 DEF IInv, OneEngaged, Engaged
    <2>3. /\ row # Null => row' # Null /\ row'.attempt = row.attempt
          /\ Started(row) => Started(row)'
          /\ Confirmed(row) => row' = row
      BY <1>1, <1>4, <1>5 DEF Confirmed
    <2>4. dispatched' \in Nat /\ dispatched =< dispatched'
      <3>1. dispatched' = dispatched
        BY <1>0
      <3>2. dispatched = 1
        BY <1>1
      <3>3. QED
        BY <3>1, <3>2
    <2>5. QED
      BY <2>1, <2>2, <2>3, <2>4, Bystander
  <1>8. pc'[p] = "confirmed" /\ dispatched' = 1 /\ sent'[p] = 1 /\ reply'[p] = "success"
    BY <1>0, <1>1 DEF TypeOK
  <1>9. Acknowledged(p)'
    BY <1>4, <1>5, <1>8 DEF Acknowledged
  <1>10. RowFollows(p)' /\ Arming(p)'
    BY <1>0, <1>1, <1>4, <1>8, <1>9 DEF Local, RowFollows, Arming, Armed
  <1>11. Reports(p)' /\ Prepared(p)'
    BY <1>0, <1>1, <1>4, <1>5, <1>8, <1>9
    DEF Local, Reports, Prepared, Browsing, Preparing, Dispatching
  <1>12. OneEngaged'
    BY <1>7 DEF OneEngaged
  <1>13. OutcomeIsTrue'
    BY <1>5, <1>8 DEF OutcomeIsTrue
  <1>14. QED
    BY <1>5, <1>6, <1>7, <1>8, <1>10, <1>11, <1>12, <1>13 DEF IInv, Local

(* A request of the page: an admitted application request is the first. *)
LEMMA PageSendsPreserves ==
    ASSUME IInv, NEW p \in Process, NEW r \in Request, PageSends(p, r)
    PROVE  /\ IInv'
           /\ UNCHANGED <<row, outcome>>
           /\ \/ dispatched' = dispatched
              \/ Started(row) /\ ~Confirmed(row) /\ dispatched = 0 /\ dispatched' = 1
  <1> DEFINE b == boundary[p]
             c == AfterRequest(b, r)
  <1> TypeOK /\ Local(p) /\ b \in Boundary
    BY DEF IInv, TypeOK
  <1>1. /\ pc[p] \in Browsing /\ boundary' = [boundary EXCEPT ![p] = c]
        /\ UNCHANGED <<row, outcome, launches, pc, step, page, started, uploads, result>>
    BY DEF PageSends
  <1>2. /\ c \in Boundary /\ c.submit_begun = b.submit_begun
        /\ c.phase = "submit" => b.phase = "submit"
        /\ b.uploads = 1 => c.uploads = 1
    BY RequestEffect
  <1>3. boundary'[p] = c /\ boundary' \in [Process -> Boundary]
    BY <1>1, <1>2 DEF TypeOK
  <1>4. \A q \in Process : Engaged(q)' <=> Engaged(q)
    BY <1>1, <1>2, <1>3 DEF TypeOK, Engaged, Holds, Armed
  <1>5. CASE AdmitsApplication(b, r)
    <2>1. b.phase = "submit" /\ b.allowed = 0 /\ c.allowed = 1
      BY <1>5, RequestEffect
    <2>2. Armed(p) /\ started[p] /\ dispatched = 0
      BY <2>1 DEF Local, Arming, Armed
    <2>3. /\ dispatched' = 1 /\ sent' = [sent EXCEPT ![p] = @ + 1]
          /\ \E a \in {"none", "accepted"} : reply' = [reply EXCEPT ![p] = a]
      BY <1>5, <2>2 DEF PageSends
    <2>4. pc[p] \in {"clicked", "answered", "confirmed", "outcome", "closing"}
      BY <2>2 DEF Local, Arming
    <2>5. sent[p] = 0 /\ sent'[p] = 1
      <3>1. sent[p] =< 0
        BY <2>2 DEF Local, Reports
      <3>2. QED
        BY <2>3, <3>1 DEF TypeOK
    <2>6. ~Acknowledged(p) /\ pc[p] \in {"clicked", "closing"}
      <3>1. sent[p] # 1
        BY <2>5
      <3>2. QED
        BY <2>4, <3>1 DEF Local, RowFollows, Acknowledged
    <2>7. Started(row) /\ row.attempt = AttemptOf[p]
      BY <2>2 DEF Local, Reports
    <2>8. TypeOK'
      BY <1>1, <1>3, <2>3 DEF TypeOK
    <2>9. ASSUME NEW q \in Process, q # p PROVE Local(q)'
      <3>1. Mine(q)' = Mine(q)
        BY <1>1, <2>3, <2>9 DEF Mine, TypeOK
      <3>2. ~Engaged(q)
        BY <2>2, <2>9 DEF IInv, OneEngaged, Engaged
      <3>3. dispatched' \in Nat /\ dispatched =< dispatched'
        BY <2>2, <2>3
      <3>4. /\ row # Null => row' # Null /\ row'.attempt = row.attempt
            /\ Started(row) => Started(row)'
            /\ Confirmed(row) => row' = row
        BY <1>1 DEF Started
      <3>5. QED
        BY <3>1, <3>2, <3>3, <3>4, Bystander
    <2>10. RowFollows(p)'
      BY <1>1, <2>6 DEF Local, RowFollows, Holds
    <2>11. Arming(p)'
      <3>1. Armed(p)' /\ started'[p] /\ pc'[p] = pc[p]
        BY <1>1, <1>2, <1>3, <2>2 DEF Armed
      <3>2. boundary'[p].allowed # 0
        BY <1>3, <2>1
      <3>3. QED
        BY <2>4, <3>1, <3>2 DEF Arming
    <2>12. Reports(p)'
      <3>1. Started(row)' /\ row'.attempt = AttemptOf[p] /\ started'[p]
        BY <1>1, <2>2, <2>7 DEF Started
      <3>2. sent'[p] =< dispatched'
        BY <2>3, <2>5
      <3>3. result'[p] = result[p] /\ pc'[p] = pc[p] /\ result[p] # "EMPLOYER_CONFIRMED"
        BY <1>1, <2>6 DEF Local, Reports
      <3>4. QED
        BY <1>1, <2>2, <3>1, <3>2, <3>3 DEF Local, Reports
    <2>13. Prepared(p)'
      BY <1>1, <1>2, <1>3 DEF Local, Prepared
    <2>14. OneEngaged' /\ OutcomeIsTrue' /\ (~Started(row) => dispatched = 0)'
           /\ (dispatched =< 1)'
      <3>1. OneEngaged'
        BY <1>4 DEF IInv, OneEngaged
      <3>2. OutcomeIsTrue'
        BY <1>1, <2>2 DEF IInv, OutcomeIsTrue, Confirmed
      <3>3. (~Started(row) => dispatched = 0)'
        BY <1>1, <2>7 DEF Started
      <3>4. QED
        BY <2>3, <3>1, <3>2, <3>3
    <2>15. ~Confirmed(row)
      BY <2>2 DEF IInv
    <2>16. (Confirmed(row) => dispatched = 1)'
      BY <1>1, <2>15 DEF Confirmed
    <2>17. IInv'
      BY <2>8, <2>9, <2>10, <2>11, <2>12, <2>13, <2>14, <2>16 DEF IInv, Local
    <2>18. QED
      BY <1>1, <2>2, <2>3, <2>7, <2>15, <2>17
  <1>6. CASE ~AdmitsApplication(b, r)
    <2>1. UNCHANGED <<dispatched, sent, reply>> /\ c.allowed = b.allowed
      BY <1>6, RequestEffect DEF PageSends
    <2>2. TypeOK' /\ OutcomeIsTrue'
      BY <1>1, <1>3, <2>1 DEF IInv, TypeOK, OutcomeIsTrue, Confirmed
    <2>3. \A q \in Process \ {p} : Mine(q)' = Mine(q)
      BY <1>1, <2>1 DEF Mine, TypeOK
    <2>4. RowFollows(p)' /\ Prepared(p)'
      BY <1>1, <1>2, <1>3, <2>1
      DEF Local, RowFollows, Prepared, Holds, Acknowledged, Confirmed
    <2>5. Arming(p)'
      BY <1>1, <1>2, <1>3, <2>1 DEF Local, Arming, Armed
    <2>6. Reports(p)'
      BY <1>1, <2>1 DEF Local, Reports, Acknowledged, Confirmed, Started
    <2>7. IInv'
      BY <1>1, <1>4, <2>1, <2>2, <2>3, <2>4, <2>5, <2>6, LocalStep DEF Local
    <2>8. QED
      BY <1>1, <2>1, <2>7
  <1>7. QED
    BY <1>5, <1>6
-----------------------------------------------------------------------------
(* Every step keeps the strengthening. *)

LEMMA NextPreserves ==
    ASSUME IInv, [Next]_vars
    PROVE  IInv'
  <1>1. CASE UNCHANGED vars
    <2>1. TypeOK'
      BY <1>1 DEF IInv, TypeOK, vars
    <2>2. ASSUME NEW q \in Process PROVE Local(q)' /\ (Engaged(q)' <=> Engaged(q))
      <3>1. Local(q) /\ UNCHANGED <<row, dispatched, pc, step, boundary, started, sent, reply,
                                    uploads, result>>
        BY <1>1 DEF IInv, vars
      <3>2. RowFollows(q)' /\ (Engaged(q)' <=> Engaged(q))
        BY <3>1 DEF Local, RowFollows, Holds, Engaged, Armed, Acknowledged, Confirmed
      <3>3. Arming(q)' /\ Prepared(q)'
        BY <3>1 DEF Local, Arming, Armed, Prepared
      <3>4. Reports(q)'
        BY <3>1 DEF Local, Reports, Acknowledged, Started, Confirmed
      <3>5. QED
        BY <3>2, <3>3, <3>4 DEF Local
    <2>3. OneEngaged'
      BY <2>2 DEF IInv, OneEngaged
    <2>4. QED
      BY <1>1, <2>1, <2>2, <2>3 DEF IInv, vars, OutcomeIsTrue, Started, Confirmed
  <1>2. ASSUME NEW p \in Process, Advance(p)
        PROVE  IInv'
    BY <1>2, GatePreserves, EnterPreserves, FillPreserves, ArmUploadPreserves,
       UploadedPreserves, RereadPreserves, ValidatePreserves, RecheckPreserves,
       ReserveIntentPreserves, IntentReturnedPreserves, MarkStartedPreserves,
       StartReturnedPreserves, SubmitOncePreserves, AnswerPreserves, ConfirmRowPreserves,
       ConfirmReturnedPreserves, WriteOutcomePreserves, CloseAndReportPreserves
    DEF Advance
  <1>3. ASSUME NEW p \in Process,
               Launch(p) \/ Abort(p) \/ Crash(p) \/ PageDrifts(p)
        PROVE  IInv'
    BY <1>3, LaunchPreserves, AbortPreserves, CrashPreserves, PageDriftsPreserves
  <1>4. ASSUME NEW p \in Process, NEW r \in Writing, PageSends(p, r)
        PROVE  IInv'
    BY <1>4, PageSendsPreserves DEF Writing, Request
  <1>5. QED
    BY <1>1, <1>2, <1>3, <1>4 DEF Next

(* The strengthening holds in every reachable state. *)
THEOREM Strengthening == Spec => []IInv
  <1>1. IInv /\ [Next]_vars => IInv'
    BY NextPreserves
  <1>2. QED
    BY InitInv, <1>1, PTL DEF Spec

(* Type correctness. *)
THEOREM TypeCorrect == Spec => []TypeOK
  BY Strengthening, PTL DEF IInv

(* At most one application leaves, and not before its uncertainty is durable. *)
THEOREM AtMostOneDispatch == Spec => []OneDispatch
  <1>1. IInv => OneDispatch
    BY DEF IInv, OneDispatch
  <1>2. QED
    BY Strengthening, <1>1, PTL

(* A run that claims it did not submit let nothing through, and one that says *)
(* unconfirmed committed the uncertainty.                                     *)
THEOREM HonestReports == Spec => []ReportsAreHonest
  <1>1. ASSUME IInv, NEW p \in Process
        PROVE  /\ result[p] \in {"BLOCKED", "DUPLICATE_OR_UNCERTAIN"} => sent[p] = 0
               /\ result[p] = "SUBMITTED_UNCONFIRMED" =>
                      Started(row) /\ row.attempt = AttemptOf[p]
    <2>1. Reports(p) /\ sent[p] \in Nat
      BY <1>1 DEF IInv, TypeOK, Local
    <2>2. ~started[p] => sent[p] = 0
      BY <2>1 DEF Reports
    <2>3. QED
      BY <2>1, <2>2 DEF Reports
  <1>2. IInv => ReportsAreHonest
    BY <1>1 DEF ReportsAreHonest
  <1>3. QED
    BY Strengthening, <1>2, PTL

(* EMPLOYER_CONFIRMED and the outcome file are only about acknowledged        *)
(* applications.                                                              *)
THEOREM TrueConfirmations == Spec => []ConfirmedIsTrue
  <1>1. IInv => ConfirmedIsTrue
    BY DEF IInv, Local, Reports, Acknowledged, OutcomeIsTrue, ConfirmedIsTrue
  <1>2. QED
    BY Strengthening, <1>1, PTL

-----------------------------------------------------------------------------
(* The two properties of steps. *)

(* A step that takes the slot is ReserveIntent, by a run that is prepared. *)
LEMMA OnlyReserveTakes ==
    ASSUME IInv, [Next]_vars, row = Null, row' # Null
    PROVE  \E p \in Process : ReserveIntent(p)
  <1> SUFFICES ASSUME \A p \in Process : ~ReserveIntent(p)
               PROVE  row' = row
    OBVIOUS
  <1>1. CASE UNCHANGED vars
    BY <1>1 DEF vars
  <1>2. ASSUME NEW p \in Process,
               Advance(p) \/ Launch(p) \/ Abort(p) \/ Crash(p) \/ PageDrifts(p)
        PROVE  row' = row
    <2>1. ~MarkStarted(p)
      BY DEF MarkStarted, StartAccepted
    <2>2. ~ConfirmRow(p)
      BY DEF ConfirmRow, ConfirmReturns, EvidenceMatches
    <2>3. QED
      BY <1>2, <2>1, <2>2
      DEF Advance, Gate, Enter, Fill, ArmUpload, Uploaded, Reread, Validate, Recheck,
          IntentReturned, StartReturned, SubmitOnce, Answer, ConfirmReturned, WriteOutcome,
          CloseAndReport, Launch, Abort, Crash, PageDrifts, host
  <1>3. ASSUME NEW p \in Process, NEW r \in Writing, PageSends(p, r)
        PROVE  row' = row
    BY <1>3 DEF PageSends
  <1>4. QED
    BY <1>1, <1>2, <1>3 DEF Next

(* The slot is only taken by a run that has prepared the whole application. *)
THEOREM PreparedBeforeReserved == Spec => ReservedAfterPreparation
  <1>1. ASSUME IInv, [Next]_vars, row = Null, row' # Null
        PROVE  \E p \in Process : /\ pc[p] = "reserve" /\ row'.attempt = AttemptOf[p]
                                  /\ step[p] = Steps /\ boundary[p].uploads = 1
    <2>1. PICK p \in Process : ReserveIntent(p)
      BY <1>1, OnlyReserveTakes
    <2>2. pc[p] = "reserve" /\ row' = ReservedRow(AttemptOf[p], 0, 0)
      BY <1>1, <2>1 DEF ReserveIntent
    <2>3. row'.attempt = AttemptOf[p]
      BY <2>2 DEF ReservedRow
    <2>4. step[p] = Steps /\ boundary[p].uploads = 1
      BY <1>1, <2>2 DEF IInv, Local, Prepared, Browsing, Preparing
    <2>5. QED
      BY <2>2, <2>3, <2>4
  <1>2. IInv /\ [Next]_vars =>
          [row = Null /\ row' # Null =>
             \E p \in Process : /\ pc[p] = "reserve" /\ row'.attempt = AttemptOf[p]
                                /\ step[p] = Steps /\ boundary[p].uploads = 1]_vars
    BY <1>1
  <1>3. QED
    BY Strengthening, <1>2, PTL DEF Spec, ReservedAfterPreparation

(* Every step is a step of the promise, or stutters. *)
LEMMA StepRefines ==
    ASSUME IInv, [Next]_vars
    PROVE  [Promise!Next]_(Promise!vars)
  <1> USE DEF Promise!Next, Promise!vars
  <1>1. CASE UNCHANGED <<row, dispatched, outcome>>
    BY <1>1
  <1>2. CASE UNCHANGED vars
    BY <1>2 DEF vars
  <1>3. ASSUME NEW p \in Process, ReserveIntent(p)
        PROVE  Promise!Reserve \/ UNCHANGED <<row, dispatched, outcome>>
    <2>1. CASE row # Null
      BY <1>3, <2>1 DEF ReserveIntent, Stop
    <2>2. CASE row = Null
      <3>1. row' = ReservedRow(AttemptOf[p], 0, 0) /\ UNCHANGED <<dispatched, outcome>>
        BY <1>3, <2>2 DEF ReserveIntent
      <3>2. row' # Null /\ row'.status = "Validated"
        BY <3>1, ParametersAssumption, ReservedRowValid
      <3>3. QED
        BY <2>2, <3>1, <3>2 DEF Promise!Reserve
    <2>3. QED
      BY <2>1, <2>2
  <1>4. ASSUME NEW p \in Process, MarkStarted(p)
        PROVE  Promise!Begin
    <2>1. row \in Row /\ row # Null /\ row.status = "Validated"
      BY <1>4 DEF IInv, TypeOK, MarkStarted, StartAccepted
    <2>2. row' = StartedRow(row, 0) /\ UNCHANGED <<dispatched, outcome>>
      BY <1>4 DEF MarkStarted
    <2>3. row' # Null /\ row'.status = "Submitted / Unconfirmed"
      BY <2>1, <2>2, StartedRowFields
    <2>4. QED
      BY <2>1, <2>2, <2>3 DEF Promise!Begin
  <1>5. ASSUME NEW p \in Process, ConfirmRow(p)
        PROVE  Promise!Confirm
    <2>1. /\ pc[p] = "answered" /\ row' = AfterConfirm(row, ObservedEvidence(p), 0)
          /\ ConfirmReturns(row, ObservedEvidence(p)) /\ UNCHANGED <<dispatched, outcome>>
      BY <1>5 DEF ConfirmRow, Goto
    <2>2. /\ row \in Row /\ row # Null /\ row.status = "Submitted / Unconfirmed"
      BY <2>1 DEF IInv, TypeOK, Local, RowFollows, Holds, Holding
    <2>3. ObservedEvidence(p) \in ConfirmationEvidence
      BY ParametersAssumption DEF ObservedEvidence, ConfirmationEvidence, Attempt
    <2>4. row' = ConfirmedRow(row, ObservedEvidence(p), 0)
      BY <2>1, <2>2 DEF AfterConfirm, ConfirmReturns
    <2>5. 0 \in Nat
      OBVIOUS
    <2>6. row' # Null /\ row'.status = "Confirmed" /\ row'.attempt = row.attempt
      BY <2>2, <2>3, <2>4, <2>5, ConfirmedRowFields, Zenon
    <2>7. Confirmed(row)'
      BY <2>6 DEF Confirmed
    <2>8. IInv'
      BY <1>5, ConfirmRowPreserves
    <2>9. dispatched' = 1
      BY <2>7, <2>8 DEF IInv
    <2>10. dispatched = 1
      BY <2>1, <2>9
    <2>11. QED
      BY <2>1, <2>2, <2>6, <2>10 DEF Promise!Confirm
  <1>6. ASSUME NEW p \in Process, WriteOutcome(p)
        PROVE  Promise!Record \/ UNCHANGED <<row, dispatched, outcome>>
    <2>1. /\ Confirmed(row) /\ outcome' \in {outcome, "Applied"}
          /\ UNCHANGED <<row, dispatched>>
      BY <1>6 DEF WriteOutcome, Goto
    <2>2. CASE outcome' = outcome
      BY <2>1, <2>2
    <2>3. CASE outcome' = "Applied"
      BY <2>1, <2>3 DEF Promise!Record, Confirmed
    <2>4. QED
      BY <2>1, <2>2, <2>3
  <1>7. ASSUME NEW p \in Process, NEW r \in Writing, PageSends(p, r)
        PROVE  Promise!Send \/ UNCHANGED <<row, dispatched, outcome>>
    <2>1. r \in Request
      BY DEF Writing, Request
    <2>2. /\ UNCHANGED <<row, outcome>>
          /\ \/ dispatched' = dispatched
             \/ Started(row) /\ ~Confirmed(row) /\ dispatched = 0 /\ dispatched' = 1
      BY <1>7, <2>1, PageSendsPreserves
    <2>3. QED
      BY <2>2 DEF Promise!Send, Started, Confirmed
  <1>8. ASSUME NEW p \in Process,
               \/ Gate(p) \/ Enter(p) \/ Fill(p) \/ ArmUpload(p) \/ Uploaded(p) \/ Reread(p)
               \/ Validate(p) \/ Recheck(p) \/ IntentReturned(p) \/ StartReturned(p)
               \/ SubmitOnce(p) \/ Answer(p) \/ ConfirmReturned(p) \/ CloseAndReport(p)
               \/ Launch(p) \/ Abort(p) \/ Crash(p) \/ PageDrifts(p)
        PROVE  UNCHANGED <<row, dispatched, outcome>>
    BY <1>8
    DEF Gate, Enter, Fill, ArmUpload, Uploaded, Reread, Validate, Recheck, IntentReturned,
        StartReturned, SubmitOnce, Answer, ConfirmReturned, CloseAndReport, Launch, Abort,
        Crash, PageDrifts, host
  <1>9. QED
    BY <1>1, <1>2, <1>3, <1>4, <1>5, <1>6, <1>7, <1>8 DEF Next, Advance

(* The lane implements the abstract promise. *)
THEOREM Refinement == Spec => ImplementsOneApplication
  <1>1. Init => Promise!Init
    BY DEF Init, Promise!Init
  <1>2. IInv /\ [Next]_vars => [Promise!Next]_(Promise!vars)
    BY StepRefines
  <1>3. QED
    BY Strengthening, <1>1, <1>2, PTL DEF Spec, ImplementsOneApplication, Promise!Spec

-----------------------------------------------------------------------------
(* The reviewed inputs: the loader against the pre-submit policy, for every *)
(* manifest and every set of facts.  What the loader accepts is what the    *)
(* policy lets through, but for one answer.                                 *)
(*                                                                          *)
(* The argument goes blocker by blocker.  A blocker speaks of the policy's  *)
(* own field names, so each lemma first asks which of the loader's names    *)
(* an alias turns into one of those, and then which mode, reference and     *)
(* value the loader has demanded of that name.                              *)

(* The loader's names behind each of the policy's. *)
LEMMA AliasedFields ==
    ASSUME NEW field \in AllowedFields
    PROVE  /\ Aliased(field) # Unmapped
           /\ Aliased(field) \notin TechnicalFields \cup DocumentFields
           /\ Aliased(field) \in WorkRightFields => field \in WorkFields
           /\ Aliased(field) \in SalaryFields => field \in LoaderSalary
           /\ Aliased(field) \in PrivacyFields <=> field \in LoaderPrivacy
           /\ Aliased(field) \in MarketingFields => field \in LoaderMarketing
           /\ Aliased(field) \in DemographicFields => field \in DemographicFields
  <1>1. CASE field \in WorkFields
    BY <1>1 DEF WorkFields, Aliased, Unmapped, TechnicalFields, DocumentFields, WorkRightFields,
       SalaryFields, PrivacyFields, MarketingFields, DemographicFields, LoaderPrivacy
  <1>2. CASE field \in CompensationFields
    BY <1>2 DEF CompensationFields, LoaderSalary, Aliased, Unmapped, TechnicalFields,
       DocumentFields, WorkRightFields, SalaryFields, PrivacyFields, MarketingFields,
       DemographicFields, LoaderPrivacy
  <1>3. CASE field \in LoaderPrivacy \cup LoaderMarketing
    BY <1>3 DEF LoaderPrivacy, LoaderMarketing, Aliased, Unmapped, TechnicalFields,
       DocumentFields, WorkRightFields, SalaryFields, PrivacyFields, MarketingFields,
       DemographicFields
  <1>4. CASE field \in DemographicFields \cup {"employment.terms", "candidate.fact",
                                               "application.motivation_text"}
    BY <1>4 DEF Aliased, Unmapped, TechnicalFields, DocumentFields, WorkRightFields,
       SalaryFields, PrivacyFields, MarketingFields, DemographicFields, LoaderPrivacy
  <1>5. QED
    BY <1>1, <1>2, <1>3, <1>4 DEF AllowedFields, ExplicitFields

(* An accepted answer never stands under a blocker of work right, salary,  *)
(* marketing, demographic, narrative or document, and is never unanswered. *)
LEMMA OtherBlockersPass ==
    ASSUME NEW f, NEW facts, FieldAccepted(f, facts)
    PROVE  LET c == Resolution(f) IN
           /\ Answered(c) /\ HasProvenance(c) /\ c.field \notin TechnicalFields
           /\ ~WorkRightUnproven(c) /\ ~SalaryUnapproved(c) /\ ~MarketingConsented(c)
           /\ ~DemographicDisclosed(c) /\ ~NarrativeUngrounded(c) /\ ~DocumentMissing(c)
  <1> DEFINE c == Resolution(f)
  <1>1. /\ f.field \in AllowedFields /\ f.mode \in LoaderMode /\ f.required \in BOOLEAN
        /\ ModeFits(f) /\ SubjectFits(f)
    BY DEF FieldAccepted, StatesFact
  <1>2. /\ c.field = Aliased(f.field) /\ c.required = f.required /\ c.confident
        /\ c.mode = f.mode /\ c.provenance_ref /\ c.explicit_user_fact /\ c.option_available
        /\ c.policy_ref = (f.policy_ref # NoPolicy)
    BY DEF Resolution
  <1>3. c.mode \notin {"Unresolved", "Grounded Generated"}
    BY <1>1, <1>2 DEF LoaderMode
  <1>4. /\ Answered(c) /\ HasProvenance(c) /\ c.field \notin TechnicalFields
        /\ ~NarrativeUngrounded(c) /\ ~DocumentMissing(c)
    BY <1>1, <1>2, <1>3, AliasedFields
    DEF Answered, HasProvenance, NarrativeUngrounded, DocumentMissing
  <1>5. ~WorkRightUnproven(c)
    BY <1>1, <1>2, AliasedFields DEF WorkRightUnproven, SubjectFits
  <1>6. ~SalaryUnapproved(c)
    BY <1>1, <1>2, AliasedFields DEF SalaryUnapproved, CoveredByPolicy, SubjectFits, ModeFits
  <1>7. ~MarketingConsented(c)
    BY <1>1, <1>2, AliasedFields DEF MarketingConsented, SubjectFits, MarketingFits
  <1>8. ~DemographicDisclosed(c)
    <2>1. c.field \in DemographicFields => f.field \in DemographicFields
      BY <1>1, <1>2, AliasedFields
    <2>2. f.field \in DemographicFields => DemographicFits(f)
      BY <1>1 DEF SubjectFits
    <2>3. f.field \in DemographicFields =>
            /\ f.required => f.mode = "Approved Neutral Choice"
            /\ ~f.required => f.mode = "Blank Optional"
      BY <2>2 DEF DemographicFits
    <2> HIDE DEF c
    <2>4. QED
      BY <1>1, <1>2, <2>1, <2>3 DEF DemographicDisclosed
  <1>9. QED
    BY <1>4, <1>5, <1>6, <1>7, <1>8

(* The remaining blocker: privacy. *)
LEMMA PrivacyBlocker ==
    ASSUME NEW f, NEW facts, FieldAccepted(f, facts)
    PROVE  PrivacyUncovered(Resolution(f)) <=> UnsignedPrivacy(f)
  <1>1. /\ f.field \in AllowedFields /\ f.mode \in LoaderMode /\ ModeFits(f)
    BY DEF FieldAccepted, StatesFact
  <1>2. Resolution(f).field \in PrivacyFields <=> f.field \in LoaderPrivacy
    BY <1>1, AliasedFields DEF Resolution
  <1>3. ASSUME f.field \in LoaderPrivacy, f.required
        PROVE  CoveredByPolicy(Resolution(f)) <=> f.mode # "Verified Fact"
    <2>1. f.mode \in {"Verified Fact", "Approved Policy"}
      BY <1>1, <1>3 DEF ModeFits, LoaderMode, LoaderPrivacy, LoaderMarketing, DemographicFields
    <2>2. f.mode = "Approved Policy" => f.policy_ref # NoPolicy
      BY <1>1 DEF ModeFits
    <2>3. QED
      BY <2>1, <2>2 DEF CoveredByPolicy, Resolution
  <1>4. QED
    BY <1>2, <1>3 DEF PrivacyUncovered, UnsignedPrivacy, Resolution

(* Answer by answer: the policy blocks what the loader accepted exactly when *)
(* it is a required privacy acknowledgement on a verified fact               *)
(* (_validate_field, lines 193-253; _field_blocker, lines 36-98).            *)
THEOREM OnlyUnsignedPrivacyBlocked ==
    ASSUME NEW f, NEW facts, FieldAccepted(f, facts)
    PROVE  FieldBlocked(Resolution(f)) <=> UnsignedPrivacy(f)
  BY OtherBlockersPass, PrivacyBlocker DEF FieldBlocked

(* The document the runtime adds itself is never a blocker. *)
LEMMA CvPasses == ~FieldBlocked(CvResolution)
  BY DEF FieldBlocked, CvResolution, Answered, Unmapped, TechnicalFields, WorkRightUnproven,
     WorkRightFields, SalaryUnapproved, SalaryFields, PrivacyUncovered, PrivacyFields,
     MarketingConsented, MarketingFields, DemographicDisclosed, DemographicFields,
     NarrativeUngrounded, DocumentMissing, HasProvenance

(* Every answer of an accepted manifest was accepted by itself. *)
LEMMA AnswersAccepted ==
    ASSUME NEW m, NEW facts, NEW now, ManifestAccepted(m, facts, now)
    PROVE  \A f \in Answers(m) : FieldAccepted(f, facts)
  BY DEF ManifestAccepted, Answers, StepAccepted

(* The whole run: a manifest the loader accepted, filled in to the end with *)
(* the switches of the authority on, is allowed to be executed exactly if   *)
(* it states its own two identities and leaves no required privacy          *)
(* acknowledgement unsigned.  The loader asks for neither, so in these two  *)
(* cases the refusal comes after the CV was uploaded and before any intent  *)
(* is reserved (SingleApplicationRuntime.run, lines 240-247).               *)
THEOREM AcceptedManifestIsExecutable ==
    ASSUME NEW m, NEW facts, NEW now, NEW key, NEW au,
           ManifestAccepted(m, facts, now), SubmitClickAllowed(au)
    PROVE  AttemptMayBeCreated(RequestOf(m, key), au)
              <=> IdentityStated(m) /\ \A f \in Answers(m) : ~UnsignedPrivacy(f)
  <1> DEFINE rq == RequestOf(m, key)
  <1>1. /\ rq.complete = IdentityStated(m) /\ rq.policy_version_matches /\ rq.drift_state # "Drift"
        /\ rq.runtime_inspection_current /\ rq.tracker_fingerprint_current
        /\ ~rq.technical_challenge /\ ~Duplicate(rq)
        /\ rq.rollout_stage = "R2" /\ rq.submissions_today = 0
        /\ rq.controls = Resolutions(m)
    BY DEF RequestOf, Duplicate
  <1>2. DailyCap("R2") = 1
    BY DEF DailyCap
  <1>3. PolicyEligible(rq) <=> IdentityStated(m) /\ \A c \in Resolutions(m) : ~FieldBlocked(c)
    BY <1>1, <1>2 DEF PolicyEligible
  <1>4. (\A c \in Resolutions(m) : ~FieldBlocked(c))
            <=> \A f \in Answers(m) : ~FieldBlocked(Resolution(f))
    BY CvPasses DEF Resolutions
  <1>5. (\A f \in Answers(m) : ~FieldBlocked(Resolution(f)))
            <=> \A f \in Answers(m) : ~UnsignedPrivacy(f)
    BY AnswersAccepted, OnlyUnsignedPrivacyBlocked
  <1>6. ExecutionAllowed(rq, au) <=> PolicyEligible(rq)
    BY <1>1 DEF ExecutionAllowed
  <1>7. ExecutionAllowed(rq, au) => Decision(rq, au) = "Eligible"
    BY <1>1 DEF Decision, ExecutionAllowed
  <1>8. QED
    BY <1>3, <1>4, <1>5, <1>6, <1>7 DEF AttemptMayBeCreated

-----------------------------------------------------------------------------
(* The network boundary, for any calls and requests.  Its invariants are    *)
(* inductive together, with the phase's link to the flags that armed it.    *)

ArmedPhases ==
    /\ object.phase = "upload" => object.upload_begun
    /\ object.phase = "submit" => object.submit_begun

BoundaryInv == BoundaryTypeOK /\ OneOfEach /\ AttemptCloses /\ ArmedPhases

LEMMA BoundaryInitInv == BoundaryInit => BoundaryInv
  BY DEF BoundaryInit, NewBoundary, BoundaryInv, BoundaryTypeOK, OneOfEach, AttemptCloses, ArmedPhases,
         Boundary, Phase

(* The driver's own calls. *)
LEMMA DriverPreserves ==
    ASSUME BoundaryInv, DriverBeginsUpload \/ DriverEndsUpload \/ DriverBeginsSubmit
    PROVE  BoundaryInv' /\ Writes' = Writes /\ object.phase # "closed"
  <1> USE DEF BoundaryInv, BoundaryTypeOK, OneOfEach, AttemptCloses, ArmedPhases, Boundary, Phase, Writes
  <1>1. CASE DriverBeginsUpload
    BY <1>1 DEF DriverBeginsUpload, MayBeginUpload, BeginUpload
  <1>2. CASE DriverEndsUpload
    BY <1>2 DEF DriverEndsUpload, MayEndUpload, EndUpload
  <1>3. CASE DriverBeginsSubmit
    BY <1>3 DEF DriverBeginsSubmit, MayBeginSubmit, BeginSubmit
  <1>4. QED
    BY <1>1, <1>2, <1>3

(* A request of the page. *)
LEMMA RequestPreserves ==
    ASSUME BoundaryInv, NEW r \in Request, PageRequests(r)
    PROVE  /\ BoundaryInv'
           /\ object.phase = "closed" => object'.phase = "closed" /\ Writes' = Writes
  <1> USE DEF BoundaryInv, BoundaryTypeOK, OneOfEach, AttemptCloses, ArmedPhases, Boundary, Phase, Writes
  <1>1. object' = AfterRequest(object, r)
    BY DEF PageRequests
  <1>2. CASE r \in {"reviewed_read", "other_read"}
    BY <1>1, <1>2 DEF AfterRequest
  <1>3. CASE AdmitsUpload(object, r)
    <2>1. object' = [object EXCEPT !.uploads = @ + 1]
      BY <1>1, <1>3 DEF AfterRequest, AdmitsUpload, AdmitsApplication
    <2>2. QED
      BY <1>3, <2>1 DEF AdmitsUpload
  <1>4. CASE AdmitsApplication(object, r)
    <2> DEFINE c == [object EXCEPT !.attempts = @ + 1]
    <2>1. Counted(object, r) = c
      BY <1>4 DEF AdmitsApplication, Counted, IsApplication
    <2>2. r = "application" /\ object.submit_begun /\ c.attempts = 1 /\ object.allowed = 0
      BY <1>4, <2>1 DEF AdmitsApplication
    <2>3. object' = [c EXCEPT !.allowed = @ + 1, !.phase = "closed"]
      BY <1>1, <1>4, <2>1, <2>2 DEF AfterRequest, AdmitsUpload
    <2>4. object' = [phase |-> "closed", upload_begun |-> object.upload_begun,
                       submit_begun |-> object.submit_begun, blocked |-> object.blocked,
                       attempts |-> object.attempts + 1, allowed |-> object.allowed + 1,
                       uploads |-> object.uploads]
      BY <2>3
    <2>5. object.attempts = 0
      BY <2>2
    <2>6. BoundaryInv'
      BY <2>2, <2>4, <2>5
    <2>7. object.phase # "closed"
      BY <1>4 DEF AdmitsApplication
    <2>8. QED
      BY <2>6, <2>7
  <1>5. CASE /\ r \notin {"reviewed_read", "other_read"}
             /\ ~AdmitsUpload(object, r) /\ ~AdmitsApplication(object, r)
    <2>1. CASE IsApplication(r)
      <3> DEFINE c == [object EXCEPT !.attempts = @ + 1]
      <3>1. Counted(object, r) = c
        BY <2>1 DEF Counted
      <3>2. object' = [c EXCEPT !.blocked = @ + 1, !.phase = "closed"]
        BY <1>1, <1>5, <2>1, <3>1 DEF AfterRequest, Denied
      <3>3. object' = [phase |-> "closed", upload_begun |-> object.upload_begun,
                         submit_begun |-> object.submit_begun,
                         blocked |-> object.blocked + 1, attempts |-> object.attempts + 1,
                         allowed |-> object.allowed, uploads |-> object.uploads]
        BY <3>2
      <3>4. QED
        BY <3>3
    <2>2. CASE ~IsApplication(r)
      <3>1. object' = [object EXCEPT !.blocked = @ + 1]
        BY <1>1, <1>5, <2>2 DEF AfterRequest, Denied, Counted
      <3>2. QED
        BY <3>1
    <2>3. QED
      BY <2>1, <2>2
  <1>6. QED
    BY <1>2, <1>3, <1>4, <1>5

LEMMA BoundaryStep ==
    ASSUME BoundaryInv, [BoundaryNext]_object
    PROVE  /\ BoundaryInv'
           /\ object.phase = "closed" => object'.phase = "closed" /\ Writes' = Writes
  <1>1. CASE UNCHANGED object
    BY <1>1 DEF BoundaryInv, BoundaryTypeOK, OneOfEach, AttemptCloses, ArmedPhases, Writes
  <1>2. CASE BoundaryNext
    BY <1>2, DriverPreserves, RequestPreserves DEF BoundaryNext
  <1>3. QED
    BY <1>1, <1>2

(* The invariant of the boundary, for any sequence of calls and requests. *)
THEOREM BoundaryInvariant == BoundarySpec => []BoundaryInv
  <1>1. BoundaryInv /\ [BoundaryNext]_object => BoundaryInv'
    BY BoundaryStep
  <1>2. QED
    BY BoundaryInitInv, <1>1, PTL DEF BoundarySpec

(* At most one upload and one application pass, both armed. *)
THEOREM AtMostOneOfEach == BoundarySpec => []OneOfEach
  BY BoundaryInvariant, PTL DEF BoundaryInv

(* Every application attempt closes the boundary. *)
THEOREM AttemptsClose == BoundarySpec => []AttemptCloses
  BY BoundaryInvariant, PTL DEF BoundaryInv

(* A closed boundary stays closed and admits nothing. *)
THEOREM ClosedStaysClosed == BoundarySpec => ClosedForGood
  <1>1. BoundaryInv /\ [BoundaryNext]_object =>
          [object.phase = "closed" => object'.phase = "closed" /\ Writes' = Writes]_object
    BY BoundaryStep
  <1>2. QED
    BY BoundaryInvariant, <1>1, PTL DEF BoundarySpec, ClosedForGood

-----------------------------------------------------------------------------
(* The record of the outcome, for any runs and bytes.  What a run has        *)
(* returned says something of the file under the final name; the link to     *)
(* it is what the run has done so far: before it may link, its bytes are     *)
(* complete, and once it has linked, the final name is its own for good.     *)

Linking ==
    \A r \in Run :
        /\ at[r] \in {"link", "linked", "verify"} => r \in complete
        /\ at[r] \in {"linked", "verify"} => target = r

OutcomeInv == OutcomeTypeOK /\ Linking /\ RecordedMeansPublished

LEMMA OutcomeInitInv == OutcomeInit => OutcomeInv
  BY RunAssumption DEF OutcomeInit, OutcomeInv, OutcomeTypeOK, Linking, RecordedMeansPublished

(* Only link() gives the final name a file, and only a free one. *)
LEMMA OutcomeStep ==
    ASSUME OutcomeInv, [OutcomeNext]_outcomeVars
    PROVE  OutcomeInv' /\ (target # NoFile => target' = target)
  <1> USE DEF OutcomeInv, OutcomeTypeOK, Linking, RecordedMeansPublished
  <1>1. CASE UNCHANGED outcomeVars
    BY <1>1 DEF outcomeVars
  <1>2. ASSUME NEW r \in Run, FindExisting(r) \/ LinkExists(r)
        PROVE  OutcomeInv' /\ target' = target
    BY <1>2 DEF FindExisting, LinkExists, Leave, Matches, Private
  <1>3. ASSUME NEW r \in Run, CreateTemporary(r) \/ WriteBytes(r) \/ UnlinkTemporary(r)
        PROVE  OutcomeInv' /\ target' = target
    BY <1>3 DEF CreateTemporary, WriteBytes, UnlinkTemporary, Moves
  <1>4. ASSUME NEW r \in Run, Link(r)
        PROVE  OutcomeInv' /\ target = NoFile
    BY <1>4, RunAssumption DEF Link, Moves
  <1>5. ASSUME NEW r \in Run, Verify(r)
        PROVE  OutcomeInv' /\ target' = target
    BY <1>5 DEF Verify, Leave, Matches, Private
  <1>6. ASSUME NEW r \in Run, Fail(r)
        PROVE  OutcomeInv' /\ target' = target
    BY <1>6 DEF Fail, Leave
  <1>7. ASSUME NEW r \in Run, CleanUp(r) \/ Die(r)
        PROVE  OutcomeInv' /\ target' = target
    BY <1>7 DEF CleanUp, Die, Moves
  <1>8. QED
    BY <1>1, <1>2, <1>3, <1>4, <1>5, <1>6, <1>7 DEF OutcomeNext, Step

THEOREM OutcomeInvariant == OutcomeSpec => []OutcomeInv
  <1>1. OutcomeInv /\ [OutcomeNext]_outcomeVars => OutcomeInv'
    BY OutcomeStep
  <1>2. QED
    BY OutcomeInitInv, <1>1, PTL DEF OutcomeSpec

(* The model of the publication is type correct. *)
THEOREM OutcomeTypeCorrect == OutcomeSpec => []OutcomeTypeOK
  BY OutcomeInvariant, PTL DEF OutcomeInv

(* Whoever dies when, the final name shows complete bytes, and a run that    *)
(* answers that its outcome is recorded has its bytes there                  *)
(* (application_outcome.py, lines 87-142).                                   *)
THEOREM RecordsArePublished == OutcomeSpec => []RecordedMeansPublished
  BY OutcomeInvariant, PTL DEF OutcomeInv

(* A published record is never replaced by another. *)
THEOREM RecordsAreFinal == OutcomeSpec => NeverReplaced
  <1>1. OutcomeInv /\ [OutcomeNext]_outcomeVars => [target # NoFile => target' = target]_outcomeVars
    BY OutcomeStep
  <1>2. QED
    BY OutcomeInvariant, <1>1, PTL DEF OutcomeSpec, NeverReplaced
=============================================================================
