------------------------- MODULE SingleApplication -------------------------
(***************************************************************************)
(* The local first-application lane: `python -m ejs.apps.single_application *)
(* --execute-reviewed-first-application` (apps/single_application), the    *)
(* SingleApplicationRuntime it runs, the OneClickBrowser it drives and the *)
(* ledger row all invocations on the host share.                           *)
(*                                                                         *)
(* A Process is an invocation of the command; it may be killed at any step *)
(* and the command run again.  Every call of the runtime may raise: a      *)
(* check that fails, a browser timeout, an OS or SQLite error.  All of     *)
(* them end in the same `except`, which is Abort.  The page is not trusted *)
(* and acts on its own between the driver's calls: it changes under the    *)
(* driver (PageDrifts) and sends requests (PageSends), which the boundary  *)
(* object judges.  The employer may accept an application whose answer     *)
(* never arrives.                                                          *)
(*                                                                         *)
(* A ledger transaction is a commit step followed by a return step, as in  *)
(* SubmissionLedger, because a run may die or see an error between them.   *)
(* Times are not modelled here: a time check that fails is an Abort, and   *)
(* the rows carry one instant.                                             *)
(***************************************************************************)
EXTENDS LedgerRow, BoundaryState

CONSTANTS Process,      \* invocations of the command
          AttemptOf,    \* the identities in each invocation's manifest
          EvidenceOf,   \* the acknowledgement digest each would observe
          Steps,        \* number of form pages in the reviewed manifest
          UploadSteps,  \* the pages with a resume upload
          MaxLaunches,  \* bound on invocations, restarts included
          MaxDenied     \* bound on the requests a page makes in one run

ASSUME ParametersAssumption ==
    /\ AttemptOf \in [Process -> Attempt]
    /\ EvidenceOf \in [Process -> Evidence]
    /\ Steps \in Nat \ {0} /\ UploadSteps \subseteq 1 .. Steps
    /\ MaxLaunches \in Nat /\ MaxDenied \in Nat

VARIABLES
    row,        \* the ledger's durable row, or Null
    outcome,    \* the local outcome file: "none" or "Applied"
    dispatched, \* application requests let through to the employer, in all
    launches,   \* invocations so far
    pc,         \* pc[p]: how far the invocation has come
    step,       \* step[p]: the form page it is on
    page,       \* page[p]: "reviewed", or "drifted" from the manifest
    boundary,   \* boundary[p]: its network boundary
    started,    \* started[p]: the local variable of run()
    sent,       \* sent[p]: application requests this run let through
    reply,      \* reply[p]: "none", "accepted" (no answer yet), "success", "other"
    uploads,    \* uploads[p]: the uploads it has verified (a local list of run())
    result      \* result[p]: the status it reports, "none" before

vars == <<row, outcome, dispatched, launches, pc, step, page, boundary,
          started, sent, reply, uploads, result>>

host    == <<row, outcome, dispatched, launches>>   \* outlives every process
browser == <<page, boundary, sent, reply>>          \* what the page acts on

(* The runtime's steps before and after the ledger records the uncertainty. *)
Preparing  == {"opened", "entry", "fill", "upload", "uploading", "reread", "final",
               "recheck", "reserve", "reserved", "mark", "marked"}
Dispatching == {"submit", "clicked", "answered", "confirmed"}
Browsing   == (Preparing \ {"opened"}) \cup Dispatching \cup {"outcome", "closing"}
Statuses   == {"DUPLICATE_OR_UNCERTAIN", "BLOCKED", "SUBMITTED_UNCONFIRMED",
               "EMPLOYER_CONFIRMED"}

Init ==
    /\ row = Null /\ outcome = "none" /\ dispatched = 0 /\ launches = 0
    /\ pc = [p \in Process |-> "off"]
    /\ step = [p \in Process |-> 1]
    /\ page = [p \in Process |-> "reviewed"]
    /\ boundary = [p \in Process |-> NewBoundary]
    /\ started = [p \in Process |-> FALSE]
    /\ sent = [p \in Process |-> 0]
    /\ reply = [p \in Process |-> "none"]
    /\ uploads = [p \in Process |-> 0]
    /\ result = [p \in Process |-> "none"]

Goto(p, from, to) == pc[p] = from /\ pc' = [pc EXCEPT ![p] = to]

-----------------------------------------------------------------------------
(* The bootstrap. *)

(* main: a fresh process opens the canonical ledger and asks has_intent     *)
(* before it creates a browser; a ledger that cannot be opened or read is   *)
(* reported as BLOCKED.                                                     *)
Launch(p) ==
    /\ pc[p] \in {"off", "reported"} /\ launches < MaxLaunches
    /\ launches' = launches + 1
    /\ uploads' = [uploads EXCEPT ![p] = 0]
    /\ started' = [started EXCEPT ![p] = FALSE]
    /\ step' = [step EXCEPT ![p] = 1]
    /\ page' = [page EXCEPT ![p] = "reviewed"]
    /\ boundary' = [boundary EXCEPT ![p] = NewBoundary]
    /\ sent' = [sent EXCEPT ![p] = 0]
    /\ reply' = [reply EXCEPT ![p] = "none"]
    /\ \/ /\ row = Null
          /\ pc' = [pc EXCEPT ![p] = "opened"]
          /\ result' = [result EXCEPT ![p] = "none"]
       \/ /\ row # Null
          /\ pc' = [pc EXCEPT ![p] = "reported"]
          /\ result' = [result EXCEPT ![p] = "DUPLICATE_OR_UNCERTAIN"]
       \/ /\ pc' = [pc EXCEPT ![p] = "reported"]
          /\ result' = [result EXCEPT ![p] = "BLOCKED"]
    /\ UNCHANGED <<row, outcome, dispatched>>

(* run() is over with this status; the browser is still there. *)
Stop(p, status) ==
    /\ pc' = [pc EXCEPT ![p] = "closing"]
    /\ result' = [result EXCEPT ![p] = status]

(* The `finally` of main closes context and browser whatever happened, and  *)
(* only then is the result printed.                                         *)
CloseAndReport(p) ==
    /\ Goto(p, "closing", "reported")
    /\ page' = [page EXCEPT ![p] = "reviewed"]
    /\ boundary' = [boundary EXCEPT ![p] = NewBoundary]
    /\ step' = [step EXCEPT ![p] = 1]
    /\ UNCHANGED <<host, started, sent, reply, uploads, result>>

-----------------------------------------------------------------------------
(* run(): preparation. *)

(* The second has_intent, inside run(): an occupied slot stops before any   *)
(* page is opened; a free one lets the run verify its inputs and open.      *)
Gate(p) ==
    /\ pc[p] = "opened"
    /\ \/ row # Null /\ Stop(p, "DUPLICATE_OR_UNCERTAIN")
       \/ row = Null /\ pc' = [pc EXCEPT ![p] = "entry"] /\ UNCHANGED result
    /\ UNCHANGED <<host, step, browser, started, uploads>>

(* posting, CV, browser.open and preferred_entry: no state but the page. *)
Enter(p) ==
    /\ Goto(p, "entry", "fill")
    /\ UNCHANGED <<host, step, browser, started, uploads, result>>

(* _surface: the page is the reviewed one and no write has been blocked. *)
Surface(p) == page[p] = "reviewed" /\ boundary[p].blocked = 0

(* Write and read back every field of the page, with the surface examined   *)
(* before and after each.                                                   *)
Fill(p) ==
    /\ Surface(p)
    /\ Goto(p, "fill", IF step[p] \in UploadSteps THEN "upload" ELSE "reread")
    /\ UNCHANGED <<host, step, browser, started, uploads, result>>

(* A second upload page stops the run; browser.upload arms the boundary and *)
(* hands the file to the page.                                              *)
ArmUpload(p) ==
    /\ Goto(p, "upload", "uploading") /\ uploads[p] = 0
    /\ boundary[p].blocked = 0 /\ MayBeginUpload(boundary[p])
    /\ boundary' = [boundary EXCEPT ![p] = BeginUpload(@)]
    /\ UNCHANGED <<host, step, page, started, sent, reply, uploads, result>>

UploadedUnverified(p) ==   \* mutant: the boundary's upload count is not compared
    /\ Goto(p, "uploading", "reread")
    /\ MayEndUpload(boundary[p])
    /\ boundary' = [boundary EXCEPT ![p] = EndUpload(@)]
    /\ uploads' = [uploads EXCEPT ![p] = @ + 1]
    /\ UNCHANGED <<host, step, page, started, sent, reply, result>>

(* The upload's answer is verified and the phase ends. *)
Uploaded(p) ==
    /\ Goto(p, "uploading", "reread")
    /\ boundary[p].uploads = 1 /\ MayEndUpload(boundary[p])
    /\ boundary' = [boundary EXCEPT ![p] = EndUpload(@)]
    /\ uploads' = [uploads EXCEPT ![p] = @ + 1]
    /\ UNCHANGED <<host, step, page, started, sent, reply, result>>

(* Every field is read again; then the next page, or the end of the form. *)
Reread(p) ==
    /\ pc[p] = "reread" /\ Surface(p)
    /\ \/ /\ step[p] < Steps
          /\ pc' = [pc EXCEPT ![p] = "fill"]
          /\ step' = [step EXCEPT ![p] = @ + 1]
       \/ /\ step[p] = Steps
          /\ pc' = [pc EXCEPT ![p] = "final"]
          /\ UNCHANGED step
    /\ UNCHANGED <<host, browser, started, uploads, result>>

(* The final surface is inspected, the form valid, and validate_pre_submit  *)
(* allows the attempt; then surface and readbacks are examined once more.   *)
Validate(p) ==
    /\ Goto(p, "final", "recheck") /\ Surface(p) /\ uploads[p] = 1
    /\ UNCHANGED <<host, step, browser, started, uploads, result>>

Recheck(p) ==
    /\ Goto(p, "recheck", "reserve") /\ Surface(p)
    /\ UNCHANGED <<host, step, browser, started, uploads, result>>

-----------------------------------------------------------------------------
(* run(): the durable intent, the click, the confirmation. *)

ReserveIntentReplacing(p) ==   \* mutant: INSERT OR REPLACE
    /\ Goto(p, "reserve", "reserved")
    /\ row' = ReservedRow(AttemptOf[p], 0, 0)
    /\ UNCHANGED <<outcome, dispatched, launches, step, browser, started, uploads, result>>

(* reserve_intent inserts the row; on an occupied slot it returns False and *)
(* the run stops with APPLICATION_SINGLE_SCOPE_CONSUMED.                    *)
ReserveIntent(p) ==
    /\ pc[p] = "reserve"
    /\ \/ /\ row = Null
          /\ row' = ReservedRow(AttemptOf[p], 0, 0)
          /\ pc' = [pc EXCEPT ![p] = "reserved"]
          /\ UNCHANGED result
       \/ /\ row # Null
          /\ Stop(p, "BLOCKED")
          /\ UNCHANGED row
    /\ UNCHANGED <<outcome, dispatched, launches, step, browser, started, uploads>>

IntentReturnedUnmarked(p) ==   \* mutant: submits before mark_started
    /\ Goto(p, "reserved", "submit")
    /\ UNCHANGED <<host, step, browser, started, uploads, result>>

IntentReturned(p) ==
    /\ Goto(p, "reserved", "mark")
    /\ UNCHANGED <<host, step, browser, started, uploads, result>>

(* mark_started; a row it does not accept raises (Abort). *)
MarkStarted(p) ==
    /\ Goto(p, "mark", "marked")
    /\ StartAccepted(row, AttemptOf[p].submit_key, AttemptOf[p].execution_id, 0)
    /\ row' = StartedRow(row, 0)
    /\ UNCHANGED <<outcome, dispatched, launches, step, browser, started, uploads, result>>

StartReturnedUnnoted(p) ==   \* mutant: `started = True` is missing
    /\ Goto(p, "marked", "submit")
    /\ UNCHANGED <<host, step, browser, started, uploads, result>>

StartReturned(p) ==
    /\ Goto(p, "marked", "submit")
    /\ started' = [started EXCEPT ![p] = TRUE]
    /\ UNCHANGED <<host, step, browser, uploads, result>>

(* submit_once: nothing blocked and no attempt so far, the boundary is      *)
(* armed and the button clicked.                                            *)
SubmitOnce(p) ==
    /\ Goto(p, "submit", "clicked")
    /\ boundary[p].blocked = 0 /\ boundary[p].attempts = 0 /\ MayBeginSubmit(boundary[p])
    /\ boundary' = [boundary EXCEPT ![p] = BeginSubmit(@)]
    /\ UNCHANGED <<host, step, page, started, sent, reply, uploads, result>>

(* A response to the application request arrives. *)
Answer(p) ==
    /\ Goto(p, "clicked", "answered") /\ sent[p] > 0
    /\ reply' = [reply EXCEPT ![p] = IF @ = "accepted" THEN "success" ELSE "other"]
    /\ UNCHANGED <<host, step, page, boundary, started, sent, uploads, result>>

ObservedEvidence(p) ==
    [submit_key |-> AttemptOf[p].submit_key, execution_id |-> AttemptOf[p].execution_id,
     requisition_id |-> AttemptOf[p].requisition_id, exact_identity_match |-> TRUE,
     evidence_ref |-> EvidenceOf[p], observed_at |-> 0]

ConfirmRowAnyReply(p) ==   \* mutant: the answer is not verified
    /\ Goto(p, "answered", "confirmed")
    /\ boundary[p].attempts = 1 /\ boundary[p].blocked = 0
    /\ ConfirmReturns(row, ObservedEvidence(p))
    /\ row' = AfterConfirm(row, ObservedEvidence(p), 0)
    /\ UNCHANGED <<outcome, dispatched, launches, step, browser, started, uploads, result>>

(* The acknowledgement is verified and the ledger accepts it. *)
ConfirmRow(p) ==
    /\ Goto(p, "answered", "confirmed")
    /\ reply[p] = "success"
    /\ boundary[p].attempts = 1 /\ boundary[p].blocked = 0
    /\ ConfirmReturns(row, ObservedEvidence(p))
    /\ row' = AfterConfirm(row, ObservedEvidence(p), 0)
    /\ UNCHANGED <<outcome, dispatched, launches, step, browser, started, uploads, result>>

ConfirmReturned(p) ==
    /\ Goto(p, "confirmed", "outcome")
    /\ result' = [result EXCEPT ![p] = "EMPLOYER_CONFIRMED"]
    /\ UNCHANGED <<host, step, browser, started, uploads>>

(* write_confirmed_outcome: it may publish, fail, or publish and fail; a    *)
(* failure cannot change the status.                                        *)
WriteOutcome(p) ==
    /\ Goto(p, "outcome", "closing")
    /\ Confirmed(row) /\ row.attempt = AttemptOf[p] /\ row.evidence_ref = EvidenceOf[p]
    /\ outcome' \in {outcome, "Applied"}
    /\ UNCHANGED <<row, dispatched, launches, step, browser, started, uploads, result>>

AbortButWhileWaiting(p) ==   \* mutant: no timeout on the employer's answer
    /\ pc[p] \in (Preparing \cup Dispatching) \ {"clicked"}
    /\ Stop(p, IF started[p] THEN "SUBMITTED_UNCONFIRMED" ELSE "BLOCKED")
    /\ boundary' = [boundary EXCEPT ![p] =
                       IF pc[p] = "uploading" /\ MayEndUpload(@) THEN EndUpload(@) ELSE @]
    /\ UNCHANGED <<host, step, page, started, sent, reply, uploads>>

(* Any exception in run().  An upload under way ends its phase on the way   *)
(* out; an exception after a commit leaves the commit.                      *)
Abort(p) ==
    /\ pc[p] \in Preparing \cup Dispatching
    /\ Stop(p, IF started[p] THEN "SUBMITTED_UNCONFIRMED" ELSE "BLOCKED")
    /\ boundary' = [boundary EXCEPT ![p] =
                       IF pc[p] = "uploading" /\ MayEndUpload(@) THEN EndUpload(@) ELSE @]
    /\ UNCHANGED <<host, step, page, started, sent, reply, uploads>>

(* The process is killed: nothing is reported and its browser is gone. *)
Crash(p) ==
    /\ pc[p] \notin {"off", "reported"}
    /\ pc' = [pc EXCEPT ![p] = "off"]
    /\ page' = [page EXCEPT ![p] = "reviewed"]
    /\ boundary' = [boundary EXCEPT ![p] = NewBoundary]
    /\ step' = [step EXCEPT ![p] = 1]
    /\ result' = [result EXCEPT ![p] = "none"]
    /\ UNCHANGED <<host, started, sent, reply, uploads>>

-----------------------------------------------------------------------------
(* The page, and the employer behind it. *)

PageDrifts(p) ==
    /\ pc[p] \in Browsing /\ page[p] = "reviewed"
    /\ page' = [page EXCEPT ![p] = "drifted"]
    /\ UNCHANGED <<host, pc, step, boundary, started, sent, reply, uploads, result>>

PageSends(p, r) ==
    /\ pc[p] \in Browsing
    /\ boundary[p].blocked < MaxDenied /\ boundary[p].attempts < MaxDenied
    /\ boundary' = [boundary EXCEPT ![p] = AfterRequest(@, r)]
    /\ \/ /\ AdmitsApplication(boundary[p], r)
          /\ dispatched' = dispatched + 1
          /\ sent' = [sent EXCEPT ![p] = @ + 1]
          /\ \E a \in {"none", "accepted"} : reply' = [reply EXCEPT ![p] = a]
       \/ /\ ~AdmitsApplication(boundary[p], r)
          /\ UNCHANGED <<dispatched, sent, reply>>
    /\ UNCHANGED <<row, outcome, launches, pc, step, page, started, uploads, result>>

-----------------------------------------------------------------------------

Advance(p) ==
    \/ Gate(p) \/ Enter(p) \/ Fill(p) \/ ArmUpload(p) \/ Uploaded(p) \/ Reread(p)
    \/ Validate(p) \/ Recheck(p) \/ ReserveIntent(p) \/ IntentReturned(p)
    \/ MarkStarted(p) \/ StartReturned(p) \/ SubmitOnce(p) \/ Answer(p)
    \/ ConfirmRow(p) \/ ConfirmReturned(p) \/ WriteOutcome(p) \/ CloseAndReport(p)

Writing == {"upload", "application", "application_navigation", "other_write"}

Next ==
    \E p \in Process :
        \/ Launch(p) \/ Advance(p) \/ Abort(p) \/ Crash(p)
        \/ PageDrifts(p) \/ \E r \in Writing : PageSends(p, r)

Spec == Init /\ [][Next]_vars

(* The places with a call that has no timeout: count, evaluate and the body *)
(* of an answer, and the closing of the browser.  A page that is busy, or   *)
(* an answer whose body never ends, may hold a run there for ever.  The     *)
(* others wait on SQLite's busy timeout, on expect_response's or on nothing.*)
Untimed == {"entry", "fill", "upload", "uploading", "reread", "final", "recheck",
            "submit", "answered", "closing"}

(* Where a timeout runs, a live run takes its next step or raises.  Nothing *)
(* obliges the page, the employer or the operator to act.                   *)
FairSpec ==
    Spec /\ \A p \in Process : WF_vars(pc[p] \notin Untimed /\ (Advance(p) \/ Abort(p)))

-----------------------------------------------------------------------------
(* Properties. *)

TypeOK ==
    /\ row \in Row \cup {Null} /\ outcome \in {"none", "Applied"}
    /\ dispatched \in Nat /\ launches \in Nat
    /\ pc \in [Process -> Browsing \cup {"off", "opened", "reported"}]
    /\ step \in [Process -> 1 .. Steps]
    /\ page \in [Process -> {"reviewed", "drifted"}]
    /\ boundary \in [Process -> Boundary]
    /\ started \in [Process -> BOOLEAN]
    /\ uploads \in [Process -> Nat] /\ sent \in [Process -> Nat]
    /\ reply \in [Process -> {"none", "accepted", "success", "other"}]
    /\ result \in [Process -> Statuses \cup {"none"}]

(* Whatever the page sends, however often the command is run, killed and    *)
(* run again beside others, one application request at most leaves for the  *)
(* employer, and none before its uncertainty is durable: the ledger         *)
(* "is committed before the one external submission" (lines 3-5).           *)
OneDispatch == dispatched =< 1 /\ (dispatched = 1 => Started(row))

(* A run that says it did not submit (BLOCKED, or a duplicate) let nothing  *)
(* through to the employer, and one that says unconfirmed did commit the    *)
(* uncertainty (lines 269-276).                                             *)
ReportsAreHonest ==
    \A p \in Process :
        /\ result[p] \in {"BLOCKED", "DUPLICATE_OR_UNCERTAIN"} => sent[p] = 0
        /\ result[p] = "SUBMITTED_UNCONFIRMED" => Started(row) /\ row.attempt = AttemptOf[p]

(* EMPLOYER_CONFIRMED is only said of an application this run sent and the  *)
(* employer acknowledged, with the same evidence in the ledger; the local   *)
(* outcome says Applied only after it (lines 257-268, main lines 81-92).    *)
ConfirmedIsTrue ==
    /\ \A p \in Process : result[p] = "EMPLOYER_CONFIRMED" =>
          /\ sent[p] = 1 /\ reply[p] = "success"
          /\ Confirmed(row) /\ row.evidence_ref = EvidenceOf[p]
    /\ outcome = "Applied" => Confirmed(row) /\ dispatched = 1

(* The slot is only ever taken by a run that has gone through all pages of  *)
(* the manifest and for which the boundary let exactly one resume through,  *)
(* whatever the page did in between (lines 207-254).                        *)
ReservedAfterPreparation ==
    [][row = Null /\ row' # Null =>
          \E p \in Process : /\ pc[p] = "reserve" /\ row'.attempt = AttemptOf[p]
                             /\ step[p] = Steps /\ boundary[p].uploads = 1]_vars

(* The whole lane implements the abstract promise. *)
Promise == INSTANCE OneApplication WITH
    slot <- IF row = Null THEN "free"
            ELSE IF row.status = "Validated" THEN "reserved"
            ELSE IF row.status = "Submitted / Unconfirmed" THEN "uncertain"
            ELSE "confirmed",
    applications <- dispatched,
    recorded <- outcome = "Applied"
ImplementsOneApplication == Promise!Spec

(* A run that no call without a timeout holds for ever reports, unless it   *)
(* is killed: the employer's silence after the click, a locked ledger and a *)
(* page that keeps changing cannot keep it (submit_once lines 359-363).     *)
EveryRunReports ==
    \A p \in Process :
        (\A u \in Untimed : []<>(pc[p] # u))
            => (pc[p] = "opened" ~> pc[p] \in {"off", "reported"})
=============================================================================
