------------------------- MODULE FencedPreparation -------------------------
(***************************************************************************)
(* One owned browser session that inspects an application form and         *)
(* prepares it once, without submitting:                                   *)
(*   - services/fenced_application_session.py, the session and its states; *)
(*   - services/prepare_network_fence.py, the fence around its network;    *)
(*   - services/smartrecruiters_executor.py, _prepare_in_session, which    *)
(*     fills the fields and attaches the documents.                        *)
(*                                                                         *)
(* The program is one thread; the page and time go on between any two      *)
(* browser calls, and the page's requests are answered during them.  An    *)
(* action is the code up to the next browser call.  Of the form only the   *)
(* observed controls matter, of a boundary only which probe reports it.    *)
(***************************************************************************)
EXTENDS Naturals, Sequences, FiniteSets

CONSTANTS Plan,          \* the items of the request: its fields, then its uploads
          Upload,        \* the items that are uploads
          Form,          \* what the control extractor can return
          Fingerprint,   \* the fingerprint of each: two forms may share one
          Approved,      \* request.expected_form_fingerprint
          Fixture,       \* the target is a local file
          MaxPageActs, MaxObservations,   \* bounds
          Null

Item == {Plan[i] : i \in 1 .. Len(Plan)}

ASSUME PreparationAssumption ==
    /\ Plan \in Seq(Item) /\ Len(Plan) > 0 /\ Cardinality(Item) = Len(Plan)
    /\ Upload \subseteq Item /\ DOMAIN Fingerprint = Form /\ Fixture \in BOOLEAN
    /\ MaxPageActs \in Nat /\ MaxObservations \in Nat

VARIABLES
    \* the session object
    state, browser, observation, attempted, writes, uploads, report,
    \* its thread: where it is, where require_current_surface returns to, the item it
    \* is at, the controls the executor works on, what it saw last, the bytes it read
    pc, then, item, controls, seen, payload,
    results,                \* items whose last readback matched
    blocked, preparing,     \* the fence
    expired, stale,         \* the session, its observation, are too old
    page,                   \* [open, url, form, boundary, content]
    disk,                   \* the document's file: "approved" or "changed"
    acts, observations,     \* counted against the bounds
    filled, wroteOn, attached, exposed   \* history

session == <<state, browser, observation, attempted, writes, uploads, report>>
thread  == <<pc, then, item, controls, seen, payload, results>>
fence   == <<blocked, preparing>>
clock   == <<expired, stale>>
world   == <<page, disk, acts>>
history == <<filled, wroteOn, attached, exposed>>
vars == <<session, thread, fence, clock, world, observations, history>>

Boundaries == {"challenge", "structure"}   \* CAPTCHA or sign-in; frames and unsupported forms

Snapshot == [form: Form, boundary: SUBSET Boundaries]

Init ==
    /\ state = "NEW" /\ browser = FALSE /\ observation = Null /\ attempted = FALSE
    /\ writes = 0 /\ uploads = 0 /\ report = Null
    /\ pc = "idle" /\ then = "idle" /\ item = 1 /\ controls = Null /\ seen = Null
    /\ payload = "none" /\ results = {}
    /\ blocked = FALSE /\ preparing = FALSE /\ expired = FALSE /\ stale = FALSE
    /\ \E f \in Form : page = [open |-> FALSE, url |-> "target", form |-> f, boundary |-> {},
                               content |-> [i \in Item |-> "other"]]
    /\ disk = "approved" /\ acts = 0 /\ observations = 0
    /\ filled = [i \in Item |-> 0] /\ wroteOn = {} /\ attached = {} /\ exposed = FALSE

-----------------------------------------------------------------------------
(* How a call ends and how it goes on. *)

CloseResources == browser' = FALSE /\ page' = [page EXCEPT !.open = FALSE]
KeepResources  == UNCHANGED <<browser, page>>

InExecutor == pc \notin {"idle", "enter", "inspect1", "inspect2", "validate1", "validate2"}

Report(ready) == [ready |-> ready, writes |-> writes', uploads |-> uploads']

ChecksAge == {"idle", "inspect1", "inspect2", "validate1", "validate2", "surface1", "final1", "final2"}

(* An exception, which any browser call may raise, or a failure result, ends *)
(* the call.  Opening closes what it opened, and _require_active closes a    *)
(* session that it finds too old.                                            *)
Raise ==
    /\ pc' = "idle" /\ observation' = Null
    /\ \/ state \in {"CLOSED", "EXPIRED"} /\ state' = state
       \/ state \notin {"CLOSED", "EXPIRED"} /\ state' = "BLOCKED"
       \/ /\ expired /\ pc \in ChecksAge
          /\ state \in {"OPEN", "INSPECTED", "PREPARING"} /\ state' = "EXPIRED"
    /\ IF pc = "enter" \/ (state' = "EXPIRED" /\ state # "EXPIRED") THEN CloseResources ELSE KeepResources
    /\ report' = IF InExecutor THEN Report(FALSE) ELSE report
    /\ UNCHANGED <<attempted, then, item, controls, seen, payload, results>>

Goto(step) ==
    /\ pc' = step
    /\ UNCHANGED <<state, browser, observation, attempted, report, page, then, item, controls,
                   seen, payload, results>>

(* require_current_surface, then on to step. *)
GotoOverSurface(step) ==
    /\ pc' = "surface1" /\ then' = step
    /\ UNCHANGED <<state, browser, observation, attempted, report, page, payload>>

Unfenced == UNCHANGED <<fence, clock, disk, acts, observations, history>>
Uncounted == UNCHANGED <<writes, uploads>>

(* _require_active, but for the session's own state and its age. *)
Inactive == ~page.open \/ blocked \/ page.url # "target"

-----------------------------------------------------------------------------
(* __enter__, close and cancellation. *)

Enter ==
    /\ pc = "idle" /\ state = "NEW"
    /\ Uncounted /\ Unfenced
    /\ state' = "OPENING" /\ browser' = TRUE /\ page' = [page EXCEPT !.open = TRUE]
    /\ pc' = "enter"
    /\ UNCHANGED <<observation, attempted, report, then, item, controls, seen, payload, results>>

Entered ==
    /\ pc = "enter"
    /\ Uncounted /\ Unfenced
    /\ \/ Raise
       \/ /\ ~Inactive /\ ~expired
          /\ state' = "OPEN" /\ pc' = "idle" /\ KeepResources
          /\ UNCHANGED <<observation, attempted, report, then, item, controls, seen, payload, results>>

(* Mutant: closing makes the session new again. *)
CloseResetting ==
    /\ pc = "idle" /\ state # "CLOSED"
    /\ Uncounted /\ Unfenced
    /\ state' = "NEW" /\ observation' = Null /\ CloseResources
    /\ UNCHANGED <<attempted, report, thread>>

Close ==
    /\ pc = "idle" /\ state # "CLOSED"
    /\ Uncounted /\ Unfenced
    /\ state' = "CLOSED" /\ observation' = Null /\ CloseResources
    /\ UNCHANGED <<attempted, report, thread>>

(* The owner is interrupted in a call; the with statement closes.  Opening   *)
(* is not inside it yet and closes by itself.                                *)
Cancel ==
    /\ pc # "idle"
    /\ Uncounted /\ Unfenced
    /\ pc' = "idle" /\ observation' = Null /\ CloseResources
    /\ state' = IF pc = "enter" THEN "BLOCKED" ELSE "CLOSED"
    /\ UNCHANGED <<attempted, report, then, item, controls, seen, payload, results>>

-----------------------------------------------------------------------------
(* _snapshot: two probes with a check before, between and after them. *)

Active == state \in {"OPEN", "INSPECTED"}

FirstProbe(from, to) ==
    /\ pc = from
    /\ Uncounted /\ Unfenced
    /\ \/ Raise
       \/ /\ ~Inactive /\ ~expired
          /\ seen' = [form |-> page.form, boundary |-> page.boundary \cap {"challenge"}]
          /\ pc' = to
          /\ UNCHANGED <<state, browser, observation, attempted, report, page, then, item,
                         controls, payload, results>>

SecondProbe == [seen EXCEPT !.boundary = @ \cup (page.boundary \cap {"structure"})]

(* inspect: the second probe completes it.                                   *)
Inspect ==
    /\ pc = "idle" /\ observations < MaxObservations
    /\ Uncounted /\ Unfenced
    /\ IF Active THEN Goto("inspect1") ELSE Raise

Inspected ==
    /\ pc = "inspect2"
    /\ Uncounted /\ UNCHANGED <<fence, expired, disk, acts, history>>
    /\ \/ Raise /\ UNCHANGED <<stale, observations>>
       \/ /\ ~Inactive /\ ~expired
          /\ observation' = [id |-> observations + 1, snapshot |-> SecondProbe]
          /\ observations' = observations + 1 /\ stale' = FALSE
          /\ state' = "INSPECTED" /\ pc' = "idle" /\ KeepResources
          /\ UNCHANGED <<attempted, report, then, item, controls, seen, payload, results>>

(* prepare with the token of some observation, first                         *)
(* _validate_reviewed_observation.                                           *)
Prepare(token) ==
    /\ pc = "idle"
    /\ Uncounted /\ Unfenced
    /\ \/ Raise
       \/ /\ Active /\ ~Inactive /\ ~expired /\ ~attempted
          /\ observation # Null /\ token = observation.id /\ ~stale
          /\ Goto("validate1")

Validated ==
    /\ pc = "validate2"
    /\ Uncounted /\ Unfenced
    /\ \/ Raise
       \/ /\ ~Inactive /\ ~expired /\ SecondProbe = observation.snapshot
          /\ attempted' = TRUE /\ state' = "PREPARING" /\ pc' = "read"
          /\ UNCHANGED <<browser, observation, report, page, then, item, controls, seen,
                         payload, results>>

-----------------------------------------------------------------------------
(* _prepare_in_session. *)

(* The prechecks, the executor's own reading of the form and the preflight.  *)
ReadForm ==
    /\ pc = "read"
    /\ Uncounted /\ Unfenced
    /\ \/ Raise
       \/ /\ ~Inactive /\ page.boundary = {} /\ Fingerprint[page.form] = Approved
          /\ controls' = page.form
          /\ GotoOverSurface("begin") /\ UNCHANGED <<item, seen, results>>

(* Mutant: the controls are not compared with those first read. *)
SurfaceUncompared ==
    /\ pc = "surface2"
    /\ Uncounted /\ Unfenced
    /\ Raise \/ (~Inactive /\ SecondProbe.boundary = {} /\ Goto(then))

(* Mutant: a form that has drifted is looked at until it is back. *)
SurfaceAwaited ==
    /\ pc = "surface2"
    /\ Uncounted /\ Unfenced
    /\ \/ ~Inactive /\ SecondProbe.boundary = {} /\ seen.form = controls /\ Goto(then)
       \/ seen.form # controls /\ Goto("surface1")

(* The second half of require_current_surface.                               *)
SurfaceChecked ==
    /\ pc = "surface2"
    /\ Uncounted /\ Unfenced
    /\ \/ Raise
       \/ /\ ~Inactive /\ SecondProbe.boundary = {} /\ seen.form = controls
          /\ Goto(then)

(* Mutant: the fence is not told that preparation begins. *)
BeginUnfenced ==
    /\ pc = "begin"
    /\ Uncounted /\ Unfenced
    /\ \/ Raise
       \/ ~blocked /\ GotoOverSurface("preread") /\ UNCHANGED <<item, controls, seen, results>>

BeginPreparation ==
    /\ pc = "begin"
    /\ Uncounted /\ UNCHANGED <<blocked, clock, disk, acts, observations, history>>
    /\ \/ Raise /\ UNCHANGED preparing
       \/ /\ ~blocked /\ preparing' = TRUE
          /\ GotoOverSurface("preread") /\ UNCHANGED <<item, controls, seen, results>>

Current == Plan[item]

(* A result is appended; the last item is followed by the final checks.      *)
NextItem ==
    /\ results' = results \cup {Current}
    /\ IF item = Len(Plan) THEN GotoOverSurface("finish") /\ item' = item
                           ELSE GotoOverSurface("preread") /\ item' = item + 1
    /\ UNCHANGED <<controls, seen>>

Matches == page.open /\ page.content[Current] = "approved"

(* An item that has its value already is not touched.                        *)
PreRead ==
    /\ pc = "preread"
    /\ Uncounted /\ Unfenced
    /\ \/ Raise
       \/ Matches /\ NextItem
       \/ /\ page.open /\ ~Matches
          /\ GotoOverSurface(IF Current \in Upload THEN "asset" ELSE "fill")
          /\ UNCHANGED <<item, controls, seen, results>>

(* The file is read into memory and hashed; the upload will use these bytes. *)
ReadAsset ==
    /\ pc = "asset"
    /\ Uncounted /\ Unfenced
    /\ \/ Raise
       \/ /\ disk = "approved" /\ payload' = disk
          /\ pc' = "surface1" /\ then' = "fill"
          /\ UNCHANGED <<state, browser, observation, attempted, report, page, item, controls,
                         seen, results>>

Value == IF Current \in Upload THEN payload ELSE "approved"

Put(content) == [page EXCEPT !.content[Current] = content]

CountAttempt ==
    /\ writes' = IF Current \in Upload THEN writes ELSE writes + 1
    /\ uploads' = IF Current \in Upload THEN uploads + 1 ELSE uploads

(* fill, select_option or set_input_files: counted first; it takes effect or *)
(* not, and in both cases may raise.                                         *)
Fill ==
    /\ pc = "fill"
    /\ CountAttempt
    /\ filled' = [filled EXCEPT ![Current] = @ + 1]
    /\ wroteOn' = wroteOn \cup {seen.form}
    /\ attached' = IF Current \in Upload THEN attached \cup {Value} ELSE attached
    /\ \/ Raise
       \/ /\ page.open
          /\ pc' \in {"surface1", "idle"}
          /\ page' = Put(Value) /\ then' = "readback"
          /\ IF pc' = "idle"
             THEN state' = "BLOCKED" /\ observation' = Null /\ report' = Report(FALSE)
             ELSE UNCHANGED <<state, observation, report>>
          /\ UNCHANGED <<browser, attempted, item, controls, seen, payload, results>>
    /\ UNCHANGED <<fence, clock, disk, acts, observations, exposed>>

(* Mutant: a value that does not stick is written again. *)
ReadBackRetrying ==
    /\ pc = "readback"
    /\ Uncounted /\ Unfenced
    /\ \/ Raise \/ (Matches /\ NextItem)
       \/ ~Matches /\ GotoOverSurface("fill") /\ UNCHANGED <<item, controls, seen, results>>

(* The value is read back and its validity asked for; an upload is then      *)
(* recorded in the artifact repository, which may refuse it.                 *)
ReadBack ==
    /\ pc = "readback"
    /\ Uncounted /\ Unfenced
    /\ Raise \/ (Matches /\ NextItem)

(* The final extraction, form validity and validate_pre_submit.              *)
FinalChecks ==
    /\ pc = "finish"
    /\ Uncounted /\ Unfenced
    /\ \/ Raise
       \/ /\ page.open /\ Fingerprint[page.form] = Approved
          /\ \E verdict \in {"proposeReady", "proposeBlocked"} : GotoOverSurface(verdict)
          /\ UNCHANGED <<item, controls, seen, results>>

Propose ==
    /\ Uncounted /\ Unfenced
    /\ \/ pc = "proposeBlocked" /\ Raise
       \/ pc = "proposeReady" /\ Goto("final1")

(* Mutant: what came up during the last probe is not asked for. *)
CertifyEarly ==
    /\ pc = "final2"
    /\ Uncounted /\ Unfenced
    /\ \/ Raise
       \/ /\ SecondProbe.boundary = {} /\ seen.form = observation.snapshot.form
          /\ state' = "PRE_SUBMIT_READY" /\ observation' = Null /\ pc' = "idle"
          /\ report' = Report(TRUE) /\ KeepResources
          /\ UNCHANGED <<attempted, then, item, controls, seen, payload, results>>

(* The session's own last look at what the executor proposes.                *)
Certify ==
    /\ pc = "final2"
    /\ Uncounted /\ Unfenced
    /\ \/ Raise
       \/ /\ ~Inactive /\ ~expired /\ SecondProbe.boundary = {}
          /\ seen.form = observation.snapshot.form
          /\ state' = "PRE_SUBMIT_READY" /\ observation' = Null /\ pc' = "idle"
          /\ report' = Report(TRUE) /\ KeepResources
          /\ UNCHANGED <<attempted, then, item, controls, seen, payload, results>>

-----------------------------------------------------------------------------
(* The page, the clock and the disk. *)

PageActs(new) ==
    /\ page.open /\ acts < MaxPageActs
    /\ new # page /\ page' = new /\ acts' = acts + 1
    /\ UNCHANGED <<session, thread, fence, clock, disk, observations, history>>

PageChanges ==
    \/ \E f \in Form : PageActs([page EXCEPT !.form = f])
    \/ \E b \in SUBSET Boundaries : PageActs([page EXCEPT !.boundary = b])
    \/ \E i \in Item, v \in {"approved", "other"} : PageActs([page EXCEPT !.content[i] = v])
    \/ PageActs([page EXCEPT !.url = "elsewhere"])
    \/ PageActs([page EXCEPT !.open = FALSE])

(* PrepareNetworkFence.allowed: the entry document and query-free static     *)
(* resources of the target's origin, before preparation.                     *)
Allowed(request) == ~Fixture /\ ~preparing /\ request \in {"entry", "static"}

(* route_request and close_websocket, called while a browser call runs.      *)
Request(request) ==
    /\ page.open /\ pc # "idle"
    /\ IF Allowed(request)
       THEN exposed' = (exposed \/ \E i \in Item : filled[i] > 0) /\ UNCHANGED blocked
       ELSE blocked' = TRUE /\ UNCHANGED exposed
    /\ UNCHANGED <<session, thread, preparing, clock, world, observations, filled, wroteOn, attached>>

SessionExpires ==
    /\ browser /\ ~expired /\ expired' = TRUE
    /\ UNCHANGED <<session, thread, fence, stale, world, observations, history>>

ObservationAges ==
    /\ observation # Null /\ ~stale /\ stale' = TRUE
    /\ UNCHANGED <<session, thread, fence, expired, world, observations, history>>

DiskChanges ==
    /\ acts < MaxPageActs /\ acts' = acts + 1
    /\ disk' = IF disk = "approved" THEN "changed" ELSE "approved"
    /\ UNCHANGED <<session, thread, fence, clock, page, observations, history>>

-----------------------------------------------------------------------------

InCall ==
    \/ Entered \/ Inspected \/ Validated \/ ReadForm \/ SurfaceChecked \/ BeginPreparation
    \/ PreRead \/ ReadAsset \/ Fill \/ ReadBack \/ FinalChecks \/ Propose \/ Certify
    \/ FirstProbe("inspect1", "inspect2") \/ FirstProbe("validate1", "validate2")
    \/ FirstProbe("surface1", "surface2") \/ FirstProbe("final1", "final2")

Next ==
    \/ Enter \/ Close \/ Cancel \/ Inspect \/ InCall
    \/ \E token \in 0 .. MaxObservations : Prepare(token)
    \/ PageChanges \/ SessionExpires \/ ObservationAges \/ DiskChanges
    \/ \E request \in {"entry", "static", "other"} : Request(request)

(* The places with a page.evaluate, locator.evaluate or count, which have no *)
(* timeout, or with the opening and closing of the browser: a page that is   *)
(* busy may hold a call there for ever, and there is no watchdog.            *)
Untimed == {"enter", "inspect1", "inspect2", "validate1", "validate2", "read", "surface1",
            "surface2", "preread", "readback", "finish", "final1", "final2"}

(* Elsewhere Playwright's timeouts or local work let the call go on.         *)
Spec == Init /\ [][Next]_vars /\ WF_vars(pc \notin Untimed /\ InCall)

-----------------------------------------------------------------------------
(* Properties. *)

TypeOK ==
    /\ state \in {"NEW", "OPENING", "OPEN", "INSPECTED", "PREPARING", "PRE_SUBMIT_READY",
                  "BLOCKED", "EXPIRED", "CLOSED"}
    /\ observation \in [id: 1 .. MaxObservations, snapshot: Snapshot] \cup {Null}
    /\ report \in [ready: BOOLEAN, writes: Nat, uploads: Nat] \cup {Null}
    /\ {browser, attempted, blocked, preparing, expired, stale, exposed} \subseteq BOOLEAN
    /\ writes \in Nat /\ uploads \in Nat /\ filled \in [Item -> Nat]
    /\ pc \in {"idle", "enter", "inspect1", "inspect2", "validate1", "validate2", "read",
               "surface1", "surface2", "begin", "preread", "asset", "fill", "readback",
               "finish", "proposeReady", "proposeBlocked", "final1", "final2"}
    /\ then \in {"idle", "begin", "preread", "asset", "fill", "readback", "finish",
                 "proposeReady", "proposeBlocked"}
    /\ item \in 1 .. Len(Plan) /\ results \subseteq Item
    /\ controls \in Form \cup {Null} /\ seen \in Snapshot \cup {Null}
    /\ payload \in {"none", "approved"} /\ disk \in {"approved", "changed"}
    /\ page \in [open: BOOLEAN, url: {"target", "elsewhere"}, form: Form,
                 boundary: SUBSET Boundaries, content: [Item -> {"approved", "other", "changed"}]]
    /\ acts \in 0 .. MaxPageActs /\ observations \in 0 .. MaxObservations
    /\ wroteOn \subseteq Form /\ attached \subseteq {"approved", "changed"}

(* "Once personal data may be present, every network request is denied"      *)
(* (prepare_network_fence.py line 4): whatever the page does, no request is  *)
(* let through after the first write, not even after failures.               *)
NothingLeaves == ~exposed

(* Each write follows a look that showed the controls of the approved        *)
(* fingerprint, although the form may have changed since the inspection, and *)
(* the bytes given to the browser are the approved ones, "not a mutable      *)
(* path" (smartrecruiters_executor.py line 236), although the file may       *)
(* change between its check and the upload.                                  *)
ApprovedWritesOnly ==
    /\ \A f \in wroteOn : Fingerprint[f] = Approved
    /\ attached \subseteq {"approved"}

(* A session writes an item at most once, however often its owner inspects,  *)
(* prepares and fails, and "an attempted mutation is counted even if         *)
(* Playwright failed afterward" (smartrecruiters_executor.py line 341): the  *)
(* counters and every report cover all that may have reached the page.       *)
AttemptedOnceAndCounted ==
    LET fields == {i \in Item \ Upload : filled[i] > 0}
        files  == {i \in Upload : filled[i] > 0}
    IN  /\ \A i \in Item : filled[i] =< 1
        /\ writes = Cardinality(fields) /\ uploads = Cardinality(files)
        /\ report # Null => report.writes = writes /\ report.uploads = uploads

(* "A late denied request cannot be reported as pre-submit ready"            *)
(* (MVP_RETAINED_SESSION.md): when a session becomes ready, its fence is     *)
(* clear, it is in time and on its page, every item was verified, and the    *)
(* form it last saw is the one that was reviewed.                            *)
ReadyIsCertified ==
    [][state' = "PRE_SUBMIT_READY" /\ state # state' =>
          /\ ~blocked /\ ~expired /\ page.open /\ page.url = "target"
          /\ results = Item /\ seen.form = observation.snapshot.form /\ report'.ready]_vars

(* "Closing a session cannot reset/reopen it": a session that failed,        *)
(* expired or was closed never becomes usable again, and its browser, once   *)
(* closed, stays closed.                                                     *)
EndedForGood ==
    [][/\ state \in {"BLOCKED", "EXPIRED", "CLOSED"} => state' \in {"BLOCKED", "EXPIRED", "CLOSED"}
       /\ state = "CLOSED" => state' = "CLOSED"
       /\ state # "NEW" /\ ~browser => ~browser'
       /\ filled' # filled => state = "PREPARING" /\ attempted]_vars

(* A call of which no single evaluation hangs returns, however the page      *)
(* changes: the session compares and gives up, it never looks again until    *)
(* the page is as it was.                                                    *)
CallsReturn == (\A u \in Untimed : []<>(pc # u)) => (pc # "idle" ~> pc = "idle")

(* "A token from another session, target drift, changed locator              *)
(* identity/structure ... prevents preparation" (MVP_RETAINED_SESSION.md):   *)
(* writes only follow a look that showed the very form that was reviewed.    *)
WritesOnReviewedForm ==
    [][\A f \in wroteOn' \ wroteOn : f = observation.snapshot.form]_vars
=============================================================================
