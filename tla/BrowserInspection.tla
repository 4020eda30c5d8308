-------------------------- MODULE BrowserInspection --------------------------
(***************************************************************************)
(* The execution queue with the browser of its runners: the step Inspect   *)
(* of ExecutionQueue is PlaywrightBrowserWorker.inspect of                 *)
(* services/browser_worker.py, called through GitHubReadOnlyBrowserExecutor*)
(* of services/github_executor.py.  An action is the code up to the next   *)
(* browser call; between two calls the page may navigate by itself.        *)
(***************************************************************************)
EXTENDS ExecutionQueue

CONSTANTS Document,   \* what a page may show
          Failures,   \* typed states of an inspection that read no page
          MaxSteps,   \* max_navigation_steps
          MaxTrace    \* bound: the navigations of one inspection

(* auth: its text asks to sign in or to register.  controls: it has any.     *)
ASSUME BrowserAssumption ==
    /\ Document \subseteq [captcha : BOOLEAN, auth : BOOLEAN, controls : BOOLEAN]
    /\ Null \notin Document
    /\ Statuses = {"rendered", "auth_boundary", "captcha_boundary"} \cup Failures
    /\ "navigation_error" \in Failures /\ "rendered" \notin Failures
    /\ MaxSteps \in 1 .. 20 /\ MaxTrace \in Nat

VARIABLES
    visit,    \* visit[r]: the browser call runner r has come to; "none" outside inspect
    tab,      \* tab[r]: the document in its page, or Null
    trace,    \* trace[r]: how many addresses its main frame went through
    looked    \* looked[r]: the document its result describes, or Null

browser     == <<visit, tab, trace, looked>>
browserVars == <<vars, browser>>

Closed == [r \in Runner |-> Null]

BrowserInit ==
    /\ Init
    /\ visit = [r \in Runner |-> "none"] /\ tab = Closed
    /\ trace = [r \in Runner |-> 0] /\ looked = Closed

Inside(r, call) == pc[r] = "browser" /\ visit[r] = call
Moves(r, call)  == visit' = [visit EXCEPT ![r] = call] /\ UNCHANGED vars

(* The context and the browser are closed, whatever comes of it. *)
Leaves(r) ==
    /\ visit' = [visit EXCEPT ![r] = "none"] /\ tab' = [tab EXCEPT ![r] = Null]
    /\ trace' = [trace EXCEPT ![r] = 0]

-----------------------------------------------------------------------------
Visit(r) ==
    /\ Inside(r, "none") /\ Moves(r, "settle")
    /\ \E d \in Document : tab' = [tab EXCEPT ![r] = d]
    /\ trace' = [trace EXCEPT ![r] = 1]
    /\ UNCHANGED looked

(* A navigation of the page.  The same address again is not noted. *)
Navigates(r) ==
    /\ pc[r] = "browser" /\ tab[r] # Null
    /\ \E d \in Document \ {tab[r]} : tab' = [tab EXCEPT ![r] = d]
    /\ \/ UNCHANGED trace
       \/ trace[r] < MaxTrace /\ trace' = [trace EXCEPT ![r] = @ + 1]
    /\ UNCHANGED <<vars, visit, looked>>

(* The wait for the page to settle, which may raise and does not matter.    *)
Settle(r) ==
    /\ Inside(r, "settle") /\ trace[r] <= MaxSteps
    /\ Moves(r, "extract")
    /\ UNCHANGED <<tab, trace, looked>>

TooManySteps(r) ==
    /\ Inside(r, "settle") /\ trace[r] > MaxSteps
    /\ Inspect(r, "navigation_error") /\ Leaves(r) /\ UNCHANGED looked

(* One evaluation in the page: controls, CAPTCHA and sign-in belong together. *)
Extract(r) ==
    /\ Inside(r, "extract") /\ Moves(r, "describe")
    /\ looked' = [looked EXCEPT ![r] = tab[r]]
    /\ UNCHANGED <<tab, trace>>

(* Mutant: a page with controls is rendered, whatever guards it. *)
RuntimeStateControlsFirst(d) ==
    IF d.controls     THEN "rendered"
    ELSE IF d.captcha THEN "captcha_boundary"
    ELSE IF d.auth    THEN "auth_boundary"
    ELSE "rendered"

(* The HTTP status becomes the error code, and does not count. *)
RuntimeState(d) ==
    IF d.captcha                     THEN "captcha_boundary"
    ELSE IF d.auth /\ ~d.controls    THEN "auth_boundary"
    ELSE "rendered"

(* Title and address are read, the fingerprints taken, the browser closed.  *)
Describe(r) ==
    /\ Inside(r, "describe")
    /\ Inspect(r, RuntimeState(looked[r])) /\ Leaves(r) /\ UNCHANGED looked

(* Without Playwright, and for an exception of any call, closing included,  *)
(* the result is a typed failure.                                           *)
Raises(r) ==
    /\ pc[r] = "browser"
    /\ \E f \in Failures : Inspect(r, f)
    /\ Leaves(r) /\ looked' = [looked EXCEPT ![r] = Null]

Browse(r) == Visit(r) \/ Settle(r) \/ TooManySteps(r) \/ Extract(r) \/ Describe(r) \/ Raises(r)

(* The end of the process takes its browser with it. *)
Killed(r) ==
    /\ Fail(r) /\ Leaves(r)
    /\ looked' = IF pc[r] = "browser" THEN [looked EXCEPT ![r] = Null] ELSE looked

BrowserRun(r) == Browse(r) \/ Killed(r) \/ (Protocol(r) /\ UNCHANGED browser)

BrowserNext ==
    \/ Environment /\ UNCHANGED browser
    \/ \E r \in Runner : BrowserRun(r) \/ Navigates(r)

(* An evaluation in the page has no timeout, but the job has one, which ends *)
(* the process (Killed).  A page may navigate for ever: the runner does not  *)
(* wait for it to stop.                                                      *)
BrowserSpec == BrowserInit /\ [][BrowserNext]_browserVars /\ \A r \in Runner : WF_browserVars(BrowserRun(r))

-----------------------------------------------------------------------------
(* Properties. *)

Finished(s) == row[s] # Null /\ row[s].state = "COMPLETED"
ReadFor(s)  == looked[row[s].result.by]

(* A run reports what the sheet holds; and a row is COMPLETED, however late *)
(* or often its result arrived, only if its runner read a document in one   *)
(* piece, without a CAPTCHA, and with something to fill in where it asked   *)
(* for a sign-in (browser_worker.py:275-280, reconcile handler 168-206).    *)
CompletedWasRead ==
    /\ TruthfulReport
    /\ \A s \in Sha : Finished(s) =>
          ReadFor(s) # Null /\ ~ReadFor(s).captcha /\ (ReadFor(s).auth => ReadFor(s).controls)
=============================================================================
