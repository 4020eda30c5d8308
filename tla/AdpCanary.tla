----------------------------- MODULE AdpCanary -----------------------------
(***************************************************************************)
(* One run of one ADP canary (run_adp_*_canary) on a live page it does not *)
(* control.  An action is one step of the canary's plan; between two steps *)
(* the page may change by itself, and every page call may raise, before or *)
(* after it took effect.                                                   *)
(***************************************************************************)
EXTENDS AdpCanaryPlans, Naturals, FiniteSets

CONSTANTS Canary,      \* the canaries considered
          MaxDrifts,   \* bound: how often the page changes by itself
          Null

ASSUME CanaryAssumption == Canary \subseteq Canaries /\ MaxDrifts \in Nat

VARIABLES
    canary, pc,            \* which one, and the step it is at; 0 when it ended
    form,                  \* what a look under way has read of the form, or Null
    target,                \* what the last check before a click found, and where, or Null
    seen,                  \* its latest snapshot, or Null
    actionsSeen,           \* when it saw the reviewed buttons, or Null
    attempts, successes,   \* the counters; not every report has every one
    verified,              \* field_results: the targets read back as wanted
    report,                \* the report of the run, Null before and if there is none
    page,                  \* the live page
    landed,                \* history: what really happened to the page
    drifts                 \* counted against the bound

vars == <<canary, pc, form, target, seen, actionsSeen, attempts, successes, verified, report,
          page, landed, drifts>>

Clicks   == {"preferences", "unselect", "save", "deny", "apply", "continue",
             "entry"}              \* of a posting: module LiveInspection
Counters == Clicks \cup {"write"}
Effects  == Counters \cup {"another"}    \* another button than the one meant

None == [c \in Counters |-> 0]
Add(counts, c) == [counts EXCEPT ![c] = @ + 1]

(* A clock: how many effects of the run itself the page has seen. *)
Done ==
    landed["preferences"] + landed["unselect"] + landed["save"] + landed["deny"] + landed["apply"]
        + landed["continue"] + landed["entry"] + landed["write"] + landed["another"]

-----------------------------------------------------------------------------
(* What a canary sees of the page. *)

RuntimeState(p) ==
    IF p.captcha                THEN "captcha_boundary"
    ELSE IF p.controls # "none" THEN "inspected"
    ELSE IF p.entries # "none"  THEN "application_entry_observed"
    ELSE IF p.auth              THEN "auth_boundary"
    ELSE "form_structure_not_discovered"

(* A look reads the form of the document and of its frames first; a frame   *)
(* that cannot be read is left out, with the controls in it.  The text of   *)
(* the page, and with it the boundaries, is read after that.                *)
FormRead == {[controls |-> c, entries |-> page.entries, dom |-> page.dom] : c \in {page.controls, "none"}}

Read(f) == [page EXCEPT !.controls = f.controls, !.entries = f.entries, !.dom = f.dom]

Snapshot(p) ==
    [state |-> RuntimeState(p), captcha |-> p.captcha, auth |-> p.auth, controls |-> p.controls,
     entries |-> p.entries, dom |-> p.dom, time |-> Done]

(* The snapshot a page that opened a second tab is replaced by. *)
NotInspected ==
    [state |-> "unsupported", captcha |-> FALSE, auth |-> FALSE, controls |-> "none",
     entries |-> "none", dom |-> 0, time |-> Done]

(* What the fingerprints cover: no element index, and of the entry surface   *)
(* not whether signing in is asked for.                                      *)
NavigationSurface(s) == <<s.state, s.captcha, s.controls # "none", s.entries>>
SafeFillSurface(s)   == <<s.state, s.captcha, s.auth, s.controls>>

ReviewedNavigation == <<"application_entry_observed", FALSE, FALSE, "reviewed">>
ReviewedForm       == <<"inspected", FALSE, FALSE, "reviewed">>

LookPasses(gate, s) ==
    CASE gate = "entry"        -> s.state = "application_entry_observed"
      [] gate = "off_boundary" -> ~s.captcha /\ ~s.auth
      [] gate = "no_controls"  -> s.controls = "none"
      [] gate = "nav_surface"  -> NavigationSurface(s) = ReviewedNavigation
      [] gate = "inspected"    -> s.state = "inspected"
      [] gate = "fill_surface" -> SafeFillSurface(s) = ReviewedForm
      [] gate = "no_code"      -> s.controls # "verification"
      [] gate = "no_identity"  -> s.controls \notin {"reviewed", "changed"}
      [] gate = "controls"     -> s.controls # "none"

(* One country control and one number, both to be seen and used. *)
PhoneFound(p)    == p.phone # "none"
PhoneReviewed(p) == p.phone = "reviewed"

GlancePasses(gate, p) ==
    CASE gate = "center"         -> p.cookies \in {"center", "odd_center"}
      [] gate = "pref_surface"   -> p.cookies = "center"
      [] gate = "cookies_gone"   -> p.cookies = "gone"
      [] gate = "banner_gone"    -> p.cookies \notin {"banner", "odd_banner"}
      [] gate = "one_tab"        -> p.tabs = 1
      [] gate = "actions"        -> p.actions = "reviewed"
      [] gate = "phone_controls" -> PhoneFound(p)
      [] gate = "phone_surface"  -> PhoneFound(p) /\ PhoneReviewed(p)

(* What the checks before a click may find.  The entry is found again by the *)
(* index it had in the snapshot; buttons are found by id or name.           *)
EntryFound ==
    IF page.dom = seen.dom /\ page.entries = seen.entries THEN {"apply"}
    ELSE {"apply", "nothing", "another"}

ButtonFound(what) ==
    CASE what \in {"preferences", "deny"} ->
            IF page.cookies = "banner" THEN {what} ELSE {"nothing"}
      [] what \in {"unselect", "save"} ->
            IF page.cookies \in {"center", "odd_center"} THEN {what} ELSE {"nothing"}
      [] what = "continue" -> IF page.actions = "reviewed" THEN {what} ELSE {what, "nothing"}

Found(what) == IF what = "apply" THEN EntryFound ELSE ButtonFound(what)

(* What the click itself meets: every call resolves its locator anew, and   *)
(* the page may have changed since the checks.                              *)
TargetMoved == page.dom # target.dom \/ page.entries # target.entries

Met(what) ==
    CASE what = "apply" -> IF TargetMoved THEN {"apply", "nothing", "another"} ELSE {target.what}
      [] what \in {"preferences", "deny"} /\ page.cookies = "odd_banner" -> {what, "nothing"}
      [] OTHER -> ButtonFound(what)

-----------------------------------------------------------------------------
(* The page, as the canaries use it. *)

(* What the page may show for controls: the form of a guest's identity, as  *)
(* reviewed or changed; to a session also the field of the one-time code,   *)
(* or an application that asks for neither.                                 *)
ControlKinds == {"none", "reviewed", "changed"}
    \cup IF canary = "verified_session" THEN {"verification", "application"} ELSE {}

(* What Apply and Continue can lead to; and what any click that lands can. *)
Applied ==
    {[page EXCEPT !.entries = "none", !.controls = c, !.held = h] :
        c \in IF canary = "verified_session" THEN ControlKinds ELSE {"reviewed"},
        h \in {{}, Targets(canary)}}

Continued ==
    {[page EXCEPT !.controls = c, !.auth = a] :
        c \in {"none", "reviewed", "changed"}, a \in BOOLEAN}

After(effect) ==
    CASE effect = "preferences"        -> {[page EXCEPT !.cookies = "center"]}
      [] effect \in {"save", "deny"}   -> {[page EXCEPT !.cookies = "gone"]}
      [] effect = "apply"              -> Applied
      [] effect = "continue"           -> Continued
      [] OTHER                         -> {page}

(* The page changes by itself in one respect. *)
Drifted(p) ==
    {[p EXCEPT !.entries = e] : e \in {"none", "reviewed", "changed"}}
        \cup {[p EXCEPT !.controls = c] : c \in ControlKinds}
        \cup {[p EXCEPT !.captcha = TRUE], [p EXCEPT !.auth = TRUE], [p EXCEPT !.dom = @ + 1],
              [p EXCEPT !.tabs = 2], [p EXCEPT !.actions = "changed"], [p EXCEPT !.phone = "changed"],
              [p EXCEPT !.phone = "none"]}
        \cup {[p EXCEPT !.cookies = c] : c \in {"gone", "banner", "odd_banner", "odd_center"}}
        \cup {[p EXCEPT !.held = @ \ {t}] : t \in p.held}

Drift ==
    /\ pc # 0 /\ drifts < MaxDrifts
    /\ drifts' = drifts + 1
    /\ page' \in Drifted(page) \ {page}
    /\ UNCHANGED <<canary, pc, form, target, seen, actionsSeen, attempts, successes, verified, report, landed>>

-----------------------------------------------------------------------------
Fresh ==
    /\ form = Null /\ target = Null /\ seen = Null /\ actionsSeen = Null /\ attempts = None /\ successes = None
    /\ verified = {} /\ report = Null
    /\ page \in [entries : {"reviewed"}, controls : {"none"}, captcha : {FALSE}, auth : {FALSE},
                 cookies : {"banner", "gone"}, actions : {"reviewed"}, phone : {"reviewed"},
                 dom : {0}, held : {{}}, tabs : {1}]
    /\ landed = [e \in Effects |-> 0] /\ drifts = 0

Init == canary \in Canary /\ pc = 1 /\ Fresh

step == Plan(canary)[pc]
At(do) == pc # 0 /\ step.do = do

(* The step's outcome for the run.  A blocked navigation canary also routes. *)
Return(status, route) ==
    /\ report' = [status |-> status, route |-> route, attempts |-> attempts', successes |-> successes']
    /\ pc' = 0

(* An exception that leaves run_* ends the process without a report, except *)
(* for profile v2: its main writes a blocked one that names the preflight   *)
(* and has nothing but zeros.                                               *)
PreflightFailed == [status |-> "preflight_failed", route |-> "none", attempts |-> None, successes |-> None]

Escapes ==
    /\ pc' = 0
    /\ IF canary = "profile_v2" THEN report' = PreflightFailed ELSE UNCHANGED report

(* A blocked run returns, unless closing the browser on the way out raises. *)
Blocked ==
    \/ Return("blocked", IF canary = "navigation" THEN "diagnostic_review" ELSE "none")
    \/ Escapes

Goto(next) == pc' = next /\ UNCHANGED report

Counted   == UNCHANGED <<attempts, successes>>
Untouched == UNCHANGED <<page, landed>>
SameRun   == UNCHANGED <<canary, drifts>>
Unaimed   == SameRun /\ UNCHANGED target
Steady    == Unaimed /\ UNCHANGED form

(* A call outside the effect of the step raises; at the end, the closing of *)
(* the browser, whose exception replaces the report.                        *)
Exception ==
    /\ pc # 0 /\ target = Null /\ Counted
    /\ IF step.caught THEN Blocked ELSE Escapes
    /\ form' = Null
    /\ Untouched /\ Unaimed /\ UNCHANGED <<seen, actionsSeen, verified>>

ReadForm ==
    /\ At("look") \/ (At("survey") /\ page.tabs = 1)
    /\ form = Null /\ form' \in FormRead
    /\ Counted /\ Untouched /\ Unaimed /\ UNCHANGED <<pc, seen, actionsSeen, verified, report>>

(* The rest of a look: the text of the page, and the gates. *)
LookStep ==
    /\ At("look") /\ form # Null /\ Counted
    /\ seen' = Snapshot(Read(form)) /\ form' = Null
    /\ IF \A g \in step.gates : LookPasses(g, seen') THEN Goto(pc + 1) ELSE Blocked
    /\ Untouched /\ Unaimed /\ UNCHANGED <<actionsSeen, verified>>

GlanceStep ==
    /\ At("glance") /\ Counted
    /\ IF \A g \in step.gates : GlancePasses(g, page) THEN Goto(pc + 1) ELSE Blocked
    /\ actionsSeen' = IF "actions" \in step.gates /\ page.actions = "reviewed" THEN Done ELSE actionsSeen
    /\ Untouched /\ Steady /\ UNCHANGED <<seen, verified>>

(* The navigation canary inspects whatever its click led to. *)
SurveyStep ==
    /\ At("survey")
    /\ \/ form # Null /\ seen' = Snapshot(Read(form))
       \/ form = Null /\ page.tabs # 1 /\ seen' = NotInspected
    /\ form' = Null /\ Goto(pc + 1)
    /\ Counted /\ Untouched /\ Unaimed /\ UNCHANGED <<actionsSeen, verified>>

(* The denial is two steps: the click, and the check that the banner went. *)
BannerStep ==
    /\ At("banner") /\ Counted
    /\ \/ page.cookies \notin {"banner", "odd_banner"} /\ Goto(pc + 3)
       \/ page.cookies = "odd_banner" /\ Blocked
       \/ page.cookies = "banner" /\ IF step.on = "deny_optional" THEN Goto(pc + 1) ELSE Blocked
    /\ Untouched /\ Steady /\ UNCHANGED <<seen, actionsSeen, verified>>

(* The control is gone, moved or relabelled: no click is attempted. *)
Unresolved ==
    /\ At("click") /\ target = Null /\ Counted
    /\ \/ "nothing" \in Found(step.on)
       \/ "another" \in Found(step.on) /\ "label" \in step.gates
    /\ Blocked
    /\ Untouched /\ Steady /\ UNCHANGED <<seen, actionsSeen, verified>>

Aim(e) ==
    /\ target' = [what |-> e, dom |-> page.dom, entries |-> page.entries]
    /\ Counted /\ Untouched /\ SameRun
    /\ UNCHANGED <<pc, form, seen, actionsSeen, verified, report>>

(* Mutant: the label is not compared. *)
ResolvedUnlabelled ==
    /\ At("click") /\ target = Null
    /\ \E e \in Found(step.on) \ {"nothing"} : Aim(e)

(* The last of the checks before a click: the label's, or the tag's where   *)
(* the label is not compared.                                               *)
Resolved ==
    /\ At("click") /\ target = Null
    /\ \E e \in Found(step.on) \ {"nothing"} :
        ("label" \in step.gates => e # "another") /\ Aim(e)

Landed(effect, after) == landed' = Add(landed, effect) /\ page' = after

(* One call: it resolves, waits and clicks, or raises, before or after.     *)
ClickStep ==
    /\ At("click") /\ target # Null
    /\ \E e \in Met(step.on) :
        /\ attempts' = Add(attempts, step.on)
        /\ \/ /\ e # "nothing" /\ \E p \in After(e) : Landed(e, p)
              /\ successes' = Add(successes, step.on) /\ Goto(pc + 1)
           \/ /\ Untouched \/ (e # "nothing" /\ \E p \in After(e) : Landed(e, p))
              /\ UNCHANGED successes /\ Blocked
    /\ target' = Null
    /\ SameRun /\ UNCHANGED <<form, seen, actionsSeen, verified>>

-----------------------------------------------------------------------------
(* Writes. *)

Missing == page.controls = "none"

(* The control is not there any more. *)
NotLocated ==
    /\ At("fill") /\ Missing /\ Counted
    /\ IF "located" \in step.gates THEN Blocked ELSE Escapes
    /\ Untouched /\ Steady /\ UNCHANGED <<seen, actionsSeen, verified>>

AlreadyHeld ==
    /\ At("fill") /\ ~Missing /\ step.on \in page.held
    /\ Goto(pc + 1)
    /\ Counted /\ Untouched /\ Steady /\ UNCHANGED <<seen, actionsSeen, verified>>

(* The page may keep something else than it was given. *)
Kept == {[page EXCEPT !.held = @ \cup {step.on}], page}

(* Mutant: a fill is counted when it returned. *)
FillCountedLate ==
    /\ At("fill") /\ ~Missing /\ step.on \notin page.held
    /\ \/ /\ \E p \in Kept : Landed("write", p)
          /\ attempts' = Add(attempts, "write")
          /\ successes' = Add(successes, "write") /\ Goto(pc + 1)
       \/ /\ Untouched \/ \E p \in Kept : Landed("write", p)
          /\ Counted
          /\ IF "filled" \in step.gates THEN Blocked ELSE Escapes
    /\ Steady /\ UNCHANGED <<seen, actionsSeen, verified>>

Fill ==
    /\ At("fill") /\ ~Missing /\ step.on \notin page.held
    /\ attempts' = Add(attempts, "write")
    /\ \/ /\ \E p \in Kept : Landed("write", p)
          /\ successes' = Add(successes, "write") /\ Goto(pc + 1)
       \/ /\ Untouched \/ \E p \in Kept : Landed("write", p)      \* fill raised
          /\ UNCHANGED successes
          /\ IF "filled" \in step.gates THEN Blocked ELSE Escapes
    /\ Steady /\ UNCHANGED <<seen, actionsSeen, verified>>

(* The readback is what was wanted; a number may carry its calling code. *)
Verified == step.on \in page.held

ReadBack ==
    /\ At("readback") /\ ~Missing /\ Counted
    /\ IF Verified
       THEN verified' = verified \cup {step.on} /\ Goto(pc + 1)
       ELSE UNCHANGED verified /\ Blocked
    /\ Untouched /\ Steady /\ UNCHANGED <<seen, actionsSeen>>

-----------------------------------------------------------------------------
(* Where the page it reached is sent.  Two canaries route, and so does the  *)
(* command that reads the report of a read-only inspection.                 *)

(* Mutant: controls are enough for a manifest review. *)
NextRouteControlsFirst(s) ==
    IF s.controls # "none"      THEN "manifest_review_candidate"
    ELSE IF s.captcha \/ s.auth THEN "human_handoff"
    ELSE "diagnostic_review"

NextRoute(s) ==
    IF s.captcha \/ s.auth      THEN "human_handoff"
    ELSE IF s.controls # "none" THEN "manifest_review_candidate"
    ELSE "diagnostic_review"

LiveRoute(s) ==
    IF s.captcha \/ s.state = "auth_boundary"      THEN "human_handoff"
    ELSE IF s.controls # "none"                    THEN "manifest_review_candidate"
    ELSE IF s.entries # "none"                     THEN "navigation_review_candidate"
    ELSE "diagnostic_review"

Route ==
    CASE canary \in {"navigation", "continue"} -> NextRoute(seen)
      [] canary = "live_inspection"            -> LiveRoute(seen)
      [] OTHER                                 -> "none"

Finish ==
    /\ At("end") /\ Counted
    /\ Return(step.on, Route)
    /\ Untouched /\ Steady /\ UNCHANGED <<seen, actionsSeen, verified>>

Next ==
    \/ Drift \/ Exception
    \/ ReadForm \/ LookStep \/ GlanceStep \/ SurveyStep \/ BannerStep
    \/ Unresolved \/ Resolved \/ ClickStep
    \/ NotLocated \/ AlreadyHeld \/ Fill \/ ReadBack
    \/ Finish

Spec == Init /\ [][Next]_vars

-----------------------------------------------------------------------------
(* Properties. *)

Lands(e) == landed'[e] > landed[e]

(* A click on another button is one for Apply that went astray.            *)
Landings(c) == IF c = "apply" THEN landed[c] + landed["another"] ELSE landed[c]

(* No run does anything twice, whatever raised when, and what run_* returns *)
(* never hides what was done to the page: no counter is below the clicks    *)
(* and writes that took effect, none claims more successes than there were. *)
(* The workflows accept a run by these counters.  Excepted is the report    *)
(* that profile v2's main makes of an exception: it speaks of a preflight   *)
(* and has zeros, whatever the run has done.                                *)
ReportsCoverEffects ==
    /\ \A c \in Clicks : Landings(c) <= 1
    /\ landed["write"] <= Cardinality(Targets(canary))
    /\ report # Null /\ report.status # "preflight_failed" =>
          \A c \in Counters :
              report.successes[c] <= Landings(c) /\ Landings(c) <= report.attempts[c]

(* Apply is clicked only on a page the canary looked at after everything it *)
(* did itself, and that look showed the reviewed entry surface and no       *)
(* CAPTCHA; and another button is clicked in its place only if the page     *)
(* moved after the label had been read there: the docs have any drift stop  *)
(* it (GD004_ADP_NAVIGATION_CANARY.md), but the click finds its target by   *)
(* the index again.  Four canaries promise less: denying the banner is not  *)
(* followed by a new look, after the cookies the diagnostic and profile-v2  *)
(* canaries do not ask whether signing in is demanded, which the            *)
(* fingerprint does not cover, and the diagnostic and the verified-session  *)
(* canaries do not compare the label.                                       *)
ApplyOnFreshLook ==
    [][ Lands("apply") \/ Lands("another") =>
            /\ NavigationSurface(seen) = ReviewedNavigation
            /\ canary # "safe_fill_deny" => seen.time = Done
            /\ canary \notin {"diagnostic", "profile_v2"} => ~seen.auth
            /\ Lands("another") /\ canary \notin {"diagnostic", "verified_session"} => TargetMoved ]_vars

(* Candidate values are written only by the canaries that may, only after   *)
(* Apply and before Continue, and only once the form was looked at since    *)
(* Apply and was the reviewed one, without boundary.                        *)
ProfileWrittenOnReviewedForm ==
    [][ Lands("write") =>
            /\ canary \notin {"navigation", "cookie_preferences", "phone_contract"}
            /\ successes["apply"] = 1 /\ landed["continue"] = 0
            /\ SafeFillSurface(seen) = ReviewedForm
            /\ seen.time + landed["write"] = Done ]_vars

(* Continue is clicked only when every target was read back as wanted and   *)
(* nothing was written since the buttons were seen to be the reviewed ones; *)
(* and, except by profile v2, since the form was last seen to be the        *)
(* reviewed one.                                                            *)
ContinueOnVerifiedForm ==
    [][ Lands("continue") =>
            /\ verified = Targets(canary) /\ verified # {}
            /\ actionsSeen = Done
            /\ SafeFillSurface(seen) = ReviewedForm
            /\ canary # "profile_v2" => seen.time = Done ]_vars

(* The verdict of a finished run is about the page it ended on, looked at   *)
(* after its last click.  A boundary goes to a human (to the inspection,    *)
(* signing in is one only where no control shows); only a page with         *)
(* controls goes to a manifest review, only one with an entry and none to a *)
(* navigation review; and a session counts as recognised only where neither *)
(* the one-time code nor a guest's identity is asked for.                   *)
BoundarySeen ==
    IF canary = "live_inspection" THEN seen.captcha \/ seen.state = "auth_boundary"
    ELSE seen.captcha \/ seen.auth

RouteFollowsLastLook ==
    report # Null /\ report.status # "blocked" =>
        /\ report.route # "none" =>
              /\ seen.time = Done
              /\ (report.route = "human_handoff") = BoundarySeen
              /\ report.route = "manifest_review_candidate" => seen.state = "inspected"
              /\ report.route = "navigation_review_candidate" =>
                    seen.state = "application_entry_observed" /\ seen.controls = "none"
        /\ canary = "verified_session" =>
              /\ seen.time = Done /\ successes["apply"] = 1
              /\ seen.controls = "application"
=============================================================================
