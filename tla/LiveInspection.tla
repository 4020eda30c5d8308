--------------------------- MODULE LiveInspection ---------------------------
(***************************************************************************)
(* One run of a canary or an inspection: the ADP ones of AdpCanary, or the *)
(* SmartRecruiters one, inspect_live_page of                               *)
(* services/smartrecruiters_live_inspector.py, whose page reader the ADP   *)
(* inspector shares, and the route its report is given.                    *)
(*                                                                         *)
(* With auto_open_apply the inspection may follow one entry of the posting *)
(* to the application, under a fence on the requests of the page: what is  *)
(* not a read, and a navigation to another site, is aborted and noted.     *)
(* The page sends requests, navigates and changes between any two calls.   *)
(***************************************************************************)
EXTENDS AdpCanary

VARIABLES
    stage,     \* how far the inspection is; "off" while a canary of AdpCanary runs
    posting,   \* the live page
    entry,     \* apply_navigation["status"]
    chosen,    \* the kind of the selected entry, or Null
    fence,     \* whether requests go through the fence
    denied,    \* blocked: the stages at which the fence denied a request
    sent       \* history: requests of the page, not reads, that left

inspector == <<stage, posting, entry, chosen, fence, denied, sent>>
liveVars  == <<vars, inspector>>

(* place: where the page is.  entries: how many distinct entries select_apply_ *)
(* entry would accept.  challenge: in the text of the page or in a frame.      *)
Posting ==
    [place     : {"posting", "expired", "application", "elsewhere"},
     entries   : {"none", "one", "several"},
     controls  : BOOLEAN, password : BOOLEAN,
     challenge : {"none", "text", "frame"}]

LiveInit ==
    \/ /\ Init
       /\ stage = "off" /\ posting = Null /\ entry = "NOT_REQUESTED"
       /\ chosen = Null /\ fence = FALSE /\ denied = {} /\ sent = 0
    \/ /\ Fresh /\ page.cookies = "gone"
       /\ canary = "smartrecruiters" /\ pc = 0
       /\ stage \in {"look", "pre"}           \* auto_open_apply asks for "pre"
       /\ posting \in {p \in Posting : p.place = "posting" /\ ~p.controls /\ ~p.password /\ p.challenge = "none"}
       /\ entry = "NOT_REQUESTED"
       /\ chosen = Null /\ fence = FALSE /\ denied = {} /\ sent = 0

Inspecting == stage \notin {"off", "done"}

-----------------------------------------------------------------------------
(* The page. *)

Altered ==
    {[posting EXCEPT !.entries = e] : e \in {"none", "one", "several"}}
        \cup {[posting EXCEPT !.controls = ~@]}
        \cup {[posting EXCEPT !.password = TRUE]}
        \cup {[posting EXCEPT !.challenge = c] : c \in {"text", "frame"}}
        \cup IF posting.place = "posting" THEN {[posting EXCEPT !.place = "expired"]} ELSE {}

PageAlters ==
    /\ Inspecting /\ drifts < MaxDrifts /\ drifts' = drifts + 1
    /\ posting' \in Altered \ {posting}
    /\ UNCHANGED <<canary, pc, form, target, seen, actionsSeen, attempts, successes, verified, report, page, landed>>
    /\ UNCHANGED <<stage, entry, chosen, fence, denied, sent>>

(* The page sends something that is not a read, or leaves for another site. *)
PageRequests ==
    /\ Inspecting /\ drifts < MaxDrifts /\ drifts' = drifts + 1
    /\ \/ fence /\ denied' = denied \cup {stage} /\ UNCHANGED <<sent, posting>>
       \/ ~fence /\ sent' = sent + 1 /\ UNCHANGED <<denied, posting>>
       \/ ~fence /\ posting' = [posting EXCEPT !.place = "elsewhere"] /\ UNCHANGED <<denied, sent>>
    /\ UNCHANGED <<canary, pc, form, target, seen, actionsSeen, attempts, successes, verified, report, page, landed>>
    /\ UNCHANGED <<stage, entry, chosen, fence>>

(* What following the entry may lead to; a server may redirect anywhere. *)
Opened ==
    [place : {"application", "elsewhere"}, entries : {"none"}, controls : BOOLEAN,
     password : BOOLEAN, challenge : {"none", "frame"}]

-----------------------------------------------------------------------------
(* What a form shows, for the inspector and for the route. *)
DiscoveryState(f) ==
    IF f.place = "expired"      THEN "job_expired"
    ELSE IF f.password          THEN "auth_boundary"
    ELSE IF f.controls          THEN "inspected"
    ELSE "form_structure_not_discovered"

(* The form, with the frames that could be read.  One that could not is     *)
(* noted, but what is in it is missed; challenge frames are noted as well.   *)
WholeForm ==
    [place |-> posting.place, controls |-> posting.controls, password |-> posting.password,
     complete |-> TRUE, challenged |-> posting.challenge = "frame"]

Readings ==
    {WholeForm} \cup {[WholeForm EXCEPT !.complete = FALSE, !.controls = c, !.password = pw] :
                          c \in {posting.controls, FALSE}, pw \in {posting.password, FALSE}}

-----------------------------------------------------------------------------
(* The inspection. *)

Elsewhere == UNCHANGED <<canary, pc, target, actionsSeen, successes, verified, page, drifts, denied, sent>>
Looking   == UNCHANGED <<seen, report>>
Touchless == UNCHANGED <<posting, attempts, landed>>
Goal(from, to) == stage = from /\ stage' = to

(* A call outside the caught ones raises: no report. *)
InspectionFails ==
    /\ stage \in {"pre", "pre_body", "fence", "unfence", "look", "body"}
    /\ stage' = "done" /\ form' = Null
    /\ Elsewhere /\ Looking /\ Touchless /\ UNCHANGED <<entry, chosen, fence>>

PreForm ==
    /\ Goal("pre", "pre_body")
    /\ form' = WholeForm      \* the document alone
    /\ Elsewhere /\ Looking /\ Touchless /\ UNCHANGED <<entry, chosen, fence>>

(* An expired, challenged or visible form is left alone.  A challenge that is *)
(* only a frame is not looked for here.                                       *)
PreBody ==
    /\ stage = "pre_body" /\ form' = Null
    /\ IF /\ DiscoveryState(form) = "form_structure_not_discovered"
          /\ posting.challenge # "text" /\ posting.place # "expired"
       THEN stage' = "select" /\ UNCHANGED entry
       ELSE stage' = "look" /\ entry' = "ALREADY_FORM_OR_BOUNDARY"
    /\ Elsewhere /\ Looking /\ Touchless /\ UNCHANGED <<chosen, fence>>

(* select_apply_entry: links with one destination are one entry, buttons are *)
(* not; the request names a posting of the trusted host.                     *)
SelectEntry ==
    /\ stage = "select"
    /\ \/ /\ posting.entries = "one" /\ stage' = "fence"
          /\ chosen' \in {"link", "button"} /\ UNCHANGED entry
       \/ /\ stage' = "look" /\ UNCHANGED chosen
          /\ \/ entry' = "CTA_SCAN_FAILED"      \* it raised
             \/ posting.entries = "none" /\ entry' = "NO_APPROVED_CTA"
             \/ posting.entries = "several" /\ entry' = "AMBIGUOUS_APPLY_CTA"
    /\ Elsewhere /\ Looking /\ Touchless /\ UNCHANGED <<form, fence>>

InstallFence ==
    /\ Goal("fence", "follow") /\ fence' = TRUE
    /\ Elsewhere /\ Looking /\ Touchless /\ UNCHANGED <<form, entry, chosen>>

(* The button is not, or no longer only once, there. *)
EntryGone ==
    /\ Goal("follow", "unfence") /\ chosen = "button" /\ posting.entries # "one"
    /\ entry' = "CTA_LOCATOR_CHANGED"
    /\ Elsewhere /\ Looking /\ Touchless /\ UNCHANGED <<form, chosen, fence>>

TakeEffect == posting' \in Opened /\ landed' = Add(landed, "entry")

(* Mutant: the fence goes when the entry was opened, not when it was judged. *)
FollowUnfenced ==
    /\ stage = "follow"
    /\ chosen = "button" => posting.entries = "one"
    /\ attempts' = Add(attempts, "entry")
    /\ \/ stage' = "settle" /\ TakeEffect /\ UNCHANGED entry
       \/ /\ stage' = "unfence" /\ entry' = "ENTRY_NAVIGATION_FAILED"
          /\ TakeEffect \/ UNCHANGED <<posting, landed>>
    /\ fence' = FALSE
    /\ Elsewhere /\ Looking /\ UNCHANGED <<form, chosen>>

Follow ==
    /\ stage = "follow"
    /\ chosen = "button" => posting.entries = "one"
    /\ attempts' = Add(attempts, "entry")
    /\ \/ stage' = "settle" /\ TakeEffect /\ UNCHANGED entry
       \/ /\ stage' = "unfence" /\ entry' = "ENTRY_NAVIGATION_FAILED"      \* it raised
          /\ TakeEffect \/ UNCHANGED <<posting, landed>>
    /\ Elsewhere /\ Looking /\ UNCHANGED <<form, chosen, fence>>

Verdict ==
    IF denied # {}                      THEN "NETWORK_FENCE_BLOCKED"
    ELSE IF posting.place = "elsewhere" THEN "UNTRUSTED_FINAL_URL"
    ELSE "FOLLOWED"

(* The wait, and what came of it; or the wait raised. *)
Settle ==
    /\ Goal("settle", "unfence")
    /\ entry' \in {Verdict, "ENTRY_NAVIGATION_FAILED"}
    /\ Elsewhere /\ Looking /\ Touchless /\ UNCHANGED <<form, chosen, fence>>

Unfence ==
    /\ Goal("unfence", "look") /\ fence' = FALSE
    /\ Elsewhere /\ Looking /\ Touchless /\ UNCHANGED <<form, entry, chosen>>

ReadPosting ==
    /\ Goal("look", "body") /\ form' \in Readings
    /\ Elsewhere /\ Looking /\ Touchless /\ UNCHANGED <<entry, chosen, fence>>

NotFollowed == {"NETWORK_FENCE_BLOCKED", "UNTRUSTED_FINAL_URL", "ENTRY_NAVIGATION_FAILED",
                "CTA_SCAN_FAILED", "CTA_LOCATOR_CHANGED"}

(* Mutant: what shows is reported, also after an incomplete reading. *)
ReportedWhatShows(captcha) ==
    IF captcha                    THEN "captcha_boundary"
    ELSE IF entry \in NotFollowed THEN "form_structure_not_discovered"
    ELSE DiscoveryState(form)

(* The state of the report: a challenge first, then an incomplete reading or *)
(* an entry that was not followed, then what the form shows.                 *)
Reported(captcha) ==
    IF captcha                                      THEN "captcha_boundary"
    ELSE IF ~form.complete \/ entry \in NotFollowed THEN "form_structure_not_discovered"
    ELSE DiscoveryState(form)

(* route_live_inspection, which looks at the recorded form again. *)
PostingRoute(state, captcha) ==
    IF captcha                                     THEN "human_handoff"
    ELSE IF DiscoveryState(form) = "job_expired"   THEN "diagnostic_review"
    ELSE IF DiscoveryState(form) = "auth_boundary" THEN "human_handoff"
    ELSE IF state = "inspected"                    THEN "manifest_review_candidate"
    ELSE "diagnostic_review"

Judge ==
    /\ Goal("body", "done") /\ form' = Null
    /\ LET captcha == form.challenged \/ posting.challenge = "text"
           state   == Reported(captcha)
       IN  /\ seen' = [state |-> state, captcha |-> captcha, auth |-> DiscoveryState(form) = "auth_boundary",
                       controls |-> form.controls, complete |-> form.complete, time |-> Done]
           /\ report' = [status |-> state, route |-> PostingRoute(state, captcha),
                         attempts |-> attempts, successes |-> successes]
    /\ Elsewhere /\ Touchless /\ UNCHANGED <<entry, chosen, fence>>

LiveNext ==
    \/ Next /\ UNCHANGED inspector
    \/ PageAlters \/ PageRequests \/ InspectionFails
    \/ PreForm \/ PreBody \/ SelectEntry \/ InstallFence
    \/ EntryGone \/ Follow \/ Settle \/ Unfence
    \/ ReadPosting \/ Judge

LiveSpec == LiveInit /\ [][LiveNext]_liveVars

-----------------------------------------------------------------------------
(* Properties. *)

(* From the click on the entry until its outcome is decided, no request of  *)
(* the page that is not a read leaves the browser and the page does not     *)
(* take itself to another site, whatever the page does meanwhile and        *)
(* wherever an exception strikes (docstring of follow_one_read_only_apply_  *)
(* entry: deny non-GET traffic and untrusted navigations).                  *)
EntryUnderWay == landed["entry"] = 1 /\ stage \in {"settle", "unfence"}

EntryStaysFenced ==
    [][ EntryUnderWay =>
          /\ sent' = sent
          /\ posting'.place = "elsewhere" => posting.place = "elsewhere" ]_liveVars

(* A form is proposed for a manifest review only when all of it was read,   *)
(* no entry failed on the way to it, and the fence denied nothing up to the *)
(* outcome of the entry: a blocked navigation must not promote partially    *)
(* rendered controls (comment in inspect_live_page).  A request denied      *)
(* between that outcome and the removal of the fence is not reported.       *)
ManifestNeedsCleanEntry ==
    stage = "done" /\ report # Null /\ report.route = "manifest_review_candidate" =>
        /\ seen.complete /\ seen.controls
        /\ entry \notin NotFollowed
        /\ denied \subseteq {"unfence"}
=============================================================================
