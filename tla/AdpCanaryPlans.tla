--------------------------- MODULE AdpCanaryPlans ---------------------------
(***************************************************************************)
(* The eight ADP canaries of services/adp_*_canary.py, the read-only       *)
(* inspection of services/adp_live_inspector.py and the inspection of a    *)
(* verified session.  Each is a straight line of code: it looks at the     *)
(* page, compares what it saw with reviewed fingerprints, and clicks or    *)
(* writes, and returns a "blocked" report at the first thing that is not   *)
(* as reviewed.  A canary is here the sequence of its steps, its plan;     *)
(* module AdpCanary carries one out.                                       *)
(*                                                                         *)
(* A step names what it acts on, the gates that stop it, and whether an    *)
(* exception of a page call in it is caught (and reported as blocked) or   *)
(* escapes run_*, which then returns no report.                            *)
(***************************************************************************)
EXTENDS Sequences

Step(do, on, gates, caught) == [do |-> do, on |-> on, gates |-> gates, caught |-> caught]

Look(gates)                == Step("look", "page", gates, FALSE)       \* _snapshot
Glance(gates, caught)      == Step("glance", "page", gates, caught)    \* a partial read
Survey                     == Step("survey", "page", {}, FALSE)
Banner(policy)             == Step("banner", policy, {}, FALSE)
Click(what, gates, caught) == Step("click", what, gates, caught)
End(status)                == Step("end", status, {}, FALSE)

(* Reads that only fill the report: of the buttons, and of what followed     *)
(* Continue (post_continue_diagnostics).                                     *)
ListButtons == Glance({}, FALSE)
Diagnose    == Glance({}, FALSE)

(* A write is a fill and a readback.  How it is guarded: "located", the      *)
(* control must still be there, visible and enabled; "filled", an exception  *)
(* of fill is reported; "read", one of the reads is.                         *)
Write(target, guards) ==
    << Step("fill", target, guards, "read" \in guards),
       Step("readback", target, guards, "read" \in guards) >>

IdentityWrites(guards) ==
    Write("first_name", guards) \o Write("last_name", guards) \o Write("email", guards)

(* Country and number; the number's readback may carry the calling code. *)
PhoneWrites(guards) == Write("phone_country", guards) \o Write("phone_number", guards)

-----------------------------------------------------------------------------
EntryGates == {"entry", "off_boundary", "nav_surface"}
FormGates  == {"off_boundary", "inspected", "fill_surface"}

(* Exactly one click, whatever page it leads to. *)
NavigationPlan ==
    << Look(EntryGates \cup {"no_controls"}), Click("apply", {"label"}, FALSE), Survey, End("clicked") >>

(* The preference centre is opened and read, reviewed or not. *)
CookiePreferencesPlan ==
    << Look(EntryGates), Click("preferences", {}, FALSE), Glance({"center"}, FALSE), End("inspected") >>

-----------------------------------------------------------------------------
(* A cookie banner stops the run or, under deny_optional, is denied; without *)
(* a banner the denial is skipped.  The page is not looked at again.         *)
SafeFillEntrance(policy) ==
    << Look(EntryGates), Banner(policy), Click("deny", {}, FALSE), Glance({"banner_gone"}, FALSE),
       Click("apply", {"label"}, FALSE), Glance({"one_tab"}, FALSE) >>

SafeFillPlan(policy) ==
    SafeFillEntrance(policy) \o << Look(FormGates) >> \o IdentityWrites({"located", "filled"})
        \o << Look({"fill_surface"}), ListButtons, End("filled_verified") >>

PreferenceSafeFillEntrance ==
    << Look(EntryGates), Click("preferences", {}, FALSE), Glance({"center", "pref_surface"}, FALSE),
       Click("unselect", {}, FALSE), Glance({}, FALSE), Click("save", {}, TRUE), Glance({"cookies_gone"}, FALSE),
       Look({"off_boundary", "nav_surface"}),
       Click("apply", {"label"}, FALSE), Glance({"one_tab"}, FALSE) >>

(* Mutant: the form's fingerprint is not compared before the writes. *)
PreferenceSafeFillUncompared ==
    PreferenceSafeFillEntrance \o << Look({"off_boundary", "inspected"}) >> \o IdentityWrites({"located", "filled"})
        \o << Look({"fill_surface"}), ListButtons, End("filled_verified") >>

PreferenceSafeFillPlan ==
    PreferenceSafeFillEntrance \o << Look(FormGates) >> \o IdentityWrites({"located", "filled"})
        \o << Look({"fill_surface"}), ListButtons, End("filled_verified") >>

-----------------------------------------------------------------------------
(* Reads the phone controls and writes nothing. *)
PhoneContractPlan ==
    << Look(EntryGates), Click("preferences", {}, TRUE), Glance({"center", "pref_surface"}, FALSE),
       Click("unselect", {}, TRUE), Click("save", {}, TRUE), Glance({"cookies_gone"}, FALSE),
       Look({"off_boundary", "nav_surface"}),
       Click("apply", {"label"}, FALSE), Glance({"one_tab"}, FALSE),
       Look(FormGates), Glance({"phone_controls"}, FALSE), End("inspected") >>

-----------------------------------------------------------------------------
(* Mutant: Apply follows the cookies without another look. *)
ContinueEntranceStale ==
    << Look(EntryGates), Click("preferences", {}, TRUE), Glance({"center", "pref_surface"}, FALSE),
       Click("unselect", {}, TRUE), Click("save", {}, TRUE), Glance({"cookies_gone"}, FALSE),
       Click("apply", {"label"}, FALSE), Glance({"one_tab"}, FALSE) >>

ContinueEntrance ==
    << Look(EntryGates), Click("preferences", {}, TRUE), Glance({"center", "pref_surface"}, FALSE),
       Click("unselect", {}, TRUE), Click("save", {}, TRUE), Glance({"cookies_gone"}, FALSE),
       Look({"off_boundary", "nav_surface"}),
       Click("apply", {"label"}, FALSE), Glance({"one_tab"}, FALSE) >>

(* Mutant: the form is not looked at after the writes. *)
ContinueBlindly ==
    ContinueEntrance \o << Look(FormGates) >> \o IdentityWrites({"located", "filled"})
        \o << Glance({"actions"}, FALSE), Click("continue", {"label"}, FALSE),
              Glance({"one_tab"}, FALSE), Look({}), End("continued_inspected") >>

ContinuePlan ==
    ContinueEntrance \o << Look(FormGates) >> \o IdentityWrites({"located", "filled"})
        \o << Look({"fill_surface"}), Glance({"actions"}, FALSE), Click("continue", {"label"}, FALSE),
              Glance({"one_tab"}, FALSE), Look({}), End("continued_inspected") >>

(* As the Continue canary, with fewer gates: no boundary check after the     *)
(* cookies, no label check of Apply, unguarded writes.                       *)
DiagnosticEntrance ==
    << Look(EntryGates), Click("preferences", {}, TRUE), Glance({"center", "pref_surface"}, FALSE),
       Click("unselect", {}, TRUE), Click("save", {}, TRUE), Glance({"cookies_gone"}, FALSE),
       Look({"nav_surface"}),
       Click("apply", {}, TRUE), Glance({"one_tab"}, FALSE) >>

DiagnosticPlan ==
    DiagnosticEntrance \o << Look({"off_boundary", "fill_surface"}) >> \o IdentityWrites({})
        \o << Look({"fill_surface"}), Glance({"actions"}, FALSE), Click("continue", {"label"}, TRUE),
              Glance({"one_tab"}, FALSE), Look({}), Diagnose, End("diagnosed") >>

(* Writes the phone as well; does not look at the form again before Continue. *)
ProfileV2Entrance ==
    << Look(EntryGates), Click("preferences", {}, FALSE), Glance({"center", "pref_surface"}, FALSE),
       Click("unselect", {}, TRUE), Click("save", {}, TRUE), Glance({"cookies_gone"}, FALSE),
       Look({"nav_surface"}),
       Click("apply", {"label"}, TRUE), Glance({"one_tab"}, FALSE) >>

ProfileV2Plan ==
    ProfileV2Entrance \o << Look({"off_boundary", "fill_surface"}), Glance({"phone_surface"}, TRUE) >>
        \o IdentityWrites({"located", "filled", "read"}) \o PhoneWrites({"located", "filled", "read"})
        \o << Glance({"actions"}, FALSE), Click("continue", {}, FALSE), Look({}), Diagnose,
              End("diagnosed") >>

-----------------------------------------------------------------------------
(* Reads the page and clicks nothing; its report is routed afterwards. *)
LiveInspectionPlan == << Look({}), End("observed") >>

(* Opens the page with the stored session of an operator who passed the     *)
(* one-time code by hand, clicks Apply and reads what follows.              *)
VerifiedSessionPlan ==
    << Glance({"cookies_gone"}, FALSE), Look({"off_boundary", "nav_surface"}),
       Click("apply", {}, TRUE), Glance({"one_tab"}, FALSE),
       Look({"no_code", "no_identity", "controls"}), ListButtons, End("inspected") >>

-----------------------------------------------------------------------------
Canaries == {"navigation", "cookie_preferences", "safe_fill", "safe_fill_deny", "preference_safe_fill",
             "phone_contract", "continue", "diagnostic", "profile_v2", "live_inspection",
             "verified_session"}

Plan(canary) ==
    CASE canary = "navigation"           -> NavigationPlan
      [] canary = "cookie_preferences"   -> CookiePreferencesPlan
      [] canary = "safe_fill"            -> SafeFillPlan("block")
      [] canary = "safe_fill_deny"       -> SafeFillPlan("deny_optional")
      [] canary = "preference_safe_fill" -> PreferenceSafeFillPlan
      [] canary = "phone_contract"       -> PhoneContractPlan
      [] canary = "continue"             -> ContinuePlan
      [] canary = "diagnostic"           -> DiagnosticPlan
      [] canary = "profile_v2"           -> ProfileV2Plan
      [] canary = "live_inspection"      -> LiveInspectionPlan
      [] canary = "verified_session"     -> VerifiedSessionPlan
      [] OTHER                           -> << >>      \* no canary: module LiveInspection

Targets(canary) ==
    {Plan(canary)[i].on : i \in {j \in DOMAIN Plan(canary) : Plan(canary)[j].do = "fill"}}
=============================================================================
