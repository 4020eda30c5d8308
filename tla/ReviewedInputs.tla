--------------------------- MODULE ReviewedInputs ---------------------------
(***************************************************************************)
(* The loader of the reviewed manifest and facts of one application        *)
(* (services/single_application_inputs.py), and the controls the runtime   *)
(* makes of an accepted manifest (_resolutions of                          *)
(* services/single_application_runtime.py) for the pre-submit policy.      *)
(*                                                                         *)
(* The loader runs before a browser exists; the policy runs after every    *)
(* page was filled and the CV uploaded.  Both speak of salary, work right, *)
(* consent and demographic answers, in two files and with two lists of     *)
(* field names, joined by the aliases of _resolutions.                     *)
(*                                                                         *)
(* Names, selectors and texts are compared for equality only.  Values are  *)
(* the classes the checks tell apart, and so are policy and source         *)
(* references; the fields no check names are one member of their prefix.   *)
(* The manifest's execution_id and opportunity_key are kept as the        *)
(* classes the policy tells apart: the loader reads neither.  Reading the  *)
(* two files (owner, mode, size, hash, duplicate keys) and the identities  *)
(* the loader does check (schema, source, reviewer, profile version) are   *)
(* not modelled.                                                           *)
(***************************************************************************)
EXTENDS SubmitPolicy, Integers, Sequences, FiniteSets

TickValue   == {"ticked", "unticked"}                      \* bool
TextValue   == {"", "spaces", "Prefer not to say", "numeral", "text"}
NumberValue == {"int", "float"}
Value       == TickValue \cup TextValue \cup NumberValue

NoPolicy      == "none"                                    \* absent or null
OpaquePolicy  == {"privacy policy", "neutral policy", "policy"}
SourceRef     == {"explicit", "opaque"}                    \* both match _OPAQUE

LoaderPrivacy     == {"consent.privacy", "consent.privacy_acknowledgement"}
LoaderMarketing   == {"consent.marketing", "consent.marketing_opt_in"}
LoaderSalary      == {"compensation.salary_expectation", "compensation.expected_salary",
                      "compensation.expected_annual_gross",
                      "compensation.expected_salary_range"}
WorkFields        == {"work.authorization", "work.work_authorization",
                      "work.sponsorship_required", "work.requires_sponsorship",
                      "work.residency"}
CompensationFields == LoaderSalary \cup {"compensation.current"}
ExplicitFields    == WorkFields \cup CompensationFields \cup LoaderPrivacy
                        \cup LoaderMarketing \cup {"employment.terms"}
AllowedFields     == ExplicitFields \cup DemographicFields
                        \cup {"candidate.fact", "application.motivation_text"}
ProfileFields     == {"profile.experience", "profile.education"}

Kind       == {"text", "email", "tel", "number", "select", "radio", "checkbox"}
LoaderMode == {"Verified Fact", "Approved Policy", "Approved Neutral Choice",
               "Default No", "Blank Optional"}

Day == 86400
Fresh(stamp, now, seconds) == now - stamp \in 0 .. seconds

-----------------------------------------------------------------------------
(* _validate_facts: facts is a function on the canonical fields it states.  *)

FactAccepted(field, fact, now) ==
    /\ field \in AllowedFields \cup ProfileFields
    /\ fact.value \in Value /\ fact.verified /\ fact.auto_fill_approved
    /\ fact.source_ref \in SourceRef
    /\ Fresh(fact.verified_at, now, 30 * Day)
    /\ field \in ExplicitFields => fact.source_ref = "explicit"
    /\ field \in ProfileFields => fact.value \in TextValue \ {"", "spaces"}

FactsAccepted(facts, now) ==
    /\ DOMAIN facts # {}
    /\ \A field \in DOMAIN facts : FactAccepted(field, facts[field], now)

-----------------------------------------------------------------------------
(* _validate_field: the answer proposed for one control. *)

StatesFact(f, facts) ==
    /\ f.field \in AllowedFields \cap DOMAIN facts
    /\ f.value = facts[f.field].value /\ f.provenance_ref = facts[f.field].source_ref

KindFits(f) ==
    /\ f.required => f.value \notin {"", "spaces"}
    /\ f.kind = "checkbox" => f.value \in TickValue
    /\ f.kind = "number" => f.value \in NumberValue \cup {"", "numeral"}
    /\ f.kind \notin {"checkbox", "number"} => f.value \in TextValue

ModeFits(f) ==
    /\ f.policy_ref \in OpaquePolicy \cup {NoPolicy}
    /\ f.mode \in {"Approved Policy", "Approved Neutral Choice"} => f.policy_ref # NoPolicy
    /\ f.mode = "Default No" => f.field \in LoaderMarketing /\ f.value = "unticked"
    /\ f.mode = "Blank Optional" => ~f.required /\ f.value \in {"", "unticked"}
    /\ f.mode = "Approved Neutral Choice" => f.field \in DemographicFields

DemographicFits(f) ==
    IF f.required
    THEN /\ f.mode = "Approved Neutral Choice" /\ f.value = "Prefer not to say"
         /\ f.policy_ref = "neutral policy"
    ELSE /\ f.mode = "Blank Optional" /\ f.value \in {"", "unticked"}
         /\ f.policy_ref # NoPolicy

PrivacyFits(f) ==
    /\ f.kind = "checkbox"
    /\ f.value = "ticked" => f.mode = "Approved Policy" /\ f.policy_ref = "privacy policy"

MarketingFits(f) ==
    /\ f.kind = "checkbox" /\ ~f.required /\ f.value = "unticked"
    /\ f.mode \in {"Default No", "Blank Optional"}

SubjectFits(f) ==
    /\ f.field \in DemographicFields => DemographicFits(f)
    /\ f.field \in WorkFields => f.mode = "Verified Fact"
    /\ f.field \in LoaderSalary => f.mode = "Approved Policy"
    /\ f.field \in LoaderPrivacy => PrivacyFits(f)
    /\ f.field \in LoaderMarketing => MarketingFits(f)

FieldAccepted(f, facts) ==
    /\ f.kind \in Kind /\ f.required \in BOOLEAN /\ f.mode \in LoaderMode
    /\ StatesFact(f, facts) /\ KindFits(f) /\ ModeFits(f) /\ SubjectFits(f)

-----------------------------------------------------------------------------
(* load_reviewed_application_inputs: the manifest.  A page is a record of    *)
(* its fields, profile assertions, resume uploads (none or one) and its one  *)
(* button; keys are unique in the manifest, selectors on a page.             *)

AssertionAccepted(a, facts) ==
    /\ a.field \in ProfileFields \cap DOMAIN facts
    /\ a.value = facts[a.field].value /\ a.provenance_ref = facts[a.field].source_ref

OnPage(s) == s.fields \cup s.assertions \cup s.uploads \cup {s.button}

OneEach(bindings, Name(_)) ==
    \A x, y \in bindings : Name(x) = Name(y) => x = y

StepAccepted(s, facts, last) ==
    /\ s.fields # {} /\ \A f \in s.fields : FieldAccepted(f, facts)
    /\ \A a \in s.assertions : AssertionAccepted(a, facts)
    /\ OneEach(s.assertions, LAMBDA a : a.field)
    /\ Cardinality(s.uploads) =< 1
    /\ s.button.label = IF last THEN "Submit" ELSE "Next"
    /\ OneEach(OnPage(s), LAMBDA b : b.selector)

CvAccepted(cv) == cv.user_approved /\ cv.scope = "one_cv_asset" /\ cv.source_ref \in SourceRef

ManifestAccepted(m, facts, now) ==
    /\ Fresh(m.reviewed_at, now, Day) /\ FactsAccepted(facts, now)
    /\ Len(m.steps) \in 1 .. 5
    /\ \A i \in 1 .. Len(m.steps) : StepAccepted(m.steps[i], facts, i = Len(m.steps))
    /\ \A i, j \in 1 .. Len(m.steps) :
           \A x \in m.steps[i].fields \cup m.steps[i].uploads,
              y \in m.steps[j].fields \cup m.steps[j].uploads :
                  x.key = y.key => i = j /\ x = y
    /\ Cardinality({i \in 1 .. Len(m.steps) : m.steps[i].uploads # {}}) = 1
    /\ CvAccepted(m.cv)

-----------------------------------------------------------------------------
(* _resolutions: the controls the policy judges.  An accepted answer is      *)
(* presented as mapped with high confidence, as an explicit fact of the user *)
(* and as an option the form offers.                                         *)

Aliased(field) ==
    CASE field = "work.sponsorship_required" -> "work.requires_sponsorship"
      [] field = "consent.privacy" -> "consent.privacy_acknowledgement"
      [] field = "consent.marketing" -> "consent.marketing_opt_in"
      [] field \in {"compensation.expected_annual_gross",
                   "compensation.expected_salary_range"} -> "compensation.salary_expectation"
      [] OTHER -> field

Resolution(f) ==
    [field |-> Aliased(f.field), required |-> f.required, confident |-> TRUE,
     mode |-> f.mode, provenance_ref |-> TRUE, policy_ref |-> f.policy_ref # NoPolicy,
     artifact_ref |-> FALSE, grounded |-> FALSE, explicit_user_fact |-> TRUE,
     option_available |-> TRUE]

CvResolution ==
    [field |-> "document.cv", required |-> TRUE, confident |-> TRUE,
     mode |-> "Approved Artifact", provenance_ref |-> FALSE, policy_ref |-> FALSE,
     artifact_ref |-> TRUE, grounded |-> FALSE, explicit_user_fact |-> FALSE,
     option_available |-> TRUE]

Answers(m) == UNION {m.steps[i].fields : i \in 1 .. Len(m.steps)}

Resolutions(m) == {Resolution(f) : f \in Answers(m)} \cup {CvResolution}

(* The two identities run() takes from the manifest itself, which no check   *)
(* of the loader names.  A blank one makes the request incomplete; a missing *)
(* one raises where the request would be built, and no request is made.      *)
Identity == {"stated", "blank", "missing"}

IdentityStated(m) == m.execution_id = "stated" /\ m.opportunity_key = "stated"

(* The request run() puts to validate_pre_submit when it reaches the end. Its *)
(* other identities are checked by the loader or bound to the target before   *)
(* the browser opens, and are never blank.                                    *)
RequestOf(m, key) ==
    [submit_key |-> key, complete |-> IdentityStated(m), policy_version_matches |-> TRUE,
     drift_state |-> "Match", runtime_inspection_current |-> TRUE,
     tracker_fingerprint_current |-> TRUE, technical_challenge |-> FALSE,
     existing_submit_keys |-> {}, submissions_today |-> 0, rollout_stage |-> "R2",
     controls |-> Resolutions(m)]

-----------------------------------------------------------------------------
(* What the two lists of names leave between them. *)

(* A required privacy acknowledgement that the manifest states as a verified *)
(* fact.  It can only be left unticked: a ticked one needs a policy.         *)
UnsignedPrivacy(f) ==
    f.field \in LoaderPrivacy /\ f.required /\ f.mode = "Verified Fact"
=============================================================================
