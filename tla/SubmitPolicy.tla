---------------------------- MODULE SubmitPolicy ----------------------------
(***************************************************************************)
(* The pre-submit policy (services/submit_policy.py, contracts/submit.py,  *)
(* domain/submission.py): what each control of a form may be answered      *)
(* with, when a request is eligible, and when an attempt may be executed.  *)
(* Everything here is a function of its arguments; DurableSubmission and   *)
(* ReviewedInputs decide with it.                                          *)
(*                                                                         *)
(* A control is judged by its canonical field, its resolution mode and by  *)
(* which of its references are present: a reference is its presence here.  *)
(* The fields the policy never names are one member, "candidate.fact", and *)
(* all fields under demographic. are one member.  ApprovedSubmitPolicy     *)
(* .validate raises unless every decision A1-A10 is granted, so that no    *)
(* policy reaches the blockers with one of its flags off.                  *)
(***************************************************************************)
EXTENDS Naturals

Mode == {"Verified Fact", "Approved Policy", "Grounded Generated", "Default No",
         "Blank Optional", "Approved Neutral Choice", "Approved Artifact", "Unresolved"}

Unmapped == ""   \* a control without a canonical field

WorkRightFields   == {"work.authorization", "work.requires_sponsorship"}
SalaryFields      == {"compensation.salary_expectation"}
PrivacyFields     == {"consent.privacy_acknowledgement"}
MarketingFields   == {"consent.marketing_opt_in"}
DemographicFields == {"demographic.question"}
NarrativeFields   == {"application.motivation_text", "document.cover_letter"}
DocumentFields    == {"document.cv", "document.cover_letter"}
TechnicalFields   == {"technical.captcha"}

HasProvenance(c) == c.provenance_ref \/ c.policy_ref \/ c.artifact_ref

-----------------------------------------------------------------------------
(* _field_blocker: the reasons why a control blocks the submission. *)

Answered(c) ==
    c.field # Unmapped /\ c.confident /\ c.mode # "Unresolved"

WorkRightUnproven(c) ==
    /\ c.field \in WorkRightFields
    /\ ~(c.explicit_user_fact /\ c.mode = "Verified Fact" /\ c.provenance_ref)

CoveredByPolicy(c) == c.mode = "Approved Policy" /\ c.policy_ref

SalaryUnapproved(c) == c.field \in SalaryFields /\ ~CoveredByPolicy(c)

PrivacyUncovered(c) == c.field \in PrivacyFields /\ c.required /\ ~CoveredByPolicy(c)

MarketingConsented(c) ==
    /\ c.field \in MarketingFields
    /\ IF c.required THEN ~(c.mode = "Default No" /\ c.option_available)
                     ELSE c.mode \notin {"Default No", "Blank Optional"}

DemographicDisclosed(c) ==
    /\ c.field \in DemographicFields
    /\ IF c.required THEN ~(c.mode = "Approved Neutral Choice" /\ c.option_available)
                     ELSE c.mode # "Blank Optional"

NarrativeUngrounded(c) ==
    /\ c.field \in NarrativeFields /\ c.mode = "Grounded Generated"
    /\ ~(c.grounded /\ c.provenance_ref)

DocumentMissing(c) ==
    /\ c.field \in DocumentFields /\ c.required
    /\ ~(c.mode = "Approved Artifact" /\ c.artifact_ref)

FieldBlocked(c) ==
    \/ c.required /\ ~Answered(c)
    \/ c.field \in TechnicalFields
    \/ WorkRightUnproven(c) \/ SalaryUnapproved(c) \/ PrivacyUncovered(c)
    \/ MarketingConsented(c) \/ DemographicDisclosed(c) \/ NarrativeUngrounded(c)
    \/ DocumentMissing(c)
    \/ c.required /\ ~HasProvenance(c)

-----------------------------------------------------------------------------
(* validate_pre_submit.  A request names its identities as one submit key    *)
(* (submit_identity), and says whether all of its components are present.    *)

DailyCap(stage) ==
    IF stage \in {"R0", "R1"} THEN 0 ELSE IF stage = "R2" THEN 1 ELSE 5

Duplicate(rq) == rq.submit_key \in rq.existing_submit_keys

PolicyEligible(rq) ==
    /\ rq.complete /\ rq.policy_version_matches
    /\ rq.drift_state # "Drift"
    /\ rq.runtime_inspection_current /\ rq.tracker_fingerprint_current
    /\ ~rq.technical_challenge
    /\ ~Duplicate(rq)
    /\ \A c \in rq.controls : ~FieldBlocked(c)
    /\ DailyCap(rq.rollout_stage) # 0 => rq.submissions_today < DailyCap(rq.rollout_stage)

(* SubmitAuthority: an authority outside the boundary raises before anything *)
(* is judged; inside it the click needs three switches.                      *)
InsideBoundary(au) ==
    /\ au.policy_approved
    /\ ~au.user_fact_write /\ ~au.applications_write /\ ~au.captcha_bypass

SubmitClickAllowed(au) ==
    /\ InsideBoundary(au)
    /\ au.browser_external_form_write /\ au.final_submit_runtime_flag
    /\ ~au.kill_switch_engaged

ExecutionAllowed(rq, au) ==
    /\ PolicyEligible(rq)
    /\ rq.rollout_stage \notin {"R0", "R1"}
    /\ SubmitClickAllowed(au)

Decision(rq, au) ==
    IF Duplicate(rq) THEN "Duplicate Suppressed"
    ELSE IF ~PolicyEligible(rq) THEN "Blocked"
    ELSE IF ~ExecutionAllowed(rq, au) THEN "Eligible / Runtime Disabled"
    ELSE "Eligible"

(* create_submission_attempt refuses any other decision. *)
AttemptMayBeCreated(rq, au) == ExecutionAllowed(rq, au) /\ Decision(rq, au) = "Eligible"
=============================================================================
