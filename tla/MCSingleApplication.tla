------------------------ MODULE MCSingleApplication ------------------------
(* Two invocations of the same manifest (the same identities, so a row       *)
(* reserved by one is the other's too) and one more launch than processes.   *)
(* The assumptions evaluate the loader of that manifest on every answer its  *)
(* checks can tell apart.                                                    *)
EXTENDS SingleApplication, ReviewedInputs

CONSTANTS p1, p2, k1, e1, q1, v1, ev1, ev2

mcProcess      == {p1, p2}
mcSubmitKeys   == {k1}
mcExecutions   == {e1}
mcRequisitions == {q1}
mcProofs       == {v1}
mcEvidence     == {ev1, ev2}
mcAttemptOf    == [p \in mcProcess |-> [submit_key |-> k1, execution_id |-> e1,
                                        requisition_id |-> q1, validation_key |-> v1]]
mcEvidenceOf   == [p \in mcProcess |-> IF p = p1 THEN ev1 ELSE ev2]

-----------------------------------------------------------------------------
mcNow == 100 * Day

mcFact(v) == [value |-> v, source_ref |-> "explicit", verified |-> TRUE,
              auto_fill_approved |-> TRUE, verified_at |-> mcNow - Day]

mcAnswers(v) ==
    [field : AllowedFields, kind : Kind, required : BOOLEAN, mode : LoaderMode, value : {v},
     policy_ref : OpaquePolicy \cup {NoPolicy}, provenance_ref : {"explicit"}]

mcAccepted(v) == {f \in mcAnswers(v) : FieldAccepted(f, [g \in AllowedFields |-> mcFact(v)])}

(* The loader accepts some answer for every field it allows, and the policy *)
(* blocks what it accepted only where a privacy acknowledgement is unsigned.*)
ASSUME AnswersSettled ==
    /\ \A g \in AllowedFields : \E v \in Value : \E f \in mcAccepted(v) : f.field = g
    /\ \A v \in Value : \A f \in mcAccepted(v) : FieldBlocked(Resolution(f)) <=> UnsignedPrivacy(f)

mcAnswer(g, key, mode, policy) ==
    [field |-> g, kind |-> "checkbox", required |-> TRUE, mode |-> mode, value |-> "unticked",
     policy_ref |-> policy, provenance_ref |-> "explicit", key |-> key, selector |-> key]

mcManifest(identity, mode, policy) ==
    [execution_id |-> identity, opportunity_key |-> "stated",
     reviewed_at |-> mcNow, cv |-> [user_approved |-> TRUE, scope |-> "one_cv_asset", source_ref |-> "opaque"],
     steps |-> <<[fields |-> {mcAnswer("consent.privacy", "privacy", mode, policy)},
                  assertions |-> {}, uploads |-> {[key |-> "cv", selector |-> "cv"]},
                  button |-> [label |-> "Submit", selector |-> "submit"]]>>]

mcFacts == [g \in {"consent.privacy"} |-> mcFact("unticked")]

mcAuthority == [policy_approved |-> TRUE, user_fact_write |-> FALSE, applications_write |-> FALSE,
                captcha_bypass |-> FALSE, browser_external_form_write |-> TRUE,
                final_submit_runtime_flag |-> TRUE, kill_switch_engaged |-> FALSE]

(* A manifest of each kind: one that is executed, those refused at the end. *)
ASSUME ManifestsSettled ==
    \A mode \in {"Approved Policy", "Verified Fact"}, identity \in Identity :
        LET m == mcManifest(identity, mode, "policy") IN
        /\ ManifestAccepted(m, mcFacts, mcNow)
        /\ AttemptMayBeCreated(RequestOf(m, k1), mcAuthority)
               <=> mode = "Approved Policy" /\ identity = "stated"
=============================================================================
