------------------------- MODULE MCSubmissionLedger -------------------------
(* A small instance of DurableSubmission over SubmissionLedger: one          *)
(* execution, two submit keys, two pieces of evidence and times 0..MaxTime.  *)
(* The direct calls are those that differ in a way some guard can tell       *)
(* apart.  The service is handed three receipts it accepts - one of them     *)
(* with another CV, one for another opportunity - and three it must refuse.  *)
EXTENDS DurableSubmission, TLC

CONSTANTS MaxTime, p1, p2, k1, k2, e1, q1, q2, v1, ev1, ev2

mcProcess  == {p1, p2}
mcSymmetry == Permutations(mcProcess)

Time == 0 .. MaxTime

mcSubmitKeys   == {k1, k2}
mcExecutions   == {e1}
mcRequisitions == {q1, q2}
mcEvidence     == {ev1, ev2}

-----------------------------------------------------------------------------
(* Receipts: a form with one text control and the CV. *)

mcControl(key, field, mode, provenance, artifact) ==
    [key |-> key, field |-> field, required |-> TRUE, confident |-> TRUE, mode |-> mode,
     provenance_ref |-> provenance, policy_ref |-> FALSE, artifact_ref |-> artifact,
     grounded |-> FALSE, explicit_user_fact |-> TRUE, option_available |-> TRUE]

mcRequest(k) ==
    [submit_key |-> k, execution_id |-> e1, requisition_id |-> q1, apply_url |-> "url",
     form_fingerprint |-> "form", complete |-> TRUE, policy_version_matches |-> TRUE,
     drift_state |-> "Match", runtime_inspection_current |-> TRUE,
     tracker_fingerprint_current |-> TRUE, technical_challenge |-> FALSE,
     existing_submit_keys |-> {}, submissions_today |-> 0, rollout_stage |-> "R2",
     controls |-> {mcControl("name", "candidate.fact", "Verified Fact", TRUE, FALSE),
                   mcControl("cv", "document.cv", "Approved Artifact", FALSE, TRUE)}]

mcPrepared(k, name, cv) ==
    [runtime_state |-> "Pre-submit ready", error_code |-> "none", submit_attempts |-> 0,
     browser_form_valid |-> TRUE, submit_control_observed |-> TRUE, review_gate_reached |-> TRUE,
     execution_id |-> e1, requisition_id |-> q1, requested_url |-> "url", final_url |-> "url",
     observed_form_fingerprint |-> "form", final_form_fingerprint |-> "form",
     submit_key |-> k, policy_eligible |-> TRUE,
     field_results |-> {[key |-> "name", field |-> "candidate.fact", status |-> "Written",
                         value_hash |-> name, readback_hash |-> name, mutation_executed |-> TRUE]},
     file_results |-> {[key |-> "cv", field |-> "document.cv", status |-> "Uploaded",
                        content_hash |-> cv, readback_hash |-> cv, mutation_executed |-> TRUE]},
     required_controls_observed |-> 2, resolved_required_controls |-> 2,
     form_value_write_attempts |-> 1, file_upload_attempts |-> 1]

mcAuthority ==
    [policy_approved |-> TRUE, user_fact_write |-> FALSE, applications_write |-> FALSE,
     captcha_bypass |-> FALSE, browser_external_form_write |-> TRUE,
     final_submit_runtime_flag |-> TRUE, kill_switch_engaged |-> FALSE]

mcDocument(k, cv, t) ==
    [request |-> mcRequest(k), prepared |-> mcPrepared(k, "name", cv),
     authority |-> mcAuthority, observed_at |-> t]

mcReviewed == mcDocument(k1, "cv", 0)

mcDocuments ==
    [reviewed  |-> mcReviewed,
     recut     |-> mcDocument(k1, "other cv", 1),
     elsewhere |-> mcDocument(k2, "cv", 0),
     halted    |-> [mcReviewed EXCEPT !.authority.kill_switch_engaged = TRUE],
     unread    |-> [mcReviewed EXCEPT !.prepared.file_results =
                       {[x EXCEPT !.readback_hash = "other cv"] : x \in @}],
     sponsored |-> [mcReviewed EXCEPT !.request.controls =
                       @ \cup {mcControl("right", "work.requires_sponsorship",
                                         "Verified Fact", TRUE, FALSE)}]]

mcReceipts     == DOMAIN mcDocuments
mcServiceTimes == {1, 2}
mcDigest       == Payload(mcDocuments["reviewed"]) :> "reviewed"
               @@ Payload(mcDocuments["recut"]) :> "recut"
               @@ Payload(mcDocuments["elsewhere"]) :> "elsewhere"
               @@ Payload(mcDocuments["sponsored"]) :> "sponsored"
mcProofs       == {v1} \cup mcReceipts

-----------------------------------------------------------------------------
(* Ledger calls by other code. *)

MCAttempt(k) == [submit_key |-> k, execution_id |-> e1, requisition_id |-> q1, validation_key |-> v1]

MCEvidence(k, q, exact, ref, t) ==
    [submit_key |-> k, execution_id |-> e1, requisition_id |-> q,
     exact_identity_match |-> exact, evidence_ref |-> ref, observed_at |-> t]

mcDirectCalls ==
    {[op |-> "reserve_intent", attempt |-> MCAttempt(k1), validated |-> TRUE,
      requested |-> r, now |-> n] : r \in {0, 1}, n \in {0, 1}}
    \cup {[op |-> "reserve_intent", attempt |-> MCAttempt(k1), validated |-> FALSE,
           requested |-> 0, now |-> 0]}
    \cup {[op |-> "mark_started", submit_key |-> k, execution_id |-> e1, started |-> t] :
             k \in {k1, k2}, t \in {0, MaxTime}}
    \cup {[op |-> "confirm", submit_key |-> k1, evidence |-> MCEvidence(k, q1, TRUE, r, t), now |-> n] :
             k \in {k1}, r \in {ev1, ev2}, t \in Time, n \in {1, MaxTime}}
    \cup {[op |-> "confirm", submit_key |-> k1, evidence |-> e, now |-> MaxTime] :
             e \in {MCEvidence(k2, q1, TRUE, ev1, MaxTime), MCEvidence(k1, q2, TRUE, ev1, MaxTime),
                    MCEvidence(k1, q1, FALSE, ev1, MaxTime)}}
    \cup {[op |-> "has_submit_key", submit_key |-> k2]}

mcCalls == mcDirectCalls \cup ServiceCalls
=============================================================================
