------------------------- MODULE DurableSubmission -------------------------
(***************************************************************************)
(* DurableSingleSubmission (services/durable_submission.py): the service   *)
(* that turns a reviewed receipt - the request, the prepared form with its *)
(* readbacks, the authority - into the one durable intent, and later into  *)
(* the permission to dispatch it.                                          *)
(*                                                                         *)
(* Each of its two operations makes two calls of the ledger, in two        *)
(* transactions: reserve asks has_intent and then reserve_intent;          *)
(* record_before_dispatch reads a snapshot, compares it with its own       *)
(* receipt and then calls mark_started.  Any process may do anything in    *)
(* between, other users of the ledger included (DirectCalls, such as the   *)
(* single-application runtime), every call may fail on either side of its  *)
(* commit, and the two operations may be called with different receipts,   *)
(* by different processes, before and after a restart.                     *)
(*                                                                         *)
(* A receipt is data: the checks of _validate_receipt on shapes, lengths   *)
(* and types are left out, its comparisons are kept.  reconcile adds       *)
(* nothing to confirm.                                                     *)
(***************************************************************************)
EXTENDS SubmissionLedger, SubmitPolicy, FiniteSets

CONSTANTS Receipts,     \* names of the receipts the service may be handed
          Document,     \* Document[r]: what receipt r says
          Digest,       \* Digest[payload]: SHA-256 of what a proof freezes
          ServiceTimes, \* the instants its calls may be made at
          MaxAge,       \* the 120 seconds a review stays fresh
          DirectCalls   \* the ledger calls other code makes on its own

VARIABLES
    service,     \* service[p]: the operation p is in, or Null
    intent,      \* the receipt whose reservation was committed, or Null
    dispatched   \* receipts for which record_before_dispatch has returned

serviceVars == <<service, intent, dispatched>>
durableVars == <<vars, serviceVars>>

DurableInit ==
    /\ Init
    /\ service = [p \in Process |-> Null]
    /\ intent = Null /\ dispatched = {}

-----------------------------------------------------------------------------
(* _validate_receipt. *)

Required(d) == {c \in d.request.controls : c.required}

RequestCurrent(rq) ==
    /\ rq.rollout_stage = "R2" /\ rq.drift_state = "Match"
    /\ rq.runtime_inspection_current /\ rq.tracker_fingerprint_current
    /\ rq.submissions_today = 0
    /\ \A c, e \in rq.controls : c.key = e.key => c = e

FormReady(pr) ==
    /\ pr.runtime_state = "Pre-submit ready" /\ pr.error_code = "none"
    /\ pr.submit_attempts = 0
    /\ pr.browser_form_valid /\ pr.submit_control_observed /\ pr.review_gate_reached

(* What was prepared is what was asked for. *)
SameTarget(rq, pr) ==
    /\ pr.execution_id = rq.execution_id /\ pr.requisition_id = rq.requisition_id
    /\ pr.requested_url = rq.apply_url /\ pr.final_url = rq.apply_url
    /\ pr.observed_form_fingerprint = rq.form_fingerprint
    /\ pr.final_form_fingerprint = rq.form_fingerprint
    /\ pr.submit_key = rq.submit_key /\ pr.policy_eligible

OneResultEach(results) == \A x, y \in results : x.key = y.key => x = y

(* SAFE_VERIFIED_FIELDS and DYNAMIC_AI_FIELDS: what a form writer may write. *)
WritableFields == {"candidate.fact", "application.motivation_text"}

FieldVerified(x) ==
    /\ x.field \in WritableFields
    /\ x.status \in {"Written", "Already matched"} /\ x.value_hash = x.readback_hash
    /\ (x.status = "Written") = x.mutation_executed

CvVerified(x) ==
    /\ x.field = "document.cv" /\ x.status \in {"Uploaded", "Already attached"}
    /\ x.content_hash = x.readback_hash
    /\ (x.status = "Uploaded") = x.mutation_executed

ResultsVerified(d) ==
    LET fields == d.prepared.field_results
        files  == d.prepared.file_results
    IN
    /\ OneResultEach(fields \cup files) /\ fields \cap files = {}
    /\ \A x \in fields : FieldVerified(x)
    /\ Cardinality(files) = 1 /\ \A x \in files : CvVerified(x)
    /\ \A x \in fields \cup files :
           \E c \in d.request.controls : c.key = x.key /\ c.field = x.field
    /\ d.prepared.form_value_write_attempts = Cardinality({x \in fields : x.mutation_executed})
    /\ d.prepared.file_upload_attempts = Cardinality({x \in files : x.mutation_executed})

(* Every required control was resolved, by a result of its own kind. *)
RequiredResolved(d) ==
    /\ Cardinality(Required(d)) = d.prepared.required_controls_observed
    /\ Cardinality(Required(d)) = d.prepared.resolved_required_controls
    /\ \E c \in Required(d) : c.field = "document.cv"
    /\ \A c \in Required(d) :
           \E x \in IF c.field = "document.cv" THEN d.prepared.file_results
                                               ELSE d.prepared.field_results :
               x.key = c.key /\ x.field = c.field

ReceiptAccepted(d, now) ==
    /\ now - d.observed_at \in 0 .. MaxAge
    /\ RequestCurrent(d.request) /\ FormReady(d.prepared)
    /\ SameTarget(d.request, d.prepared)
    /\ ResultsVerified(d) /\ RequiredResolved(d)

ExecutionAllowedFor(d, now) ==
    ReceiptAccepted(d, now) /\ AttemptMayBeCreated(d.request, d.authority)

(* The starts of an operation that go on to the ledger. *)
Executable ==
    {[receipt |-> x[1], now |-> x[2]] :
        x \in {y \in Receipts \X ServiceTimes : ExecutionAllowedFor(Document[y[1]], y[2])}}

-----------------------------------------------------------------------------
(* _proof_key, and the ledger calls the service makes. *)

AnswersOf(d) == {<<x.key, x.field, x.value_hash>> : x \in d.prepared.field_results}
CvOf(d)      == {x.content_hash : x \in d.prepared.file_results}

SourcesOf(d) ==
    {<<c.key, c.field, c.provenance_ref, c.policy_ref, c.artifact_ref>> : c \in d.request.controls}

Payload(d) ==
    [validation |-> <<d.request.execution_id, d.request.form_fingerprint>>,
     submit |-> d.request.submit_key, target |-> d.prepared.final_url,
     form |-> d.prepared.final_form_fingerprint,
     fields |-> AnswersOf(d), cv |-> CvOf(d), sources |-> SourcesOf(d)]

ProofKey(d) == Digest[Payload(d)]

(* create_submission_attempt with the proof in place of the validation key. *)
ReceiptAttempt ==
    [r \in Receipts |->
        [submit_key |-> Document[r].request.submit_key,
         execution_id |-> Document[r].request.execution_id,
         requisition_id |-> Document[r].request.requisition_id,
         validation_key |-> ProofKey(Document[r])]]

FirstCall(op) == [op |-> IF op = "reserve" THEN "has_intent" ELSE "snapshot"]

SecondCall(op, a, now) ==
    IF op = "reserve"
    THEN [op |-> "reserve_intent", attempt |-> a, validated |-> TRUE,
          requested |-> now, now |-> now]
    ELSE [op |-> "mark_started", submit_key |-> a.submit_key,
          execution_id |-> a.execution_id, started |-> now]

Operations == {"reserve", "record_before_dispatch"}

(* What service[p] holds of an operation under way: its arguments, how far it *)
(* is between its two calls, and the row its snapshot returned.               *)
Operation == [op: Operations, receipt: Receipts, now: ServiceTimes,
              stage: {"reading", "read", "writing"}, view: Row \cup {Null}]

ServiceCalls ==
    {FirstCall(op) : op \in Operations}
      \cup {SecondCall(op, ReceiptAttempt[r], now) :
                  op \in Operations, r \in Receipts, now \in ServiceTimes}

(* No two payloads have the same digest, and the proofs of other code are *)
(* digests of other documents.                                            *)
ASSUME ServiceAssumption ==
    /\ DirectCalls \cup ServiceCalls \subseteq Calls
    /\ \A r, s \in Receipts : ProofKey(Document[r]) = ProofKey(Document[s])
                               => Payload(Document[r]) = Payload(Document[s])
    /\ \A c \in DirectCalls, r \in Receipts :
           c.op = "reserve_intent" => c.attempt.validation_key # ProofKey(Document[r])
    /\ Null \notin Receipts \cup Operation

-----------------------------------------------------------------------------
(* The operations. *)

InService(p) == service[p] # Null

At(p, op, stage) == InService(p) /\ service[p].op = op /\ service[p].stage = stage

Abandon(p) == service' = [service EXCEPT ![p] = Null] /\ UNCHANGED <<intent, dispatched>>

(* reserve and record_before_dispatch up to their first ledger call.  With a *)
(* receipt that is refused, stale or not allowed, nothing happens at all.    *)
Begins(p, op, x) ==
    /\ ~InService(p)
    /\ Invoke(p, FirstCall(op))
    /\ service' = [service EXCEPT ![p] =
                      [op |-> op, receipt |-> x.receipt, now |-> x.now,
                       stage |-> "reading", view |-> Null]]
    /\ UNCHANGED <<intent, dispatched>>

BindingMatchesIdentity(view, a) ==   \* mutant: the readback proof is not compared
    /\ view # Null /\ view.status = "Validated"
    /\ view.attempt.submit_key = a.submit_key
    /\ view.attempt.execution_id = a.execution_id

(* SUBMISSION_INTENT_BINDING_MISMATCH unless the reserved row is of this     *)
(* very receipt and has not been started.                                    *)
BindingMatches(view, a) ==
    /\ view # Null /\ view.status = "Validated"
    /\ view.attempt.submit_key = a.submit_key
    /\ view.attempt.execution_id = a.execution_id
    /\ view.attempt.validation_key = a.validation_key

(* Between the two transactions: the second call, or the end. *)
Continue(p) ==
    /\ InService(p) /\ service[p].stage = "read"
    /\ service[p].op = "record_before_dispatch" =>
           BindingMatches(service[p].view, ReceiptAttempt[service[p].receipt])
    /\ Invoke(p, SecondCall(service[p].op, ReceiptAttempt[service[p].receipt],
                            service[p].now))
    /\ service' = [service EXCEPT ![p].stage = "writing"]
    /\ UNCHANGED <<intent, dispatched>>

RejectBinding(p) ==
    /\ At(p, "record_before_dispatch", "read") /\ pc[p] = "idle"
    /\ ~BindingMatches(service[p].view, ReceiptAttempt[service[p].receipt])
    /\ Abandon(p)
    /\ UNCHANGED vars

-----------------------------------------------------------------------------
(* The ledger's steps, and what the operation around a call makes of them. *)

(* The row a snapshot returns is the one it saw inside its transaction. *)
SnapshotTaken(p) ==
    /\ CommitRead(p)
    /\ service' = IF At(p, "record_before_dispatch", "reading")
                  THEN [service EXCEPT ![p].view = row] ELSE service
    /\ UNCHANGED <<intent, dispatched>>

ReservationCommitted(p) ==
    /\ CommitReserve(p)
    /\ intent' = IF row = Null /\ InService(p) THEN service[p].receipt ELSE intent
    /\ UNCHANGED <<service, dispatched>>

OtherStatement(p) ==
    /\ CommitInitialize(p) \/ CommitOpen(p) \/ CommitStart(p) \/ CommitConfirm(p)
    /\ UNCHANGED serviceVars

(* has_intent answered True ends reserve; every answer to a second call ends *)
(* its operation, and a returned mark_started is DISPATCH_INTENT_RECORDED.   *)
OperationEnds(p) ==
    \/ service[p].stage = "writing"
    \/ At(p, "reserve", "reading") /\ answer[p] = "true"

CallReturns(p) ==
    /\ Return(p)
    /\ service' = [service EXCEPT ![p] =
                      IF ~InService(p) \/ OperationEnds(p) THEN Null
                      ELSE [@ EXCEPT !.stage = "read"]]
    /\ dispatched' = IF At(p, "record_before_dispatch", "writing")
                     THEN dispatched \cup {service[p].receipt} ELSE dispatched
    /\ UNCHANGED intent

(* A ledger call that raises, and a death, are the end of the operation. *)
CallFails(p) ==
    /\ FailBeforeCommit(p) \/ RejectStart(p) \/ FailAfterCommit(p) \/ Crash(p)
    /\ Abandon(p)

ServiceStep(p) ==
    \/ \E op \in Operations, x \in Executable : Begins(p, op, x)
    \/ Continue(p) \/ RejectBinding(p)

LedgerStep(p) ==
    \/ (CreateFile(p) \/ OpenFile(p) \/ Begin(p)) /\ UNCHANGED serviceVars
    \/ /\ ~InService(p)
       /\ \E c \in DirectCalls : Invoke(p, c)
       /\ UNCHANGED serviceVars
    \/ SnapshotTaken(p) \/ ReservationCommitted(p) \/ OtherStatement(p)
    \/ CallReturns(p) \/ CallFails(p)

DurableNext == \E p \in Process : ServiceStep(p) \/ LedgerStep(p)

DurableSpec == DurableInit /\ [][DurableNext]_durableVars

-----------------------------------------------------------------------------
(* Properties. *)

DurableTypeOK ==
    /\ TypeOK
    /\ service \in [Process -> Operation \cup {Null}]
    /\ intent \in Receipts \cup {Null}
    /\ dispatched \subseteq Receipts

Content(r) ==
    LET d == Document[r] IN
    <<d.request.submit_key, d.request.execution_id, d.prepared.final_url,
      d.prepared.final_form_fingerprint, AnswersOf(d), CvOf(d)>>

(* Whatever record_before_dispatch permits is, to the last answer and the   *)
(* bytes of the CV, what a reservation of this service froze, whichever     *)
(* processes, receipts, crashes and other users of the ledger came between  *)
(* the two (_proof_key, lines 162-163; record_before_dispatch, 202-211).    *)
DispatchMatchesReservation ==
    \A d \in dispatched :
        intent # Null /\ Started(row) /\ Content(d) = Content(intent)
=============================================================================
