----------------------------- MODULE LedgerRow -----------------------------
(***************************************************************************)
(* The single row of table first_application, and what each statement of   *)
(* persistence/submission_ledger.py does to it.  Nothing here is about     *)
(* processes, files or transactions: SubmissionLedger runs these operators *)
(* inside BEGIN IMMEDIATE / COMMIT, and SingleApplication runs them inside *)
(* a whole application run.                                                *)
(*                                                                         *)
(* Identities are opaque, as they are in the table (SHA-256 digests).  A   *)
(* member of Evidence stands for one (evidence_type, evidence_ref) pair.   *)
(* Times are natural numbers, Null is SQL NULL, and Null is also the value *)
(* of "no row".                                                            *)
(***************************************************************************)
EXTENDS Integers

CONSTANTS SubmitKeys, Executions, Requisitions, Proofs, Evidence, Null

Attempt == [submit_key: SubmitKeys, execution_id: Executions,
            requisition_id: Requisitions, validation_key: Proofs]

Status == {"Validated", "Submitted / Unconfirmed", "Confirmed"}

Row == [attempt: Attempt, status: Status,
        requested_at: Nat, reserved_at: Nat,
        started_at: Nat \cup {Null}, confirmed_at: Nat \cup {Null},
        observed_at: Nat \cup {Null}, evidence_ref: Evidence \cup {Null}]

ASSUME NullAssumption == Null \notin Nat /\ Null \notin Evidence /\ Null \notin Row

ConfirmationEvidence ==
    [submit_key: SubmitKeys, execution_id: Executions, requisition_id: Requisitions,
     exact_identity_match: BOOLEAN, evidence_ref: Evidence, observed_at: Nat]

-----------------------------------------------------------------------------
(* The state part of _check_schema, which every transaction evaluates before *)
(* its own statement: a row that fails it makes the ledger unusable for good. *)

NoConfirmation(r) ==
    r.confirmed_at = Null /\ r.observed_at = Null /\ r.evidence_ref = Null

RowValid(r) ==
    /\ r.requested_at =< r.reserved_at
    /\ r.status = "Validated" => r.started_at = Null /\ NoConfirmation(r)
    /\ r.status # "Validated" => r.started_at \in Nat /\ r.started_at >= r.reserved_at
    /\ r.status = "Submitted / Unconfirmed" => NoConfirmation(r)
    /\ r.status = "Confirmed" =>
           /\ r.confirmed_at \in Nat /\ r.observed_at \in Nat
           /\ r.evidence_ref \in Evidence
           /\ r.confirmed_at >= r.observed_at
           /\ r.observed_at >= r.started_at

SlotReadable(r) == r # Null => RowValid(r)

-----------------------------------------------------------------------------
(* reserve_intent: what is inserted when the table is empty. *)

ReservedRow(a, requested, now) ==
    [attempt |-> a, status |-> "Validated",
     requested_at |-> requested, reserved_at |-> now,
     started_at |-> Null, confirmed_at |-> Null, observed_at |-> Null, evidence_ref |-> Null]

(* mark_started: the row it accepts and the row it leaves. *)

StartAcceptedTwice(r, key, execution, started) ==   \* mutant: status not examined
    /\ r # Null
    /\ r.attempt.submit_key = key /\ r.attempt.execution_id = execution
    /\ started >= r.reserved_at

StartAccepted(r, key, execution, started) ==
    /\ r # Null
    /\ r.attempt.submit_key = key /\ r.attempt.execution_id = execution
    /\ r.status = "Validated"
    /\ started >= r.reserved_at

StartedRow(r, started) ==
    [r EXCEPT !.status = "Submitted / Unconfirmed", !.started_at = started]

(* confirm: the checks made on the evidence before the transaction, the row *)
(* they must match, the retry of a confirmed row, and the row it leaves.    *)

EvidenceOffered(key, ev, now) ==
    ev.exact_identity_match /\ ev.submit_key = key /\ ev.observed_at =< now

EvidenceMatchesAnyTime(r, ev) ==   \* mutant: observation may precede the start
    /\ r # Null
    /\ r.attempt.submit_key = ev.submit_key
    /\ r.attempt.execution_id = ev.execution_id
    /\ r.attempt.requisition_id = ev.requisition_id
    /\ r.status \in {"Submitted / Unconfirmed", "Confirmed"}

EvidenceMatches(r, ev) ==
    /\ r # Null
    /\ r.attempt.submit_key = ev.submit_key
    /\ r.attempt.execution_id = ev.execution_id
    /\ r.attempt.requisition_id = ev.requisition_id
    /\ r.status \in {"Submitted / Unconfirmed", "Confirmed"}
    /\ r.started_at # Null
    /\ ev.observed_at >= r.started_at

SameConfirmation(r, ev) ==
    r.evidence_ref = ev.evidence_ref /\ r.observed_at = ev.observed_at

ConfirmedRow(r, ev, now) ==
    [r EXCEPT !.status = "Confirmed", !.confirmed_at = now,
              !.observed_at = ev.observed_at, !.evidence_ref = ev.evidence_ref]

ConfirmReturnsLoosely(r, ev) == EvidenceMatches(r, ev)   \* mutant: any later evidence

AfterConfirmOverwriting(r, ev, now) ==   \* mutant: a confirmed row is updated again
    IF EvidenceMatches(r, ev) THEN ConfirmedRow(r, ev, now) ELSE r

(* What confirm returns for row r, and the row after it. *)
ConfirmReturns(r, ev) ==
    EvidenceMatches(r, ev) /\ (r.status = "Confirmed" => SameConfirmation(r, ev))

AfterConfirm(r, ev, now) ==
    IF EvidenceMatches(r, ev) /\ r.status = "Submitted / Unconfirmed"
    THEN ConfirmedRow(r, ev, now) ELSE r

-----------------------------------------------------------------------------
(* How far the slot has come, and that a later row continues an earlier one. *)

Started(r)   == r # Null /\ r.status \in {"Submitted / Unconfirmed", "Confirmed"}
Confirmed(r) == r # Null /\ r.status = "Confirmed"

Continues(r, s) ==
    /\ r # Null =>
         /\ s # Null
         /\ s.attempt = r.attempt
         /\ s.requested_at = r.requested_at /\ s.reserved_at = r.reserved_at
    /\ Started(r) => Started(s) /\ s.started_at = r.started_at
    /\ Confirmed(r) => s = r
=============================================================================
