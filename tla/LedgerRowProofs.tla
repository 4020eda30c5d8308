-------------------------- MODULE LedgerRowProofs --------------------------
(***************************************************************************)
(* Lemmas about the ledger row: what reserve_intent, mark_started and      *)
(* confirm leave behind is again a row that _check_schema accepts, and     *)
(* continues the row it came from.                                         *)
(***************************************************************************)
EXTENDS LedgerRow, TLAPS

(* The row that reserve_intent inserts is a row _check_schema accepts. *)
LEMMA ReservedRowValid ==
    ASSUME NEW a \in Attempt, NEW s \in Nat, NEW n \in Nat, s =< n
    PROVE  /\ ReservedRow(a, s, n) \in Row /\ ReservedRow(a, s, n) # Null
           /\ RowValid(ReservedRow(a, s, n))
           /\ ReservedRow(a, s, n).status = "Validated"
  <1>1. ReservedRow(a, s, n) \in Row
    BY DEF ReservedRow, Row, Status
  <1>2. QED
    BY <1>1, NullAssumption DEF ReservedRow, RowValid, NoConfirmation

(* mark_started keeps every field but status and start. *)
LEMMA StartedRowFields ==
    ASSUME NEW r \in Row, NEW t \in Nat
    PROVE  /\ StartedRow(r, t) \in Row /\ StartedRow(r, t) # Null
           /\ StartedRow(r, t).status = "Submitted / Unconfirmed"
           /\ StartedRow(r, t).attempt = r.attempt
           /\ StartedRow(r, t).requested_at = r.requested_at
           /\ StartedRow(r, t).reserved_at = r.reserved_at
           /\ StartedRow(r, t).started_at = t
           /\ StartedRow(r, t).confirmed_at = r.confirmed_at
           /\ StartedRow(r, t).observed_at = r.observed_at
           /\ StartedRow(r, t).evidence_ref = r.evidence_ref
  <1>1. StartedRow(r, t) \in Row
    BY DEF StartedRow, Row, Status
  <1>2. QED
    BY <1>1, NullAssumption DEF StartedRow, Row

(* mark_started keeps the row valid and changes nothing but status and start. *)
LEMMA StartedRowValid ==
    ASSUME NEW r \in Row, RowValid(r), NEW k, NEW e, NEW t \in Nat, StartAccepted(r, k, e, t)
    PROVE  /\ StartedRow(r, t) \in Row /\ StartedRow(r, t) # Null
           /\ RowValid(StartedRow(r, t))
           /\ Started(StartedRow(r, t)) /\ ~Started(r)
           /\ Continues(r, StartedRow(r, t))
  <1>1. StartedRow(r, t) \in Row
    BY StartedRowFields
  <1>2. /\ StartedRow(r, t) # Null
        /\ StartedRow(r, t).status = "Submitted / Unconfirmed"
        /\ StartedRow(r, t).attempt = r.attempt
        /\ StartedRow(r, t).requested_at = r.requested_at
        /\ StartedRow(r, t).reserved_at = r.reserved_at
        /\ StartedRow(r, t).started_at = t
        /\ StartedRow(r, t).confirmed_at = r.confirmed_at
        /\ StartedRow(r, t).observed_at = r.observed_at
        /\ StartedRow(r, t).evidence_ref = r.evidence_ref
    BY StartedRowFields
  <1>3. r # Null /\ r.status = "Validated" /\ t >= r.reserved_at
    BY DEF StartAccepted
  <1>4. RowValid(StartedRow(r, t))
    BY <1>2, <1>3 DEF RowValid, NoConfirmation, Row
  <1>5. Continues(r, StartedRow(r, t))
    BY <1>2, <1>3 DEF Continues, Started, Confirmed
  <1>6. QED
    BY <1>1, <1>2, <1>3, <1>4, <1>5 DEF Started

(* confirm keeps every field but status, times and evidence. *)
LEMMA ConfirmedRowFields ==
    ASSUME NEW r \in Row, NEW ev \in ConfirmationEvidence, NEW n \in Nat
    PROVE  /\ ConfirmedRow(r, ev, n) \in Row /\ ConfirmedRow(r, ev, n) # Null
           /\ ConfirmedRow(r, ev, n).status = "Confirmed"
           /\ ConfirmedRow(r, ev, n).attempt = r.attempt
           /\ ConfirmedRow(r, ev, n).requested_at = r.requested_at
           /\ ConfirmedRow(r, ev, n).reserved_at = r.reserved_at
           /\ ConfirmedRow(r, ev, n).started_at = r.started_at
           /\ ConfirmedRow(r, ev, n).confirmed_at = n
           /\ ConfirmedRow(r, ev, n).observed_at = ev.observed_at
           /\ ConfirmedRow(r, ev, n).evidence_ref = ev.evidence_ref
  <1>1. ConfirmedRow(r, ev, n) \in Row
    BY DEF ConfirmedRow, Row, Status, ConfirmationEvidence
  <1>2. QED
    BY <1>1, NullAssumption DEF ConfirmedRow, Row, ConfirmationEvidence

(* confirm keeps the row valid and continues it. *)
LEMMA AfterConfirmValid ==
    ASSUME NEW r \in Row \cup {Null}, SlotReadable(r),
           NEW ev \in ConfirmationEvidence, NEW n \in Nat, ev.observed_at =< n
    PROVE  /\ AfterConfirm(r, ev, n) \in Row \cup {Null}
           /\ SlotReadable(AfterConfirm(r, ev, n))
           /\ AfterConfirm(r, ev, n) # Null <=> r # Null
           /\ Continues(r, AfterConfirm(r, ev, n))
           /\ ConfirmReturns(r, ev) =>
                 /\ Confirmed(AfterConfirm(r, ev, n))
                 /\ AfterConfirm(r, ev, n).evidence_ref = ev.evidence_ref
  <1> DEFINE s == AfterConfirm(r, ev, n)
  <1>1. CASE EvidenceMatches(r, ev) /\ r.status = "Submitted / Unconfirmed"
    <2>1. s = ConfirmedRow(r, ev, n) /\ r # Null
      BY <1>1 DEF AfterConfirm, EvidenceMatches
    <2>2. r \in Row /\ ev.observed_at \in Nat /\ ev.evidence_ref \in Evidence
      BY <2>1 DEF ConfirmationEvidence
    <2>3. s \in Row /\ s # Null
      BY <2>1, <2>2, ConfirmedRowFields
    <2>4. /\ s.status = "Confirmed" /\ s.attempt = r.attempt
          /\ s.requested_at = r.requested_at /\ s.reserved_at = r.reserved_at
          /\ s.started_at = r.started_at /\ s.confirmed_at = n
          /\ s.observed_at = ev.observed_at /\ s.evidence_ref = ev.evidence_ref
      BY <2>1, <2>2, ConfirmedRowFields
    <2>5. r.started_at \in Nat /\ r.started_at >= r.reserved_at /\ r.requested_at =< r.reserved_at
      BY <1>1, <2>1 DEF SlotReadable, RowValid
    <2>6. ev.observed_at >= r.started_at
      BY <1>1 DEF EvidenceMatches
    <2>7. RowValid(s)
      BY <2>2, <2>4, <2>5, <2>6 DEF RowValid
    <2>8. Continues(r, s)
      BY <1>1, <2>3, <2>4 DEF Continues, Started, Confirmed
    <2>9. QED
      BY <2>1, <2>3, <2>4, <2>7, <2>8 DEF SlotReadable, Confirmed
  <1>2. CASE ~(EvidenceMatches(r, ev) /\ r.status = "Submitted / Unconfirmed")
    <2>1. s = r
      BY <1>2 DEF AfterConfirm
    <2>2. Continues(r, r)
      BY DEF Continues
    <2>3. ConfirmReturns(r, ev) =>
             Confirmed(r) /\ r.evidence_ref = ev.evidence_ref
      BY <1>2 DEF Confirmed, ConfirmReturns, EvidenceMatches, SameConfirmation
    <2>4. QED
      BY <2>1, <2>2, <2>3
  <1>3. QED
    BY <1>1, <1>2
=============================================================================
