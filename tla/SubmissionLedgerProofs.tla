----------------------- MODULE SubmissionLedgerProofs -----------------------
(***************************************************************************)
(* Theorems about SubmissionLedger for any number of processes, identities *)
(* and calls: type correctness, the safety invariants and the two action   *)
(* properties that MCSubmissionLedger checks on a small instance; and      *)
(* about DurableSubmission, the service whose operations are its clients.  *)
(*                                                                         *)
(* SlotAlwaysReadable and OneGrant are not inductive.  A commit is         *)
(* separated from its acknowledgement, so the strengthening speaks of the  *)
(* answers that are committed but not yet returned, and a statement runs   *)
(* several steps after its arguments and the file were examined, so it     *)
(* keeps what those examinations established.                              *)
(***************************************************************************)
EXTENDS DurableSubmission, LedgerRowProofs

(* A call under way passed the checks on its arguments. *)
ArgumentsChecked ==
    \A p \in Process : pc[p] \in {"waiting", "inside", "committed"} =>
        call[p] # NoCall /\ (call[p] \in Calls => ArgumentsAccepted(call[p]))

(* A process inside a transaction holds the lock. *)
InsideHoldsLock == \A p \in Process : pc[p] = "inside" => lock = p

(* A process past the schema check of an existing file sees a schema. *)
SchemaSeen ==
    \A p \in Process : pc[p] = "inside" /\ call[p].op # "initialize" => file = "ready"

PendingReserve(p) ==
    pc[p] = "committed" /\ call[p].op = "reserve_intent" /\ answer[p] = "true"
PendingStart(p) == pc[p] = "committed" /\ call[p].op = "mark_started"
PendingConfirm(p) ==
    pc[p] = "committed" /\ call[p].op = "confirm" /\ answer[p] = "true"

(* A reservation or a start that is committed and not yet acknowledged is *)
(* the only one, and nothing was acknowledged before it.                  *)
PendingReserves ==
    \A p \in Process : PendingReserve(p) =>
        /\ row # Null /\ reserveAcks = 0
        /\ \A q \in Process : PendingReserve(q) => q = p
PendingStarts ==
    \A p \in Process : PendingStart(p) =>
        /\ Started(row) /\ startAcks = 0
        /\ \A q \in Process : PendingStart(q) => q = p
PendingConfirms ==
    \A p \in Process : PendingConfirm(p) =>
        /\ Confirmed(row)
        /\ row.evidence_ref = call[p].evidence.evidence_ref

IInv ==
    /\ TypeOK
    /\ SlotAlwaysReadable
    /\ OneGrant
    /\ ConfirmationsAgree
    /\ ArgumentsChecked
    /\ InsideHoldsLock
    /\ SchemaSeen
    /\ PendingReserves
    /\ PendingStarts
    /\ PendingConfirms
-----------------------------------------------------------------------------
(* Lemmas about calls. *)

(* A call under way has the fields its name promises. *)
LEMMA CallShape ==
    ASSUME TypeOK, ArgumentsChecked, NEW p \in Process, pc[p] # "down", pc[p] # "idle"
    PROVE  /\ call[p].op = "reserve_intent" =>
                 call[p] \in ReserveCall /\ call[p].requested =< call[p].now
           /\ call[p].op = "mark_started" => call[p] \in StartCall
           /\ call[p].op = "confirm" =>
                 call[p] \in ConfirmCall /\ call[p].evidence.observed_at =< call[p].now
  <1>1. pc[p] \in {"waiting", "inside", "committed"}
    BY DEF TypeOK
  <1>2. call[p] \in Calls \cup OpenCall
    BY <1>1 DEF TypeOK, ArgumentsChecked
  <1>3. CASE call[p] \in OpenCall
    BY <1>3 DEF OpenCall
  <1>4. CASE call[p] \in Calls
    <2>1. call[p] \in ReserveCall \cup StartCall \cup ConfirmCall \cup ReadCall
      BY <1>4, CallsAssumption
    <2>2. ArgumentsAccepted(call[p])
      BY <1>1, <1>4 DEF ArgumentsChecked
    <2>3. call[p].op = "reserve_intent" => call[p] \in ReserveCall
      BY <2>1 DEF ReserveCall, StartCall, ConfirmCall, ReadCall
    <2>4. call[p].op = "mark_started" => call[p] \in StartCall
      BY <2>1 DEF ReserveCall, StartCall, ConfirmCall, ReadCall
    <2>5. call[p].op = "confirm" => call[p] \in ConfirmCall
      BY <2>1 DEF ReserveCall, StartCall, ConfirmCall, ReadCall
    <2>6. QED
      BY <2>2, <2>3, <2>4, <2>5 DEF ArgumentsAccepted, EvidenceOffered
  <1>5. QED
    BY <1>2, <1>3, <1>4
-----------------------------------------------------------------------------
(* The strengthening is inductive. *)

LEMMA InitInv == Init => IInv
  BY NullAssumption
  DEF Init, IInv, TypeOK, SlotAlwaysReadable, SlotReadable, OneGrant, ConfirmationsAgree,
      ArgumentsChecked, InsideHoldsLock, SchemaSeen, PendingReserves, PendingReserve,
      PendingStarts, PendingStart, PendingConfirms, PendingConfirm, NoCall

(* A call that ends without an acknowledgement, and a death, change only the *)
(* local state of p and the lock.                                            *)
LEMMA EndPreserves ==
    ASSUME IInv, NEW p \in Process, NEW s \in {"down", "idle"},
           End(p, s), UNCHANGED <<durable, acks>>
    PROVE  IInv'
  <1> USE DEF IInv, End, durable, acks
  <1>1. TypeOK'
    BY DEF TypeOK, NoCall
  <1>2. SlotAlwaysReadable' /\ OneGrant' /\ ConfirmationsAgree'
    BY DEF SlotAlwaysReadable, SlotReadable, RowValid, NoConfirmation, OneGrant,
           ConfirmationsAgree, Started, Confirmed
  <1>3. ArgumentsChecked'
    BY DEF ArgumentsChecked, TypeOK, ArgumentsAccepted
  <1>4. InsideHoldsLock' /\ SchemaSeen'
    BY DEF InsideHoldsLock, SchemaSeen, TypeOK
  <1>5. PendingReserves'
    BY DEF PendingReserves, PendingReserve, TypeOK
  <1>6. PendingStarts'
    BY DEF PendingStarts, PendingStart, Started, TypeOK
  <1>7. PendingConfirms'
    BY DEF PendingConfirms, PendingConfirm, Confirmed, TypeOK
  <1>8. QED
    BY <1>1, <1>2, <1>3, <1>4, <1>5, <1>6, <1>7

(* A commit frees the lock and keeps the call: what every statement shares. *)
LEMMA CommitPreserves ==
    ASSUME IInv, NEW p \in Process, NEW a \in {"true", "false"},
           pc[p] = "inside", Commit(p, a), file' \in {file, "ready"}
    PROVE  /\ ArgumentsChecked' /\ InsideHoldsLock' /\ SchemaSeen'
           /\ pc' \in [Process -> {"down", "idle", "waiting", "inside", "committed"}]
           /\ answer' \in [Process -> {"none", "true", "false"}]
           /\ call' = call /\ lock' = Null
           /\ reserveAcks' = reserveAcks /\ startAcks' = startAcks
           /\ confirmAcks' = confirmAcks
           /\ \A q \in Process : q # p => pc'[q] = pc[q] /\ answer'[q] = answer[q]
           /\ pc'[p] = "committed" /\ answer'[p] = a
  <1> USE DEF IInv, Commit, acks
  <1>1. /\ pc' \in [Process -> {"down", "idle", "waiting", "inside", "committed"}]
        /\ answer' \in [Process -> {"none", "true", "false"}]
        /\ call' = call /\ lock' = Null
        /\ \A q \in Process : q # p => pc'[q] = pc[q] /\ answer'[q] = answer[q]
        /\ pc'[p] = "committed" /\ answer'[p] = a
    BY DEF TypeOK
  <1>2. ArgumentsChecked'
    BY <1>1 DEF ArgumentsChecked, ArgumentsAccepted
  <1>3. InsideHoldsLock' /\ SchemaSeen'
    BY <1>1 DEF InsideHoldsLock, SchemaSeen
  <1>4. QED
    BY <1>1, <1>2, <1>3
(* Statements that leave the slot as it is. *)
LEMMA ReadPreserves ==
    ASSUME IInv, NEW p \in Process, NEW a \in {"true", "false"},
           pc[p] = "inside", Commit(p, a), file' \in {file, "ready"}, row' = row,
           call[p].op # "reserve_intent" \/ a = "false",
           call[p].op \notin {"mark_started", "confirm"}
    PROVE  IInv'
  <1> USE DEF IInv
  <1>1. TypeOK' /\ SlotAlwaysReadable' /\ OneGrant' /\ ConfirmationsAgree'
    BY CommitPreserves DEF TypeOK, SlotAlwaysReadable, SlotReadable, RowValid,
       NoConfirmation, OneGrant, ConfirmationsAgree, Started, Confirmed
  <1>2. PendingReserves'
    BY CommitPreserves DEF PendingReserves, PendingReserve
  <1>3. PendingStarts'
    <2>1. \A q \in Process : PendingStart(q)' => PendingStart(q)
      BY CommitPreserves DEF PendingStart
    <2>2. Started(row)' = Started(row)
      BY DEF Started
    <2>3. QED
      BY <2>1, <2>2, CommitPreserves DEF PendingStarts
  <1>4. PendingConfirms'
    BY CommitPreserves DEF PendingConfirms, PendingConfirm, Confirmed
  <1>5. QED
    BY CommitPreserves, <1>1, <1>2, <1>3, <1>4

LEMMA ReservePreserves ==
    ASSUME IInv, NEW p \in Process, CommitReserve(p)
    PROVE  IInv' /\ Continues(row, row')
  <1> USE DEF IInv
  <1>1. pc[p] = "inside" /\ call[p].op = "reserve_intent" /\ file' = file
    BY DEF CommitReserve, Inside
  <1>2. CASE row # Null
    <2>1. row' = row /\ Commit(p, "false")
      BY <1>2 DEF CommitReserve
    <2>2. QED
      BY <1>1, <2>1, ReadPreserves DEF Continues
  <1>3. CASE row = Null
    <2> DEFINE r == ReservedRow(call[p].attempt, call[p].requested, call[p].now)
    <2>1. row' = r /\ Commit(p, "true")
      BY <1>3 DEF CommitReserve
    <2>2. /\ call[p].attempt \in Attempt /\ call[p].requested \in Nat
          /\ call[p].now \in Nat /\ call[p].requested =< call[p].now
      BY <1>1, CallShape DEF ReserveCall
    <2>3. r \in Row /\ r # Null /\ RowValid(r)
      BY <2>2, ReservedRowValid
    <2>4. file = "ready"
      BY <1>1 DEF SchemaSeen
    <2>5. reserveAcks = 0 /\ startAcks = 0 /\ confirmAcks = {}
      BY <1>3 DEF OneGrant, ConfirmationsAgree, TypeOK, Started, Confirmed
    <2>6. \A q \in Process :
             ~PendingReserve(q) /\ ~PendingStart(q) /\ ~PendingConfirm(q)
      BY <1>3 DEF PendingReserves, PendingStarts, PendingConfirms, Started, Confirmed
    <2>7. TypeOK' /\ SlotAlwaysReadable' /\ OneGrant' /\ ConfirmationsAgree'
      <3>1. TypeOK'
        BY <1>1, <2>1, <2>3, CommitPreserves DEF TypeOK
      <3>2. SlotAlwaysReadable'
        BY <1>1, <2>1, <2>3, <2>4 DEF SlotAlwaysReadable, SlotReadable, RowValid, NoConfirmation
      <3>3. OneGrant' /\ ConfirmationsAgree'
        BY <1>1, <2>1, <2>5, CommitPreserves DEF OneGrant, ConfirmationsAgree
      <3>4. QED
        BY <3>1, <3>2, <3>3
    <2>8. PendingReserves' /\ PendingStarts' /\ PendingConfirms'
      <3>1. PendingReserves'
        BY <1>1, <2>1, <2>3, <2>5, <2>6, CommitPreserves DEF PendingReserves, PendingReserve
      <3>2. PendingStarts'
        BY <1>1, <2>1, <2>3, <2>5, <2>6, CommitPreserves DEF PendingStarts, PendingStart
      <3>3. PendingConfirms'
        BY <1>1, <2>1, <2>3, <2>5, <2>6, CommitPreserves DEF PendingConfirms, PendingConfirm
      <3>4. QED
        BY <3>1, <3>2, <3>3
    <2>9. QED
      BY <1>1, <1>3, <2>1, <2>7, <2>8, CommitPreserves DEF Continues, Started, Confirmed
  <1>4. QED
    BY <1>2, <1>3

LEMMA StartPreserves ==
    ASSUME IInv, NEW p \in Process, CommitStart(p)
    PROVE  IInv' /\ Continues(row, row')
  <1> USE DEF IInv
  <1> DEFINE r == StartedRow(row, call[p].started)
  <1>1. /\ pc[p] = "inside" /\ call[p].op = "mark_started" /\ file' = file
        /\ row' = r /\ Commit(p, "true")
        /\ StartAccepted(row, call[p].submit_key, call[p].execution_id, call[p].started)
    BY DEF CommitStart, Inside
  <1>2. call[p].started \in Nat
    BY <1>1, CallShape DEF StartCall
  <1>3. row \in Row /\ row # Null /\ RowValid(row)
    BY <1>1 DEF StartAccepted, TypeOK, SlotAlwaysReadable, SlotReadable
  <1>4. /\ r \in Row /\ r # Null /\ RowValid(r)
        /\ Started(r) /\ ~Started(row) /\ Continues(row, r)
    BY <1>1, <1>2, <1>3, StartedRowValid
  <1>5. startAcks = 0 /\ confirmAcks = {}
    <2>1. startAcks = 0
      BY <1>4 DEF OneGrant, TypeOK
    <2>2. ~Confirmed(row)
      BY <1>4 DEF Started, Confirmed
    <2>3. QED
      BY <2>1, <2>2 DEF ConfirmationsAgree
  <1>6. \A q \in Process : ~PendingStart(q) /\ ~PendingConfirm(q)
    BY <1>4 DEF PendingStarts, PendingConfirms, Started, Confirmed
  <1>7. TypeOK' /\ SlotAlwaysReadable' /\ OneGrant' /\ ConfirmationsAgree'
    BY <1>1, <1>3, <1>4, <1>5, CommitPreserves
    DEF TypeOK, SlotAlwaysReadable, SlotReadable, RowValid, NoConfirmation,
        OneGrant, ConfirmationsAgree
  <1>8. PendingReserves'
    BY <1>1, <1>4, CommitPreserves DEF PendingReserves, PendingReserve
  <1>9. PendingStarts'
    <2> SUFFICES ASSUME NEW q \in Process, PendingStart(q)'
                 PROVE  /\ Started(r) /\ startAcks' = 0
                        /\ \A x \in Process : PendingStart(x)' => x = q
      BY <1>1 DEF PendingStarts, Started
    <2>1. \A x \in Process : PendingStart(x)' => x = p
      BY <1>1, <1>6, CommitPreserves DEF PendingStart
    <2>2. startAcks' = 0
      BY <1>1, <1>5, CommitPreserves
    <2>3. QED
      BY <1>4, <2>1, <2>2
  <1>10. PendingConfirms'
    BY <1>1, <1>6, CommitPreserves DEF PendingConfirms, PendingConfirm
  <1>11. QED
    BY <1>1, <1>4, <1>7, <1>8, <1>9, <1>10, CommitPreserves

LEMMA ConfirmPreserves ==
    ASSUME IInv, NEW p \in Process, CommitConfirm(p)
    PROVE  IInv' /\ Continues(row, row')
  <1> USE DEF IInv
  <1> DEFINE ev == call[p].evidence
             r  == AfterConfirm(row, ev, call[p].now)
             a  == IF ConfirmReturns(row, ev) THEN "true" ELSE "false"
  <1>1. /\ pc[p] = "inside" /\ call[p].op = "confirm" /\ file' = file
        /\ row' = r /\ Commit(p, a) /\ a \in {"true", "false"}
    BY DEF CommitConfirm, Inside
  <1>2. ev \in ConfirmationEvidence /\ call[p].now \in Nat /\ ev.observed_at =< call[p].now
    BY <1>1, CallShape DEF ConfirmCall
  <1>3. /\ r \in Row \cup {Null} /\ SlotReadable(r) /\ (r # Null <=> row # Null)
        /\ Continues(row, r)
        /\ a = "true" => Confirmed(r) /\ r.evidence_ref = ev.evidence_ref
    BY <1>2, AfterConfirmValid DEF TypeOK, SlotAlwaysReadable
  <1>4. TypeOK' /\ SlotAlwaysReadable' /\ OneGrant' /\ ConfirmationsAgree'
    <2>1. TypeOK'
      BY <1>1, <1>3, CommitPreserves DEF TypeOK
    <2>2. SlotAlwaysReadable'
      BY <1>1, <1>3 DEF SlotAlwaysReadable, SlotReadable, RowValid, NoConfirmation
    <2>3. OneGrant'
      BY <1>1, <1>3, CommitPreserves DEF OneGrant, Continues, Started
    <2>4. ConfirmationsAgree'
      BY <1>1, <1>3, CommitPreserves DEF ConfirmationsAgree, Continues, Confirmed
    <2>5. QED
      BY <2>1, <2>2, <2>3, <2>4
  <1>5. PendingReserves'
    BY <1>1, <1>3, CommitPreserves DEF PendingReserves, PendingReserve
  <1>6. PendingStarts'
    <2>1. \A q \in Process : PendingStart(q)' => PendingStart(q)
      BY <1>1, CommitPreserves DEF PendingStart
    <2>2. Started(row) => Started(r)
      BY <1>3 DEF Continues, Started
    <2>3. row' = r /\ startAcks' = startAcks
      BY <1>1, CommitPreserves
    <2> HIDE DEF IInv, r
    <2>4. PendingStarts
      BY DEF IInv
    <2>5. QED
      BY <2>1, <2>2, <2>3, <2>4 DEF PendingStarts, Started
  <1>7. PendingConfirms'
    BY <1>1, <1>3, CommitPreserves DEF PendingConfirms, PendingConfirm, Continues, Confirmed
  <1>8. QED
    BY <1>1, <1>3, <1>4, <1>5, <1>6, <1>7, CommitPreserves

(* The acknowledgement of a committed statement. *)
LEMMA ReturnPreserves ==
    ASSUME IInv, NEW p \in Process, Return(p)
    PROVE  IInv'
  <1> USE DEF IInv, Return, End, durable
  <1>1. /\ file' = file /\ row' = row
        /\ \A q \in Process : pc'[q] = IF q = p THEN "idle" ELSE pc[q]
        /\ \A q \in Process : q # p => call'[q] = call[q] /\ answer'[q] = answer[q]
    BY DEF TypeOK
  <1>2. reserveAcks' \in Nat /\ reserveAcks' =< 1 /\ (reserveAcks' = 1 => row # Null)
    BY DEF TypeOK, OneGrant, PendingReserves, PendingReserve
  <1>3. startAcks' \in Nat /\ startAcks' =< 1 /\ (startAcks' = 1 => Started(row))
    BY DEF TypeOK, OneGrant, PendingStarts, PendingStart
  <1>4. confirmAcks' \subseteq Evidence /\ ConfirmationsAgree'
    <2>1. CASE call[p].op = "confirm" /\ answer[p] = "true"
      <3>1. call[p].evidence.evidence_ref \in Evidence
        BY <2>1, CallShape DEF ConfirmCall, ConfirmationEvidence
      <3>2. Confirmed(row) /\ row.evidence_ref = call[p].evidence.evidence_ref
        BY <2>1 DEF PendingConfirms, PendingConfirm
      <3>3. confirmAcks' = confirmAcks \cup {call[p].evidence.evidence_ref}
        BY <2>1
      <3>4. QED
        BY <1>1, <3>1, <3>2, <3>3 DEF TypeOK, ConfirmationsAgree, Confirmed
    <2>2. CASE ~(call[p].op = "confirm" /\ answer[p] = "true")
      BY <1>1, <2>2 DEF TypeOK, ConfirmationsAgree, Confirmed
    <2>3. QED
      BY <2>1, <2>2
  <1>5. TypeOK'
    BY <1>2, <1>3, <1>4 DEF TypeOK, NoCall
  <1>6. SlotAlwaysReadable' /\ OneGrant'
    BY <1>1, <1>2, <1>3 DEF SlotAlwaysReadable, SlotReadable, RowValid, NoConfirmation,
       OneGrant, Started
  <1>7. ArgumentsChecked'
    BY <1>1 DEF ArgumentsChecked, ArgumentsAccepted
  <1>8. InsideHoldsLock' /\ SchemaSeen'
    BY <1>1 DEF InsideHoldsLock, SchemaSeen, TypeOK
  <1>9. PendingReserves'
    BY <1>1 DEF PendingReserves, PendingReserve, TypeOK
  <1>10. PendingStarts'
    <2>1. \A q \in Process : PendingStart(q)' => q # p /\ PendingStart(q)
      BY <1>1 DEF PendingStart
    <2>2. (\E q \in Process : PendingStart(q)') => startAcks' = startAcks
      BY <2>1 DEF PendingStarts, PendingStart, TypeOK
    <2>3. Started(row)' = Started(row)
      BY <1>1 DEF Started
    <2>4. QED
      BY <2>1, <2>2, <2>3 DEF PendingStarts
  <1>11. PendingConfirms'
    BY <1>1 DEF PendingConfirms, PendingConfirm, Confirmed, TypeOK
  <1>12. QED
    BY <1>4, <1>5, <1>6, <1>7, <1>8, <1>9, <1>10, <1>11
-----------------------------------------------------------------------------
(* Every step. *)

LEMMA ContinuesItself == ASSUME NEW r PROVE Continues(r, r)
  BY DEF Continues

LEMMA StepPreserves ==
    ASSUME IInv, [Next]_vars
    PROVE  IInv' /\ Continues(row, row')
  <1>1. CASE UNCHANGED vars
    <2>1. IInv'
      BY <1>1 DEF vars, IInv, TypeOK, SlotAlwaysReadable, SlotReadable, RowValid,
         NoConfirmation, OneGrant, ConfirmationsAgree, ArgumentsChecked, ArgumentsAccepted,
         InsideHoldsLock, SchemaSeen, PendingReserves, PendingReserve, PendingStarts,
         PendingStart, PendingConfirms, PendingConfirm, Started, Confirmed
    <2>2. QED
      BY <1>1, <2>1, ContinuesItself DEF vars
  <1>2. ASSUME NEW p \in Process, CreateFile(p)
        PROVE  IInv' /\ Continues(row, row')
    <2> USE <1>2 DEF CreateFile, IInv, acks
    <2>1. TypeOK' /\ SlotAlwaysReadable'
      BY DEF TypeOK, SlotAlwaysReadable, SlotReadable, OpenCall
    <2>2. OneGrant' /\ ConfirmationsAgree'
      BY DEF OneGrant, ConfirmationsAgree, Started, Confirmed
    <2>3. ArgumentsChecked' /\ InsideHoldsLock'
      BY DEF ArgumentsChecked, ArgumentsAccepted, InsideHoldsLock, NoCall, TypeOK
    <2>4. SchemaSeen'
      BY DEF SchemaSeen, TypeOK
    <2>5. PendingReserves' /\ PendingStarts' /\ PendingConfirms'
      <3>1. PendingReserves'
        BY DEF PendingReserves, PendingReserve, TypeOK
      <3>2. PendingStarts'
        BY DEF PendingStarts, PendingStart, Started, TypeOK
      <3>3. PendingConfirms'
        BY DEF PendingConfirms, PendingConfirm, Confirmed, TypeOK
      <3>4. QED
        BY <3>1, <3>2, <3>3
    <2>6. QED
      BY <2>1, <2>2, <2>3, <2>4, <2>5, ContinuesItself
  <1>3. ASSUME NEW p \in Process, OpenFile(p) \/ \E c \in Calls : Invoke(p, c)
        PROVE  IInv' /\ Continues(row, row')
    <2>1. PICK c \in Calls \cup OpenCall :
             /\ pc' = [pc EXCEPT ![p] = "waiting"]
             /\ call' = [call EXCEPT ![p] = c]
             /\ c \in Calls => ArgumentsAccepted(c)
             /\ UNCHANGED <<file, row, lock, answer, reserveAcks, startAcks, confirmAcks>>
      BY <1>3, CallsAssumption
      DEF OpenFile, Invoke, durable, acks, OpenCall, ArgumentsAccepted
    <2>2. c # NoCall
      BY CallsAssumption DEF NoCall, OpenCall, ReserveCall, StartCall, ConfirmCall, ReadCall
    <2> USE <2>1 DEF IInv
    <2>3. TypeOK' /\ SlotAlwaysReadable'
      BY DEF TypeOK, SlotAlwaysReadable, SlotReadable
    <2>4. OneGrant' /\ ConfirmationsAgree'
      BY DEF OneGrant, ConfirmationsAgree, Started, Confirmed
    <2>5. ArgumentsChecked' /\ InsideHoldsLock' /\ SchemaSeen'
      BY <2>2 DEF ArgumentsChecked, ArgumentsAccepted, InsideHoldsLock, SchemaSeen, TypeOK
    <2>6. PendingReserves' /\ PendingStarts' /\ PendingConfirms'
      <3>1. PendingReserves'
        BY DEF PendingReserves, PendingReserve, TypeOK
      <3>2. PendingStarts'
        BY DEF PendingStarts, PendingStart, Started, TypeOK
      <3>3. PendingConfirms'
        BY DEF PendingConfirms, PendingConfirm, Confirmed, TypeOK
      <3>4. QED
        BY <3>1, <3>2, <3>3
    <2>7. QED
      BY <2>3, <2>4, <2>5, <2>6, ContinuesItself
  <1>4. ASSUME NEW p \in Process, Begin(p)
        PROVE  IInv' /\ Continues(row, row')
    <2> USE <1>4 DEF Begin, IInv, durable, acks
    <2>1. TypeOK' /\ SlotAlwaysReadable'
      BY DEF TypeOK, SlotAlwaysReadable, SlotReadable
    <2>2. OneGrant' /\ ConfirmationsAgree'
      BY DEF OneGrant, ConfirmationsAgree, Started, Confirmed
    <2>3. ArgumentsChecked'
      BY DEF ArgumentsChecked, ArgumentsAccepted, TypeOK
    <2>4. InsideHoldsLock'
      BY CallsAssumption DEF InsideHoldsLock, TypeOK
    <2>5. SchemaSeen'
      BY DEF SchemaSeen, SchemaAccepted, TypeOK
    <2>6. PendingReserves' /\ PendingStarts' /\ PendingConfirms'
      <3>1. PendingReserves'
        BY DEF PendingReserves, PendingReserve, TypeOK
      <3>2. PendingStarts'
        BY DEF PendingStarts, PendingStart, Started, TypeOK
      <3>3. PendingConfirms'
        BY DEF PendingConfirms, PendingConfirm, Confirmed, TypeOK
      <3>4. QED
        BY <3>1, <3>2, <3>3
    <2>7. QED
      BY <2>1, <2>2, <2>3, <2>4, <2>5, <2>6, ContinuesItself
  <1>5. ASSUME NEW p \in Process,
               FailBeforeCommit(p) \/ RejectStart(p) \/ FailAfterCommit(p) \/ Crash(p)
        PROVE  IInv' /\ Continues(row, row')
    <2>1. /\ \E s \in {"down", "idle"} : End(p, s)
          /\ UNCHANGED <<durable, acks>>
      BY <1>5 DEF FailBeforeCommit, RejectStart, FailAfterCommit, Crash, Raise
    <2>2. QED
      BY <2>1, EndPreserves, ContinuesItself DEF durable
  <1>6. ASSUME NEW p \in Process, CommitInitialize(p) \/ CommitOpen(p) \/ CommitRead(p)
        PROVE  IInv' /\ Continues(row, row')
    <2>1. /\ \E a \in {"true", "false"} : Commit(p, a)
          /\ pc[p] = "inside" /\ file' \in {file, "ready"} /\ row' = row
          /\ call[p].op \notin {"reserve_intent", "mark_started", "confirm"}
      BY <1>6 DEF CommitInitialize, CommitOpen, CommitRead, Inside, durable
    <2>2. QED
      BY <2>1, ReadPreserves, ContinuesItself
  <1>7. ASSUME NEW p \in Process, Return(p)
        PROVE  IInv' /\ Continues(row, row')
    BY <1>7, ReturnPreserves, ContinuesItself DEF Return, durable
  <1>8. QED
    BY <1>1, <1>2, <1>3, <1>4, <1>5, <1>6, <1>7,
       ReservePreserves, StartPreserves, ConfirmPreserves
    DEF Next, Statement, Finish
-----------------------------------------------------------------------------
(* The theorems. *)

(* The strengthening holds in every reachable state. *)
THEOREM Strengthening == Spec => []IInv
  <1>1. IInv /\ [Next]_vars => IInv'
    BY StepPreserves
  <1>2. QED
    BY InitInv, <1>1, PTL DEF Spec

(* Every variable keeps its type. *)
THEOREM TypeCorrect == Spec => []TypeOK
  BY Strengthening, PTL DEF IInv

(* No accepted call, with any times, leaves a row that the schema check of *)
(* the next transaction refuses (_check_schema, lines 190-220).            *)
THEOREM AlwaysReadable == Spec => []SlotAlwaysReadable
  BY Strengthening, PTL DEF IInv

(* One reservation and one start are ever acknowledged, by any number of   *)
(* processes that crash, retry and race (reserve_intent, mark_started).    *)
THEOREM AtMostOneGrant == Spec => []OneGrant
  BY Strengthening, PTL DEF IInv

(* Every accepted confirmation is the recorded one (confirm). *)
THEOREM OneConfirmation == Spec => []ConfirmationsAgree
  BY Strengthening, PTL DEF IInv

(* No step empties, rebinds or rewinds the slot. *)
THEOREM Permanence == Spec => SlotPermanent
  <1>1. IInv /\ [Next]_vars => [Continues(row, row')]_vars
    BY StepPreserves
  <1>2. QED
    BY Strengthening, <1>1, PTL DEF Spec, SlotPermanent

(* A file left without a schema by a dead creator is never used. *)
THEOREM Abandoned == Spec => AbandonedStaysClosed
  <1>1. IInv /\ [Next]_vars => [CreatorGone => CreatorGone' /\ row' = Null]_vars
    <2> SUFFICES ASSUME IInv, Next, file = "empty", \A p \in Process : ~Initializing(p)
                 PROVE  /\ file' = "empty" /\ row' = Null
                        /\ \A q \in Process : ~Initializing(q)'
      BY DEF CreatorGone
    <2>1. row = Null
      BY DEF IInv, SlotAlwaysReadable
    <2>2. \A p \in Process : ~CommitInitialize(p) /\ ~CommitReserve(p) /\ ~CommitStart(p)
                              /\ ~CommitConfirm(p)
      BY DEF IInv, SchemaSeen, Initializing, CommitInitialize, CommitReserve, CommitStart,
         CommitConfirm, Inside
    <2>3. file' = "empty" /\ row' = Null
      BY <2>1, <2>2 DEF Next, Statement, Finish, CreateFile, OpenFile, Invoke, Begin,
         FailBeforeCommit, CommitOpen, RejectStart, CommitRead, Return, FailAfterCommit,
         Crash, Raise, durable
    <2>4. ASSUME NEW q \in Process PROVE ~Initializing(q)'
      <3>1. /\ pc \in [Process -> {"down", "idle", "waiting", "inside", "committed"}]
            /\ DOMAIN call = Process
        BY DEF IInv, TypeOK
      <3>2. PICK p \in Process :
               \/ CreateFile(p) \/ OpenFile(p)
               \/ \E c \in Calls : Invoke(p, c)
               \/ Begin(p) \/ FailBeforeCommit(p) \/ Statement(p) \/ Finish(p) \/ Crash(p)
        BY DEF Next
      <3>3. CASE OpenFile(p)
        BY <3>1, <3>3 DEF OpenFile, Initializing
      <3>4. ASSUME NEW c \in Calls, Invoke(p, c) PROVE ~Initializing(q)'
        <4>1. c.op # "initialize"
          BY CallsAssumption DEF ReserveCall, StartCall, ConfirmCall, ReadCall
        <4>2. QED
          BY <3>1, <3>4, <4>1 DEF Invoke, Initializing
      <3>5. CASE Begin(p)
        BY <3>1, <3>5 DEF Begin, Initializing
      <3>6. ASSUME \E st \in {"idle", "down"} : End(p, st) PROVE ~Initializing(q)'
        BY <3>1, <3>6 DEF End, Initializing
      <3>7. ASSUME NEW a, Commit(p, a) PROVE ~Initializing(q)'
        BY <3>1, <3>7 DEF Commit, Initializing
      <3>8. CASE FailBeforeCommit(p) \/ Finish(p) \/ Crash(p) \/ RejectStart(p)
        BY <3>6, <3>8 DEF FailBeforeCommit, Finish, Return, FailAfterCommit, Crash, RejectStart, Raise
      <3>9. CASE CommitOpen(p) \/ CommitRead(p)
        BY <3>7, <3>9 DEF CommitOpen, CommitRead
      <3>10. ~CreateFile(p)
        BY DEF CreateFile
      <3>11. QED
        BY <2>2, <3>2, <3>3, <3>4, <3>5, <3>8, <3>9, <3>10 DEF Statement
    <2>5. QED
      BY <2>3, <2>4
  <1>2. QED
    BY Strengthening, <1>1, PTL DEF Spec, AbandonedStaysClosed
-----------------------------------------------------------------------------
(* The durable submission service, for any receipts, processes and other   *)
(* users of the ledger: the service is a client of the ledger and nothing  *)
(* more, and a permitted dispatch is of what was reserved.                 *)
(*                                                                         *)
(* DispatchMatchesReservation is not inductive.  What record_before_       *)
(* dispatch compares is a view, taken in a transaction that is over; the   *)
(* comparison stays true of the row because a row only ever continues, and *)
(* it says something of the reservation because the proof in the row tells *)
(* whether a receipt of this service, and which one, put it there.         *)

(* The ledger call that belongs to a stage of an operation. *)
CallOf(s) ==
    IF s.stage = "reading" THEN FirstCall(s.op)
    ELSE SecondCall(s.op, ReceiptAttempt[s.receipt], s.now)

BoundBy(s) ==
    row # Null /\ row.attempt.validation_key = ReceiptAttempt[s.receipt].validation_key

(* What holds of one process: its call is that of its stage, its view is of *)
(* the row, and past the comparison the row is of its receipt.              *)
ServiceOK(p) ==
    /\ ~InService(p) /\ pc[p] \notin {"down", "idle"} =>
         (call[p].op = "reserve_intent" => call[p] \in DirectCalls)
    /\ InService(p) =>
         /\ service[p] \in Operation
         /\ pc[p] # "down" /\ (pc[p] = "idle" <=> service[p].stage = "read")
         /\ pc[p] # "idle" => call[p] = CallOf(service[p])
         /\ service[p].view # Null => row # Null /\ row.attempt = service[p].view.attempt
         /\ service[p].op = "record_before_dispatch" /\ service[p].stage = "writing" =>
                BoundBy(service[p]) /\ (pc[p] = "committed" => Started(row))

(* The proof in the row says which receipt was reserved, if one was. *)
IntentFrozen ==
    /\ intent \in Receipts \cup {Null}
    /\ intent # Null => row # Null /\ row.attempt.validation_key = ProofKey(Document[intent])
    /\ intent = Null /\ row # Null =>
           \A r \in Receipts : row.attempt.validation_key # ProofKey(Document[r])

DispatchesBound ==
    /\ dispatched \subseteq Receipts
    /\ \A d \in dispatched :
           Started(row) /\ row.attempt.validation_key = ProofKey(Document[d])

DInv ==
    /\ IInv
    /\ DOMAIN service = Process /\ service = [p \in Process |-> service[p]]
    /\ \A p \in Process : ServiceOK(p)
    /\ IntentFrozen
    /\ DispatchesBound
-----------------------------------------------------------------------------
(* What every step shares. *)

(* The proof in a receipt's attempt is the digest of its payload. *)
LEMMA AttemptCarriesProof ==
    ASSUME NEW r \in Receipts
    PROVE  ReceiptAttempt[r].validation_key = ProofKey(Document[r])
  BY DEF ReceiptAttempt

(* A process that a step does not touch keeps its part of the invariant. *)
LEMMA UntouchedKeeps ==
    ASSUME NEW q \in Process, ServiceOK(q), Continues(row, row'),
           pc'[q] = pc[q], call'[q] = call[q], service'[q] = service[q]
    PROVE  ServiceOK(q)'
  BY DEF ServiceOK, InService, CallOf, BoundBy, Continues

(* A step that neither reserves nor dispatches keeps the rest. *)
LEMMA RecordsKeep ==
    ASSUME IntentFrozen, DispatchesBound, Continues(row, row'), row = Null => row' = Null,
           intent' = intent, dispatched' = dispatched
    PROVE  IntentFrozen' /\ DispatchesBound'
  BY DEF IntentFrozen, DispatchesBound, Continues, Started

(* A second call of the ledger is a reservation or a start. *)
LEMMA CallOfWriting ==
    ASSUME NEW s \in Operation, s.stage \in {"read", "writing"}
    PROVE  /\ s.op = "reserve" =>
                /\ CallOf(s).op = "reserve_intent"
                /\ CallOf(s).attempt = ReceiptAttempt[s.receipt]
           /\ s.op = "record_before_dispatch" => CallOf(s).op = "mark_started"
  BY DEF CallOf, SecondCall

LEMMA CallOfReading ==
    ASSUME NEW s \in Operation, s.stage = "reading"
    PROVE  CallOf(s).op \in {"has_intent", "snapshot"}
  BY DEF CallOf, FirstCall

(* An operation that ends leaves its process outside the service. *)
LEMMA OutsideIsOK ==
    ASSUME NEW p \in Process, service'[p] = Null, pc'[p] \in {"down", "idle"}
    PROVE  ServiceOK(p)'
  BY DEF ServiceOK, InService

(* The service makes only calls of the ledger: every step of it is a step  *)
(* of the ledger or none.                                                  *)
LEMMA StepIsLedgerStep ==
    ASSUME DInv, [DurableNext]_durableVars
    PROVE  [Next]_vars
  <1>1. CASE UNCHANGED durableVars
    BY <1>1 DEF durableVars
  <1>2. ASSUME NEW p \in Process, ServiceStep(p)
        PROVE  [Next]_vars
    <2>1. ASSUME NEW op \in Operations, NEW x \in Executable, Begins(p, op, x)
          PROVE  Next
      BY <2>1, ServiceAssumption DEF Begins, ServiceCalls, Next
    <2>2. CASE Continue(p)
      <3>1. /\ service[p].op \in Operations /\ service[p].receipt \in Receipts
            /\ service[p].now \in ServiceTimes
        BY <2>2 DEF DInv, ServiceOK, Continue, Operation
      <3>2. SecondCall(service[p].op, ReceiptAttempt[service[p].receipt], service[p].now) \in Calls
        BY <3>1, ServiceAssumption DEF ServiceCalls
      <3>3. QED
        BY <2>2, <3>2 DEF Continue, Next
    <2>3. CASE RejectBinding(p)
      BY <2>3 DEF RejectBinding
    <2>4. QED
      BY <1>2, <2>1, <2>2, <2>3 DEF ServiceStep
  <1>3. ASSUME NEW p \in Process, LedgerStep(p)
        PROVE  Next
    BY <1>3, ServiceAssumption
    DEF LedgerStep, SnapshotTaken, ReservationCommitted, OtherStatement, CallReturns,
        CallFails, Next, Statement, Finish
  <1>4. QED
    BY <1>1, <1>2, <1>3 DEF DurableNext
-----------------------------------------------------------------------------
(* The steps of the operations. *)

LEMMA BeginsKeeps ==
    ASSUME DInv, NEW p \in Process, NEW op \in Operations, NEW x \in Executable,
           Begins(p, op, x), IInv'
    PROVE  DInv'
  <1>1. /\ pc[p] = "idle" /\ row' = row /\ intent' = intent /\ dispatched' = dispatched
        /\ pc' = [pc EXCEPT ![p] = "waiting"] /\ call' = [call EXCEPT ![p] = FirstCall(op)]
        /\ service' = [service EXCEPT ![p] =
                         [op |-> op, receipt |-> x.receipt, now |-> x.now,
                          stage |-> "reading", view |-> Null]]
    BY DEF Begins, Invoke, durable
  <1>2. x.receipt \in Receipts /\ x.now \in ServiceTimes
    BY DEF Executable
  <1>3. DOMAIN pc = Process /\ DOMAIN call = Process /\ DOMAIN service = Process
    BY DEF DInv, IInv, TypeOK
  <1>4. ServiceOK(p)'
    <2>1. service'[p] = [op |-> op, receipt |-> x.receipt, now |-> x.now,
                         stage |-> "reading", view |-> Null]
      BY <1>1, <1>3
    <2>2. service'[p] \in Operation
      BY <1>2, <2>1 DEF Operation
    <2>3. service'[p] # Null => pc'[p] = "waiting" /\ call'[p] = CallOf(service'[p])
      BY <1>1, <1>3, <2>1 DEF CallOf
    <2>4. service'[p] # Null
      BY <2>2, ServiceAssumption
    <2>5. QED
      BY <2>1, <2>2, <2>3, <2>4 DEF ServiceOK, InService, CallOf
  <1>5. QED
    BY <1>1, <1>3, <1>4, UntouchedKeeps, RecordsKeep, ContinuesItself DEF DInv

(* The second call is made only past the comparison: from then on the row is *)
(* of this receipt.                                                          *)
LEMMA ContinueKeeps ==
    ASSUME DInv, NEW p \in Process, Continue(p), IInv'
    PROVE  DInv'
  <1> DEFINE s == service[p]
             c == SecondCall(s.op, ReceiptAttempt[s.receipt], s.now)
  <1>1. /\ s # Null /\ s.stage = "read" /\ pc[p] = "idle"
        /\ row' = row /\ intent' = intent /\ dispatched' = dispatched
        /\ pc' = [pc EXCEPT ![p] = "waiting"] /\ call' = [call EXCEPT ![p] = c]
        /\ service' = [service EXCEPT ![p].stage = "writing"]
    BY DEF Continue, InService, Invoke, durable
  <1>2. DOMAIN pc = Process /\ DOMAIN call = Process /\ DOMAIN service = Process
    BY DEF DInv, IInv, TypeOK
  <1>3. /\ s \in Operation
        /\ s.view # Null => row # Null /\ row.attempt = s.view.attempt
    BY <1>1 DEF DInv, ServiceOK, InService
  <1>4. /\ service'[p] = [s EXCEPT !.stage = "writing"] /\ service'[p] \in Operation
        /\ service'[p].op = s.op /\ service'[p].receipt = s.receipt
        /\ service'[p].now = s.now /\ service'[p].view = s.view
        /\ service'[p].stage = "writing"
    BY <1>1, <1>2, <1>3 DEF Operation
  <1>5. s.op = "record_before_dispatch" => BoundBy(s)
    BY <1>1, <1>3 DEF Continue, BindingMatches, BoundBy
  <1>6. pc'[p] = "waiting" /\ call'[p] = CallOf(service'[p])
    BY <1>1, <1>2, <1>4 DEF CallOf
  <1>7. service'[p] # Null
    BY <1>4, ServiceAssumption
  <1>8. ServiceOK(p)'
    BY <1>1, <1>3, <1>4, <1>5, <1>6, <1>7 DEF ServiceOK, InService, BoundBy, CallOf
  <1>9. QED
    BY <1>1, <1>2, <1>8, UntouchedKeeps, RecordsKeep, ContinuesItself DEF DInv

LEMMA RejectBindingKeeps ==
    ASSUME DInv, NEW p \in Process, RejectBinding(p), IInv'
    PROVE  DInv'
  <1>1. /\ UNCHANGED vars /\ intent' = intent /\ dispatched' = dispatched
        /\ service' = [service EXCEPT ![p] = Null] /\ pc[p] = "idle"
    BY DEF RejectBinding, Abandon
  <1>2. DOMAIN service = Process
    BY DEF DInv
  <1>3. ServiceOK(p)'
    BY <1>1, <1>2, OutsideIsOK DEF vars
  <1>4. QED
    BY <1>1, <1>2, <1>3, UntouchedKeeps, RecordsKeep, ContinuesItself DEF DInv, vars
-----------------------------------------------------------------------------
(* The steps of the ledger under an operation. *)

(* What a snapshot returned is of the row it saw. *)
LEMMA SnapshotKeeps ==
    ASSUME DInv, NEW p \in Process, SnapshotTaken(p), IInv'
    PROVE  DInv'
  <1>1. /\ pc[p] = "inside" /\ call[p].op \in {"has_intent", "has_submit_key", "snapshot"}
        /\ row' = row /\ intent' = intent /\ dispatched' = dispatched
        /\ pc' = [pc EXCEPT ![p] = "committed"] /\ call' = call
        /\ service' = IF At(p, "record_before_dispatch", "reading")
                      THEN [service EXCEPT ![p].view = row] ELSE service
    BY DEF SnapshotTaken, CommitRead, Inside, Commit, durable
  <1>2. /\ DOMAIN pc = Process /\ DOMAIN service = Process /\ row \in Row \cup {Null}
        /\ pc'[p] = "committed"
    BY <1>1 DEF DInv, IInv, TypeOK
  <1>3. ServiceOK(p)'
    <2>1. CASE At(p, "record_before_dispatch", "reading")
      <3>1. service[p] \in Operation
        BY <2>1 DEF At, DInv, ServiceOK
      <3>2. /\ service'[p] = [service[p] EXCEPT !.view = row]
            /\ service'[p] \in Operation
        BY <1>1, <1>2, <2>1, <3>1 DEF Operation
      <3>3. /\ service'[p].op = service[p].op /\ service'[p].stage = "reading"
            /\ service'[p].receipt = service[p].receipt /\ service'[p].now = service[p].now
            /\ service'[p].view = row
        BY <2>1, <3>1, <3>2 DEF Operation, At
      <3>4. call[p] = CallOf(service[p])
        BY <1>1, <2>1 DEF At, DInv, ServiceOK
      <3>5. call'[p] = CallOf(service'[p])
        BY <1>1, <2>1, <3>3, <3>4 DEF CallOf, At
      <3>6. service'[p] # Null
        BY <3>2, ServiceAssumption
      <3>7. QED
        BY <1>1, <1>2, <3>2, <3>3, <3>5, <3>6 DEF ServiceOK, InService
    <2>2. CASE ~At(p, "record_before_dispatch", "reading")
      <3>1. service' = service
        BY <1>1, <2>2
      <3>2. ~At(p, "record_before_dispatch", "writing")
        BY <1>1, CallOfWriting DEF At, DInv, ServiceOK
      <3>3. QED
        BY <1>1, <1>2, <3>1, <3>2 DEF DInv, ServiceOK, InService, At, CallOf
    <2>3. QED
      BY <2>1, <2>2
  <1>4. \A q \in Process : q # p => ServiceOK(q)'
    BY <1>1, <1>2, UntouchedKeeps, ContinuesItself DEF DInv
  <1>5. QED
    BY <1>1, <1>2, <1>3, <1>4, RecordsKeep, ContinuesItself DEF DInv

(* The statement of an outside user, or a second call of reserve. *)
LEMMA ReservationKeeps ==
    ASSUME DInv, NEW p \in Process, ReservationCommitted(p), IInv', Continues(row, row')
    PROVE  DInv'
  <1>1. /\ pc[p] = "inside" /\ call[p].op = "reserve_intent"
        /\ service' = service /\ dispatched' = dispatched /\ call' = call
        /\ pc' = [pc EXCEPT ![p] = "committed"]
        /\ intent' = IF row = Null /\ InService(p) THEN service[p].receipt ELSE intent
        /\ row = Null => row' = ReservedRow(call[p].attempt, call[p].requested, call[p].now)
        /\ row # Null => row' = row
    BY DEF ReservationCommitted, CommitReserve, Inside, Commit
  <1>2. DOMAIN pc = Process /\ pc'[p] = "committed"
    BY <1>1 DEF DInv, IInv, TypeOK
  <1>3. InService(p) =>
          /\ service[p] \in Operation /\ service[p].op = "reserve"
          /\ service[p].stage = "writing"
          /\ call[p].attempt = ReceiptAttempt[service[p].receipt]
    <2> SUFFICES ASSUME InService(p)
                 PROVE  /\ service[p] \in Operation /\ service[p].op = "reserve"
                        /\ service[p].stage = "writing"
                        /\ call[p].attempt = ReceiptAttempt[service[p].receipt]
      OBVIOUS
    <2>1. /\ service[p] \in Operation /\ call[p] = CallOf(service[p])
          /\ service[p].stage # "read"
      BY <1>1 DEF DInv, ServiceOK
    <2>2. service[p].stage = "writing"
      BY <1>1, <2>1, CallOfReading DEF Operation
    <2>3. QED
      BY <1>1, <2>1, <2>2, CallOfWriting DEF Operation, Operations
  <1>4. ~InService(p) => call[p] \in DirectCalls
    BY <1>1 DEF DInv, ServiceOK
  <1>5. ServiceOK(p)'
    BY <1>1, <1>2, <1>3, <1>4 DEF DInv, ServiceOK, InService, CallOf, Continues
  <1>6. \A q \in Process : q # p => ServiceOK(q)'
    BY <1>1, <1>2, UntouchedKeeps DEF DInv
  <1>7. IntentFrozen' /\ DispatchesBound'
    <2>1. CASE row # Null
      BY <1>1, <2>1, RecordsKeep, ContinuesItself DEF DInv
    <2>2. CASE row = Null
      <3>1. intent = Null /\ dispatched = {}
        BY <2>2 DEF DInv, IntentFrozen, DispatchesBound, Started
      <3>2. row' # Null /\ row'.attempt = call[p].attempt
        <4>1. /\ call[p].attempt \in Attempt /\ call[p].requested \in Nat
              /\ call[p].now \in Nat /\ call[p].requested =< call[p].now
          BY <1>1, CallShape DEF DInv, IInv, ReserveCall
        <4>2. QED
          BY <1>1, <2>2, <4>1, ReservedRowValid DEF ReservedRow
      <3>3. CASE InService(p)
        <4>1. service[p].receipt \in Receipts /\ intent' = service[p].receipt
          BY <1>1, <1>3, <2>2, <3>3 DEF Operation
        <4>2. QED
          BY <1>1, <1>3, <3>1, <3>2, <3>3, <4>1, AttemptCarriesProof, ServiceAssumption
          DEF IntentFrozen, DispatchesBound
      <3>4. CASE ~InService(p)
        BY <1>1, <1>4, <3>1, <3>2, <3>4, ServiceAssumption DEF IntentFrozen, DispatchesBound
      <3>5. QED
        BY <3>3, <3>4
    <2>3. QED
      BY <2>1, <2>2
  <1>8. QED
    BY <1>1, <1>5, <1>6, <1>7 DEF DInv

(* A start of record_before_dispatch is of the row it compared. *)
LEMMA OtherStatementKeeps ==
    ASSUME DInv, NEW p \in Process, OtherStatement(p), IInv', Continues(row, row')
    PROVE  DInv'
  <1>1. /\ pc[p] = "inside" /\ call[p].op \in {"initialize", "open", "mark_started", "confirm"}
        /\ service' = service /\ intent' = intent /\ dispatched' = dispatched /\ call' = call
        /\ pc' = [pc EXCEPT ![p] = "committed"]
    BY DEF OtherStatement, CommitInitialize, CommitOpen, CommitStart, CommitConfirm,
       Inside, Commit, serviceVars
  <1>2. DOMAIN pc = Process /\ pc'[p] = "committed"
    BY <1>1 DEF DInv, IInv, TypeOK
  <1>3. row = Null => row' = Null
    BY DEF OtherStatement, CommitInitialize, CommitOpen, CommitStart, CommitConfirm,
       StartAccepted, AfterConfirm, EvidenceMatches, durable
  <1>4. call[p].op = "mark_started" => Started(row')
    <2> SUFFICES ASSUME call[p].op = "mark_started" PROVE Started(row')
      OBVIOUS
    <2>1. CommitStart(p)
      BY DEF OtherStatement, CommitInitialize, CommitOpen, CommitConfirm, Inside
    <2>2. row \in Row /\ RowValid(row) /\ call[p].started \in Nat
      BY <1>1, <2>1, CallShape
      DEF DInv, IInv, CommitStart, StartAccepted, TypeOK, SlotAlwaysReadable, SlotReadable,
          StartCall
    <2>3. QED
      BY <2>1, <2>2, StartedRowValid DEF CommitStart
  <1>5. ServiceOK(p)'
    <2>1. CASE InService(p)
      <3>1. /\ service[p] \in Operation /\ call[p] = CallOf(service[p])
            /\ service[p].stage # "read"
        BY <1>1, <2>1 DEF DInv, ServiceOK
      <3>2. service[p].op = "record_before_dispatch" /\ service[p].stage = "writing"
               => BoundBy(service[p])' /\ Started(row')
        BY <1>1, <1>4, <2>1, <3>1, CallOfWriting
        DEF DInv, ServiceOK, BoundBy, Continues
      <3>3. service[p].view # Null => row' # Null /\ row'.attempt = service[p].view.attempt
        BY <2>1 DEF DInv, ServiceOK, Continues
      <3>4. QED
        BY <1>1, <1>2, <2>1, <3>1, <3>2, <3>3 DEF ServiceOK, InService, BoundBy, CallOf
    <2>2. CASE ~InService(p)
      BY <1>1, <2>2 DEF ServiceOK, InService
    <2>3. QED
      BY <2>1, <2>2
  <1>6. \A q \in Process : q # p => ServiceOK(q)'
    BY <1>1, <1>2, UntouchedKeeps DEF DInv
  <1>7. QED
    BY <1>1, <1>3, <1>5, <1>6, RecordsKeep DEF DInv

(* The answer to a ledger call: the operation is half done, or over. *)
LEMMA CallReturnsKeeps ==
    ASSUME DInv, NEW p \in Process, CallReturns(p), IInv'
    PROVE  DInv'
  <1>1. /\ pc[p] = "committed" /\ row' = row /\ intent' = intent
        /\ pc' = [pc EXCEPT ![p] = "idle"] /\ call' = [call EXCEPT ![p] = NoCall]
        /\ service' = [service EXCEPT ![p] =
                         IF ~InService(p) \/ OperationEnds(p) THEN Null
                         ELSE [@ EXCEPT !.stage = "read"]]
        /\ dispatched' = IF At(p, "record_before_dispatch", "writing")
                         THEN dispatched \cup {service[p].receipt} ELSE dispatched
    BY DEF CallReturns, Return, End, durable
  <1>2. DOMAIN pc = Process /\ DOMAIN call = Process /\ DOMAIN service = Process
    BY DEF DInv, IInv, TypeOK
  <1>3. ServiceOK(p)'
    <2>1. CASE ~InService(p) \/ OperationEnds(p)
      BY <1>1, <1>2, <2>1, OutsideIsOK
    <2>2. CASE InService(p) /\ ~OperationEnds(p)
      <3>1. /\ service[p] \in Operation
            /\ service[p].view # Null => row # Null /\ row.attempt = service[p].view.attempt
        BY <2>2 DEF DInv, ServiceOK
      <3>2. service'[p] = [service[p] EXCEPT !.stage = "read"]
        BY <1>1, <1>2, <2>2
      <3>3. /\ service'[p] \in Operation /\ service'[p].stage = "read"
            /\ service'[p].view = service[p].view
        BY <3>1, <3>2 DEF Operation
      <3>4. service'[p] # Null
        BY <3>3, ServiceAssumption
      <3>5. QED
        BY <1>1, <1>2, <3>1, <3>3, <3>4 DEF ServiceOK, InService
    <2>3. QED
      BY <2>1, <2>2
  <1>4. \A q \in Process : q # p => ServiceOK(q)'
    BY <1>1, <1>2, UntouchedKeeps, ContinuesItself DEF DInv
  <1>5. IntentFrozen'
    BY <1>1 DEF DInv, IntentFrozen
  <1>6. DispatchesBound'
    <2>1. CASE At(p, "record_before_dispatch", "writing")
      <3>1. service[p] \in Operation /\ BoundBy(service[p]) /\ Started(row)
        BY <1>1, <2>1 DEF At, DInv, ServiceOK
      <3>2. /\ service[p].receipt \in Receipts
            /\ row.attempt.validation_key = ProofKey(Document[service[p].receipt])
        BY <3>1, AttemptCarriesProof DEF Operation, BoundBy
      <3>3. QED
        BY <1>1, <2>1, <3>1, <3>2 DEF DInv, DispatchesBound, Started
    <2>2. CASE ~At(p, "record_before_dispatch", "writing")
      BY <1>1, <2>2 DEF DInv, DispatchesBound, Started
    <2>3. QED
      BY <2>1, <2>2
  <1>7. QED
    BY <1>1, <1>3, <1>4, <1>5, <1>6 DEF DInv

LEMMA CallFailsKeeps ==
    ASSUME DInv, NEW p \in Process, CallFails(p), IInv'
    PROVE  DInv'
  <1>1. /\ row' = row /\ intent' = intent /\ dispatched' = dispatched
        /\ service' = [service EXCEPT ![p] = Null]
        /\ \E st \in {"down", "idle"} :
               pc' = [pc EXCEPT ![p] = st] /\ call' = [call EXCEPT ![p] = NoCall]
    BY DEF CallFails, FailBeforeCommit, RejectStart, FailAfterCommit, Crash, Raise, End,
       Abandon, durable
  <1>2. DOMAIN pc = Process /\ DOMAIN call = Process /\ DOMAIN service = Process
    BY DEF DInv, IInv, TypeOK
  <1>3. ServiceOK(p)'
    BY <1>1, <1>2, OutsideIsOK
  <1>4. \A q \in Process : q # p => ServiceOK(q)'
    BY <1>1, <1>2, UntouchedKeeps, ContinuesItself DEF DInv
  <1>5. QED
    BY <1>1, <1>3, <1>4, RecordsKeep, ContinuesItself DEF DInv

(* The start of a call, and the lock. *)
LEMMA OpeningKeeps ==
    ASSUME DInv, NEW p \in Process, CreateFile(p) \/ OpenFile(p), UNCHANGED serviceVars, IInv'
    PROVE  DInv'
  <1>1. /\ pc[p] = "down" /\ row' = row /\ UNCHANGED serviceVars
        /\ pc' = [pc EXCEPT ![p] = "waiting"]
        /\ \E op \in {"initialize", "open"} : call' = [call EXCEPT ![p] = [op |-> op]]
    BY DEF CreateFile, OpenFile, durable
  <1>2. DOMAIN pc = Process /\ DOMAIN call = Process
    BY DEF DInv, IInv, TypeOK
  <1>3. ServiceOK(p)'
    BY <1>1, <1>2 DEF DInv, ServiceOK, InService, serviceVars
  <1>4. \A q \in Process : q # p => ServiceOK(q)'
    BY <1>1, <1>2, UntouchedKeeps, ContinuesItself DEF DInv, serviceVars
  <1>5. QED
    BY <1>1, <1>3, <1>4, RecordsKeep, ContinuesItself DEF DInv, serviceVars

LEMMA DirectCallKeeps ==
    ASSUME DInv, NEW p \in Process, ~InService(p), NEW c \in DirectCalls, Invoke(p, c),
           UNCHANGED serviceVars, IInv'
    PROVE  DInv'
  <1>1. /\ row' = row /\ UNCHANGED serviceVars
        /\ pc' = [pc EXCEPT ![p] = "waiting"] /\ call' = [call EXCEPT ![p] = c]
    BY DEF Invoke, durable
  <1>2. DOMAIN pc = Process /\ DOMAIN call = Process
    BY DEF DInv, IInv, TypeOK
  <1>3. ServiceOK(p)'
    BY <1>1, <1>2 DEF ServiceOK, InService, serviceVars
  <1>4. \A q \in Process : q # p => ServiceOK(q)'
    BY <1>1, <1>2, UntouchedKeeps, ContinuesItself DEF DInv, serviceVars
  <1>5. QED
    BY <1>1, <1>3, <1>4, RecordsKeep, ContinuesItself DEF DInv, serviceVars

LEMMA BeginKeeps ==
    ASSUME DInv, NEW p \in Process, Begin(p), UNCHANGED serviceVars, IInv'
    PROVE  DInv'
  <1>1. /\ pc[p] = "waiting" /\ row' = row /\ UNCHANGED serviceVars
        /\ pc' = [pc EXCEPT ![p] = "inside"] /\ call' = call
    BY DEF Begin, durable
  <1>2. DOMAIN pc = Process
    BY DEF DInv, IInv, TypeOK
  <1>3. ServiceOK(p)'
    BY <1>1, <1>2 DEF DInv, ServiceOK, InService, serviceVars, CallOf, BoundBy
  <1>4. \A q \in Process : q # p => ServiceOK(q)'
    BY <1>1, <1>2, UntouchedKeeps, ContinuesItself DEF DInv, serviceVars
  <1>5. QED
    BY <1>1, <1>3, <1>4, RecordsKeep, ContinuesItself DEF DInv, serviceVars
-----------------------------------------------------------------------------
(* Every step, and the theorems. *)

LEMMA DurableInitInv == DurableInit => DInv
  BY InitInv
  DEF DurableInit, DInv, Init, ServiceOK, InService, IntentFrozen, DispatchesBound

LEMMA DurableStepPreserves ==
    ASSUME DInv, [DurableNext]_durableVars
    PROVE  DInv'
  <1>1. IInv' /\ Continues(row, row')
    BY StepIsLedgerStep, StepPreserves DEF DInv
  <1>2. CASE UNCHANGED durableVars
    <2>1. UNCHANGED <<row, pc, call, service, intent, dispatched>>
      BY <1>2 DEF durableVars, vars, serviceVars
    <2>2. \A q \in Process : ServiceOK(q)'
      BY <1>1, <2>1, UntouchedKeeps DEF DInv
    <2>3. QED
      BY <1>1, <2>1, <2>2, RecordsKeep DEF DInv
  <1>3. ASSUME NEW p \in Process, ServiceStep(p)
        PROVE  DInv'
    BY <1>1, <1>3, BeginsKeeps, ContinueKeeps, RejectBindingKeeps DEF ServiceStep
  <1>4. ASSUME NEW p \in Process, LedgerStep(p)
        PROVE  DInv'
    BY <1>1, <1>4, OpeningKeeps, BeginKeeps, DirectCallKeeps, SnapshotKeeps,
       ReservationKeeps, OtherStatementKeeps, CallReturnsKeeps, CallFailsKeeps
    DEF LedgerStep
  <1>5. QED
    BY <1>2, <1>3, <1>4 DEF DurableNext

THEOREM DurableStrengthening == DurableSpec => []DInv
  BY DurableInitInv, DurableStepPreserves, PTL DEF DurableSpec

(* The service implements the ledger's specification: whatever it and its   *)
(* neighbours do, the ledger sees calls of its own methods (lines 172-206). *)
THEOREM ServiceUsesLedger == DurableSpec => Spec
  <1>1. DurableInit => Init
    BY DEF DurableInit
  <1>2. DInv /\ [DurableNext]_durableVars => [Next]_vars
    BY StepIsLedgerStep
  <1>3. QED
    BY <1>1, <1>2, DurableStrengthening, PTL DEF DurableSpec, Spec

(* Every variable of the service keeps its type. *)
THEOREM DurableTypeCorrect == DurableSpec => []DurableTypeOK
  <1>1. DInv => DurableTypeOK
    <2> SUFFICES ASSUME DInv PROVE DurableTypeOK
      OBVIOUS
    <2>1. service \in [Process -> Operation \cup {Null}]
      BY DEF DInv, ServiceOK, InService
    <2>2. QED
      BY <2>1 DEF DInv, IInv, IntentFrozen, DispatchesBound, DurableTypeOK
  <1>2. QED
    BY <1>1, DurableStrengthening, PTL

(* Equal digests are equal payloads, and a payload holds the whole content. *)
LEMMA SameProofSameContent ==
    ASSUME NEW d \in Receipts, NEW r \in Receipts,
           ProofKey(Document[d]) = ProofKey(Document[r])
    PROVE  Content(d) = Content(r)
  <1> DEFINE x == Document[d]
             y == Document[r]
  <1>1. Payload(x) = Payload(y)
    BY ServiceAssumption
  <1>2. /\ Payload(x).validation = <<x.request.execution_id, x.request.form_fingerprint>>
        /\ Payload(y).validation = <<y.request.execution_id, y.request.form_fingerprint>>
        /\ Payload(x).submit = x.request.submit_key /\ Payload(y).submit = y.request.submit_key
        /\ Payload(x).target = x.prepared.final_url /\ Payload(y).target = y.prepared.final_url
        /\ Payload(x).form = x.prepared.final_form_fingerprint
        /\ Payload(y).form = y.prepared.final_form_fingerprint
        /\ Payload(x).fields = AnswersOf(x) /\ Payload(y).fields = AnswersOf(y)
        /\ Payload(x).cv = CvOf(x) /\ Payload(y).cv = CvOf(y)
    BY DEF Payload
  <1>3. QED
    BY <1>1, <1>2 DEF Content

(* A permitted dispatch is of what this service reserved, to the last answer *)
(* and the bytes of the CV (_proof_key, lines 162-163; 202-211).             *)
THEOREM DispatchIsOfReservation == DurableSpec => []DispatchMatchesReservation
  <1>1. DInv => DispatchMatchesReservation
    <2> SUFFICES ASSUME DInv, NEW d \in dispatched
                 PROVE  intent # Null /\ Started(row) /\ Content(d) = Content(intent)
      BY DEF DispatchMatchesReservation
    <2>1. /\ d \in Receipts /\ Started(row)
          /\ row.attempt.validation_key = ProofKey(Document[d])
      BY DEF DInv, DispatchesBound
    <2>2. /\ intent \in Receipts
          /\ row.attempt.validation_key = ProofKey(Document[intent])
      BY <2>1 DEF DInv, IntentFrozen, Started
    <2>3. QED
      BY <2>1, <2>2, SameProofSameContent, ServiceAssumption
  <1>2. QED
    BY <1>1, DurableStrengthening, PTL
-----------------------------------------------------------------------------
(* What a receipt can hold. *)

(* Every required control of an accepted receipt is a fact, a text that was *)
(* written, or the CV: a form that demands a work right, a salary, a        *)
(* consent or a demographic answer never becomes an intent, since           *)
(* SAFE_VERIFIED_FIELDS and DYNAMIC_AI_FIELDS name no such field            *)
(* (_validate_receipt, lines 96-154).                                       *)
THEOREM RequiredAnswersAreWritable ==
    ASSUME NEW d, NEW now, ReceiptAccepted(d, now), NEW c \in Required(d)
    PROVE  /\ c.field \in WritableFields \cup {"document.cv"}
           /\ c.field \notin WorkRightFields \cup SalaryFields \cup PrivacyFields
                \cup MarketingFields \cup DemographicFields \cup TechnicalFields
  <1>1. c.field \in WritableFields \cup {"document.cv"}
    <2>1. CASE c.field = "document.cv"
      BY <2>1
    <2>2. CASE c.field # "document.cv"
      <3>1. PICK x \in d.prepared.field_results : x.field = c.field
        BY <2>2 DEF ReceiptAccepted, RequiredResolved
      <3>2. QED
        BY <3>1 DEF ReceiptAccepted, ResultsVerified, FieldVerified
    <2>3. QED
      BY <2>1, <2>2
  <1>2. QED
    BY <1>1 DEF WritableFields, WorkRightFields, SalaryFields, PrivacyFields,
       MarketingFields, DemographicFields, TechnicalFields
=============================================================================
