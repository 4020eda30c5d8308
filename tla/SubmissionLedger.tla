-------------------------- MODULE SubmissionLedger --------------------------
(***************************************************************************)
(* SqliteSubmissionLedger (persistence/submission_ledger.py): one database *)
(* file on one host, shared by any number of processes that each construct *)
(* a ledger object and call its methods in any order with any arguments.   *)
(*                                                                         *)
(* A call goes through the steps of _transaction: the arguments are        *)
(* examined before any connection exists, BEGIN IMMEDIATE takes the one    *)
(* write lock (or the 10 s busy timeout expires), the schema is checked,   *)
(* the method's statement runs and COMMIT makes it durable, the parent     *)
(* directory is synced, the method returns.  An OS or SQLite error may     *)
(* strike in every one of these steps, also after the COMMIT, and a        *)
(* process may be killed in every one of them.                             *)
(*                                                                         *)
(* SQLite itself is external: a transaction is atomic and durable at its   *)
(* COMMIT, and a killed holder's transaction is rolled back by the         *)
(* journal.  Each method stands for its whole body.                        *)
(***************************************************************************)
EXTENDS LedgerRow

CONSTANTS Process,   \* operating system processes that use the ledger
          Calls      \* the method calls they may issue

ReserveCall == [op: {"reserve_intent"}, attempt: Attempt, validated: BOOLEAN,
                requested: Nat, now: Nat]
StartCall   == [op: {"mark_started"}, submit_key: SubmitKeys,
                execution_id: Executions, started: Nat]
ConfirmCall == [op: {"confirm"}, submit_key: SubmitKeys,
                evidence: ConfirmationEvidence, now: Nat]
ReadCall    == [op: {"has_intent", "snapshot"}]
                  \cup [op: {"has_submit_key"}, submit_key: SubmitKeys]
OpenCall    == [op: {"initialize", "open"}]
NoCall      == [op |-> "none"]

ASSUME CallsAssumption ==
    /\ Calls \subseteq ReserveCall \cup StartCall \cup ConfirmCall \cup ReadCall
    /\ Null \notin Process

VARIABLES
    file,         \* the database file: "absent", "empty" (no schema), "ready"
    row,          \* the committed row of first_application, or Null
    lock,         \* the process inside BEGIN IMMEDIATE .. COMMIT, or Null
    pc,           \* pc[p]: "down", "idle", "waiting", "inside", "committed"
    call,         \* call[p]: the call under way
    answer,       \* answer[p]: what its committed statement is about to return
    reserveAcks,  \* how often reserve_intent has returned True, to anybody
    startAcks,    \* how often mark_started has returned normally
    confirmAcks   \* the evidence for which confirm has returned True

durable == <<file, row>>
acks    == <<reserveAcks, startAcks, confirmAcks>>
vars    == <<file, row, lock, pc, call, answer, reserveAcks, startAcks, confirmAcks>>

Opening(c) == c.op \in {"initialize", "open"}

Init ==
    /\ file = "absent" /\ row = Null /\ lock = Null
    /\ pc = [p \in Process |-> "down"]
    /\ call = [p \in Process |-> NoCall]
    /\ answer = [p \in Process |-> "none"]
    /\ reserveAcks = 0 /\ startAcks = 0 /\ confirmAcks = {}

-----------------------------------------------------------------------------
(* Construction of a ledger object. *)

(* __init__ on a path that does not exist: the exclusive create wins, and *)
(* the file is durable before it has a schema.                            *)
CreateFile(p) ==
    /\ pc[p] = "down" /\ file = "absent"
    /\ file' = "empty"
    /\ pc' = [pc EXCEPT ![p] = "waiting"]
    /\ call' = [call EXCEPT ![p] = [op |-> "initialize"]]
    /\ UNCHANGED <<row, lock, answer, acks>>

OpenFileRebuilding(p) ==   \* mutant: an abandoned empty file is initialised again
    /\ pc[p] = "down" /\ file # "absent"
    /\ pc' = [pc EXCEPT ![p] = "waiting"]
    /\ call' = [call EXCEPT ![p] = [op |-> IF file = "empty" THEN "initialize" ELSE "open"]]
    /\ UNCHANGED <<durable, lock, answer, acks>>

(* __init__ on an existing file: FileExistsError, only the schema check. *)
OpenFile(p) ==
    /\ pc[p] = "down" /\ file # "absent"
    /\ pc' = [pc EXCEPT ![p] = "waiting"]
    /\ call' = [call EXCEPT ![p] = [op |-> "open"]]
    /\ UNCHANGED <<durable, lock, answer, acks>>

-----------------------------------------------------------------------------
(* The steps every call shares. *)

(* Checks made before a connection is opened. *)
ArgumentsAccepted(c) ==
    CASE c.op = "reserve_intent" -> c.validated /\ c.requested =< c.now
      [] c.op = "confirm" -> EvidenceOffered(c.submit_key, c.evidence, c.now)
      [] OTHER -> TRUE

(* A method is called.  Arguments that fail the first checks end the call   *)
(* at once, reserve_intent raising and confirm returning False: no state of *)
(* the ledger or of the process knows of such a call.                       *)
Invoke(p, c) ==
    /\ pc[p] = "idle" /\ ArgumentsAccepted(c)
    /\ pc' = [pc EXCEPT ![p] = "waiting"]
    /\ call' = [call EXCEPT ![p] = c]
    /\ UNCHANGED <<durable, lock, answer, acks>>

SchemaAccepted(c) == c.op = "initialize" \/ (file = "ready" /\ SlotReadable(row))

(* BEGIN IMMEDIATE succeeds and _check_schema accepts what it finds. *)
Begin(p) ==
    /\ pc[p] = "waiting" /\ lock = Null
    /\ SchemaAccepted(call[p])
    /\ lock' = p
    /\ pc' = [pc EXCEPT ![p] = "inside"]
    /\ UNCHANGED <<durable, call, answer, acks>>

(* The call is over: its process is in state s, with nothing under way. *)
End(p, s) ==
    /\ pc' = [pc EXCEPT ![p] = s]
    /\ call' = [call EXCEPT ![p] = NoCall]
    /\ answer' = [answer EXCEPT ![p] = "none"]
    /\ lock' = IF lock = p THEN Null ELSE lock

(* A constructor that raises leaves no object behind; a method does. *)
Raise(p) ==
    /\ End(p, IF Opening(call[p]) THEN "down" ELSE "idle")
    /\ UNCHANGED <<durable, acks>>

(* Anything that raises before COMMIT: an unsafe file, the busy timeout, a *)
(* rejected schema, an OS or SQLite error.  The transaction is rolled back. *)
FailBeforeCommit(p) ==
    /\ pc[p] \in {"waiting", "inside"}
    /\ Raise(p)

(* The statement has been committed: the lock is free again. *)
Commit(p, a) ==
    /\ pc' = [pc EXCEPT ![p] = "committed"]
    /\ answer' = [answer EXCEPT ![p] = a]
    /\ lock' = Null
    /\ UNCHANGED <<call, acks>>

Inside(p, op) == pc[p] = "inside" /\ lock = p /\ call[p].op = op

-----------------------------------------------------------------------------
(* The statements. *)

CommitInitialize(p) ==
    /\ Inside(p, "initialize")
    /\ file' = "ready" /\ UNCHANGED row
    /\ Commit(p, "true")

CommitOpen(p) ==
    /\ Inside(p, "open")
    /\ UNCHANGED durable
    /\ Commit(p, "true")

CommitReserve(p) ==
    /\ Inside(p, "reserve_intent")
    /\ UNCHANGED file
    /\ \/ /\ row = Null
          /\ row' = ReservedRow(call[p].attempt, call[p].requested, call[p].now)
          /\ Commit(p, "true")
       \/ /\ row # Null
          /\ UNCHANGED row
          /\ Commit(p, "false")

CommitStart(p) ==
    /\ Inside(p, "mark_started")
    /\ StartAccepted(row, call[p].submit_key, call[p].execution_id, call[p].started)
    /\ row' = StartedRow(row, call[p].started)
    /\ UNCHANGED file
    /\ Commit(p, "true")

(* LEDGER_START_REJECTED is raised inside the transaction: rolled back. *)
RejectStart(p) ==
    /\ Inside(p, "mark_started")
    /\ ~StartAccepted(row, call[p].submit_key, call[p].execution_id, call[p].started)
    /\ Raise(p)

CommitConfirm(p) ==
    /\ Inside(p, "confirm")
    /\ row' = AfterConfirm(row, call[p].evidence, call[p].now)
    /\ UNCHANGED file
    /\ Commit(p, IF ConfirmReturns(row, call[p].evidence) THEN "true" ELSE "false")

Found(c) ==
    row # Null /\ (c.op = "has_submit_key" => row.attempt.submit_key = c.submit_key)

CommitRead(p) ==
    /\ \E op \in {"has_intent", "has_submit_key", "snapshot"} : Inside(p, op)
    /\ UNCHANGED durable
    /\ Commit(p, IF Found(call[p]) THEN "true" ELSE "false")

-----------------------------------------------------------------------------
(* After the COMMIT. *)

(* _sync_parent and close succeed and the caller gets its answer. *)
Return(p) ==
    /\ pc[p] = "committed"
    /\ End(p, "idle")
    /\ reserveAcks' = reserveAcks
          + IF call[p].op = "reserve_intent" /\ answer[p] = "true" THEN 1 ELSE 0
    /\ startAcks' = startAcks + IF call[p].op = "mark_started" THEN 1 ELSE 0
    /\ confirmAcks' = confirmAcks
          \cup IF call[p].op = "confirm" /\ answer[p] = "true"
               THEN {call[p].evidence.evidence_ref} ELSE {}
    /\ UNCHANGED durable

(* They fail: the caller sees LEDGER_STORAGE_FAILED for a committed change. *)
FailAfterCommit(p) ==
    /\ pc[p] = "committed"
    /\ Raise(p)

(* The process is killed. *)
Crash(p) ==
    /\ pc[p] # "down"
    /\ End(p, "down")
    /\ UNCHANGED <<durable, acks>>

-----------------------------------------------------------------------------

Statement(p) ==
    \/ CommitInitialize(p) \/ CommitOpen(p) \/ CommitReserve(p)
    \/ CommitStart(p) \/ RejectStart(p) \/ CommitConfirm(p) \/ CommitRead(p)

Finish(p) == Return(p) \/ FailAfterCommit(p)

Next ==
    \E p \in Process :
        \/ CreateFile(p) \/ OpenFile(p)
        \/ \E c \in Calls : Invoke(p, c)
        \/ Begin(p) \/ FailBeforeCommit(p)
        \/ Statement(p) \/ Finish(p)
        \/ Crash(p)

Spec == Init /\ [][Next]_vars

-----------------------------------------------------------------------------
(* Properties. *)

TypeOK ==
    /\ file \in {"absent", "empty", "ready"}
    /\ row \in Row \cup {Null}
    /\ lock \in Process \cup {Null}
    /\ pc \in [Process -> {"down", "idle", "waiting", "inside", "committed"}]
    /\ call \in [Process -> Calls \cup OpenCall \cup {NoCall}]
    /\ answer \in [Process -> {"none", "true", "false"}]
    /\ reserveAcks \in Nat /\ startAcks \in Nat
    /\ confirmAcks \subseteq Evidence

(* No sequence of accepted calls, whatever times the callers pass, leaves a *)
(* row that the state checks of _check_schema (lines 190-220) refuse: the   *)
(* ledger can always be read again after its own writes.                    *)
SlotAlwaysReadable == SlotReadable(row) /\ (row # Null => file = "ready")

(* reserve_intent returns True at most once and mark_started returns        *)
(* normally at most once, over all processes, retries and restarts: the one *)
(* application budget of the module docstring (lines 1-6).  And a start is  *)
(* only ever acknowledged when the durable row says it may have been sent.  *)
OneGrant ==
    /\ reserveAcks =< 1 /\ startAcks =< 1
    /\ reserveAcks = 1 => row # Null
    /\ startAcks = 1 => Started(row)

(* All evidence for which confirm ever answered True is the evidence in the *)
(* row: conflicting confirmations are never both accepted (lines 271-279).  *)
ConfirmationsAgree ==
    \A e \in confirmAcks : Confirmed(row) /\ row.evidence_ref = e

(* The slot is never emptied, rebound to another attempt, moved back or     *)
(* given other times or evidence by any step, crash or failure (lines 3-6). *)
SlotPermanent == [][Continues(row, row')]_vars

(* A file whose creator did not get to commit the schema stays unusable:    *)
(* no later open rebuilds it into a fresh budget (lines 110-111).           *)
Initializing(p) == pc[p] \in {"waiting", "inside"} /\ call[p].op = "initialize"
CreatorGone == file = "empty" /\ ~(\E p \in Process : Initializing(p))
AbandonedStaysClosed == [][CreatorGone => CreatorGone' /\ row' = Null]_vars
=============================================================================
