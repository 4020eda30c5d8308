--------------------------- MODULE ExecutionQueue ---------------------------
(***************************************************************************)
(* GD-004: the TEST execution queue in a spreadsheet, the signed gateway   *)
(* that owns it and the CI runners that work it off.                       *)
(*   - google_native/apps_script_zero_cost/EjsQueueZeroCostV1.gs: the      *)
(*     handlers that read, claim and reconcile a row, and the initializer; *)
(*   - src/ejs/services/github_queue.py: GitHubQueueRunner.run;            *)
(*   - src/ejs/services/apps_script_gateway.py: the client, 20 s timeout.  *)
(*                                                                         *)
(* The initializer stages one row per deployed SHA and names the execution *)
(* after it, so rows are indexed by SHA.  Requests are never removed: the  *)
(* gateway may run one late, again after its runner is gone, or never.     *)
(* A refused request, a lost answer, a timeout and an answer that fails    *)
(* validation look the same to the runner: an exception ends it (Fail).    *)
(* ReplayLedger.tla has the signatures' replay rules; a replayed claim or  *)
(* reconcile passes them and reaches the handlers below again.             *)
(***************************************************************************)
EXTENDS Integers, FiniteSets

CONSTANTS Sha, Runner,
          SourceSha,   \* SourceSha[r]: the commit runner r is started for
          AssetCount,  \* approved assets of a payload
          MaxRows,     \* MAX_QUEUE_ROWS
          Statuses,    \* typed statuses of an inspection, "rendered" among them
          Null

QueueState == {"READY", "CLAIMED", "COMPLETED", "REVIEW_REQUIRED"}
Result == [by: Runner, typed: Statuses]   \* times and fingerprints make it the runner's own
Row == [state: QueueState, result: Result \cup {Null}]
Request == [op: {"snapshot", "claim", "reconcile", "readback"}, by: Runner, arg: Result \cup {Null}]
           \cup [op: {"asset"}, by: Runner, arg: 1 .. AssetCount]

Outcome == {"replay", "completed", "review_required", "blocked"}

ASSUME QueueAssumption ==
    /\ SourceSha \in [Runner -> Sha]
    /\ AssetCount \in 0 .. 2 /\ MaxRows \in Nat
    /\ "rendered" \in Statuses
    /\ Null \notin Runner \cup Statuses \cup Result \cup Row \cup Outcome \cup {"unposted"}
    /\ "unposted" \notin Runner

VARIABLES
    deployed,   \* ejsGhDeployedShaV1_: the SHA the gateway serves
    row,        \* row[s]: the execution's row of the sheet, or Null
    requests,   \* signed requests sent so far
    responses,  \* signed answers sent so far: [to: Request, state, result, won]
    pc,         \* pc[r]: the call runner r waits for, or where it stands
    left,       \* left[r]: assets still to verify
    finding,    \* finding[r]: the typed status its browser reported, or Null
    outcome,    \* outcome[r]: what the run reports, or Null
    holder      \* history: holder[s] is the runner whose claim won row s, or Null

gateway == <<deployed, row, holder>>
runner  == <<pc, left, finding, outcome>>
vars == <<deployed, row, requests, responses, pc, left, finding, outcome, holder>>

Init ==
    /\ deployed \in Sha
    /\ row = [s \in Sha |-> Null] /\ holder = [s \in Sha |-> Null]
    /\ requests = {} /\ responses = {}
    /\ pc = [r \in Runner |-> "off"] /\ left = [r \in Runner |-> 0]
    /\ finding = [r \in Runner |-> Null] /\ outcome = [r \in Runner |-> Null]

-----------------------------------------------------------------------------
(* The editor: a new deployment, and ejsGhInitializeSyntheticTestV1. *)

Redeploy(s) == deployed' = s /\ s # deployed
               /\ UNCHANGED <<row, holder, requests, responses, runner>>

(* Mutant: the initializer writes the row it finds afresh. *)
SeedAnyRow ==
    /\ Cardinality({s \in Sha \ {deployed} : row[s] # Null}) < MaxRows
    /\ row' = [row EXCEPT ![deployed] = [state |-> "READY", result |-> Null]]
    /\ UNCHANGED <<deployed, holder, requests, responses, runner>>

Seed ==
    /\ row[deployed] = Null   \* an existing row is reported, never reset
    /\ Cardinality({s \in Sha : row[s] # Null}) < MaxRows
    /\ row' = [row EXCEPT ![deployed] = [state |-> "READY", result |-> Null]]
    /\ UNCHANGED <<deployed, holder, requests, responses, runner>>

-----------------------------------------------------------------------------
(* The gateway.  Every handler needs the deployed SHA and an existing row   *)
(* (ejsGhQueueRecordV1_); otherwise it refuses and changes nothing.  Claim  *)
(* and reconcile hold the script lock from the read to the verified write.  *)

Served(q) == /\ q \in requests
             /\ SourceSha[q.by] = deployed /\ row[deployed] # Null

Answer(q, r, won) ==
    responses' = responses \cup {[to |-> q, state |-> r.state, result |-> r.result, won |-> won]}

GetExecutionPayload(q) ==
    /\ q.op \in {"snapshot", "readback"} /\ Served(q)
    /\ Answer(q, row[deployed], FALSE)
    /\ UNCHANGED <<gateway, requests, runner>>

(* Mutant: a claim of a row already CLAIMED is granted again. *)
QueueClaimAgain(q) ==
    /\ q.op = "claim" /\ Served(q)
    /\ LET ready == row[deployed].state \in {"READY", "CLAIMED"}
           claimed == [row[deployed] EXCEPT !.state = "CLAIMED"]
       IN  /\ row' = IF ready THEN [row EXCEPT ![deployed] = claimed] ELSE row
           /\ holder' = IF ready THEN [holder EXCEPT ![deployed] = q.by] ELSE holder
           /\ Answer(q, row'[deployed], ready)
    /\ UNCHANGED <<deployed, requests, runner>>

QueueClaim(q) ==
    /\ q.op = "claim" /\ Served(q)
    /\ LET ready == row[deployed].state = "READY"
           claimed == [row[deployed] EXCEPT !.state = "CLAIMED"]
       IN  /\ row' = IF ready THEN [row EXCEPT ![deployed] = claimed] ELSE row
           /\ holder' = IF ready THEN [holder EXCEPT ![deployed] = q.by] ELSE holder
           /\ Answer(q, row'[deployed], ready)
    /\ UNCHANGED <<deployed, requests, runner>>

(* The state is read before and after the Drive file; both must be CLAIMED. *)
ReadApprovedAsset(q) ==
    /\ q.op = "asset" /\ Served(q)
    /\ row[deployed].state = "CLAIMED"
    /\ Answer(q, row[deployed], FALSE)
    /\ UNCHANGED <<gateway, requests, runner>>

FinalState(typed) == IF typed = "rendered" THEN "COMPLETED" ELSE "REVIEW_REQUIRED"

(* A first result is recorded; the same result again is a replay; another   *)
(* result, or a row nobody claimed, is refused.                             *)
QueueReconcile(q) ==
    /\ q.op = "reconcile" /\ Served(q)
    /\ LET old == row[deployed]
           new == [state |-> FinalState(q.arg.typed), result |-> q.arg]
       IN  \/ /\ old.state = "CLAIMED" /\ old.result = Null
              /\ row' = [row EXCEPT ![deployed] = new]
              /\ Answer(q, new, FALSE)
           \/ /\ old.state # "READY" /\ old.result = q.arg
              /\ row' = row
              /\ Answer(q, old, FALSE)
    /\ UNCHANGED <<deployed, holder, requests, runner>>

Gateway(q) == GetExecutionPayload(q) \/ QueueClaim(q) \/ ReadApprovedAsset(q) \/ QueueReconcile(q)

-----------------------------------------------------------------------------
(* GitHubQueueRunner.run, from one answer to the next call.                 *)

Call(r, op, arg) == requests' = requests \cup {[op |-> op, by |-> r, arg |-> arg]}

Goto(r, where) == pc' = [pc EXCEPT ![r] = where]

End(r, what) == Goto(r, "ended") /\ outcome' = [outcome EXCEPT ![r] = what]

(* The answers to the call runner r is waiting for. *)
Answers(r) == {a \in responses : a.to.by = r /\ a.to.op = pc[r]
                                 /\ (pc[r] = "asset" => a.to.arg = left[r])}

Start(r) ==
    /\ pc[r] = "off"
    /\ Goto(r, "snapshot") /\ Call(r, "snapshot", Null)
    /\ UNCHANGED <<gateway, responses, left, finding, outcome>>

OnSnapshot(r) ==
    /\ pc[r] = "snapshot"
    /\ \E a \in Answers(r) :
          \/ /\ a.state = "READY"
             /\ Goto(r, "claim") /\ Call(r, "claim", Null) /\ UNCHANGED outcome
          \/ /\ a.state # "READY"
             /\ End(r, "replay") /\ UNCHANGED requests
    /\ UNCHANGED <<gateway, responses, left, finding>>

(* After a won claim or an asset: the next asset, or the browser. *)
NextAsset(r, n) ==
    IF n = 0 THEN Goto(r, "browser") /\ UNCHANGED requests
             ELSE Goto(r, "asset") /\ Call(r, "asset", n)

OnClaim(r) ==
    /\ pc[r] = "claim"
    /\ \E a \in Answers(r) :
          \/ /\ a.won
             /\ left' = [left EXCEPT ![r] = AssetCount]
             /\ NextAsset(r, AssetCount) /\ UNCHANGED outcome
          \/ /\ ~a.won
             /\ End(r, "replay") /\ UNCHANGED <<requests, left>>
    /\ UNCHANGED <<gateway, responses, finding>>

OnAsset(r) ==
    /\ pc[r] = "asset" /\ Answers(r) # {}
    /\ left' = [left EXCEPT ![r] = @ - 1]
    /\ NextAsset(r, left[r] - 1)
    /\ UNCHANGED <<gateway, responses, finding, outcome>>

(* GitHubReadOnlyBrowserExecutor.inspect, then the result is sent. *)
Inspect(r, typed) ==
    /\ pc[r] = "browser"
    /\ finding' = [finding EXCEPT ![r] = typed]
    /\ Goto(r, "reconcile") /\ Call(r, "reconcile", [by |-> r, typed |-> typed])
    /\ UNCHANGED <<gateway, responses, left, outcome>>

OnReconciled(r) ==
    /\ pc[r] = "reconcile"
    /\ \E a \in Answers(r) : a.result = [by |-> r, typed |-> finding[r]]
    /\ Goto(r, "readback") /\ Call(r, "readback", Null)
    /\ UNCHANGED <<gateway, responses, left, finding, outcome>>

OnReadback(r) ==
    /\ pc[r] = "readback"
    /\ \E a \in Answers(r) : /\ a.result = [by |-> r, typed |-> finding[r]]
                             /\ a.state = FinalState(finding[r])
    /\ End(r, IF finding[r] = "rendered" THEN "completed" ELSE "review_required")
    /\ UNCHANGED <<gateway, requests, responses, left, finding>>

(* Mutant: the client has no timeout: the run only fails between its calls. *)
FailBetweenCalls(r) ==
    /\ pc[r] \notin {"off", "ended"} /\ Answers(r) # {}
    /\ End(r, "blocked")
    /\ UNCHANGED <<gateway, requests, responses, left, finding>>

(* An exception: refusal, timeout, failed validation, browser error or the  *)
(* end of the process.                                                      *)
Fail(r) ==
    /\ pc[r] \notin {"off", "ended"}
    /\ End(r, "blocked")
    /\ UNCHANGED <<gateway, requests, responses, left, finding>>

Protocol(r) == OnSnapshot(r) \/ OnClaim(r) \/ OnAsset(r) \/ OnReconciled(r) \/ OnReadback(r)

Run(r) == Protocol(r) \/ Fail(r) \/ \E typed \in Statuses : Inspect(r, typed)

(* The editor, the gateway and the start of a run: nothing the runner does. *)
Environment == \/ \E s \in Sha : Redeploy(s)
               \/ Seed
               \/ \E q \in requests : Gateway(q)
               \/ \E r \in Runner : Start(r)

Next == Environment \/ \E r \in Runner : Run(r)

(* A started run goes on to its end: every call ends in an answer or in the *)
(* client's timeout.  Nothing is assumed of the gateway or of the editor.   *)
Spec == Init /\ [][Next]_vars /\ \A r \in Runner : WF_vars(Run(r))

-----------------------------------------------------------------------------
(* Properties. *)

Executed(r) == finding[r] # Null \/ pc[r] = "browser"

TypeOK ==
    /\ deployed \in Sha
    /\ row \in [Sha -> Row \cup {Null}]
    /\ holder \in [Sha -> Runner \cup {Null}]
    /\ requests \subseteq Request
    /\ \A a \in responses : /\ a.to \in requests /\ a.won \in BOOLEAN
                            /\ a.state \in QueueState /\ a.result \in Result \cup {Null}
    /\ pc \in [Runner -> {"off", "snapshot", "claim", "asset", "browser", "reconcile",
                          "readback", "ended"}]
    /\ left \in [Runner -> 0 .. AssetCount]
    /\ finding \in [Runner -> Statuses \cup {Null}]
    /\ outcome \in [Runner -> Outcome \cup {Null}]

(* However claims are duplicated, delayed past their runner or raced by     *)
(* others, at most one runner opens a browser for an execution, and only    *)
(* after its own claim won (github_queue.py:78-98, claim handler 121-135).  *)
OneExecution == \A r \in Runner : Executed(r) => holder[SourceSha[r]] = r

(* What a run reports is what the sheet holds, then and ever after, and the *)
(* result it vouches for is its own (github_queue.py:104-113).              *)
TruthfulReport ==
    \A r \in Runner : outcome[r] \in {"completed", "review_required"} =>
        LET mine == row[SourceSha[r]]
        IN  /\ mine # Null /\ mine.result = [by |-> r, typed |-> finding[r]]
            /\ mine.state = "COMPLETED" <=> outcome[r] = "completed"

(* A claimed row gets its result or its runner is over: then the row stays  *)
(* quarantined ("Interrupted claims stay quarantined"), but no run hangs on *)
(* a claim for ever.                                                        *)
Settled(s) == row[s] # Null /\ row[s].state \in {"COMPLETED", "REVIEW_REQUIRED"}
ClaimsSettle ==
    \A s \in Sha : (holder[s] # Null) ~> (Settled(s) \/ \E r \in Runner :
                                              holder[s] = r /\ pc[r] = "ended")

Jobs == INSTANCE OneShotJobs WITH
    Job <- Sha, Worker <- Runner, Verdict <- Statuses,
    taken <- [s \in Sha |-> IF row[s] = Null THEN "unposted" ELSE holder[s]],
    verdict <- [s \in Sha |-> IF row[s] = Null \/ row[s].result = Null THEN Null
                              ELSE [by |-> row[s].result.by, says |-> row[s].result.typed]]

(* The queue is a set of one-shot jobs: "existing data is never reset", a   *)
(* claim is final, and the one result recorded is its holder's (initializer *)
(* and handlers, lines 111-134, 189-206 and 240).                           *)
ImplementsOneShotJobs == Jobs!Spec
=============================================================================
