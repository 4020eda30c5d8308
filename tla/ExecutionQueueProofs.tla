------------------------ MODULE ExecutionQueueProofs ------------------------
(***************************************************************************)
(* Theorems about the execution queue with the browser of its runners, for *)
(* any number of runners, commits, assets and documents: one execution per *)
(* row, truthful reports of documents that were read, and the refinement   *)
(* of OneShotJobs.  And about the replay ledger through which the gateway  *)
(* lets every request of a runner pass.                                    *)
(*                                                                         *)
(* None of the queue's properties is inductive: answers and requests are   *)
(* never forgotten.  The strengthening says what each of them still proves *)
(* about the row, however late it is used: a won claim names the holder, a *)
(* result in an answer is the one in the row, and a result in a request is *)
(* the finding of its sender.                                              *)
(***************************************************************************)
EXTENDS BrowserInspection, ReplayLedger, FiniteSetTheorems, TLAPS

Places == {"off", "snapshot", "claim", "asset", "browser", "reconcile", "readback", "ended"}

(* Claiming and finishing a row: its state tells whether it has a holder     *)
(* and a result.                                                             *)
RowsTold ==
    \A s \in Sha :
        /\ holder[s] # Null => row[s] # Null /\ row[s].state # "READY"
        /\ row[s] # Null => IF row[s].result = Null
                            THEN row[s].state \in {"READY", "CLAIMED"}
                            ELSE row[s].state = FinalState(row[s].result.typed)

(* What a runner has got: a holder only goes on with its own claim, and      *)
(* reports one finding.                                                      *)
Progress ==
    \A r \in Runner :
        /\ pc[r] \in {"asset", "browser", "reconcile", "readback"} \/ finding[r] # Null
              => holder[SourceSha[r]] = r
        /\ pc[r] \in {"off", "snapshot", "claim", "asset", "browser"} => finding[r] = Null
        /\ pc[r] \in {"reconcile", "readback"} => finding[r] # Null
        /\ outcome[r] # Null => pc[r] = "ended"
        /\ outcome[r] \in {"completed", "review_required"} => finding[r] # Null

RequestsOwned ==
    \A q \in requests : q.op = "reconcile" =>
        finding[q.by] # Null /\ q.arg = [by |-> q.by, typed |-> finding[q.by]]

ResultsOwned ==
    \A s \in Sha : row[s] # Null /\ row[s].result # Null =>
        /\ finding[row[s].result.by] # Null
        /\ row[s].result.typed = finding[row[s].result.by]

AnswersHold ==
    \A a \in responses :
        /\ a.won => holder[SourceSha[a.to.by]] = a.to.by
        /\ a.result # Null => /\ row[SourceSha[a.to.by]] # Null
                              /\ row[SourceSha[a.to.by]].result = a.result

QInv == TypeOK /\ RowsTold /\ Progress /\ RequestsOwned /\ ResultsOwned /\ AnswersHold /\ TruthfulReport

BrowserTypeOK ==
    /\ visit \in [Runner -> {"none", "settle", "extract", "describe"}]
    /\ tab \in [Runner -> Document \cup {Null}]
    /\ trace \in [Runner -> Nat]
    /\ looked \in [Runner -> Document \cup {Null}]

(* A finding is a failure, or what the document in looked amounts to.        *)
Looked(r) ==
    /\ visit[r] \in {"settle", "extract"} => tab[r] # Null
    /\ pc[r] = "browser" /\ visit[r] = "describe" => looked[r] # Null
    /\ visit[r] # "none" => pc[r] = "browser"
    /\ finding[r] # Null => \/ finding[r] \in Failures
                            \/ looked[r] # Null /\ finding[r] = RuntimeState(looked[r])

BInv == QInv /\ BrowserTypeOK /\ \A r \in Runner : Looked(r)

-----------------------------------------------------------------------------
(* The queue. *)

USE DEF Places

(* The initial state.                                                        *)
LEMMA QInit == Init => QInv
  <1> SUFFICES ASSUME Init PROVE QInv
    OBVIOUS
  <1>1. TypeOK
    BY QueueAssumption DEF Init, TypeOK
  <1>2. RowsTold /\ Progress /\ RequestsOwned /\ ResultsOwned /\ AnswersHold /\ TruthfulReport
    BY QueueAssumption
    DEF Init, Outcome, RowsTold, Progress, RequestsOwned, ResultsOwned, AnswersHold, TruthfulReport
  <1>3. QED
    BY <1>1, <1>2 DEF QInv

LEMMA RedeployPreserves ==
    ASSUME QInv, NEW s \in Sha, Redeploy(s)
    PROVE  QInv'
  <1> USE DEF Redeploy, runner
  <1>1. TypeOK'
    BY DEF QInv, TypeOK
  <1>2. (RowsTold /\ Progress /\ RequestsOwned /\ ResultsOwned /\ AnswersHold /\ TruthfulReport)'
    BY DEF QInv, RowsTold, Progress, RequestsOwned, ResultsOwned, AnswersHold, TruthfulReport
  <1>3. QED
    BY <1>1, <1>2 DEF QInv

LEMMA SeedPreserves ==
    ASSUME QInv, Seed
    PROVE  QInv'
  <1> USE DEF Seed, runner
  <1> DEFINE new == [state |-> "READY", result |-> Null]
  <1>0. new \in Row /\ new # Null
    BY QueueAssumption DEF Row, QueueState
  <1>1. TypeOK'
    BY <1>0 DEF QInv, TypeOK
  <1>2. RowsTold'
    BY <1>0 DEF QInv, RowsTold, TypeOK
  <1>3. (Progress /\ RequestsOwned)'
    BY DEF QInv, Progress, RequestsOwned
  <1>4. (ResultsOwned /\ AnswersHold)'
    BY DEF QInv, ResultsOwned, AnswersHold, TypeOK
  <1>5. TruthfulReport'
    BY DEF QInv, TruthfulReport, TypeOK
  <1>6. QED
    BY <1>1, <1>2, <1>3, <1>4, <1>5 DEF QInv

Answered(a) == a.to \in requests /\ a.won \in BOOLEAN
               /\ a.state \in QueueState /\ a.result \in Result \cup {Null}

LEMMA AnsweredAlso ==
    ASSUME \A a \in responses : Answered(a),
           NEW q \in requests, NEW state \in QueueState, NEW result \in Result \cup {Null}, NEW won \in BOOLEAN
    PROVE  \A a \in responses \cup {[to |-> q, state |-> state, result |-> result, won |-> won]} : Answered(a)
  BY DEF Answered

(* An answer that repeats the row, without a won claim.                      *)
LEMMA AnswerPreserves ==
    ASSUME QInv, NEW q, Served(q), Answer(q, row[deployed], FALSE),
           UNCHANGED <<gateway, requests, runner>>
    PROVE  QInv'
  <1> USE DEF Served, Answer, gateway, runner
  <1>1. TypeOK'
    <2>1. row[deployed] \in Row
      BY DEF QInv, TypeOK
    <2>2. row[deployed].state \in QueueState /\ row[deployed].result \in Result \cup {Null}
      BY <2>1 DEF Row
    <2>3. \A a \in responses : Answered(a)
      BY DEF QInv, TypeOK, Answered
    <2>4. \A a \in responses' : Answered(a)
      <3> DEFINE old == [to |-> q, state |-> row[deployed].state, result |-> row[deployed].result, won |-> FALSE]
      <3>1. responses' = responses \cup {old}
        OBVIOUS
      <3>2. q \in requests /\ FALSE \in BOOLEAN
        OBVIOUS
      <3>3. QED
        BY <2>2, <2>3, <3>1, <3>2, AnsweredAlso, Zenon
    <2>5. QED
      BY <2>4 DEF QInv, TypeOK, Answered
  <1>2. (RowsTold /\ Progress /\ RequestsOwned /\ ResultsOwned /\ TruthfulReport)'
    BY DEF QInv, RowsTold, Progress, RequestsOwned, ResultsOwned, TruthfulReport
  <1>3. AnswersHold'
    BY DEF QInv, AnswersHold
  <1>4. QED
    BY <1>1, <1>2, <1>3 DEF QInv

(* A run that reports a result vouches for a row that has one.               *)
LEMMA ReportedRow ==
    ASSUME QInv, NEW r \in Runner, outcome[r] \in {"completed", "review_required"}
    PROVE  /\ SourceSha[r] \in Sha /\ row[SourceSha[r]] \in Row
           /\ row[SourceSha[r]].result # Null
  <1>1. SourceSha[r] \in Sha /\ row[SourceSha[r]] \in Row
    BY QueueAssumption DEF QInv, TypeOK, TruthfulReport
  <1>2. finding[r] \in Statuses
    BY DEF QInv, TypeOK, Progress
  <1>3. [by |-> r, typed |-> finding[r]] \in Result
    BY <1>2 DEF Result
  <1>4. QED
    BY <1>1, <1>3, QueueAssumption DEF QInv, TruthfulReport

LEMMA ClaimPreserves ==
    ASSUME QInv, NEW q, QueueClaim(q)
    PROVE  QInv'
  <1> USE DEF Served
  <1> DEFINE claimed == [row[deployed] EXCEPT !.state = "CLAIMED"]
  <1>1. CASE row[deployed].state # "READY"
    <2>1. UNCHANGED <<gateway, requests, runner>> /\ Answer(q, row[deployed], FALSE)
      BY <1>1 DEF QueueClaim, gateway, runner, Answer
    <2>2. QED
      BY <2>1, AnswerPreserves DEF QueueClaim
  <1>2. CASE row[deployed].state = "READY"
    <2> USE DEF runner
    <2>1. /\ q \in requests /\ q.by \in Runner /\ SourceSha[q.by] = deployed
          /\ deployed \in Sha /\ row[deployed] \in Row /\ q.op = "claim"
      BY DEF QInv, TypeOK, QueueClaim, Request
    <2>2. /\ row' = [row EXCEPT ![deployed] = claimed]
          /\ holder' = [holder EXCEPT ![deployed] = q.by]
          /\ UNCHANGED <<deployed, requests, runner>>
      BY <1>2 DEF QueueClaim
    <2>3. /\ claimed \in Row /\ claimed # Null /\ claimed.state = "CLAIMED"
          /\ claimed.result = row[deployed].result
      BY <2>1, QueueAssumption DEF Row, QueueState
    <2>4. row'[deployed] = claimed /\ holder'[deployed] = q.by
      BY <2>1, <2>2 DEF QInv, TypeOK
    <2>5. responses' = responses \cup {[to |-> q, state |-> "CLAIMED", result |-> claimed.result, won |-> TRUE]}
      BY <1>2, <2>3, <2>4 DEF QueueClaim, Answer
    <2>6. row[deployed].result = Null /\ holder[deployed] = Null
      BY <1>2, <2>1, QueueAssumption DEF QInv, RowsTold, FinalState
    <2>7. TypeOK'
      <3>1. /\ deployed' \in Sha /\ row' \in [Sha -> Row \cup {Null}]
            /\ holder' \in [Sha -> Runner \cup {Null}] /\ requests' \subseteq Request
        BY <2>1, <2>2, <2>3 DEF QInv, TypeOK
      <3>2. "CLAIMED" \in QueueState /\ claimed.result \in Result \cup {Null} /\ TRUE \in BOOLEAN
        BY <2>3 DEF Row, QueueState
      <3>3. \A a \in responses : Answered(a)
        BY DEF QInv, TypeOK, Answered
      <3>4. \A a \in responses' : Answered(a)
        BY <2>1, <2>5, <3>2, <3>3, AnsweredAlso, Zenon
      <3>5. QED
        BY <2>2, <3>1, <3>4 DEF QInv, TypeOK, Answered
    <2>8. RowsTold'
      BY <2>1, <2>2, <2>3, <2>6 DEF QInv, TypeOK, RowsTold
    <2>9. Progress'
      BY <2>1, <2>2, <2>6, QueueAssumption DEF QInv, TypeOK, Progress
    <2>10. (RequestsOwned /\ ResultsOwned)'
      BY <2>1, <2>2, <2>3, <2>6 DEF QInv, TypeOK, RequestsOwned, ResultsOwned
    <2>11. AnswersHold'
      <3>1. ASSUME NEW a \in responses
            PROVE  /\ a.won => holder'[SourceSha[a.to.by]] = a.to.by
                   /\ a.result # Null => /\ row'[SourceSha[a.to.by]] # Null
                                         /\ row'[SourceSha[a.to.by]].result = a.result
        <4>1. a.to.by \in Runner /\ SourceSha[a.to.by] \in Sha
          BY QueueAssumption DEF QInv, TypeOK, Request
        <4>2. /\ a.won => holder[SourceSha[a.to.by]] = a.to.by
              /\ a.result # Null => /\ row[SourceSha[a.to.by]] # Null
                                    /\ row[SourceSha[a.to.by]].result = a.result
          BY DEF QInv, AnswersHold
        <4>3. QED
          BY <2>1, <2>2, <2>3, <2>6, <4>1, <4>2, QueueAssumption DEF QInv, TypeOK
      <3>2. QED
        BY <2>1, <2>4, <2>5, <2>6, <3>1, <2>3 DEF AnswersHold
    <2>12. TruthfulReport'
      <3>1. ASSUME NEW r \in Runner, outcome'[r] \in {"completed", "review_required"}
            PROVE  row'[SourceSha[r]] = row[SourceSha[r]]
        BY <2>1, <2>2, <2>6, <3>1, ReportedRow DEF QInv, TypeOK
      <3>2. QED
        BY <2>2, <3>1 DEF QInv, TruthfulReport
    <2>13. QED
      BY <2>7, <2>8, <2>9, <2>10, <2>11, <2>12 DEF QInv
  <1>3. QED
    BY <1>1, <1>2

LEMMA ReconcilePreserves ==
    ASSUME QInv, NEW q, QueueReconcile(q)
    PROVE  QInv'
  <1> USE DEF Served
  <1>1. CASE row' = row /\ Answer(q, row[deployed], FALSE)
    <2>1. UNCHANGED <<gateway, requests, runner>>
      BY <1>1 DEF QueueReconcile, gateway, runner
    <2>2. QED
      BY <1>1, <2>1, AnswerPreserves DEF QueueReconcile
  <1> DEFINE new == [state |-> FinalState(q.arg.typed), result |-> q.arg]
  <1>2. CASE /\ row[deployed].state = "CLAIMED" /\ row[deployed].result = Null
             /\ row' = [row EXCEPT ![deployed] = new] /\ Answer(q, new, FALSE)
    <2> USE DEF runner
    <2>1. /\ q \in requests /\ q.by \in Runner /\ SourceSha[q.by] = deployed
          /\ deployed \in Sha /\ row[deployed] \in Row
      BY DEF QInv, TypeOK, QueueReconcile, Request
    <2>2. UNCHANGED <<deployed, holder, requests, runner>>
      BY DEF QueueReconcile
    <2>3. finding[q.by] # Null /\ q.arg = [by |-> q.by, typed |-> finding[q.by]]
      BY <2>1 DEF QInv, RequestsOwned, QueueReconcile
    <2>4. /\ q.arg \in Result /\ q.arg # Null
          /\ q.arg.by = q.by /\ q.arg.typed = finding[q.by]
      BY <2>1, <2>3, QueueAssumption DEF QInv, TypeOK, Result
    <2>5. /\ new \in Row /\ new # Null /\ new.state \in {"COMPLETED", "REVIEW_REQUIRED"}
          /\ new.result = q.arg /\ new.state = FinalState(new.result.typed)
      BY <2>4, QueueAssumption DEF Row, QueueState, FinalState
    <2>6. responses' = responses \cup {[to |-> q, state |-> new.state, result |-> q.arg, won |-> FALSE]}
      BY <1>2, <2>5 DEF Answer
    <2>7. TypeOK'
      <3>1. /\ deployed' \in Sha /\ row' \in [Sha -> Row \cup {Null}]
            /\ holder' \in [Sha -> Runner \cup {Null}] /\ requests' \subseteq Request
        BY <1>2, <2>1, <2>2, <2>5 DEF QInv, TypeOK
      <3>2. new.state \in QueueState /\ q.arg \in Result \cup {Null} /\ FALSE \in BOOLEAN
        BY <2>4, <2>5 DEF QueueState
      <3>3. \A a \in responses : Answered(a)
        BY DEF QInv, TypeOK, Answered
      <3>4. \A a \in responses' : Answered(a)
        BY <2>1, <2>6, <3>2, <3>3, AnsweredAlso, Zenon
      <3>5. QED
        BY <2>2, <3>1, <3>4 DEF QInv, TypeOK, Answered
    <2>8. RowsTold'
      BY <1>2, <2>1, <2>2, <2>4, <2>5 DEF QInv, TypeOK, RowsTold
    <2>9. (Progress /\ RequestsOwned)'
      BY <2>2 DEF QInv, Progress, RequestsOwned
    <2>10. ResultsOwned'
      BY <1>2, <2>1, <2>2, <2>3, <2>4, <2>5 DEF QInv, TypeOK, ResultsOwned
    <2>11. AnswersHold'
      <3>1. ASSUME NEW a \in responses
            PROVE  /\ a.won => holder'[SourceSha[a.to.by]] = a.to.by
                   /\ a.result # Null => /\ row'[SourceSha[a.to.by]] # Null
                                         /\ row'[SourceSha[a.to.by]].result = a.result
        <4>1. a.to.by \in Runner /\ SourceSha[a.to.by] \in Sha
          BY QueueAssumption DEF QInv, TypeOK, Request
        <4>2. /\ a.won => holder[SourceSha[a.to.by]] = a.to.by
              /\ a.result # Null => /\ row[SourceSha[a.to.by]] # Null
                                    /\ row[SourceSha[a.to.by]].result = a.result
          BY DEF QInv, AnswersHold
        <4>3. QED
          BY <1>2, <2>1, <2>2, <2>5, <4>1, <4>2 DEF QInv, TypeOK
      <3>2. row'[deployed] = new
        BY <1>2, <2>1 DEF QInv, TypeOK
      <3>3. QED
        BY <2>1, <2>5, <2>6, <3>1, <3>2 DEF AnswersHold
    <2>12. TruthfulReport'
      <3>1. ASSUME NEW r \in Runner, outcome'[r] \in {"completed", "review_required"}
            PROVE  row'[SourceSha[r]] = row[SourceSha[r]]
        BY <1>2, <2>1, <2>2, <3>1, ReportedRow DEF QInv, TypeOK
      <3>2. QED
        BY <2>2, <3>1 DEF QInv, TruthfulReport
    <2>13. QED
      BY <2>7, <2>8, <2>9, <2>10, <2>11, <2>12 DEF QInv
  <1>3. QED
    BY <1>1, <1>2 DEF QueueReconcile

LEMMA GatewayPreserves ==
    ASSUME QInv, NEW q, Gateway(q)
    PROVE  QInv'
  <1>1. CASE GetExecutionPayload(q)
    BY <1>1, AnswerPreserves DEF GetExecutionPayload
  <1>2. CASE ReadApprovedAsset(q)
    BY <1>2, AnswerPreserves DEF ReadApprovedAsset
  <1>3. QED
    BY <1>1, <1>2, ClaimPreserves, ReconcilePreserves DEF Gateway

-----------------------------------------------------------------------------
(* The runners: they move in pc, and what they send is typed and theirs.     *)

(* A step in which runner r sends something other than a result.             *)
Moved(r, place, n, said, sending) ==
    /\ pc' = [pc EXCEPT ![r] = place] /\ left' = [left EXCEPT ![r] = n]
    /\ outcome' = [outcome EXCEPT ![r] = said] /\ requests' = requests \cup sending
    /\ UNCHANGED <<gateway, responses, finding>>

(* Runner r may be there and say that.                                       *)
Entitled(r, place, said) ==
    /\ place \in {"asset", "browser", "reconcile", "readback"} => holder[SourceSha[r]] = r
    /\ place \in {"off", "snapshot", "claim", "asset", "browser"} => finding[r] = Null
    /\ place \in {"reconcile", "readback"} => finding[r] # Null
    /\ said # Null => place = "ended"
    /\ said \in {"completed", "review_required"} =>
          LET mine == row[SourceSha[r]]
          IN  /\ finding[r] # Null /\ mine # Null
              /\ mine.result = [by |-> r, typed |-> finding[r]]
              /\ mine.state = "COMPLETED" <=> said = "completed"

Question == {q \in Request : q.op # "reconcile"}

LEMMA MovePreserves ==
    ASSUME QInv, NEW r \in Runner, NEW place \in Places, NEW n \in 0 .. AssetCount,
           NEW said \in Outcome \cup {Null}, NEW sending \in SUBSET Question,
           Moved(r, place, n, said, sending), Entitled(r, place, said)
    PROVE  QInv'
  <1> USE DEF gateway, Moved, Entitled, Question
  <1>1. TypeOK'
    BY DEF QInv, TypeOK, Places
  <1>2. (RowsTold /\ ResultsOwned /\ AnswersHold)'
    BY DEF QInv, RowsTold, ResultsOwned, AnswersHold
  <1>3. Progress'
    BY DEF QInv, TypeOK, Progress
  <1>4. RequestsOwned'
    BY DEF QInv, RequestsOwned
  <1>5. TruthfulReport'
    BY DEF QInv, TypeOK, TruthfulReport
  <1>6. QED
    BY <1>1, <1>2, <1>3, <1>4, <1>5 DEF QInv

(* What holds of runner r while it waits for an answer.                      *)
LEMMA Waiting ==
    ASSUME QInv, NEW r \in Runner, pc[r] # "ended"
    PROVE  /\ outcome[r] = Null /\ outcome = [outcome EXCEPT ![r] = Null]
           /\ left[r] \in 0 .. AssetCount /\ left = [left EXCEPT ![r] = left[r]]
           /\ requests = requests \cup {}
  BY DEF QInv, TypeOK, Progress

LEMMA StartPreserves ==
    ASSUME QInv, NEW r \in Runner, Start(r)
    PROVE  QInv'
  <1> DEFINE ask == [op |-> "snapshot", by |-> r, arg |-> Null]
  <1>1. {ask} \in SUBSET Question
    BY DEF Request, Question
  <1>2. Moved(r, "snapshot", left[r], Null, {ask})
    BY Waiting DEF Start, Moved, Goto, Call
  <1>3. Entitled(r, "snapshot", Null)
    BY QueueAssumption DEF Start, Entitled, Outcome, QInv, Progress
  <1>4. left[r] \in 0 .. AssetCount /\ "snapshot" \in Places /\ Null \in Outcome \cup {Null}
    BY DEF QInv, TypeOK, Places
  <1>5. QED
    BY <1>1, <1>2, <1>3, <1>4, MovePreserves, Zenon

LEMMA EndPreserves ==
    ASSUME QInv, NEW r \in Runner, pc[r] # "ended", NEW said \in {"replay", "blocked"},
           End(r, said), UNCHANGED <<gateway, requests, responses, left, finding>>
    PROVE  QInv'
  <1>1. {} \in SUBSET Question
    OBVIOUS
  <1>2. Moved(r, "ended", left[r], said, {})
    BY Waiting DEF Moved, End, Goto
  <1>3. Entitled(r, "ended", said)
    BY DEF Entitled
  <1>4. left[r] \in 0 .. AssetCount /\ "ended" \in Places /\ said \in Outcome \cup {Null}
    BY DEF QInv, TypeOK, Places, Outcome
  <1>5. QED
    BY <1>1, <1>2, <1>3, <1>4, MovePreserves, Zenon

LEMMA FailPreserves ==
    ASSUME QInv, NEW r \in Runner, Fail(r)
    PROVE  QInv'
  BY EndPreserves DEF Fail

LEMMA OnSnapshotPreserves ==
    ASSUME QInv, NEW r \in Runner, OnSnapshot(r)
    PROVE  QInv'
  <1> DEFINE ask == [op |-> "claim", by |-> r, arg |-> Null]
  <1>1. pc[r] = "snapshot" /\ UNCHANGED <<gateway, responses, left, finding>>
    BY DEF OnSnapshot
  <1>2. CASE Goto(r, "claim") /\ Call(r, "claim", Null) /\ UNCHANGED outcome
    <2>1. {ask} \in SUBSET Question
      BY DEF Request, Question
    <2>2. Moved(r, "claim", left[r], Null, {ask})
      BY <1>1, <1>2, Waiting DEF Moved, Goto, Call
    <2>3. Entitled(r, "claim", Null)
      BY <1>1, QueueAssumption DEF Entitled, Outcome, QInv, Progress
    <2>4. left[r] \in 0 .. AssetCount /\ "claim" \in Places /\ Null \in Outcome \cup {Null}
      BY DEF QInv, TypeOK, Places
    <2>5. QED
      BY <2>1, <2>2, <2>3, <2>4, MovePreserves, Zenon
  <1>3. CASE End(r, "replay") /\ UNCHANGED requests
    BY <1>1, <1>3, EndPreserves
  <1>4. QED
    BY <1>2, <1>3 DEF OnSnapshot

(* To the next asset, or to the browser.                                     *)
LEMMA NextAssetPreserves ==
    ASSUME QInv, NEW r \in Runner, pc[r] \in {"claim", "asset"}, NEW n \in 0 .. AssetCount,
           holder[SourceSha[r]] = r, NextAsset(r, n), left' = [left EXCEPT ![r] = n],
           UNCHANGED <<gateway, responses, finding, outcome>>
    PROVE  QInv'
  <1> DEFINE ask == [op |-> "asset", by |-> r, arg |-> n]
  <1>1. finding[r] = Null /\ Null \in Outcome \cup {Null}
    BY DEF QInv, Progress
  <1>2. Entitled(r, "asset", Null) /\ Entitled(r, "browser", Null)
    BY <1>1, QueueAssumption DEF Entitled, Outcome
  <1>3. CASE n = 0
    <2>1. Moved(r, "browser", n, Null, {})
      BY <1>3, Waiting DEF Moved, NextAsset, Goto
    <2>2. {} \in SUBSET Question /\ "browser" \in Places
      BY DEF Places
    <2>3. QED
      BY <1>1, <1>2, <2>1, <2>2, MovePreserves, Zenon
  <1>4. CASE n # 0
    <2>1. Moved(r, "asset", n, Null, {ask})
      BY <1>4, Waiting DEF Moved, NextAsset, Goto, Call
    <2>2. {ask} \in SUBSET Question /\ "asset" \in Places
      BY <1>4, QueueAssumption DEF Places, Question, Request
    <2>3. QED
      BY <1>1, <1>2, <2>1, <2>2, MovePreserves, Zenon
  <1>5. QED
    BY <1>3, <1>4

LEMMA OnClaimPreserves ==
    ASSUME QInv, NEW r \in Runner, OnClaim(r)
    PROVE  QInv'
  <1>1. pc[r] = "claim" /\ UNCHANGED <<gateway, responses, finding>>
    BY DEF OnClaim
  <1>2. PICK a \in Answers(r) :
            \/ /\ a.won
               /\ left' = [left EXCEPT ![r] = AssetCount]
               /\ NextAsset(r, AssetCount) /\ UNCHANGED outcome
            \/ /\ ~a.won
               /\ End(r, "replay") /\ UNCHANGED <<requests, left>>
    BY DEF OnClaim
  <1>3. CASE a.won
    <2>1. holder[SourceSha[r]] = r
      BY <1>3 DEF Answers, QInv, AnswersHold
    <2>2. AssetCount \in 0 .. AssetCount
      BY QueueAssumption
    <2>3. QED
      BY <1>1, <1>2, <1>3, <2>1, <2>2, NextAssetPreserves
  <1>4. CASE ~a.won
    BY <1>1, <1>2, <1>4, EndPreserves
  <1>5. QED
    BY <1>3, <1>4

LEMMA OnAssetPreserves ==
    ASSUME QInv, NEW r \in Runner, OnAsset(r)
    PROVE  QInv'
  <1>1. PICK a \in Answers(r) : TRUE
    BY DEF OnAsset
  <1>2. /\ pc[r] = "asset" /\ NextAsset(r, left[r] - 1)
        /\ left' = [left EXCEPT ![r] = left[r] - 1]
        /\ UNCHANGED <<gateway, responses, finding, outcome>>
    BY DEF OnAsset
  <1>3. a.to \in Request /\ a.to.op = "asset" /\ a.to.arg = left[r]
    BY <1>1, <1>2 DEF Answers, QInv, TypeOK
  <1>4. left[r] \in 1 .. AssetCount
    BY <1>3 DEF Request
  <1>5. left[r] - 1 \in 0 .. AssetCount
    BY <1>4, QueueAssumption
  <1>6. holder[SourceSha[r]] = r
    BY <1>2 DEF QInv, Progress
  <1>7. QED
    BY <1>2, <1>5, <1>6, NextAssetPreserves

LEMMA OnReconciledPreserves ==
    ASSUME QInv, NEW r \in Runner, OnReconciled(r)
    PROVE  QInv'
  <1> DEFINE ask == [op |-> "readback", by |-> r, arg |-> Null]
  <1>1. pc[r] = "reconcile"
    BY DEF OnReconciled
  <1>2. {ask} \in SUBSET Question
    BY DEF Request, Question
  <1>3. Moved(r, "readback", left[r], Null, {ask})
    BY <1>1, Waiting DEF OnReconciled, Moved, Goto, Call
  <1>4. Entitled(r, "readback", Null)
    BY <1>1, QueueAssumption DEF Entitled, Outcome, QInv, Progress
  <1>5. left[r] \in 0 .. AssetCount /\ "readback" \in Places /\ Null \in Outcome \cup {Null}
    BY DEF QInv, TypeOK, Places
  <1>6. QED
    BY <1>2, <1>3, <1>4, <1>5, MovePreserves, Zenon

LEMMA OnReadbackPreserves ==
    ASSUME QInv, NEW r \in Runner, OnReadback(r)
    PROVE  QInv'
  <1> DEFINE said == IF finding[r] = "rendered" THEN "completed" ELSE "review_required"
  <1>1. PICK a \in Answers(r) : /\ a.result = [by |-> r, typed |-> finding[r]]
                                /\ a.state = FinalState(finding[r])
    BY DEF OnReadback
  <1>2. finding[r] \in Statuses /\ pc[r] = "readback"
    BY DEF QInv, TypeOK, Progress, OnReadback
  <1>3. a.result \in Result
    BY <1>1, <1>2 DEF Result
  <1>4. /\ row[SourceSha[r]] # Null
        /\ row[SourceSha[r]].result = [by |-> r, typed |-> finding[r]]
        /\ row[SourceSha[r]].result # Null
    BY <1>1, <1>3, QueueAssumption DEF Answers, QInv, AnswersHold
  <1>5. row[SourceSha[r]].state = FinalState(finding[r])
    BY <1>2, <1>4, QueueAssumption DEF QInv, RowsTold
  <1>6. row[SourceSha[r]].state = "COMPLETED" <=> said = "completed"
    BY <1>5 DEF FinalState
  <1>7. finding[r] # Null
    BY <1>2, QueueAssumption
  <1>8. Entitled(r, "ended", said)
    BY <1>4, <1>6, <1>7 DEF Entitled
  <1>9. Moved(r, "ended", left[r], said, {})
    BY <1>2, Waiting DEF OnReadback, Moved, End, Goto
  <1>10. /\ left[r] \in 0 .. AssetCount /\ "ended" \in Places /\ said \in Outcome \cup {Null}
         /\ {} \in SUBSET Question
    BY DEF QInv, TypeOK, Places, Outcome
  <1>11. QED
    BY <1>8, <1>9, <1>10, MovePreserves, Zenon

(* The one step that sends a result: nobody has seen a finding of r before.  *)
LEMMA InspectPreserves ==
    ASSUME QInv, NEW r \in Runner, NEW typed \in Statuses, Inspect(r, typed)
    PROVE  QInv'
  <1> DEFINE told == [op |-> "reconcile", by |-> r, arg |-> [by |-> r, typed |-> typed]]
  <1>1. /\ pc[r] = "browser" /\ pc' = [pc EXCEPT ![r] = "reconcile"]
        /\ finding' = [finding EXCEPT ![r] = typed] /\ requests' = requests \cup {told}
        /\ UNCHANGED <<gateway, responses, left, outcome>>
    BY DEF Inspect, Goto, Call
  <1>2. finding[r] = Null /\ typed # Null /\ outcome[r] = Null
    BY <1>1, QueueAssumption DEF QInv, Progress
  <1>3. told \in Request
    BY DEF Request, Result
  <1>4. finding'[r] = typed /\ \A x \in Runner \ {r} : finding'[x] = finding[x]
    BY <1>1 DEF QInv, TypeOK
  <1>5. TypeOK'
    BY <1>1, <1>3 DEF QInv, TypeOK, gateway
  <1>6. (RowsTold /\ AnswersHold)'
    BY <1>1 DEF QInv, RowsTold, AnswersHold, gateway
  <1>7. Progress'
    BY <1>1, <1>2, <1>4 DEF QInv, TypeOK, Progress, gateway
  <1>8. ResultsOwned'
    <2>1. ASSUME NEW s \in Sha, row[s] # Null, row[s].result # Null
          PROVE  /\ finding'[row[s].result.by] # Null
                 /\ row[s].result.typed = finding'[row[s].result.by]
      <3>1. row[s].result.by \in Runner
        BY <2>1 DEF QInv, TypeOK, Row, Result
      <3>2. /\ finding[row[s].result.by] # Null
            /\ row[s].result.typed = finding[row[s].result.by]
        BY <2>1 DEF QInv, ResultsOwned
      <3>3. QED
        BY <1>2, <1>4, <3>1, <3>2
    <2>2. QED
      BY <1>1, <2>1 DEF ResultsOwned, gateway
  <1>9. RequestsOwned'
    <2>1. ASSUME NEW q \in requests, q.op = "reconcile"
          PROVE  finding'[q.by] # Null /\ q.arg = [by |-> q.by, typed |-> finding'[q.by]]
      <3>1. q.by \in Runner
        BY DEF QInv, TypeOK, Request
      <3>2. finding[q.by] # Null /\ q.arg = [by |-> q.by, typed |-> finding[q.by]]
        BY <2>1 DEF QInv, RequestsOwned
      <3>3. QED
        BY <1>2, <1>4, <3>1, <3>2
    <2>2. QED
      BY <1>1, <1>2, <1>4, <2>1 DEF RequestsOwned
  <1>10. TruthfulReport'
    BY <1>1, <1>2, <1>4, QueueAssumption DEF QInv, TruthfulReport, Outcome, gateway
  <1>11. QED
    BY <1>5, <1>6, <1>7, <1>8, <1>9, <1>10 DEF QInv

LEMMA QStep == QInv /\ [Next]_vars => QInv'
  <1> SUFFICES ASSUME QInv, [Next]_vars PROVE QInv'
    OBVIOUS
  <1>1. CASE UNCHANGED vars
    BY <1>1 DEF vars, QInv, TypeOK, RowsTold, Progress, RequestsOwned, ResultsOwned, AnswersHold, TruthfulReport
  <1>2. CASE Environment
    BY <1>2, RedeployPreserves, SeedPreserves, GatewayPreserves, StartPreserves DEF Environment
  <1>3. ASSUME NEW r \in Runner, Protocol(r) PROVE QInv'
    BY <1>3, OnSnapshotPreserves, OnClaimPreserves, OnAssetPreserves, OnReconciledPreserves,
       OnReadbackPreserves DEF Protocol
  <1>4. ASSUME NEW r \in Runner, NEW typed \in Statuses, Inspect(r, typed) PROVE QInv'
    BY <1>4, InspectPreserves
  <1>5. QED
    BY <1>1, <1>2, <1>3, <1>4, FailPreserves DEF Next, Run

-----------------------------------------------------------------------------
(* The queue as a set of one-shot jobs. *)

Taken   == [s \in Sha |-> IF row[s] = Null THEN "unposted" ELSE holder[s]]
Verdict == [s \in Sha |-> IF row[s] = Null \/ row[s].result = Null THEN Null
                          ELSE [by |-> row[s].result.by, says |-> row[s].result.typed]]

JobsMove ==
    \/ UNCHANGED <<Taken, Verdict>>
    \/ \E s \in Sha : Jobs!Post(s)
    \/ \E s \in Sha, r \in Runner : Jobs!Take(s, r)
    \/ \E s \in Sha, r \in Runner, v \in Statuses : Jobs!Finish(s, r, v)

LEMMA JobsMoveIsStep == JobsMove => [Jobs!Next]_<<Taken, Verdict>>
  BY DEF JobsMove, Jobs!Next, Taken, Verdict

LEMMA SeedPosts ==
    ASSUME QInv, NEW s \in Sha, s = deployed, Seed
    PROVE  Jobs!Post(s)
  <1> DEFINE new == [state |-> "READY", result |-> Null]
  <1>1. /\ deployed \in Sha /\ row[deployed] = Null /\ holder[deployed] = Null
        /\ row' = [row EXCEPT ![deployed] = new] /\ holder' = holder
        /\ new # Null /\ new.result = Null
    BY QueueAssumption DEF QInv, TypeOK, RowsTold, Seed, Row, QueueState
  <1>2. row \in [Sha -> Row \cup {Null}]
    BY DEF QInv, TypeOK
  <1>3. Taken[deployed] = "unposted" /\ Taken' = [Taken EXCEPT ![deployed] = Null]
    BY <1>1, <1>2 DEF Taken
  <1>4. UNCHANGED Verdict
    BY <1>1, <1>2 DEF Verdict
  <1>5. QED
    BY <1>3, <1>4 DEF Jobs!Post, Taken, Verdict

LEMMA ClaimTakes ==
    ASSUME QInv, NEW s \in Sha, s = deployed, NEW q \in requests, QueueClaim(q)
    PROVE  UNCHANGED <<Taken, Verdict>> \/ Jobs!Take(s, q.by)
  <1> DEFINE claimed == [row[deployed] EXCEPT !.state = "CLAIMED"]
  <1>1. deployed \in Sha /\ row[deployed] \in Row /\ row \in [Sha -> Row \cup {Null}]
    BY DEF QInv, TypeOK, QueueClaim, Served
  <1>2. CASE row[deployed].state # "READY"
    BY <1>2 DEF QueueClaim, Taken, Verdict
  <1>3. CASE row[deployed].state = "READY"
    <2>1. /\ row' = [row EXCEPT ![deployed] = claimed]
          /\ holder' = [holder EXCEPT ![deployed] = q.by]
          /\ claimed # Null /\ claimed.result = row[deployed].result
          /\ row[deployed] # Null /\ holder[deployed] = Null
          /\ holder \in [Sha -> Runner \cup {Null}]
      BY <1>1, <1>3, QueueAssumption DEF QueueClaim, Row, QueueState, QInv, TypeOK, RowsTold
    <2>2. Taken[deployed] = Null /\ Taken' = [Taken EXCEPT ![deployed] = q.by]
      BY <1>1, <2>1 DEF Taken
    <2>3. row[deployed].result = Null
      BY <1>3, <2>1, <1>1 DEF QInv, RowsTold, FinalState
    <2>4. UNCHANGED Verdict
      BY <1>1, <2>1, <2>3 DEF Verdict
    <2>5. QED
      BY <2>2, <2>4 DEF Jobs!Take, Taken, Verdict
  <1>4. QED
    BY <1>2, <1>3

LEMMA ReconcileFinishes ==
    ASSUME QInv, NEW s \in Sha, s = deployed, NEW q \in requests, QueueReconcile(q),
           NEW v \in Statuses, v = finding[q.by]
    PROVE  UNCHANGED <<Taken, Verdict>> \/ Jobs!Finish(s, q.by, v)
  <1>1. deployed \in Sha /\ row[deployed] \in Row /\ row \in [Sha -> Row \cup {Null}]
        /\ q.by \in Runner /\ SourceSha[q.by] = deployed /\ holder' = holder
    BY DEF QInv, TypeOK, QueueReconcile, Served, Request
  <1>2. CASE row' = row
    BY <1>1, <1>2 DEF Taken, Verdict
  <1> DEFINE new == [state |-> FinalState(q.arg.typed), result |-> q.arg]
  <1>3. CASE /\ row[deployed].result = Null /\ row' = [row EXCEPT ![deployed] = new]
    <2>1. finding[q.by] # Null /\ q.arg = [by |-> q.by, typed |-> finding[q.by]]
      BY DEF QInv, RequestsOwned, QueueReconcile
    <2>2. /\ q.arg \in Result /\ q.arg # Null /\ new # Null /\ new.result = q.arg
          /\ q.arg.by = q.by /\ q.arg.typed = finding[q.by] /\ row[deployed] # Null
      BY <1>1, <2>1, QueueAssumption DEF QInv, TypeOK, Result, Row, QueueState, FinalState
    <2>3. holder[deployed] = q.by
      BY <1>1, <2>1 DEF QInv, Progress
    <2>4. Taken[deployed] = q.by /\ Taken' = Taken
      BY <1>1, <1>3, <2>2, <2>3 DEF Taken
    <2>5. Verdict[deployed] = Null
      BY <1>1, <1>3 DEF Verdict
    <2>6. Verdict' = [Verdict EXCEPT ![deployed] = [by |-> q.by, says |-> finding[q.by]]]
      BY <1>1, <1>3, <2>2 DEF Verdict
    <2>7. QED
      BY <2>4, <2>5, <2>6 DEF Jobs!Finish, Taken, Verdict
  <1>4. QED
    BY <1>2, <1>3 DEF QueueReconcile

LEMMA StepRefines == QInv /\ [Next]_vars => [Jobs!Next]_<<Taken, Verdict>>
  <1> SUFFICES ASSUME QInv, [Next]_vars PROVE JobsMove
    BY JobsMoveIsStep
  <1>1. CASE UNCHANGED <<row, holder>>
    BY <1>1 DEF JobsMove, Taken, Verdict
  <1>2. CASE Seed
    <2>1. PICK s \in Sha : s = deployed
      BY DEF QInv, TypeOK
    <2>2. QED
      BY <1>2, <2>1, SeedPosts DEF JobsMove
  <1>3. ASSUME NEW q \in requests, Gateway(q)
        PROVE  JobsMove
    <2>1. q.by \in Runner
      BY DEF QInv, TypeOK, Request
    <2> PICK s \in Sha : s = deployed
      BY DEF QInv, TypeOK
    <2>2. CASE QueueClaim(q)
      BY <2>1, <2>2, ClaimTakes DEF JobsMove
    <2>3. CASE QueueReconcile(q)
      <3>1. PICK v \in Statuses : v = finding[q.by]
        BY <2>1, <2>3 DEF QInv, TypeOK, RequestsOwned, QueueReconcile
      <3>2. QED
        BY <2>1, <2>3, <3>1, ReconcileFinishes DEF JobsMove
    <2>4. QED
      BY <1>1, <1>3, <2>2, <2>3 DEF Gateway, GetExecutionPayload, ReadApprovedAsset, gateway
  <1>4. ASSUME NEW r \in Runner, Run(r) \/ Start(r)
        PROVE  UNCHANGED <<row, holder>>
    BY <1>4 DEF Run, Protocol, Fail, Inspect, OnSnapshot, OnClaim, OnAsset, OnReconciled,
                OnReadback, Start, gateway
  <1>5. QED
    BY <1>1, <1>2, <1>3, <1>4 DEF Next, Environment, Redeploy, vars

-----------------------------------------------------------------------------
(* The browser. *)

LEMMA RuntimeStates ==
    ASSUME NEW d \in Document
    PROVE  /\ RuntimeState(d) \in Statuses
           /\ RuntimeState(d) = "rendered" => ~d.captcha /\ (d.auth => d.controls)
  BY BrowserAssumption DEF RuntimeState

(* With its browser, a runner takes the steps of the queue or none.          *)
LEMMA BrowserStepIsStep == BInv /\ [BrowserNext]_browserVars => [Next]_vars
  <1> SUFFICES ASSUME BInv, [BrowserNext]_browserVars PROVE [Next]_vars
    OBVIOUS
  <1>1. CASE UNCHANGED browserVars
    BY <1>1 DEF browserVars
  <1>2. CASE Environment
    BY <1>2 DEF Next
  <1>3. ASSUME NEW r \in Runner, Navigates(r) \/ Visit(r) \/ Settle(r) \/ Extract(r)
        PROVE  UNCHANGED vars
    BY <1>3 DEF Navigates, Visit, Settle, Extract, Moves
  <1>4. ASSUME NEW r \in Runner, TooManySteps(r) \/ Describe(r) \/ Raises(r)
        PROVE  \E typed \in Statuses : Inspect(r, typed)
    <2>1. CASE TooManySteps(r)
      BY <2>1, BrowserAssumption DEF TooManySteps
    <2>2. CASE Describe(r)
      <3>1. looked[r] \in Document
        BY <2>2 DEF Describe, Inside, BInv, BrowserTypeOK, Looked
      <3>2. PICK typed \in Statuses : typed = RuntimeState(looked[r])
        BY <3>1, RuntimeStates
      <3>3. Inspect(r, typed)
        BY <2>2, <3>2 DEF Describe, Inspect, Call
      <3>4. QED
        BY <3>3
    <2>3. CASE Raises(r)
      BY <2>3, BrowserAssumption DEF Raises
    <2>4. QED
      BY <1>4, <2>1, <2>2, <2>3
  <1>5. ASSUME NEW r \in Runner, BrowserRun(r)
        PROVE  Run(r) \/ UNCHANGED vars
    BY <1>3, <1>4, <1>5 DEF BrowserRun, Browse, Killed, Run
  <1>6. QED
    BY <1>1, <1>2, <1>3, <1>5 DEF BrowserNext, Next

LEMMA BInit == BrowserInit => BInv
  <1> SUFFICES ASSUME BrowserInit PROVE BInv
    OBVIOUS
  <1>1. QInv
    BY QInit DEF BrowserInit
  <1>2. BrowserTypeOK
    BY DEF BrowserInit, BrowserTypeOK, Closed
  <1>3. ASSUME NEW r \in Runner PROVE Looked(r)
    BY QueueAssumption DEF BrowserInit, Init, Looked, Closed
  <1>4. QED
    BY <1>1, <1>2, <1>3 DEF BInv

LEMMA BrowserTypes == BInv /\ [BrowserNext]_browserVars => BrowserTypeOK'
  <1> SUFFICES ASSUME BInv, [BrowserNext]_browserVars PROVE BrowserTypeOK'
    OBVIOUS
  <1> USE DEF BrowserTypeOK, Moves, Leaves
  <1>0. BrowserTypeOK
    BY DEF BInv
  <1>1. CASE UNCHANGED browser
    BY <1>0, <1>1 DEF browser
  <1>2. ASSUME NEW r \in Runner, Visit(r) PROVE BrowserTypeOK'
    BY <1>0, <1>2 DEF Visit
  <1>3. ASSUME NEW r \in Runner, Navigates(r) PROVE BrowserTypeOK'
    BY <1>0, <1>3 DEF Navigates
  <1>4. ASSUME NEW r \in Runner, Settle(r) \/ Extract(r) PROVE BrowserTypeOK'
    BY <1>0, <1>4 DEF Settle, Extract
  <1>5. ASSUME NEW r \in Runner, TooManySteps(r) \/ Describe(r) PROVE BrowserTypeOK'
    BY <1>0, <1>5 DEF TooManySteps, Describe
  <1>6. ASSUME NEW r \in Runner, Raises(r) \/ Killed(r) PROVE BrowserTypeOK'
    BY <1>0, <1>6 DEF Raises, Killed
  <1>7. QED
    BY <1>1, <1>2, <1>3, <1>4, <1>5, <1>6 DEF BrowserNext, BrowserRun, Browse, browserVars

(* A step of runner r alone leaves what others have looked at.               *)
LEMMA OthersLook ==
    ASSUME BInv, NEW r \in Runner, NEW x \in Runner \ {r}, Looked(x),
           pc'[x] = pc[x], finding'[x] = finding[x], visit'[x] = visit[x],
           tab'[x] = tab[x], looked'[x] = looked[x]
    PROVE  Looked(x)'
  BY DEF Looked, RuntimeState

LEMMA OthersStay ==
    ASSUME BInv, NEW r \in Runner, BrowserRun(r) \/ Navigates(r), NEW x \in Runner \ {r}
    PROVE  /\ pc'[x] = pc[x] /\ finding'[x] = finding[x] /\ visit'[x] = visit[x]
           /\ tab'[x] = tab[x] /\ looked'[x] = looked[x]
  <1> USE DEF Moves, Leaves, Goto, End, BInv, QInv, TypeOK, BrowserTypeOK, vars
  <1>1. CASE Visit(r) \/ Settle(r) \/ Extract(r) \/ Navigates(r)
    BY <1>1 DEF Visit, Settle, Extract, Navigates
  <1>2. CASE TooManySteps(r) \/ Describe(r) \/ Raises(r)
    BY <1>2 DEF TooManySteps, Describe, Raises, Inspect
  <1>3. CASE Killed(r)
    BY <1>3 DEF Killed, Fail
  <1>4. CASE Protocol(r) /\ UNCHANGED browser
    BY <1>4 DEF Protocol, OnSnapshot, OnClaim, OnAsset, NextAsset, OnReconciled, OnReadback, browser
  <1>5. QED
    BY <1>1, <1>2, <1>3, <1>4 DEF BrowserRun, Browse

(* And what it has looked at itself is what its finding is about.            *)
LEMMA OwnLook ==
    ASSUME BInv, NEW r \in Runner, BrowserRun(r) \/ Navigates(r)
    PROVE  Looked(r)'
  <1> USE DEF BInv, QInv, TypeOK, BrowserTypeOK
  <1>0. Looked(r) /\ (pc[r] = "browser" => finding[r] = Null)
    BY DEF Progress
  <1>1. CASE Visit(r)
    BY <1>0, <1>1, BrowserAssumption DEF Visit, Inside, Moves, vars, Looked
  <1>2. CASE Navigates(r)
    BY <1>0, <1>2, BrowserAssumption DEF Navigates, vars, Looked
  <1>3. CASE Settle(r)
    BY <1>0, <1>3 DEF Settle, Inside, Moves, vars, Looked
  <1>4. CASE Extract(r)
    BY <1>0, <1>4 DEF Extract, Inside, Moves, vars, Looked
  <1>5. CASE TooManySteps(r)
    BY <1>5, BrowserAssumption DEF TooManySteps, Inspect, Leaves, Looked
  <1>6. CASE Describe(r)
    <2>1. looked[r] # Null /\ looked' = looked
      BY <1>0, <1>6 DEF Describe, Inside, Looked
    <2>2. finding'[r] = RuntimeState(looked[r]) /\ visit'[r] = "none"
      BY <1>6 DEF Describe, Inspect, Leaves
    <2>3. QED
      BY <2>1, <2>2 DEF Looked
  <1>7. CASE Raises(r)
    <2>1. visit'[r] = "none" /\ finding'[r] \in Failures
      BY <1>7 DEF Raises, Inspect, Leaves
    <2>2. QED
      BY <2>1 DEF Looked
  <1>8. CASE Killed(r)
    <2>1. visit'[r] = "none" /\ finding' = finding
      BY <1>8 DEF Killed, Fail, Leaves
    <2>2. pc[r] # "browser" => looked' = looked
      BY <1>8 DEF Killed
    <2>3. QED
      BY <1>0, <2>1, <2>2 DEF Looked
  <1>9. CASE Protocol(r) /\ UNCHANGED browser
    <2>1. pc[r] # "browser" /\ finding' = finding
      BY <1>9 DEF Protocol, OnSnapshot, OnClaim, OnAsset, OnReconciled, OnReadback
    <2>2. QED
      BY <1>0, <1>9, <2>1 DEF Looked, browser
  <1>10. QED
    BY <1>1, <1>2, <1>3, <1>4, <1>5, <1>6, <1>7, <1>8, <1>9 DEF BrowserRun, Browse

LEMMA BStep == BInv /\ [BrowserNext]_browserVars => BInv'
  <1> SUFFICES ASSUME BInv, [BrowserNext]_browserVars PROVE BInv'
    OBVIOUS
  <1>1. QInv'
    BY BrowserStepIsStep, QStep DEF BInv
  <1>2. BrowserTypeOK'
    BY BrowserTypes
  <1>3. ASSUME NEW x \in Runner PROVE Looked(x)'
    <2>1. CASE UNCHANGED browserVars
      BY <2>1 DEF BInv, Looked, browserVars, browser, vars
    <2>2. CASE Environment /\ UNCHANGED browser
      <3>1. finding' = finding /\ (pc[x] # "off" => pc'[x] = pc[x]) /\ (pc[x] = "off" => pc'[x] # "browser")
        BY <2>2 DEF Environment, Redeploy, Seed, Gateway, GetExecutionPayload, QueueClaim,
                    ReadApprovedAsset, QueueReconcile, Start, Goto, runner, BInv, QInv, TypeOK
      <3>2. QED
        BY <2>2, <3>1 DEF BInv, Looked, browser
    <2>3. ASSUME NEW r \in Runner, BrowserRun(r) \/ Navigates(r)
          PROVE  Looked(x)'
      BY <2>3, OwnLook, OthersLook, OthersStay DEF BInv
    <2>4. QED
      BY <2>1, <2>2, <2>3 DEF BrowserNext
  <1>4. QED
    BY <1>1, <1>2, <1>3 DEF BInv

LEMMA Strengthening == BrowserSpec => []BInv
  BY BInit, BStep, PTL DEF BrowserSpec

LEMMA ReadDocuments == BInv => OneExecution /\ CompletedWasRead
  <1> SUFFICES ASSUME BInv PROVE OneExecution /\ CompletedWasRead
    OBVIOUS
  <1>1. OneExecution
    BY DEF BInv, QInv, Progress, OneExecution, Executed
  <1>2. ASSUME NEW s \in Sha, Finished(s)
        PROVE  /\ ReadFor(s) # Null /\ ~ReadFor(s).captcha
               /\ ReadFor(s).auth => ReadFor(s).controls
    <2> DEFINE r == row[s].result.by
    <2>1. row[s] # Null /\ row[s].state = "COMPLETED" /\ row[s].result # Null
      BY <1>2 DEF Finished, BInv, QInv, RowsTold
    <2>2. row[s].result \in Result /\ row[s].state = FinalState(row[s].result.typed)
      BY <2>1 DEF BInv, QInv, TypeOK, Row, RowsTold
    <2>3. r \in Runner /\ finding[r] # Null /\ finding[r] = "rendered"
      BY <2>1, <2>2 DEF BInv, QInv, ResultsOwned, Result, FinalState
    <2>4. looked[r] # Null /\ looked[r] \in Document /\ RuntimeState(looked[r]) = "rendered"
      BY <2>3, BrowserAssumption DEF BInv, Looked, BrowserTypeOK
    <2>5. QED
      BY <2>4, RuntimeStates DEF ReadFor
  <1>3. QED
    BY <1>1, <1>2 DEF CompletedWasRead, BInv, QInv

(* The queue, its runners and their browsers are type correct.               *)
THEOREM QueueTypeCorrect == BrowserSpec => [](TypeOK /\ BrowserTypeOK)
  <1>1. BInv => TypeOK /\ BrowserTypeOK
    BY DEF BInv, QInv
  <1>2. QED
    BY Strengthening, <1>1, PTL

(* At most one runner opens a browser for an execution, after its own claim  *)
(* won, however requests are delayed or repeated.                            *)
THEOREM OneRunnerExecutes == BrowserSpec => []OneExecution
  BY Strengthening, ReadDocuments, PTL

(* A report is what the sheet holds, and a completed row describes one       *)
(* document that was read, however the page navigated meanwhile.             *)
THEOREM CompletedRowsWereRead == BrowserSpec => []CompletedWasRead
  BY Strengthening, ReadDocuments, PTL

(* The queue implements a set of one-shot jobs.                              *)
THEOREM QueueRefinement == BrowserSpec => ImplementsOneShotJobs
  <1>1. BrowserInit => Jobs!Init
    BY DEF BrowserInit, Init, Jobs!Init
  <1>2. BInv /\ [BrowserNext]_browserVars => [Jobs!Next]_<<Taken, Verdict>>
    BY BrowserStepIsStep, StepRefines DEF BInv
  <1>3. QED
    BY Strengthening, <1>1, <1>2, PTL DEF BrowserSpec, ImplementsOneShotJobs, Jobs!Spec, Taken, Verdict
-----------------------------------------------------------------------------
(* The replay ledger of the gateway.                                        *)
(*                                                                          *)
(* A delivery works with the time at which it arrived, and another one may  *)
(* have cleaned the ledger with a later one; what saves the meaning of a    *)
(* request is that no delivery works with a time ahead of the clock.  So a  *)
(* marker is there, and is the one of the request that was granted, for as  *)
(* long as that request has not expired by the clock.                       *)

Arrived == \A d \in Delivery : stage[d] = "waiting" => message[d] \in Signed /\ nowMs[d] =< now

(* Both markers of a granted request outlive it, and are its own. *)
Remembered ==
    \A g \in granted : now =< g.expires =>
        /\ reqs[g.request_id] # Nil /\ reqs[g.request_id].made_for = g
        /\ nonces[g.nonce] # Nil /\ nonces[g.nonce].made_for = g

Marked(f) == {k \in DOMAIN f : f[k] # Nil}

FewMarkers == IsFiniteSet(Marked(reqs)) /\ IsFiniteSet(Marked(nonces)) /\ EntriesBounded

ReplayInv == ReplayTypeOK /\ Arrived /\ Remembered /\ FewMarkers

(* Cleaning takes away markers and makes none. *)
LEMMA CleanedShape ==
    ASSUME NEW K, NEW f \in [K -> Marker \cup {Nil}], NEW t \in Nat
    PROVE  /\ Cleaned(f, t) \in [K -> Marker \cup {Nil}]
           /\ Marked(Cleaned(f, t)) \subseteq Marked(f)
           /\ \A k \in K : f[k] # Nil /\ t =< f[k].made_for.expires => Cleaned(f, t)[k] = f[k]
  <1>1. \A k \in K : Cleaned(f, t)[k] \in {f[k], Nil}
    BY DEF Cleaned
  <1>2. DOMAIN Cleaned(f, t) = K /\ DOMAIN f = K /\ Cleaned(f, t) \in [K -> Marker \cup {Nil}]
    BY DEF Cleaned
  <1>3. ASSUME NEW k \in K, f[k] # Nil, t =< f[k].made_for.expires
        PROVE  Cleaned(f, t)[k] = f[k]
    <2>1. f[k].made_for.expires \in Nat
      BY <1>3, SignedAssumption DEF Marker, Message
    <2>2. ~Expired(f[k], t)
      BY <1>3, <2>1 DEF Expired
    <2>3. QED
      BY <2>2 DEF Cleaned
  <1>4. QED
    BY <1>1, <1>2, <1>3 DEF Marked

(* A call to the store adds a marker at most. *)
LEMMA OneMarkerMore ==
    ASSUME NEW K, NEW f \in [K -> Marker \cup {Nil}], IsFiniteSet(Marked(f)), NEW k \in K, NEW v,
           NEW g, g = [f EXCEPT ![k] = IF @ = Nil THEN v ELSE @]
    PROVE  /\ IsFiniteSet(Marked(g))
           /\ Entries(f) \in Nat /\ Entries(g) \in Nat /\ Entries(g) =< Entries(f) + 1
  <1>1. Marked(g) \subseteq Marked(f) \cup {k}
    BY DEF Marked
  <1>2. /\ IsFiniteSet(Marked(f) \cup {k})
        /\ Cardinality(Marked(f) \cup {k}) =< Cardinality(Marked(f)) + 1
    <2>1. Cardinality(Marked(f)) \in Nat
      BY FS_CardinalityType
    <2>2. /\ IsFiniteSet(Marked(f) \cup {k})
          /\ \/ Cardinality(Marked(f) \cup {k}) = Cardinality(Marked(f))
             \/ Cardinality(Marked(f) \cup {k}) = Cardinality(Marked(f)) + 1
      BY FS_AddElement
    <2>3. QED
      BY <2>1, <2>2
  <1>3. /\ IsFiniteSet(Marked(g)) /\ Cardinality(Marked(g)) =< Cardinality(Marked(f) \cup {k})
    BY <1>1, <1>2, FS_Subset
  <1>4. /\ Cardinality(Marked(f)) \in Nat /\ Cardinality(Marked(g)) \in Nat
        /\ Cardinality(Marked(f) \cup {k}) \in Nat
    BY <1>2, <1>3, FS_CardinalityType
  <1>5. Entries(f) = Cardinality(Marked(f)) /\ Entries(g) = Cardinality(Marked(g))
    BY DEF Entries, Marked
  <1>6. Entries(g) =< Entries(f) + 1
    BY <1>2, <1>3, <1>4, <1>5
  <1>7. QED
    BY <1>3, <1>4, <1>5, <1>6

(* A smaller ledger has no more entries. *)
LEMMA FewerMarkers ==
    ASSUME NEW f, NEW g, IsFiniteSet(Marked(f)), Marked(g) \subseteq Marked(f)
    PROVE  /\ IsFiniteSet(Marked(g)) /\ Entries(g) =< Entries(f)
           /\ Entries(f) \in Nat /\ Entries(g) \in Nat
  BY FS_Subset, FS_CardinalityType DEF Entries, Marked

LEMMA ReplayInitInv == ReplayInit => ReplayInv
  <1> SUFFICES ASSUME ReplayInit PROVE ReplayInv
    OBVIOUS
  <1> USE DEF ReplayInit
  <1>1. ReplayTypeOK
    BY SignedAssumption DEF ReplayTypeOK
  <1>2. Arrived /\ Remembered
    BY DEF Arrived, Remembered
  <1>3. Marked(reqs) = {} /\ Marked(nonces) = {}
    BY DEF Marked
  <1>4. /\ IsFiniteSet(Marked(reqs)) /\ IsFiniteSet(Marked(nonces))
        /\ Entries(reqs) = 0 /\ Entries(nonces) = 0
    BY <1>3, FS_EmptySet DEF Entries, Marked
  <1>5. FewMarkers
    BY <1>4, SignedAssumption DEF FewMarkers, EntriesBounded
  <1>6. QED
    BY <1>1, <1>2, <1>5 DEF ReplayInv

(* The check under the script lock: the ledger it leaves and the answer. *)
LEMMA CheckReplayLeaves ==
    ASSUME ReplayInv, NEW d \in Delivery, CheckReplay(d)
    PROVE  LET m == message[d]
               rs == Cleaned(reqs, nowMs[d])
               ns == Cleaned(nonces, nowMs[d])
           IN  /\ stage[d] = "waiting" /\ m \in Signed /\ nowMs[d] \in Nat /\ nowMs[d] =< now
               /\ UNCHANGED <<now, message, nowMs>>
               /\ \E a \in {"fresh", "replay", "refused"} :
                     /\ stage' = [stage EXCEPT ![d] = a]
                     /\ a = "refused" => reqs' = rs /\ nonces' = ns /\ granted' = granted
                     /\ a # "refused" =>
                          /\ ~Full(rs, ns)
                          /\ ~RequestCollides(rs[m.request_id], m) /\ ~NonceCollides(ns[m.nonce], m)
                          /\ \E mark \in Marker :
                               /\ mark.made_for = m
                               /\ reqs' = [rs EXCEPT ![m.request_id] = IF @ = Nil THEN mark ELSE @]
                               /\ nonces' = [ns EXCEPT ![m.nonce] = IF @ = Nil THEN mark ELSE @]
                     /\ a = "replay" => granted' = granted
                     /\ a = "fresh" => /\ rs[m.request_id] = Nil /\ ns[m.nonce] = Nil
                                       /\ granted' = granted \cup {m}
                     /\ a = "replay" => rs[m.request_id] # Nil \/ ns[m.nonce] # Nil
  <1> DEFINE m == message[d]
             rs == Cleaned(reqs, nowMs[d])
             ns == Cleaned(nonces, nowMs[d])
             own == [made_for |-> m, created_at |-> nowMs[d]]
             known == rs[m.request_id] # Nil \/ ns[m.nonce] # Nil
             collides == RequestCollides(rs[m.request_id], m) \/ NonceCollides(ns[m.nonce], m)
  <1>1. stage[d] = "waiting" /\ UNCHANGED <<now, message, nowMs>>
    BY DEF CheckReplay
  <1>2. m \in Signed /\ nowMs[d] \in Nat /\ nowMs[d] =< now
    BY <1>1 DEF ReplayInv, Arrived, ReplayTypeOK
  <1>3. own \in Marker /\ own.made_for = m
    BY <1>2 DEF Marker
  <1>4. \/ /\ Full(rs, ns) \/ collides
           /\ reqs' = rs /\ nonces' = ns /\ stage' = [stage EXCEPT ![d] = "refused"]
           /\ granted' = granted
        \/ /\ ~Full(rs, ns) /\ ~collides
           /\ reqs' = [rs EXCEPT ![m.request_id] = IF @ = Nil THEN own ELSE @]
           /\ nonces' = [ns EXCEPT ![m.nonce] = IF @ = Nil THEN own ELSE @]
           /\ stage' = [stage EXCEPT ![d] = IF known THEN "replay" ELSE "fresh"]
           /\ granted' = IF known THEN granted ELSE granted \cup {m}
    BY DEF CheckReplay
  <1> HIDE DEF own, rs, ns, m
  <1>5. QED
    <2>1. CASE stage' = [stage EXCEPT ![d] = "refused"] /\ reqs' = rs /\ nonces' = ns /\ granted' = granted
      BY <1>1, <1>2, <2>1 DEF own, rs, ns, m
    <2>2. CASE /\ ~Full(rs, ns) /\ ~collides
               /\ reqs' = [rs EXCEPT ![m.request_id] = IF @ = Nil THEN own ELSE @]
               /\ nonces' = [ns EXCEPT ![m.nonce] = IF @ = Nil THEN own ELSE @]
               /\ stage' = [stage EXCEPT ![d] = IF known THEN "replay" ELSE "fresh"]
               /\ granted' = IF known THEN granted ELSE granted \cup {m}
      <3>1. CASE known
        BY <1>1, <1>2, <1>3, <2>2, <3>1 DEF rs, ns, m
      <3>2. CASE ~known
        BY <1>1, <1>2, <1>3, <2>2, <3>2 DEF rs, ns, m
      <3>3. QED
        BY <3>1, <3>2
    <2>3. QED
      BY <1>4, <2>1, <2>2

LEMMA CheckReplayPreserves ==
    ASSUME ReplayInv, NEW d \in Delivery, CheckReplay(d)
    PROVE  ReplayInv'
  <1> DEFINE m == message[d]
             t == nowMs[d]
             rs == Cleaned(reqs, t)
             ns == Cleaned(nonces, t)
  <1>1. /\ stage[d] = "waiting" /\ m \in Signed /\ t \in Nat /\ t =< now /\ now \in Nat
        /\ UNCHANGED <<now, message, nowMs>>
    BY CheckReplayLeaves, SignedAssumption DEF ReplayInv, ReplayTypeOK
  <1>2. PICK a \in {"fresh", "replay", "refused"} :
            /\ stage' = [stage EXCEPT ![d] = a]
            /\ a = "refused" => reqs' = rs /\ nonces' = ns /\ granted' = granted
            /\ a # "refused" =>
                 /\ ~Full(rs, ns)
                 /\ \E mark \in Marker :
                      /\ mark.made_for = m
                      /\ reqs' = [rs EXCEPT ![m.request_id] = IF @ = Nil THEN mark ELSE @]
                      /\ nonces' = [ns EXCEPT ![m.nonce] = IF @ = Nil THEN mark ELSE @]
            /\ a = "replay" => granted' = granted
            /\ a = "fresh" => /\ rs[m.request_id] = Nil /\ ns[m.nonce] = Nil
                              /\ granted' = granted \cup {m}
    BY CheckReplayLeaves
  <1>3. m.request_id \in RequestIds /\ m.nonce \in Nonces
    BY <1>1, SignedAssumption DEF Message
  <1>4. /\ rs \in [RequestIds -> Marker \cup {Nil}] /\ Marked(rs) \subseteq Marked(reqs)
        /\ \A k \in RequestIds : reqs[k] # Nil /\ t =< reqs[k].made_for.expires => rs[k] = reqs[k]
    BY <1>1, CleanedShape DEF ReplayInv, ReplayTypeOK
  <1>5. /\ ns \in [Nonces -> Marker \cup {Nil}] /\ Marked(ns) \subseteq Marked(nonces)
        /\ \A k \in Nonces : nonces[k] # Nil /\ t =< nonces[k].made_for.expires => ns[k] = nonces[k]
    BY <1>1, CleanedShape DEF ReplayInv, ReplayTypeOK
  <1> HIDE DEF rs, ns, m, t
  <1>6. \A v \in Marker : v # Nil
    BY SignedAssumption
  <1>7. ReplayTypeOK'
    <2>1. /\ reqs' \in [RequestIds -> Marker \cup {Nil}]
          /\ nonces' \in [Nonces -> Marker \cup {Nil}]
      BY <1>2, <1>4, <1>5
    <2>2. stage' \in [Delivery -> {"idle", "waiting", "fresh", "replay", "refused"}]
      BY <1>2 DEF ReplayInv, ReplayTypeOK
    <2>3. granted' \subseteq Signed
      BY <1>1, <1>2 DEF ReplayInv, ReplayTypeOK
    <2>4. QED
      BY <1>1, <2>1, <2>2, <2>3 DEF ReplayInv, ReplayTypeOK
  <1>8. Arrived'
    BY <1>1, <1>2 DEF ReplayInv, Arrived, ReplayTypeOK
  <1>9. Remembered'
    <2> SUFFICES ASSUME NEW g \in granted', now =< g.expires
                 PROVE  /\ reqs'[g.request_id] # Nil /\ reqs'[g.request_id].made_for = g
                        /\ nonces'[g.nonce] # Nil /\ nonces'[g.nonce].made_for = g
      BY <1>1 DEF Remembered
    <2>1. CASE g \in granted
      <3>1. /\ g.request_id \in RequestIds /\ g.nonce \in Nonces /\ g.expires \in Nat
        BY <2>1, SignedAssumption DEF ReplayInv, ReplayTypeOK, Message
      <3>2. /\ reqs[g.request_id] # Nil /\ reqs[g.request_id].made_for = g
            /\ nonces[g.nonce] # Nil /\ nonces[g.nonce].made_for = g
        BY <2>1 DEF ReplayInv, Remembered
      <3>3. rs[g.request_id] = reqs[g.request_id] /\ ns[g.nonce] = nonces[g.nonce]
        BY <1>1, <1>4, <1>5, <3>1, <3>2
      <3>4. reqs'[g.request_id] = rs[g.request_id] /\ nonces'[g.nonce] = ns[g.nonce]
        BY <1>2, <1>3, <1>4, <1>5, <3>1, <3>2, <3>3
      <3>5. QED
        BY <3>2, <3>3, <3>4
    <2>2. CASE g \notin granted
      <3>1. g = m /\ a = "fresh"
        BY <1>2, <2>2
      <3>2. PICK mark \in Marker :
                /\ mark.made_for = m
                /\ reqs' = [rs EXCEPT ![m.request_id] = IF @ = Nil THEN mark ELSE @]
                /\ nonces' = [ns EXCEPT ![m.nonce] = IF @ = Nil THEN mark ELSE @]
        BY <1>2, <3>1
      <3>3. reqs'[m.request_id] = mark /\ nonces'[m.nonce] = mark
        BY <1>2, <1>3, <1>4, <1>5, <3>1, <3>2
      <3>4. QED
        BY <1>6, <3>1, <3>2, <3>3
    <2>3. QED
      BY <2>1, <2>2
  <1>10. FewMarkers'
    <2>1. /\ IsFiniteSet(Marked(rs)) /\ Entries(rs) =< Entries(reqs)
          /\ IsFiniteSet(Marked(ns)) /\ Entries(ns) =< Entries(nonces)
          /\ {Entries(rs), Entries(ns), Entries(reqs), Entries(nonces)} \subseteq Nat
      BY <1>4, <1>5, FewerMarkers DEF ReplayInv, FewMarkers
    <2>2. Entries(reqs) + Entries(nonces) =< MaxEntries + 1 /\ MaxEntries \in Nat
      BY SignedAssumption DEF ReplayInv, FewMarkers, EntriesBounded
    <2>3. CASE a = "refused"
      BY <1>2, <2>1, <2>2, <2>3 DEF FewMarkers, EntriesBounded
    <2>4. CASE a # "refused"
      <3>1. ~Full(rs, ns)
        BY <1>2, <2>4
      <3>2. PICK mark \in Marker :
                /\ reqs' = [rs EXCEPT ![m.request_id] = IF @ = Nil THEN mark ELSE @]
                /\ nonces' = [ns EXCEPT ![m.nonce] = IF @ = Nil THEN mark ELSE @]
        BY <1>2, <2>4
      <3>3. /\ IsFiniteSet(Marked(reqs')) /\ Entries(reqs') \in Nat
            /\ Entries(reqs') =< Entries(rs) + 1
        <4>1. /\ rs \in [RequestIds -> Marker \cup {Nil}] /\ IsFiniteSet(Marked(rs))
              /\ m.request_id \in RequestIds
          BY <1>3, <1>4, <2>1
        <4>2. QED
          BY ONLY <3>2, <4>1, OneMarkerMore, Zenon
      <3>4. /\ IsFiniteSet(Marked(nonces')) /\ Entries(nonces') \in Nat
            /\ Entries(nonces') =< Entries(ns) + 1
        <4>1. /\ ns \in [Nonces -> Marker \cup {Nil}] /\ IsFiniteSet(Marked(ns)) /\ m.nonce \in Nonces
          BY <1>3, <1>5, <2>1
        <4>2. QED
          BY ONLY <3>2, <4>1, OneMarkerMore, Zenon
      <3>5. Entries(rs) + Entries(ns) < MaxEntries
        BY <2>1, <2>2, <3>1 DEF Full
      <3>6. Entries(reqs') + Entries(nonces') =< MaxEntries + 1
        BY <2>1, <2>2, <3>3, <3>4, <3>5
      <3>7. QED
        BY <3>3, <3>4, <3>6 DEF FewMarkers, EntriesBounded, Entries, Marked
    <2>5. QED
      BY <2>3, <2>4
  <1>11. QED
    BY <1>7, <1>8, <1>9, <1>10 DEF ReplayInv

LEMMA ReplayNextPreserves == ReplayInv /\ [ReplayNext]_replayVars => ReplayInv'
  <1> SUFFICES ASSUME ReplayInv, [ReplayNext]_replayVars PROVE ReplayInv'
    OBVIOUS
  <1>1. CASE Tick
    <2> USE <1>1 DEF Tick
    <2>1. now' \in 0 .. MaxTime /\ now =< now' /\ now \in Nat /\ now' \in Nat
      BY SignedAssumption DEF ReplayInv, ReplayTypeOK
    <2>2. ReplayTypeOK'
      BY <2>1 DEF ReplayInv, ReplayTypeOK
    <2>3. Arrived'
      BY <2>1 DEF ReplayInv, Arrived, ReplayTypeOK
    <2>4. Remembered'
      <3>1. \A g \in granted : g.expires \in Nat
        BY SignedAssumption DEF ReplayInv, ReplayTypeOK, Message
      <3>2. QED
        BY <2>1, <3>1 DEF ReplayInv, Remembered
    <2>5. FewMarkers'
      BY DEF ReplayInv, FewMarkers, EntriesBounded, Entries, Marked
    <2>6. QED
      BY <2>2, <2>3, <2>4, <2>5 DEF ReplayInv
  <1>2. CASE \E d \in Delivery : CheckReplay(d)
    BY <1>2, CheckReplayPreserves
  <1>3. CASE /\ UNCHANGED <<now, reqs, nonces, granted>>
             /\ \E d \in Delivery : \/ \E m \in Signed : Arrive(d, m)
                                    \/ GiveUp(d) \/ Respond(d)
    <2>1. PICK d \in Delivery : (\E m \in Signed : Arrive(d, m)) \/ GiveUp(d) \/ Respond(d)
      BY <1>3
    <2>2. now \in Nat
      BY SignedAssumption DEF ReplayInv, ReplayTypeOK
    <2>3. ReplayTypeOK'
      BY <1>3, <2>1, <2>2 DEF Arrive, GiveUp, Respond, ReplayInv, ReplayTypeOK
    <2>4. Arrived'
      BY <1>3, <2>1, <2>2 DEF Arrive, GiveUp, Respond, ReplayInv, ReplayTypeOK, Arrived
    <2>5. Remembered' /\ FewMarkers'
      BY <1>3 DEF ReplayInv, Remembered, FewMarkers, EntriesBounded, Entries, Marked
    <2>6. QED
      BY <2>3, <2>4, <2>5 DEF ReplayInv
  <1>4. CASE UNCHANGED replayVars
    BY <1>4 DEF replayVars, ReplayInv, ReplayTypeOK, Arrived, Remembered, FewMarkers, EntriesBounded,
       Entries, Marked
  <1>5. QED
    BY <1>1, <1>2, <1>3, <1>4 DEF ReplayNext, Arrive, GiveUp, Respond

THEOREM ReplayInvariance == ReplaySpec => []ReplayInv
  BY ReplayInitInv, ReplayNextPreserves, PTL DEF ReplaySpec

(* The model of the gateway's replay check is type correct. *)
THEOREM ReplayTypeCorrect == ReplaySpec => []ReplayTypeOK
  BY ReplayInvariance, PTL DEF ReplayInv

(* The ledger is checked for room once and then takes two markers: whatever  *)
(* is delivered, cleaned and overlaps, it has at most one entry more than    *)
(* MAX_REPLAY_ENTRIES (EjsGitHubGatewayV1.gs, lines 100-140).                *)
THEOREM LedgerStaysSmall == ReplaySpec => []EntriesBounded
  <1>1. ReplayInv => EntriesBounded
    BY DEF ReplayInv, FewMarkers
  <1>2. QED
    BY <1>1, ReplayInvariance, PTL

(* A request id and a nonce mean the request that introduced them until it   *)
(* expires: whatever is accepted under either is that request, and is called *)
(* a replay (lines 122-141).                                                 *)
THEOREM IdentifiersKeepTheirMeaning == ReplaySpec => OneMeaning
  <1> DEFINE Meant ==
        \A d \in Delivery : \A g \in granted :
          stage[d] = "waiting" /\ stage'[d] \in {"fresh", "replay"} /\ now =< g.expires
          => /\ g.request_id = message[d].request_id =>
                    stage'[d] = "replay" /\ g.identity = message[d].identity
             /\ g.nonce = message[d].nonce =>
                    stage'[d] = "replay" /\ g.request_id = message[d].request_id
  <1>1. ASSUME ReplayInv, [ReplayNext]_replayVars PROVE Meant
    <2> SUFFICES ASSUME NEW d \in Delivery, NEW g \in granted,
                        stage[d] = "waiting", stage'[d] \in {"fresh", "replay"}, now =< g.expires
                 PROVE  /\ g.request_id = message[d].request_id =>
                              stage'[d] = "replay" /\ g.identity = message[d].identity
                        /\ g.nonce = message[d].nonce =>
                              stage'[d] = "replay" /\ g.request_id = message[d].request_id
      OBVIOUS
    <2> DEFINE m == message[d]
               t == nowMs[d]
               rs == Cleaned(reqs, t)
               ns == Cleaned(nonces, t)
    <2>1. CheckReplay(d)
      <3>1. PICK e \in Delivery : \/ \E x \in Signed : Arrive(e, x)
                                  \/ CheckReplay(e) \/ GiveUp(e) \/ Respond(e)
        BY <1>1 DEF ReplayNext, replayVars, Tick
      <3>2. e = d
        BY <1>1, <3>1 DEF ReplayInv, ReplayTypeOK, Arrive, CheckReplay, GiveUp, Respond
      <3>3. QED
        BY <1>1, <3>1, <3>2 DEF ReplayInv, ReplayTypeOK, Arrive, GiveUp, Respond
    <2>2. /\ m \in Signed /\ t \in Nat /\ t =< now /\ now \in Nat
          /\ ~RequestCollides(rs[m.request_id], m) /\ ~NonceCollides(ns[m.nonce], m)
          /\ stage'[d] = "fresh" => rs[m.request_id] = Nil /\ ns[m.nonce] = Nil
      BY <1>1, <2>1, CheckReplayLeaves, SignedAssumption DEF ReplayInv, ReplayTypeOK
    <2>3. g.request_id \in RequestIds /\ g.nonce \in Nonces /\ g.expires \in Nat
      BY SignedAssumption, <1>1 DEF ReplayInv, ReplayTypeOK, Message
    <2>4. /\ reqs[g.request_id] # Nil /\ reqs[g.request_id].made_for = g
          /\ nonces[g.nonce] # Nil /\ nonces[g.nonce].made_for = g
      BY <1>1 DEF ReplayInv, Remembered
    <2>5. rs[g.request_id] = reqs[g.request_id] /\ ns[g.nonce] = nonces[g.nonce]
      <3>1. /\ reqs \in [RequestIds -> Marker \cup {Nil}] /\ nonces \in [Nonces -> Marker \cup {Nil}]
        BY <1>1 DEF ReplayInv, ReplayTypeOK
      <3>2. t \in Nat /\ t =< g.expires
        BY <2>2, <2>3
      <3> HIDE DEF t
      <3>3. \A k \in RequestIds :
                reqs[k] # Nil /\ t =< reqs[k].made_for.expires => rs[k] = reqs[k]
        BY <3>1, <3>2, CleanedShape
      <3>4. \A k \in Nonces :
                nonces[k] # Nil /\ t =< nonces[k].made_for.expires => ns[k] = nonces[k]
        BY <3>1, <3>2, CleanedShape
      <3>5. QED
        BY <2>3, <2>4, <3>2, <3>3, <3>4
    <2> HIDE DEF rs, ns, m, t
    <2>6. QED
      BY <2>2, <2>4, <2>5 DEF RequestCollides, NonceCollides, m
  <1>2. QED
    BY <1>1, ReplayInvariance, PTL DEF ReplaySpec, OneMeaning
=============================================================================
