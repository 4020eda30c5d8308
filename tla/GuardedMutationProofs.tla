----------------------- MODULE GuardedMutationProofs -----------------------
(***************************************************************************)
(* Theorems about GuardedMutation for any number of executions, messages,  *)
(* opportunities and owner's edits.                                        *)
(*                                                                         *)
(* None of the three invariants is inductive.  What an execution may write *)
(* was decided when its plan was made, several steps and perhaps several   *)
(* edits ago, so the strengthening keeps what the planner has looked at    *)
(* (Plans) and what the steps before this one have left (Progress).  That  *)
(* a message changes a row once rests on the statuses: after the change    *)
(* the row is at a status which no execution leaves towards the statuses   *)
(* the change starts from, so that only an edit opens the way to a second  *)
(* one (ChangedOnce).                                                      *)
(***************************************************************************)
EXTENDS GuardedMutation, TLAPS

Executing == {"outcome", "application", "pipeline", "derived", "snapshot"}
Places == Executing \cup {"idle", "planned", "done"}
Reports == {"none", "duplicate_suppressed", "precondition_failed", "kill_switched",
            "concurrent_change", "committed", "repaired", "repair_failed"}

(* What the planner found, and the report of an execution. *)
Planned(x) ==
    /\ plan[x] \in Plan
    /\ plan[x].to = Target(Signal[plan[x].message].kind)
    /\ plan[x].disposition = "eligible" =>
          /\ Signal[plan[x].message].kind \in {"receipt", "rejection"}
          /\ <<plan[x].expected.status, plan[x].to>> \in Allowed

Plans ==
    \A x \in Executor :
        /\ pc[x] # "idle" => Planned(x)
        /\ pc[x] \in Executing => plan[x].disposition = "eligible"
        /\ result[x] # "none" => pc[x] = "done"

(* What an execution has done by the place it is at. *)
Progress ==
    \A x \in Executor :
        /\ pc[x] \in Executing \ {"outcome"} => plan[x].message \in outcomes
        /\ pc[x] \in {"pipeline", "derived", "snapshot"} => Key(plan[x]) \in reached

(* The row is where no execution takes it back from: a receipt leads out of *)
(* To Apply, a rejection into Rejected.                                     *)
Past(m) ==
    LET status == app[Signal[m].opportunity].status
    IN  IF Signal[m].kind = "receipt" THEN status # "To Apply" ELSE status = "Rejected"

ChangedOnce ==
    \A m \in Message : mutations[m] =< edits + (IF Past(m) THEN 1 ELSE 0)

IInv ==
    /\ TypeOK /\ Plans /\ Progress /\ ChangedOnce
    /\ EvidenceFirst /\ EffectsAreAccounted
-----------------------------------------------------------------------------
(* Lemmas about plans. *)

(* Every plan of the planner is a good one: it only calls eligible what the *)
(* allowlist has, for the kind that the target belongs to.                  *)
LEMMA PlanMade ==
    ASSUME TypeOK, NEW m \in Message, NEW d \in {"eligible", "kill_switched", "refused", "duplicate"},
           d = Disposition(m, app[Signal[m].opportunity])
    PROVE  LET p == [message |-> m, disposition |-> d, expected |-> app[Signal[m].opportunity],
                     to |-> Target(Signal[m].kind)]
           IN  /\ p \in Plan
               /\ d = "eligible" => /\ Signal[m].kind \in {"receipt", "rejection"}
                                    /\ <<p.expected.status, p.to>> \in Allowed
  <1>1. Signal[m].opportunity \in Opportunity /\ Signal[m].kind \in {"receipt", "rejection", "other"}
    BY MutationAssumption
  <1>2. app[Signal[m].opportunity] \in App
    BY <1>1 DEF TypeOK
  <1>3. Target(Signal[m].kind) \in Statuses
    BY DEF Target, Statuses, Active
  <1>4. d = "eligible" => Plannable(m, app[Signal[m].opportunity])
    BY DEF Disposition
  <1>5. QED
    BY <1>1, <1>2, <1>3, <1>4 DEF Plan, Plannable

(* What a plan writes and records is well typed; the row it writes is at the *)
(* plan's status and keeps the owner's columns.                              *)
LEMMA PlanFacts ==
    ASSUME NEW p \in Plan
    PROVE  /\ Opp(p) \in Opportunity /\ p.expected \in App /\ p.message \in Message
           /\ Key(p) \in PipelineKey /\ Key(p).evidence = p.message
           /\ Written(p) \in App
           /\ Written(p).status = p.to /\ Written(p).rest = p.expected.rest
  <1>1. /\ p.message \in Message /\ p.expected \in App /\ p.to \in Statuses
    BY DEF Plan
  <1>2. /\ Signal[p.message].opportunity \in Opportunity
        /\ Signal[p.message].date \in Dates \cup {Null}
    BY <1>1, MutationAssumption
  <1>3. Opp(p) \in Opportunity
    BY <1>2 DEF Opp
  <1>4. Key(p) \in PipelineKey /\ Key(p).evidence = p.message
    BY <1>1, <1>3 DEF Key, PipelineKey, App
  <1>5. /\ Written(p) \in App
        /\ Written(p).status = p.to /\ Written(p).rest = p.expected.rest
    BY <1>1, <1>2 DEF Written, App
  <1>6. QED
    BY <1>1, <1>3, <1>4, <1>5

-----------------------------------------------------------------------------
(* How an execution goes on after a repository call. *)

(* One of three: it goes on, it starts its repair, or it gives up. *)
Moved(x, to) ==
    /\ plan' = plan
    /\ pc' \in [Executor -> Places] /\ repairing' \in [Executor -> BOOLEAN]
    /\ result' \in [Executor -> Reports]
    /\ \A y \in Executor \ {x} : pc'[y] = pc[y] /\ result'[y] = result[y]
    /\ \/ pc'[x] \in {to, "outcome"} /\ result' = result /\ left' = left
       \/ /\ pc'[x] = "done" /\ result'[x] = "repair_failed"
          /\ left' = left \cup {plan[x].message}

LEMMA RaiseMoves ==
    ASSUME TypeOK, NEW x \in Executor, Raise(x)
    PROVE  Moved(x, "outcome")
  <1>1. /\ pc \in [Executor -> Places] /\ result \in [Executor -> Reports]
        /\ repairing \in [Executor -> BOOLEAN]
    BY DEF TypeOK, Places, Executing, Reports
  <1>2. CASE ~repairing[x]
    BY <1>1, <1>2 DEF Raise, Moved, Places, Executing
  <1>3. CASE repairing[x]
    BY <1>1, <1>3 DEF Raise, Finish, Moved, Places, Reports
  <1>4. QED
    BY <1>2, <1>3

LEMMA StepMoves ==
    ASSUME TypeOK, NEW x \in Executor, NEW to \in Places, NEW from, Step(x, from, to)
    PROVE  Moved(x, to) /\ pc[x] = from
  <1>1. /\ pc \in [Executor -> Places] /\ result \in [Executor -> Reports]
        /\ repairing \in [Executor -> BOOLEAN]
    BY DEF TypeOK, Places, Executing, Reports
  <1>2. QED
    BY <1>1 DEF Step, Moved

LEMMA WroteMoves ==
    ASSUME TypeOK, NEW x \in Executor, NEW to \in Places, NEW from, Wrote(x, from, to)
    PROVE  Moved(x, to) /\ pc[x] = from
  <1>1. Moved(x, "outcome") => Moved(x, to)
    BY DEF Moved
  <1>2. QED
    BY <1>1, StepMoves, RaiseMoves DEF Wrote

(* What such a move keeps, whatever the call has added to the repository:   *)
(* nothing is taken away, at most the message of the plan is logged, and    *)
(* the place reached is one that the call has earned.                       *)
LEMMA MovePreserves ==
    ASSUME IInv, NEW x \in Executor, pc[x] \in Executing,
           NEW to \in Executing, Moved(x, to),
           outcomes \subseteq outcomes', outcomes' \subseteq outcomes \cup {plan[x].message},
           pipelines \subseteq pipelines', derived \subseteq derived', reached \subseteq reached',
           to # "outcome" => plan[x].message \in outcomes',
           to \in {"pipeline", "derived", "snapshot"} => Key(plan[x]) \in reached',
           to \in Writing \/ Key(plan[x]) \in pipelines' \/ pc[x] \notin Writing
    PROVE  Plans' /\ Progress' /\ EffectsAreAccounted' /\ left' \subseteq Message
  <1>1. Planned(x) /\ plan[x].disposition = "eligible" /\ result[x] = "none"
    BY DEF IInv, Plans, Executing
  <1>2. plan[x].message \in Message /\ Key(plan[x]).evidence = plan[x].message
    BY <1>1, PlanFacts DEF Planned
  <1>3. /\ plan' = plan
        /\ \A y \in Executor \ {x} : pc'[y] = pc[y] /\ result'[y] = result[y]
        /\ left \subseteq left' /\ left' \subseteq left \cup {plan[x].message}
    BY DEF Moved
  <1>4. \/ pc'[x] \in {to, "outcome"} /\ result'[x] = "none"
        \/ pc'[x] = "done" /\ result'[x] = "repair_failed" /\ plan[x].message \in left'
    BY <1>1 DEF Moved
  <1>5. Plans'
    <2> SUFFICES ASSUME NEW y \in Executor
                 PROVE  /\ pc'[y] # "idle" => Planned(y)'
                        /\ pc'[y] \in Executing => plan'[y].disposition = "eligible"
                        /\ result'[y] # "none" => pc'[y] = "done"
      BY DEF Plans
    <2>1. Planned(y) => Planned(y)'
      BY <1>3 DEF Planned
    <2>2. CASE y = x
      BY <1>1, <1>3, <1>4, <2>1, <2>2
    <2>3. CASE y # x
      BY <1>3, <2>1, <2>3 DEF IInv, Plans
    <2>4. QED
      BY <2>2, <2>3
  <1>6. Progress'
    <2> SUFFICES ASSUME NEW y \in Executor
                 PROVE  /\ pc'[y] \in Executing \ {"outcome"} => plan[y].message \in outcomes'
                        /\ pc'[y] \in {"pipeline", "derived", "snapshot"} => Key(plan[y]) \in reached'
      BY <1>3 DEF Progress, Key, Opp
    <2>1. CASE y = x
      BY <1>4, <2>1 DEF Executing
    <2>2. CASE y # x
      BY <1>3, <2>2 DEF IInv, Progress
    <2>3. QED
      BY <2>1, <2>2
  <1>7. EffectsAreAccounted'
    <2>1. ASSUME NEW y \in Executor, result'[y] \in {"committed", "repaired"}
          PROVE  /\ plan'[y].message \in outcomes' /\ Key(plan'[y]) \in pipelines'
                 /\ Opp(plan'[y]) \in derived' /\ Key(plan'[y]) \in reached'
      <3>1. y # x /\ result[y] \in {"committed", "repaired"}
        BY <1>3, <1>4, <2>1
      <3>2. QED
        BY <1>3, <3>1 DEF IInv, EffectsAreAccounted
    <2>2. ASSUME NEW m \in outcomes'
          PROVE  \/ m \in left' \/ \E k \in pipelines' : k.evidence = m
                 \/ \E y \in Executor : pc'[y] \in Writing /\ plan'[y].message = m
      <3>1. CASE m = plan[x].message /\ pc[x] \in Writing
        BY <1>2, <1>3, <1>4, <3>1 DEF Writing
      <3>2. CASE m = plan[x].message /\ pc[x] \notin Writing
        <4>1. m \in outcomes
          BY <3>2 DEF IInv, Progress, Executing, Writing
        <4>2. \/ m \in left \/ \E k \in pipelines : k.evidence = m
              \/ \E y \in Executor : pc[y] \in Writing /\ plan[y].message = m
          BY <4>1 DEF IInv, EffectsAreAccounted
        <4>3. QED
          BY <1>3, <3>2, <4>2
      <3>3. CASE m # plan[x].message
        <4>1. m \in outcomes
          BY <3>3
        <4>2. \/ m \in left \/ \E k \in pipelines : k.evidence = m
              \/ \E y \in Executor : pc[y] \in Writing /\ plan[y].message = m
          BY <4>1 DEF IInv, EffectsAreAccounted
        <4>3. QED
          BY <1>3, <3>3, <4>2
      <3>4. QED
        BY <3>1, <3>2, <3>3
    <2>3. QED
      BY <2>1, <2>2 DEF EffectsAreAccounted, Key, Opp
  <1>8. QED
    BY <1>2, <1>3, <1>5, <1>6, <1>7 DEF IInv, TypeOK

-----------------------------------------------------------------------------
(* The strengthening is inductive: one lemma per action. *)

LEMMA InitInv == Init => IInv
  <1> SUFFICES ASSUME Init PROVE IInv
    OBVIOUS
  <1>1. app \in [Opportunity -> App]
    BY DEF Init
  <1>2. /\ outcomes = {} /\ pipelines = {} /\ derived = {} /\ enabled \in BOOLEAN
        /\ edits = 0 /\ reached = {} /\ behind = {} /\ left = {}
    BY DEF Init
  <1>3. /\ pc = [x \in Executor |-> "idle"] /\ plan = [x \in Executor |-> Null]
        /\ repairing = [x \in Executor |-> FALSE] /\ result = [x \in Executor |-> "none"]
        /\ mutations = [m \in Message |-> 0]
    BY DEF Init
  <1>4. TypeOK
    BY <1>1, <1>2, <1>3, MutationAssumption DEF TypeOK
  <1>5. Plans /\ Progress /\ EvidenceFirst /\ EffectsAreAccounted
    BY <1>2, <1>3 DEF Plans, Progress, EvidenceFirst, EffectsAreAccounted, Executing
  <1>6. ChangedOnce
    BY <1>2, <1>3 DEF ChangedOnce
  <1>7. QED
    BY <1>4, <1>5, <1>6 DEF IInv

LEMMA PlanMutationPreserves ==
    ASSUME IInv, NEW x \in Executor, NEW m \in Message, PlanMutation(x, m)
    PROVE  IInv'
  <1> DEFINE a == app[Signal[m].opportunity]
             p == [message |-> m, disposition |-> Disposition(m, a), expected |-> a,
                   to |-> Target(Signal[m].kind)]
  <1>1. /\ pc[x] \in {"idle", "done"}
        /\ plan' = [plan EXCEPT ![x] = p] /\ pc' = [pc EXCEPT ![x] = "planned"]
        /\ repairing' = [repairing EXCEPT ![x] = FALSE] /\ result' = [result EXCEPT ![x] = "none"]
        /\ UNCHANGED <<app, outcomes, pipelines, derived, enabled, edits, mutations, reached,
                       behind, left>>
    BY DEF PlanMutation, repository, history
  <1>2. /\ p \in Plan
        /\ p.disposition = "eligible" => /\ Signal[m].kind \in {"receipt", "rejection"}
                                         /\ <<p.expected.status, p.to>> \in Allowed
    <2>1. Disposition(m, a) \in {"eligible", "kill_switched", "refused", "duplicate"}
      BY DEF Disposition
    <2>2. QED
      BY <2>1, PlanMade DEF IInv
  <1>3. p.message = m /\ p.to = Target(Signal[m].kind)
    OBVIOUS
  <1> HIDE DEF p
  <1>4. TypeOK'
    BY <1>1, <1>2 DEF IInv, TypeOK
  <1>5. plan'[x] = p /\ pc'[x] = "planned" /\ result'[x] = "none"
    BY <1>1 DEF IInv, TypeOK
  <1>6. \A y \in Executor \ {x} : plan'[y] = plan[y] /\ pc'[y] = pc[y] /\ result'[y] = result[y]
    BY <1>1 DEF IInv, TypeOK
  <1>7. Plans'
    <2>1. Planned(x)'
      BY <1>2, <1>3, <1>5 DEF Planned
    <2>2. \A y \in Executor \ {x} : Planned(y) => Planned(y)'
      BY <1>6 DEF Planned
    <2>3. QED
      BY <1>5, <1>6, <2>1, <2>2 DEF IInv, Plans, Executing
  <1>8. Progress'
    BY <1>1, <1>5, <1>6 DEF IInv, Progress, Executing, Key, Opp
  <1>9. EffectsAreAccounted'
    <2>1. \A y \in Executor : result'[y] \in {"committed", "repaired"} => y # x
      BY <1>5
    <2>2. \A y \in Executor : pc[y] \in Writing => y # x
      BY <1>1 DEF Writing
    <2>3. QED
      BY <1>1, <1>6, <2>1, <2>2 DEF IInv, EffectsAreAccounted, Key, Opp
  <1>10. ChangedOnce' /\ EvidenceFirst'
    BY <1>1 DEF IInv, ChangedOnce, Past, EvidenceFirst
  <1>11. QED
    BY <1>4, <1>7, <1>8, <1>9, <1>10 DEF IInv

(* The execution ends without having written anything, or starts to. *)
LEMMA ExecutePreserves ==
    ASSUME IInv, NEW x \in Executor, Execute(x)
    PROVE  IInv'
  <1>1. /\ pc[x] = "planned" /\ plan' = plan /\ repairing' = repairing
        /\ left' = left
        /\ UNCHANGED <<app, outcomes, pipelines, derived, enabled, edits, mutations, reached, behind>>
    BY DEF Execute, Finish, Step, repository, history
  <1>2. \/ /\ plan[x].disposition = "eligible"
           /\ pc' = [pc EXCEPT ![x] = "outcome"] /\ result' = result
        \/ /\ pc' = [pc EXCEPT ![x] = "done"]
           /\ \E r \in Reports \ {"none", "committed", "repaired"} : result' = [result EXCEPT ![x] = r]
    BY DEF Execute, Finish, Step, Reports
  <1>3. Planned(x) /\ result[x] = "none"
    BY <1>1 DEF IInv, Plans
  <1>4. TypeOK'
    BY <1>1, <1>2 DEF IInv, TypeOK, Reports
  <1>5. /\ \A y \in Executor \ {x} : pc'[y] = pc[y] /\ result'[y] = result[y]
        /\ pc'[x] \in {"outcome", "done"} /\ result'[x] \notin {"committed", "repaired"}
        /\ pc'[x] = "outcome" => plan[x].disposition = "eligible" /\ result'[x] = "none"
    BY <1>2, <1>3 DEF IInv, TypeOK
  <1>6. Plans'
    <2>1. \A y \in Executor : Planned(y) => Planned(y)'
      BY <1>1 DEF Planned
    <2>2. QED
      BY <1>1, <1>3, <1>5, <2>1 DEF IInv, Plans, Executing
  <1>7. Progress'
    BY <1>1, <1>5 DEF IInv, Progress, Executing, Key, Opp
  <1>8. EffectsAreAccounted'
    <2>1. \A y \in Executor : pc[y] \in Writing => y # x
      BY <1>1 DEF Writing
    <2>2. QED
      BY <1>1, <1>5, <2>1 DEF IInv, EffectsAreAccounted, Key, Opp
  <1>9. ChangedOnce' /\ EvidenceFirst'
    BY <1>1 DEF IInv, ChangedOnce, Past, EvidenceFirst
  <1>10. QED
    BY <1>4, <1>6, <1>7, <1>8, <1>9 DEF IInv

(* What an execution under way knows of its plan. *)
LEMMA UnderWay ==
    ASSUME IInv, NEW x \in Executor, pc[x] \in Executing
    PROVE  /\ plan[x] \in Plan /\ plan[x] # Null
           /\ plan[x].to = Target(Signal[plan[x].message].kind)
           /\ Signal[plan[x].message].kind \in {"receipt", "rejection"}
           /\ <<plan[x].expected.status, plan[x].to>> \in InitialAllowed
  BY MutationAssumption DEF IInv, Plans, Planned, Executing

(* The typing of a move, for the calls of the repository. *)
LEMMA MoveTyped ==
    ASSUME TypeOK, NEW x \in Executor, NEW to, Moved(x, to), left' \subseteq Message,
           app' \in [Opportunity -> App], outcomes' \subseteq Message,
           pipelines' \subseteq PipelineKey, derived' \subseteq Opportunity, enabled' = enabled,
           edits' = edits, mutations' \in [Message -> Nat], reached' \subseteq PipelineKey,
           behind' \subseteq Opportunity
    PROVE  TypeOK'
  <1>1. /\ plan' \in [Executor -> Plan \cup {Null}] /\ pc' \in [Executor -> Places]
        /\ repairing' \in [Executor -> BOOLEAN] /\ result' \in [Executor -> Reports]
    BY DEF Moved, TypeOK
  <1>2. QED
    BY <1>1 DEF TypeOK, Places, Executing, Reports

LEMMA AppendOutcomePreserves ==
    ASSUME IInv, NEW x \in Executor, AppendOutcome(x)
    PROVE  IInv'
  <1>1. /\ pc[x] = "outcome" /\ outcomes' = outcomes \cup {plan[x].message}
        /\ UNCHANGED <<app, pipelines, derived, enabled, edits, mutations, reached, behind>>
    BY DEF AppendOutcome, history
  <1>2. Moved(x, "application")
    BY StepMoves, WroteMoves DEF AppendOutcome, IInv, Places, Executing
  <1>3. plan[x].message \in Message
    BY <1>1, UnderWay, PlanFacts DEF Executing
  <1>4. Plans' /\ Progress' /\ EffectsAreAccounted' /\ left' \subseteq Message
    BY <1>1, <1>2, MovePreserves DEF Executing, Writing
  <1>5. TypeOK'
    BY <1>1, <1>2, <1>3, <1>4, MoveTyped DEF IInv, TypeOK
  <1>6. ChangedOnce' /\ EvidenceFirst'
    BY <1>1 DEF IInv, ChangedOnce, Past, EvidenceFirst
  <1>7. QED
    BY <1>4, <1>5, <1>6 DEF IInv

LEMMA AppendPipelinePreserves ==
    ASSUME IInv, NEW x \in Executor, AppendPipeline(x)
    PROVE  IInv'
  <1>1. /\ pc[x] = "pipeline" /\ pipelines' = pipelines \cup {Key(plan[x])}
        /\ UNCHANGED <<app, outcomes, derived, enabled, edits, mutations, reached, behind>>
    BY DEF AppendPipeline, history
  <1>2. Moved(x, "derived")
    BY StepMoves, WroteMoves DEF AppendPipeline, IInv, Places, Executing
  <1>3. Key(plan[x]) \in PipelineKey /\ Key(plan[x]).evidence = plan[x].message
    BY <1>1, UnderWay, PlanFacts DEF Executing
  <1>4. plan[x].message \in outcomes /\ Key(plan[x]) \in reached
    BY <1>1 DEF IInv, Progress, Executing
  <1>5. Plans' /\ Progress' /\ EffectsAreAccounted' /\ left' \subseteq Message
    BY <1>1, <1>2, <1>4, MovePreserves DEF Executing, Writing
  <1>6. TypeOK'
    BY <1>1, <1>2, <1>3, <1>5, MoveTyped DEF IInv, TypeOK
  <1>7. ChangedOnce'
    BY <1>1 DEF IInv, ChangedOnce, Past
  <1>8. EvidenceFirst'
    BY <1>1, <1>3, <1>4 DEF IInv, EvidenceFirst
  <1>9. QED
    BY <1>5, <1>6, <1>7, <1>8 DEF IInv

LEMMA ReconcileDerivedPreserves ==
    ASSUME IInv, NEW x \in Executor, ReconcileDerived(x)
    PROVE  IInv'
  <1>1. /\ pc[x] = "derived" /\ derived' = derived \cup {Opp(plan[x])} /\ behind' \subseteq behind
        /\ UNCHANGED <<app, outcomes, pipelines, enabled, edits, mutations, reached>>
    BY DEF ReconcileDerived
  <1>2. Moved(x, "snapshot")
    BY StepMoves, WroteMoves DEF ReconcileDerived, IInv, Places, Executing
  <1>3. Opp(plan[x]) \in Opportunity
    BY <1>1, UnderWay, PlanFacts DEF Executing
  <1>4. plan[x].message \in outcomes /\ Key(plan[x]) \in reached
    BY <1>1 DEF IInv, Progress, Executing
  <1>5. Plans' /\ Progress' /\ EffectsAreAccounted' /\ left' \subseteq Message
    BY <1>1, <1>2, <1>4, MovePreserves DEF Executing, Writing
  <1>6. TypeOK'
    BY <1>1, <1>2, <1>3, <1>5, MoveTyped DEF IInv, TypeOK
  <1>7. ChangedOnce' /\ EvidenceFirst'
    BY <1>1 DEF IInv, ChangedOnce, Past, EvidenceFirst
  <1>8. QED
    BY <1>5, <1>6, <1>7 DEF IInv

(* The one call that changes the row.                                       *)
LEMMA UpdateApplicationPreserves ==
    ASSUME IInv, NEW x \in Executor, UpdateApplication(x)
    PROVE  IInv'
  <1> DEFINE p == plan[x]
  <1>1. /\ pc[x] = "application"
        /\ UNCHANGED <<outcomes, pipelines, derived, enabled, edits>>
    BY DEF UpdateApplication
  <1>2. /\ p \in Plan /\ p.to = Target(Signal[p.message].kind)
        /\ Signal[p.message].kind \in {"receipt", "rejection"}
        /\ <<p.expected.status, p.to>> \in InitialAllowed
    BY <1>1, UnderWay DEF Executing
  <1>3. /\ Opp(p) \in Opportunity /\ p.message \in Message /\ Key(p) \in PipelineKey
        /\ Written(p) \in App /\ Written(p).status = p.to
    BY <1>2, PlanFacts
  <1>4. p.message \in outcomes
    BY <1>1 DEF IInv, Progress, Executing
  <1>5. ASSUME NEW to \in {"pipeline", "outcome"}, Moved(x, to),
               reached' \in {reached, reached \cup {Key(p)}},
               to = "pipeline" => reached' = reached \cup {Key(p)}
        PROVE  Plans' /\ Progress' /\ EffectsAreAccounted' /\ left' \subseteq Message
    BY <1>1, <1>4, <1>5, MovePreserves DEF Executing, Writing
  <1>6. CASE UNCHANGED <<app, mutations, behind>>
    <2>1. PICK to \in {"pipeline", "outcome"} :
                /\ Moved(x, to) /\ reached' \in {reached, reached \cup {Key(p)}}
                /\ to = "pipeline" => reached' = reached \cup {Key(p)}
      <3>1. CASE reached' = reached \cup {Key(p)} /\ Step(x, "application", "pipeline")
        BY <3>1, StepMoves DEF IInv, Places, Executing
      <3>2. CASE reached' = reached \cup {Key(p)} /\ Wrote(x, "application", "pipeline")
        BY <3>2, WroteMoves DEF IInv, Places, Executing
      <3>3. CASE reached' = reached /\ Raise(x)
        BY <3>3, RaiseMoves DEF IInv
      <3>4. QED
        BY <3>1, <3>2, <3>3 DEF UpdateApplication
    <2>2. Plans' /\ Progress' /\ EffectsAreAccounted' /\ left' \subseteq Message
      BY <1>5, <2>1
    <2>3. TypeOK'
      BY <1>1, <1>3, <1>6, <2>1, <2>2, MoveTyped DEF IInv, TypeOK
    <2>4. ChangedOnce' /\ EvidenceFirst'
      BY <1>1, <1>6, <2>1 DEF IInv, ChangedOnce, Past, EvidenceFirst
    <2>5. QED
      BY <2>2, <2>3, <2>4 DEF IInv
  <1>7. CASE /\ app[Opp(p)] = p.expected
             /\ app' = [app EXCEPT ![Opp(p)] = Written(p)]
             /\ mutations' = [mutations EXCEPT ![p.message] = @ + 1]
             /\ reached' = reached \cup {Key(p)} /\ behind' = behind \cup {Opp(p)}
             /\ Wrote(x, "application", "pipeline")
    <2>1. Moved(x, "pipeline")
      BY <1>7, WroteMoves DEF IInv, Places, Executing
    <2>2. Plans' /\ Progress' /\ EffectsAreAccounted' /\ left' \subseteq Message
      BY <1>5, <1>7, <2>1
    <2>3. app \in [Opportunity -> App] /\ mutations \in [Message -> Nat] /\ edits \in Nat
      BY MutationAssumption DEF IInv, TypeOK
    <2>4. app' \in [Opportunity -> App] /\ mutations' \in [Message -> Nat]
      BY <1>3, <1>7, <2>3
    <2>5. TypeOK'
      BY <1>1, <1>3, <1>7, <2>1, <2>2, <2>4, MoveTyped DEF IInv, TypeOK
    <2>6. EvidenceFirst'
      BY <1>1, <1>3, <1>4, <1>7, <2>3 DEF IInv, EvidenceFirst
    <2>7. ChangedOnce'
      <3> SUFFICES ASSUME NEW m \in Message
                   PROVE  mutations'[m] =< edits + (IF Past(m)' THEN 1 ELSE 0)
        BY <1>1 DEF ChangedOnce
      <3>1. mutations[m] =< edits + (IF Past(m) THEN 1 ELSE 0)
        BY DEF IInv, ChangedOnce
      <3>2. app[Opp(p)].status = p.expected.status /\ app'[Opp(p)].status = p.to
        BY <1>3, <1>7, <2>3
      <3>3. \A o \in Opportunity \ {Opp(p)} : app'[o] = app[o]
        BY <1>7, <2>3
      <3>4. Past(m) => Past(m)'
        <4>1. CASE Signal[m].opportunity = Opp(p)
          BY <1>2, <3>2, <4>1 DEF Past, InitialAllowed, Active
        <4>2. CASE Signal[m].opportunity # Opp(p)
          BY <3>3, <4>2, MutationAssumption DEF Past
        <4>3. QED
          BY <4>1, <4>2
      <3>5. m = p.message => ~Past(m) /\ Past(m)'
        BY <1>2, <3>2 DEF Past, Opp, Target, InitialAllowed, Active
      <3>6. mutations'[m] = IF m = p.message THEN mutations[m] + 1 ELSE mutations[m]
        BY <1>7, <2>3
      <3>7. QED
        BY <2>3, <3>1, <3>4, <3>5, <3>6
    <2>8. QED
      BY <2>2, <2>5, <2>6, <2>7 DEF IInv
  <1>8. QED
    BY <1>6, <1>7 DEF UpdateApplication

LEMMA SnapshotPreserves ==
    ASSUME IInv, NEW x \in Executor, Snapshot(x)
    PROVE  IInv'
  <1>1. /\ pc[x] = "snapshot"
        /\ UNCHANGED <<app, outcomes, pipelines, derived, enabled, edits, mutations, reached, behind>>
    BY DEF Snapshot, repository, history
  <1>2. plan[x].message \in outcomes /\ Key(plan[x]) \in reached
    BY <1>1 DEF IInv, Progress, Executing
  <1>3. ChangedOnce' /\ EvidenceFirst'
    BY <1>1 DEF IInv, ChangedOnce, Past, EvidenceFirst
  <1>4. CASE Raise(x)
    <2>1. Moved(x, "outcome")
      BY <1>4, RaiseMoves DEF IInv
    <2>2. Plans' /\ Progress' /\ EffectsAreAccounted' /\ left' \subseteq Message
      BY <1>1, <1>2, <2>1, MovePreserves DEF Executing, Writing
    <2>3. TypeOK'
      BY <1>1, <2>1, <2>2, MoveTyped DEF IInv, TypeOK
    <2>4. QED
      BY <1>3, <2>2, <2>3 DEF IInv
  <1>5. CASE Postcondition(plan[x]) /\ ~Raise(x)
    <2>1. PICK r \in {"repaired", "committed"} : Finish(x, r)
      BY <1>5 DEF Snapshot
    <2>2. /\ pc' = [pc EXCEPT ![x] = "done"] /\ result' = [result EXCEPT ![x] = r]
          /\ left' = left /\ plan' = plan /\ repairing' = repairing
      BY <2>1 DEF Finish
    <2>3. TypeOK'
      BY <1>1, <2>2 DEF IInv, TypeOK
    <2>4. pc'[x] = "done" /\ \A y \in Executor \ {x} : pc'[y] = pc[y] /\ result'[y] = result[y]
      BY <2>2 DEF IInv, TypeOK
    <2>5. Plans'
      <3>1. \A y \in Executor : Planned(y) => Planned(y)'
        BY <2>2 DEF Planned
      <3>2. Planned(x)
        BY <1>1 DEF IInv, Plans
      <3>3. QED
        BY <2>2, <2>4, <3>1, <3>2 DEF IInv, Plans, Executing
    <2>6. Progress'
      BY <1>1, <2>2, <2>4 DEF IInv, Progress, Executing, Key, Opp
    <2>7. EffectsAreAccounted'
      <3>1. /\ plan[x].message \in outcomes /\ Key(plan[x]) \in pipelines
            /\ Opp(plan[x]) \in derived /\ Key(plan[x]) \in reached
        BY <1>2, <1>5 DEF Postcondition
      <3>2. \A y \in Executor : pc[y] \in Writing => y # x
        BY <1>1 DEF Writing
      <3>3. QED
        BY <1>1, <2>2, <2>4, <3>1, <3>2 DEF IInv, EffectsAreAccounted, Key, Opp
    <2>8. QED
      BY <1>3, <2>3, <2>5, <2>6, <2>7 DEF IInv
  <1>6. QED
    BY <1>4, <1>5 DEF Snapshot

(* Killed: its message, if it is logged, is remembered as left. *)
LEMMA CrashPreserves ==
    ASSUME IInv, NEW x \in Executor, Crash(x)
    PROVE  IInv'
  <1>1. /\ pc[x] \notin {"idle", "done"} /\ pc' = [pc EXCEPT ![x] = "idle"]
        /\ plan' = [plan EXCEPT ![x] = Null] /\ repairing' = [repairing EXCEPT ![x] = FALSE]
        /\ left' = left \cup ({plan[x].message} \cap outcomes)
        /\ UNCHANGED <<app, outcomes, pipelines, derived, enabled, result, edits, mutations,
                       reached, behind>>
    BY DEF Crash, repository, history
  <1>2. result[x] = "none"
    BY <1>1 DEF IInv, Plans
  <1>3. TypeOK'
    BY <1>1 DEF IInv, TypeOK
  <1>4. /\ pc'[x] = "idle"
        /\ \A y \in Executor \ {x} : pc'[y] = pc[y] /\ plan'[y] = plan[y]
    BY <1>1 DEF IInv, TypeOK
  <1>5. Plans'
    <2>1. \A y \in Executor \ {x} : Planned(y) => Planned(y)'
      BY <1>4 DEF Planned
    <2>2. QED
      BY <1>1, <1>2, <1>4, <2>1 DEF IInv, Plans, Executing
  <1>6. Progress'
    BY <1>1, <1>4 DEF IInv, Progress, Executing, Key, Opp
  <1>7. EffectsAreAccounted'
    <2>1. ASSUME NEW y \in Executor, result'[y] \in {"committed", "repaired"}
          PROVE  y # x /\ plan'[y] = plan[y] /\ result[y] \in {"committed", "repaired"}
      BY <1>1, <1>2, <1>4, <2>1
    <2>2. ASSUME NEW m \in outcomes
          PROVE  \/ m \in left' \/ \E k \in pipelines : k.evidence = m
                 \/ \E y \in Executor : pc'[y] \in Writing /\ plan'[y].message = m
      BY <1>1, <1>4 DEF IInv, EffectsAreAccounted
    <2>3. QED
      BY <1>1, <2>1, <2>2 DEF IInv, EffectsAreAccounted, Key, Opp
  <1>8. ChangedOnce' /\ EvidenceFirst'
    BY <1>1 DEF IInv, ChangedOnce, Past, EvidenceFirst
  <1>9. QED
    BY <1>3, <1>5, <1>6, <1>7, <1>8 DEF IInv

(* An edit may take the row back, and pays for it. *)
LEMMA OwnerEditsPreserves ==
    ASSUME IInv, NEW o \in Opportunity, NEW a \in App, OwnerEdits(o, a)
    PROVE  IInv'
  <1>1. /\ app' = [app EXCEPT ![o] = a] /\ edits < MaxEdits /\ edits' = edits + 1
        /\ UNCHANGED <<outcomes, pipelines, derived, enabled, pc, plan, repairing, result,
                       mutations, reached, behind, left>>
    BY DEF OwnerEdits
  <1>2. TypeOK'
    <2>1. app' \in [Opportunity -> App]
      BY <1>1 DEF IInv, TypeOK
    <2>2. edits' \in 0 .. MaxEdits
      BY <1>1, MutationAssumption DEF IInv, TypeOK
    <2>3. QED
      BY <1>1, <2>1, <2>2 DEF IInv, TypeOK
  <1>3. Plans' /\ Progress'
    BY <1>1 DEF IInv, Plans, Planned, Progress, Key, Opp
  <1>4. EvidenceFirst' /\ EffectsAreAccounted'
    BY <1>1 DEF IInv, EvidenceFirst, EffectsAreAccounted, Key, Opp
  <1>5. ChangedOnce'
    <2> SUFFICES ASSUME NEW m \in Message
                 PROVE  mutations[m] =< edits + 1 + (IF Past(m)' THEN 1 ELSE 0)
      BY <1>1 DEF ChangedOnce
    <2>1. mutations[m] \in Nat /\ edits \in Nat
      BY MutationAssumption DEF IInv, TypeOK
    <2>2. mutations[m] =< edits + (IF Past(m) THEN 1 ELSE 0)
      BY DEF IInv, ChangedOnce
    <2>3. QED
      BY <2>1, <2>2
  <1>6. QED
    BY <1>2, <1>3, <1>4, <1>5 DEF IInv

LEMMA QuietPreserves ==
    ASSUME IInv, enabled' \in BOOLEAN,
           UNCHANGED <<app, outcomes, pipelines, derived, pc, plan, repairing, result,
                       edits, mutations, reached, behind, left>>
    PROVE  IInv'
  <1>1. TypeOK'
    BY DEF IInv, TypeOK
  <1>2. Plans' /\ Progress' /\ ChangedOnce'
    BY DEF IInv, Plans, Planned, Progress, ChangedOnce, Past, Key, Opp
  <1>3. EvidenceFirst' /\ EffectsAreAccounted'
    BY DEF IInv, EvidenceFirst, EffectsAreAccounted, Key, Opp
  <1>4. QED
    BY <1>1, <1>2, <1>3 DEF IInv

LEMMA NextPreserves == IInv /\ [Next]_vars => IInv'
  <1> SUFFICES ASSUME IInv, [Next]_vars PROVE IInv'
    OBVIOUS
  <1>1. CASE \E x \in Executor, m \in Message : PlanMutation(x, m)
    BY <1>1, PlanMutationPreserves
  <1>2. CASE \E x \in Executor : Execute(x)
    BY <1>2, ExecutePreserves
  <1>3. CASE \E x \in Executor : AppendOutcome(x)
    BY <1>3, AppendOutcomePreserves
  <1>4. CASE \E x \in Executor : UpdateApplication(x)
    BY <1>4, UpdateApplicationPreserves
  <1>5. CASE \E x \in Executor : AppendPipeline(x)
    BY <1>5, AppendPipelinePreserves
  <1>6. CASE \E x \in Executor : ReconcileDerived(x)
    BY <1>6, ReconcileDerivedPreserves
  <1>7. CASE \E x \in Executor : Snapshot(x)
    BY <1>7, SnapshotPreserves
  <1>8. CASE \E x \in Executor : Crash(x)
    BY <1>8, CrashPreserves
  <1>9. CASE \E o \in Opportunity, a \in App : OwnerEdits(o, a)
    BY <1>9, OwnerEditsPreserves
  <1>10. CASE ToggleKillSwitch
    BY <1>10, QuietPreserves DEF ToggleKillSwitch, repository, history, IInv, TypeOK
  <1>11. CASE UNCHANGED vars
    BY <1>11, QuietPreserves DEF vars, IInv, TypeOK
  <1>12. QED
    BY <1>1, <1>2, <1>3, <1>4, <1>5, <1>6, <1>7, <1>8, <1>9, <1>10, <1>11 DEF Next

-----------------------------------------------------------------------------
(* The theorems. *)

(* The variables keep their types and every plan, report and place what the *)
(* strengthening says of them.                                              *)
THEOREM Invariance == Spec => []IInv
  BY InitInv, NextPreserves, PTL DEF Spec

THEOREM TypeCorrect == Spec => []TypeOK
  <1>1. IInv => TypeOK
    BY DEF IInv
  <1>2. QED
    BY <1>1, Invariance, PTL

(* Evidence first: a row is only written for a logged message, and Pipeline *)
(* History only holds transitions that were logged and whose target the row *)
(* did reach, whatever is repaired, killed or overlaps                      *)
(* (mw5_executor.py, lines 134-143).                                        *)
THEOREM EvidenceComesFirst == Spec => []EvidenceFirst
  <1>1. IInv => EvidenceFirst
    BY DEF IInv
  <1>2. QED
    BY <1>1, Invariance, PTL

(* A message changes a row at most once more than the owner has edited:     *)
(* "no second business mutation allowed" (guarded_mutation.py, line 75).    *)
THEOREM NoSecondMutation == Spec => []OneMutation
  <1>1. IInv => OneMutation
    <2> SUFFICES ASSUME IInv, NEW m \in Message PROVE mutations[m] =< 1 + edits
      BY DEF OneMutation
    <2>1. mutations[m] \in Nat /\ edits \in Nat
      BY MutationAssumption DEF IInv, TypeOK
    <2>2. mutations[m] =< edits + (IF Past(m) THEN 1 ELSE 0)
      BY DEF IInv, ChangedOnce
    <2>3. QED
      BY <2>1, <2>2
  <1>2. QED
    BY <1>1, Invariance, PTL

(* A success has left its evidence, its transition and its reconciliation   *)
(* behind, and no logged message without a transition is forgotten under a  *)
(* report that says otherwise (guarded_mutation.py, lines 71-76).           *)
THEOREM NoEffectIsLost == Spec => []EffectsAreAccounted
  <1>1. IInv => EffectsAreAccounted
    BY DEF IInv
  <1>2. QED
    BY <1>1, Invariance, PTL

(* CC-01: a row changes, other than by the owner's hand, only by a          *)
(* transition of the allowlist, from the row its plan was made on, and      *)
(* keeps the owner's other columns.                                         *)
THEOREM OnlyGuardedTransitions == Spec => GuardedTransitions
  <1> DEFINE Guarded ==
        \A o \in Opportunity : app'[o] # app[o] /\ edits' = edits =>
          /\ <<app[o].status, app'[o].status>> \in InitialAllowed
          /\ app'[o].rest = app[o].rest
          /\ \E x \in Executor : plan[x] # Null /\ plan[x].expected = app[o]
  <1>1. ASSUME IInv, [Next]_vars PROVE Guarded
    <2> SUFFICES ASSUME NEW o \in Opportunity, app'[o] # app[o], edits' = edits
                 PROVE  /\ <<app[o].status, app'[o].status>> \in InitialAllowed
                        /\ app'[o].rest = app[o].rest
                        /\ \E x \in Executor : plan[x] # Null /\ plan[x].expected = app[o]
      OBVIOUS
    <2>1. edits \in Nat
      BY <1>1, MutationAssumption DEF IInv, TypeOK
    <2>2. ~(\E b \in Opportunity, a \in App : OwnerEdits(b, a))
      BY <2>1 DEF OwnerEdits
    <2>3. PICK x \in Executor : UpdateApplication(x)
      BY <1>1, <2>2 DEF Next, vars, repository, PlanMutation, Execute, AppendOutcome,
         AppendPipeline, ReconcileDerived, Snapshot, Crash, ToggleKillSwitch
    <2>4. /\ pc[x] = "application" /\ app[Opp(plan[x])] = plan[x].expected
          /\ app' = [app EXCEPT ![Opp(plan[x])] = Written(plan[x])]
      BY <2>3 DEF UpdateApplication
    <2>5. /\ plan[x] \in Plan /\ plan[x] # Null
          /\ <<plan[x].expected.status, plan[x].to>> \in InitialAllowed
      BY <1>1, <2>4, UnderWay DEF Executing
    <2>6. o = Opp(plan[x]) /\ app'[o] = Written(plan[x])
      BY <1>1, <2>4 DEF IInv, TypeOK
    <2>7. app'[o].status = plan[x].to /\ app'[o].rest = plan[x].expected.rest
      BY <2>5, <2>6, PlanFacts
    <2>8. QED
      BY <2>4, <2>5, <2>6, <2>7
  <1>2. QED
    BY <1>1, Invariance, PTL DEF Spec, GuardedTransitions
=============================================================================
