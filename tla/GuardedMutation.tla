--------------------------- MODULE GuardedMutation ---------------------------
(***************************************************************************)
(* MW-5: an employer's message changes the tracked application.            *)
(*   - services/guarded_mutation.py plans the change from one reading;     *)
(*   - services/mw5_executor.py writes it, in the order evidence,          *)
(*     Applications row, Pipeline History, derived tables, and repairs the *)
(*     gaps once when a write fails;                                       *)
(*   - persistence/mutation_memory.py is the repository both work on.      *)
(*                                                                         *)
(* An execution makes one repository call per step.  Between its steps the *)
(* owner edits the row, other executions run, and it may be killed.  A     *)
(* failing write has taken effect (_maybe_fail raises after it).           *)
(* A fingerprint stands for the fields it hashes, so it is the row itself. *)
(***************************************************************************)
EXTENDS Integers

CONSTANTS Executor, Message, Opportunity,
          Signal,      \* Signal[m]: [kind, date, opportunity, exact]
          Allowed,     \* the transitions of the authority: pairs of statuses
          Dates, Rest, \* dates; what the other fingerprint columns may hold
          MaxEdits,    \* bound on the owner's edits
          Null

Active == {"Applied", "Screening"}   \* the submitted states tell apart no more than two
Statuses == Active \cup {"To Apply", "Rejected"}
InitialAllowed == {<<"To Apply", "Applied">>} \cup (Active \X {"Rejected"})

App == [status: Statuses, applied_date: Dates \cup {Null},
        last_update: Dates \cup {Null}, rest: Rest]

PipelineKey == [opportunity: Opportunity, from: Statuses, to: Statuses, evidence: Message]

Plan == [message: Message, disposition: {"eligible", "kill_switched", "refused", "duplicate"},
         expected: App, to: Statuses]

ASSUME MutationAssumption ==
    /\ Signal \in [Message -> [kind: {"receipt", "rejection", "other"}, date: Dates \cup {Null},
                               opportunity: Opportunity, exact: BOOLEAN]]
    /\ Allowed \subseteq InitialAllowed   \* authority.validate()
    /\ Null \notin Dates \cup Plan /\ MaxEdits \in Nat

VARIABLES
    app,         \* app[o]: the Applications row
    outcomes,    \* messages in the Outcome Event Log
    pipelines,   \* keys in Pipeline History
    derived,     \* opportunities in derived_reconciled
    enabled,     \* mutation_flag_enabled, the kill switch
    pc, plan, repairing, result,   \* of each execution
    edits,       \* the owner's edits so far
    mutations,   \* history: mutations[m], row writes made for message m
    reached,     \* history: keys whose target the row was put in or found in
    behind,      \* history: opportunities written since the last reconciliation
    left         \* history: logged messages whose execution was killed or not repaired

repository == <<app, outcomes, pipelines, derived>>
history    == <<edits, mutations, reached, behind>>
vars == <<app, outcomes, pipelines, derived, enabled, pc, plan, repairing, result,
          edits, mutations, reached, behind, left>>

Init ==
    /\ app \in [Opportunity -> {a \in App : a.status \in {"To Apply", "Applied"}
                                            /\ a.applied_date = Null /\ a.last_update = Null}]
    /\ outcomes = {} /\ pipelines = {} /\ derived = {}
    /\ enabled = TRUE
    /\ pc = [x \in Executor |-> "idle"] /\ plan = [x \in Executor |-> Null]
    /\ repairing = [x \in Executor |-> FALSE] /\ result = [x \in Executor |-> "none"]
    /\ edits = 0 /\ mutations = [m \in Message |-> 0] /\ reached = {} /\ behind = {}
    /\ left = {}

-----------------------------------------------------------------------------
(* plan_outcome_mutation. *)

Target(kind) == IF kind = "receipt" THEN "Applied" ELSE "Rejected"

(* Mutant: neither the submitted state nor the allowlist is asked for.       *)
PlannableUnlisted(m, a) ==
    /\ Signal[m].exact /\ Signal[m].kind # "other" /\ Signal[m].date # Null
    /\ a.status # Target(Signal[m].kind)

(* A receipt counts in every status but Applied; a rejection needs a         *)
(* submitted state.  The allowlist has the last word on both.  A rejection   *)
(* without a date gets no plan: its pipeline key cannot be built.            *)
Plannable(m, a) ==
    /\ Signal[m].exact /\ Signal[m].kind # "other" /\ Signal[m].date # Null
    /\ a.status # Target(Signal[m].kind)
    /\ Signal[m].kind = "rejection" => a.status \in Active
    /\ <<a.status, Target(Signal[m].kind)>> \in Allowed

(* A key found in Pipeline History is a duplicate as well; its message is in *)
(* the Outcome Event Log then (EvidenceFirst).                               *)
Disposition(m, a) ==
    IF m \in outcomes THEN "duplicate"
    ELSE IF ~Plannable(m, a) THEN "refused"   \* audit_only, same_state_noop, precondition_failed
    ELSE IF enabled THEN "eligible" ELSE "kill_switched"

PlanMutation(x, m) ==
    /\ pc[x] \in {"idle", "done"}
    /\ LET a == app[Signal[m].opportunity]
       IN  plan' = [plan EXCEPT ![x] = [message |-> m, disposition |-> Disposition(m, a),
                                        expected |-> a, to |-> Target(Signal[m].kind)]]
    /\ pc' = [pc EXCEPT ![x] = "planned"]
    /\ repairing' = [repairing EXCEPT ![x] = FALSE]
    /\ result' = [result EXCEPT ![x] = "none"]
    /\ UNCHANGED <<repository, enabled, history, left>>

-----------------------------------------------------------------------------
(* What a plan says about the repository. *)

Opp(p) == Signal[p.message].opportunity

Key(p) == [opportunity |-> Opp(p), from |-> p.expected.status, to |-> p.to, evidence |-> p.message]

(* _application_at_target compares the fields the plan writes. *)
AtTarget(p) ==
    LET a == app[Opp(p)]
    IN  /\ a.status = p.to /\ a.last_update = Signal[p.message].date
        /\ p.to = "Applied" => a.applied_date = Signal[p.message].date

Written(p) ==
    [p.expected EXCEPT !.status = p.to, !.last_update = Signal[p.message].date,
                       !.applied_date = IF p.to = "Applied" THEN Signal[p.message].date ELSE @]

Postcondition(p) ==
    p.message \in outcomes /\ AtTarget(p) /\ Key(p) \in pipelines /\ Opp(p) \in derived

-----------------------------------------------------------------------------
(* execute_guarded_mutation. *)

Finish(x, r) == /\ pc' = [pc EXCEPT ![x] = "done"]
                /\ result' = [result EXCEPT ![x] = r]
                /\ left' = IF r = "repair_failed" THEN left \cup {plan[x].message} ELSE left
                /\ UNCHANGED <<plan, repairing>>

Step(x, from, to) == /\ pc[x] = from /\ pc' = [pc EXCEPT ![x] = to]
                     /\ UNCHANGED <<plan, repairing, result, left>>

(* Mutant: the repair's last error is not looked at, and it is "repaired".   *)
RaiseRepaired(x) ==
    \/ /\ ~repairing[x]
       /\ pc' = [pc EXCEPT ![x] = "outcome"]
       /\ repairing' = [repairing EXCEPT ![x] = TRUE]
       /\ UNCHANGED <<plan, result, left>>
    \/ repairing[x] /\ Finish(x, "repaired")

(* An exception: the first one starts the repair, which goes through the    *)
(* same components again; one inside the repair ends it.                    *)
Raise(x) ==
    \/ /\ ~repairing[x]
       /\ pc' = [pc EXCEPT ![x] = "outcome"]
       /\ repairing' = [repairing EXCEPT ![x] = TRUE]
       /\ UNCHANGED <<plan, result, left>>
    \/ repairing[x] /\ Finish(x, "repair_failed")

(* Either the write returns, or it raises when it has taken effect. *)
Wrote(x, from, to) == pc[x] = from /\ (Step(x, from, to) \/ Raise(x))

(* Everything that is examined before the first write. *)
Execute(x) ==
    /\ pc[x] = "planned"
    /\ LET p == plan[x]
       IN  \/ p.disposition = "duplicate" /\ Finish(x, "duplicate_suppressed")
           \/ p.disposition = "refused" /\ enabled /\ Finish(x, "precondition_failed")
           \/ /\ p.disposition # "duplicate"
              /\ p.disposition = "kill_switched" \/ ~enabled
              /\ Finish(x, "kill_switched")
           \/ /\ p.disposition = "eligible" /\ enabled
              /\ \/ app[Opp(p)] # p.expected /\ Finish(x, "concurrent_change")
                 \/ /\ app[Opp(p)] = p.expected
                    /\ p.message \in outcomes \/ Key(p) \in pipelines
                    /\ Finish(x, "duplicate_suppressed")
                 \/ /\ app[Opp(p)] = p.expected
                    /\ p.message \notin outcomes /\ Key(p) \notin pipelines
                    /\ Step(x, "planned", "outcome")
    /\ UNCHANGED <<repository, enabled, history>>

AppendOutcome(x) ==
    /\ pc[x] = "outcome"
    /\ outcomes' = outcomes \cup {plan[x].message}
    /\ IF plan[x].message \in outcomes THEN Step(x, "outcome", "application")
                                       ELSE Wrote(x, "outcome", "application")
    /\ UNCHANGED <<app, pipelines, derived, enabled, history>>

(* Mutant: the repair leaves a changed row alone and goes on.                *)
UpdateApplicationSkipping(x) ==
    LET p == plan[x]
    IN  /\ pc[x] = "application"
        /\ \/ /\ app[Opp(p)] = p.expected
              /\ app' = [app EXCEPT ![Opp(p)] = Written(p)]
              /\ mutations' = [mutations EXCEPT ![p.message] = @ + 1]
              /\ reached' = reached \cup {Key(p)}
              /\ behind' = behind \cup {Opp(p)}
              /\ Wrote(x, "application", "pipeline")
           \/ /\ app[Opp(p)] # p.expected
              /\ IF repairing[x] THEN Step(x, "application", "pipeline") ELSE Raise(x)
              /\ UNCHANGED <<app, mutations, reached, behind>>
        /\ UNCHANGED <<outcomes, pipelines, derived, enabled, edits>>

(* Mutant: the fingerprint is only compared before the first write.          *)
UpdateApplicationUnguarded(x) ==
    LET p == plan[x]
    IN  /\ pc[x] = "application"
        /\ app' = [app EXCEPT ![Opp(p)] = Written(p)]
        /\ mutations' = [mutations EXCEPT ![p.message] = @ + 1]
        /\ reached' = reached \cup {Key(p)}
        /\ behind' = behind \cup {Opp(p)}
        /\ Wrote(x, "application", "pipeline")
        /\ UNCHANGED <<outcomes, pipelines, derived, enabled, edits>>

(* update_application; the repair first looks whether the row is at its      *)
(* target already.  A changed fingerprint is never overwritten.              *)
UpdateApplication(x) ==
    LET p == plan[x]
    IN  /\ pc[x] = "application"
        /\ \/ /\ repairing[x] /\ AtTarget(p)
              /\ reached' = reached \cup {Key(p)}
              /\ Step(x, "application", "pipeline")
              /\ UNCHANGED <<app, mutations, behind>>
           \/ /\ ~(repairing[x] /\ AtTarget(p)) /\ app[Opp(p)] = p.expected
              /\ app' = [app EXCEPT ![Opp(p)] = Written(p)]
              /\ mutations' = [mutations EXCEPT ![p.message] = @ + 1]
              /\ reached' = reached \cup {Key(p)}
              /\ behind' = behind \cup {Opp(p)}
              /\ Wrote(x, "application", "pipeline")
           \/ /\ ~(repairing[x] /\ AtTarget(p)) /\ app[Opp(p)] # p.expected
              /\ Raise(x)
              /\ UNCHANGED <<app, mutations, reached, behind>>
        /\ UNCHANGED <<outcomes, pipelines, derived, enabled, edits>>

AppendPipeline(x) ==
    /\ pc[x] = "pipeline"
    /\ pipelines' = pipelines \cup {Key(plan[x])}
    /\ IF Key(plan[x]) \in pipelines THEN Step(x, "pipeline", "derived")
                                     ELSE Wrote(x, "pipeline", "derived")
    /\ UNCHANGED <<app, outcomes, derived, enabled, history>>

(* An opportunity that has been reconciled before is not reconciled again. *)
ReconcileDerived(x) ==
    LET o == Opp(plan[x])
    IN  /\ pc[x] = "derived"
        /\ \/ o \in derived /\ Step(x, "derived", "snapshot") /\ UNCHANGED <<derived, behind>>
           \/ /\ o \notin derived
              /\ derived' = derived \cup {o} /\ behind' = behind \ {o}
              /\ Wrote(x, "derived", "snapshot")
        /\ UNCHANGED <<app, outcomes, pipelines, enabled, edits, mutations, reached>>

(* _snapshot_result and the postconditions. *)
Snapshot(x) ==
    /\ pc[x] = "snapshot"
    /\ \/ /\ Postcondition(plan[x])
          /\ Finish(x, IF repairing[x] THEN "repaired" ELSE "committed")
       \/ ~Postcondition(plan[x]) /\ Raise(x)
    /\ UNCHANGED <<repository, enabled, history>>

(* The execution is killed and nothing remembers it. *)
Crash(x) ==
    /\ pc[x] \notin {"idle", "done"}
    /\ pc' = [pc EXCEPT ![x] = "idle"] /\ plan' = [plan EXCEPT ![x] = Null]
    /\ repairing' = [repairing EXCEPT ![x] = FALSE]
    /\ left' = left \cup ({plan[x].message} \cap outcomes)
    /\ UNCHANGED <<repository, enabled, result, history>>

-----------------------------------------------------------------------------

(* The owner changes one cell of the row at a time. *)
OwnerEdits(o, a) ==
    /\ edits < MaxEdits /\ a # app[o]
    /\ \E cell \in DOMAIN a : \A other \in DOMAIN a \ {cell} : a[other] = app[o][other]
    /\ app' = [app EXCEPT ![o] = a] /\ edits' = edits + 1
    /\ UNCHANGED <<outcomes, pipelines, derived, enabled, pc, plan, repairing, result,
                   mutations, reached, behind, left>>

ToggleKillSwitch ==
    /\ enabled' = ~enabled
    /\ UNCHANGED <<repository, pc, plan, repairing, result, history, left>>

Next ==
    \/ \E x \in Executor :
          \/ \E m \in Message : PlanMutation(x, m)
          \/ Execute(x) \/ AppendOutcome(x) \/ UpdateApplication(x) \/ AppendPipeline(x)
          \/ ReconcileDerived(x) \/ Snapshot(x) \/ Crash(x)
    \/ \E o \in Opportunity, a \in App : OwnerEdits(o, a)
    \/ ToggleKillSwitch

Spec == Init /\ [][Next]_vars

-----------------------------------------------------------------------------
(* Properties. *)

TypeOK ==
    /\ app \in [Opportunity -> App]
    /\ outcomes \subseteq Message /\ pipelines \subseteq PipelineKey
    /\ derived \subseteq Opportunity /\ enabled \in BOOLEAN
    /\ pc \in [Executor -> {"idle", "planned", "outcome", "application", "pipeline",
                            "derived", "snapshot", "done"}]
    /\ plan \in [Executor -> Plan \cup {Null}] /\ repairing \in [Executor -> BOOLEAN]
    /\ result \in [Executor -> {"none", "duplicate_suppressed", "precondition_failed",
                                "kill_switched", "concurrent_change", "committed", "repaired",
                                "repair_failed"}]
    /\ edits \in 0 .. MaxEdits /\ mutations \in [Message -> Nat]
    /\ reached \subseteq PipelineKey /\ behind \subseteq Opportunity
    /\ left \subseteq Message

(* "Evidence first" (mw5_executor.py lines 134-143), also through repairs,   *)
(* crashes and overlapping executions: no row is written for a message that  *)
(* is not logged, and Pipeline History only has transitions whose message is *)
(* logged and whose target the row did reach.                                *)
EvidenceFirst ==
    /\ \A m \in Message : mutations[m] > 0 => m \in outcomes
    /\ \A k \in pipelines : k.evidence \in outcomes /\ k \in reached

(* CC-01: an execution changes a row only by an allowed transition, from the *)
(* very row it was planned on; the owner's other columns and a status nobody *)
(* allowed it to leave, Rejected above all, survive every race and repair.   *)
GuardedTransitions ==
    [][\A o \in Opportunity : app'[o] # app[o] /\ edits' = edits =>
          /\ <<app[o].status, app'[o].status>> \in InitialAllowed
          /\ app'[o].rest = app[o].rest
          /\ \E x \in Executor : plan[x] # Null /\ plan[x].expected = app[o]]_vars

(* Without an edit of the owner's in between, a message changes a row once,  *)
(* however many executions of it overlap, crash or repair ("no second        *)
(* business mutation allowed", guarded_mutation.py line 75).                 *)
OneMutation == \A m \in Message : mutations[m] =< 1 + edits

(* An execution that reports success, repaired or not, has left all of its  *)
(* components behind and put or found the row at its target.  And a message *)
(* whose retries are suppressed because it is logged (guarded_mutation.py   *)
(* lines 71-76), but whose transition is missing from Pipeline History, is  *)
(* still being worked on, or was killed, or was reported as not repaired:   *)
(* none is lost under a report that says otherwise.                         *)
Writing == {"outcome", "application", "pipeline"}
EffectsAreAccounted ==
    /\ \A x \in Executor : result[x] \in {"committed", "repaired"} =>
          LET p == plan[x]
          IN  /\ p.message \in outcomes /\ Key(p) \in pipelines
              /\ Opp(p) \in derived /\ Key(p) \in reached
    /\ \A m \in outcomes :
          \/ m \in left
          \/ \E k \in pipelines : k.evidence = m
          \/ \E x \in Executor : pc[x] \in Writing /\ plan[x].message = m

(* "ordered MW-5 write-set committed and reconciled" (mw5_executor.py line   *)
(* 150): the derived tables have been reconciled since the row was written.  *)
CommittedIsReconciled ==
    \A x \in Executor : result[x] = "committed" => Opp(plan[x]) \notin behind
=============================================================================
