----------------------- MODULE FencedPreparationProofs -----------------------
(***************************************************************************)
(* Theorems about one fenced session for any plan, any forms and any page: *)
(* nothing leaves after the first write, only approved values are written, *)
(* each item once and counted, readiness is certified, an ended session    *)
(* stays ended.                                                            *)
(*                                                                         *)
(* The properties speak of the whole life of a session, in which a call    *)
(* may fail anywhere and the owner may try again.  The strengthening says  *)
(* where in the executor the thread is (also during the two probes of      *)
(* require_current_surface, which return to `then`) and what it has done   *)
(* by then: that the executor is entered once, that the fence was told     *)
(* before the first write, and which items are still untouched.            *)
(***************************************************************************)
EXTENDS FencedPreparation, FiniteSetTheorems, SequenceTheorems, TLAPS

At == IF pc \in {"surface1", "surface2"} THEN then ELSE pc

Working   == {"preread", "asset", "fill", "readback"}
Closing   == {"finish", "proposeReady", "proposeBlocked", "final1", "final2"}
Executing == {"read", "begin"} \cup Working \cup Closing

Control ==
    /\ pc = "enter" => state = "OPENING"
    /\ pc \in {"inspect1", "inspect2", "validate1", "validate2"} => state \in {"OPEN", "INSPECTED"}
    /\ pc \in {"inspect1", "inspect2"} => observations < MaxObservations
    /\ pc \in {"validate1", "validate2"} => ~attempted
    /\ InExecutor => state = "PREPARING" /\ attempted /\ At \in Executing /\ report = Null
    /\ ~attempted => report = Null
    /\ pc \in {"surface1", "surface2"} => then # "read"

Untouched(from) == \A j \in from .. Len(Plan) : filled[Plan[j]] = 0

Items ==
    /\ ~attempted \/ At \in {"read", "begin"} => item = 1 /\ results = {} /\ Untouched(1)
    /\ At \in Working => results = {Plan[j] : j \in 1 .. item - 1} /\ Untouched(item + 1)
    /\ At \in {"preread", "asset", "fill"} => filled[Current] = 0
    /\ At \in Closing => results = Item

Fenced ==
    /\ At \in Working \cup Closing => preparing
    /\ (\E i \in Item : filled[i] > 0) => preparing

Looks ==
    /\ At \in Executing \ {"read"} => controls \in Form /\ Fingerprint[controls] = Approved
    /\ pc \in Working \cup {"begin"} => seen \in Snapshot /\ seen.form = controls
    /\ pc \in {"inspect2", "validate2", "surface2", "final2"} => seen \in Snapshot
    /\ At = "fill" /\ Current \in Upload => payload = "approved"

FInv ==
    /\ TypeOK /\ Control /\ Items /\ Fenced /\ Looks
    /\ NothingLeaves /\ ApprovedWritesOnly /\ AttemptedOnceAndCounted

-----------------------------------------------------------------------------
(* Facts about the plan and about sets of items. *)

LEMMA PlanFacts ==
    /\ Len(Plan) \in Nat /\ Plan \in [1 .. Len(Plan) -> Item]
    /\ \A i, j \in 1 .. Len(Plan) : Plan[i] = Plan[j] => i = j
    /\ IsFiniteSet(Item)
  <1>0. Plan \in Seq(Item)
    BY PreparationAssumption
  <1>1. Len(Plan) \in Nat /\ Plan \in [1 .. Len(Plan) -> Item]
    BY <1>0, LenProperties
  <1>2. Plan \in Surjection(1 .. Len(Plan), Item)
    BY <1>1 DEF Item, Surjection
  <1>3. IsFiniteSet(1 .. Len(Plan)) /\ Cardinality(1 .. Len(Plan)) = Len(Plan)
    BY <1>1, FS_Interval
  <1>4. IsFiniteSet(Item) /\ Plan \in Injection(1 .. Len(Plan), Item)
    BY <1>2, <1>3, FS_Surjection, PreparationAssumption
  <1>5. QED
    BY <1>1, <1>4 DEF Injection, IsInjective

(* Counting one more item of a set that has not been written yet.            *)
LEMMA CountOneMore ==
    ASSUME NEW S, S \subseteq Item, NEW x, x \in Item \ S
    PROVE  Cardinality(S \cup {x}) = Cardinality(S) + 1
  <1>1. IsFiniteSet(S)
    BY PlanFacts, FS_Subset
  <1>2. QED
    BY <1>1, FS_AddElement

-----------------------------------------------------------------------------
(* Steps that are no writes. *)

(* The thread ends its call, with the report that its counters are.          *)
LEMMA RaisePreserves ==
    ASSUME FInv, Raise, Uncounted, Unfenced
    PROVE  FInv'
  <1> DEFINE Pages == [open: BOOLEAN, url: {"target", "elsewhere"}, form: Form, boundary: SUBSET Boundaries,
                       content: [Item -> {"approved", "other", "changed"}]]
  <1>0. /\ page' \in Pages /\ browser' \in BOOLEAN
        /\ report' \in [ready: BOOLEAN, writes: Nat, uploads: Nat] \cup {Null}
    <2>1. page' \in {page, [page EXCEPT !.open = FALSE]} /\ browser' \in {FALSE, browser}
      BY DEF Raise, CloseResources, KeepResources
    <2>2. page \in Pages /\ browser \in BOOLEAN
      BY DEF FInv, TypeOK
    <2>3. page' \in Pages
      BY <2>1, <2>2
    <2>4. report' \in [ready: BOOLEAN, writes: Nat, uploads: Nat] \cup {Null}
      BY DEF Report, Raise, Uncounted, FInv, TypeOK
    <2>5. QED
      BY <2>1, <2>2, <2>3, <2>4
  <1>a. /\ pc' = "idle" /\ observation' = Null
        /\ UNCHANGED <<attempted, then, item, controls, seen, payload, results, writes, uploads,
                       filled, preparing, blocked, expired, stale, acts, observations, disk,
                       wroteOn, attached, exposed>>
    BY DEF Raise, Uncounted, Unfenced, fence, clock, history
  <1>b. state' \in {state, "BLOCKED", "EXPIRED"} /\ (~InExecutor => report' = report)
    BY DEF Raise
  <1> HIDE DEF Pages
  <1>1. TypeOK'
    <2>1. /\ {browser, attempted, blocked, preparing, expired, stale, exposed}' \subseteq BOOLEAN
          /\ state' \in {"NEW", "OPENING", "OPEN", "INSPECTED", "PREPARING", "PRE_SUBMIT_READY",
                         "BLOCKED", "EXPIRED", "CLOSED"}
          /\ pc' = "idle" /\ observation' = Null
      BY <1>0, <1>a, <1>b DEF FInv, TypeOK
    <2>2. page' \in [open: BOOLEAN, url: {"target", "elsewhere"}, form: Form, boundary: SUBSET Boundaries,
                     content: [Item -> {"approved", "other", "changed"}]]
      BY <1>0 DEF Pages
    <2>3. QED
      BY <1>0, <1>a, <2>1, <2>2, SMTT(20) DEF FInv, TypeOK
  <1>2. Control'
    BY <1>a, <1>b DEF FInv, Control, InExecutor
  <1>3. (Items /\ Fenced /\ Looks)'
    <2>1. At' = "idle"
      BY <1>a DEF At
    <2>2. Items'
      <3>1. ~attempted => item = 1 /\ results = {} /\ Untouched(1)
        BY DEF FInv, Items
      <3>2. QED
        BY <1>a, <2>1, <3>1 DEF Items, Untouched, Working, Closing
    <2>3. Fenced'
      BY <1>a, <2>1 DEF FInv, Fenced, Working, Closing
    <2>4. Looks'
      BY <1>a, <2>1 DEF Looks, Working, Executing, Closing
    <2>5. QED
      BY <2>2, <2>3, <2>4
  <1>4. (NothingLeaves /\ ApprovedWritesOnly)'
    BY <1>a DEF FInv, NothingLeaves, ApprovedWritesOnly
  <1>5. AttemptedOnceAndCounted'
    <2> USE DEF Raise, Uncounted, Unfenced, fence, clock, history
    <2>1. QED
      BY DEF FInv, AttemptedOnceAndCounted, Report
  <1>6. QED
    BY <1>1, <1>2, <1>3, <1>4, <1>5 DEF FInv

(* The page, the clock and the disk go on; the thread does not.              *)
LEMMA WorldPreserves ==
    ASSUME FInv,
           UNCHANGED <<session, thread, preparing, observations, history>>,
           {blocked', expired', stale'} \subseteq BOOLEAN,
           page' \in [open: BOOLEAN, url: {"target", "elsewhere"}, form: Form,
                      boundary: SUBSET Boundaries, content: [Item -> {"approved", "other", "changed"}]],
           disk' \in {"approved", "changed"}, acts' \in 0 .. MaxPageActs
    PROVE  FInv'
  <1> USE DEF session, thread, history
  <1>1. TypeOK'
    BY DEF FInv, TypeOK
  <1>2. Control'
    BY DEF FInv, Control, InExecutor, At
  <1>3. (Items /\ Fenced /\ Looks)'
    BY DEF FInv, Items, Fenced, Looks, At, Untouched, Current
  <1>4. (NothingLeaves /\ ApprovedWritesOnly /\ AttemptedOnceAndCounted)'
    BY DEF FInv, NothingLeaves, ApprovedWritesOnly, AttemptedOnceAndCounted
  <1>5. QED
    BY <1>1, <1>2, <1>3, <1>4 DEF FInv

LEMMA PageActsPreserves ==
    ASSUME FInv, NEW new, PageActs(new),
           new \in [open: BOOLEAN, url: {"target", "elsewhere"}, form: Form,
                    boundary: SUBSET Boundaries, content: [Item -> {"approved", "other", "changed"}]]
    PROVE  FInv'
  <1>1. acts' \in 0 .. MaxPageActs
    BY PreparationAssumption DEF PageActs, FInv, TypeOK
  <1>2. QED
    BY <1>1, WorldPreserves DEF PageActs, fence, clock, FInv, TypeOK

LEMMA PageChangesPreserves ==
    ASSUME FInv, PageChanges
    PROVE  FInv'
  <1> DEFINE Pages == [open: BOOLEAN, url: {"target", "elsewhere"}, form: Form,
                       boundary: SUBSET Boundaries, content: [Item -> {"approved", "other", "changed"}]]
  <1>1. page \in Pages
    BY DEF FInv, TypeOK
  <1>2. PICK new \in Pages : PageActs(new)
    <2>1. ASSUME NEW f \in Form PROVE [page EXCEPT !.form = f] \in Pages
      BY <1>1
    <2>2. ASSUME NEW b \in SUBSET Boundaries PROVE [page EXCEPT !.boundary = b] \in Pages
      BY <1>1
    <2>3. ASSUME NEW i \in Item, NEW v \in {"approved", "other"}
          PROVE  [page EXCEPT !.content[i] = v] \in Pages
      BY <1>1
    <2>4. [page EXCEPT !.url = "elsewhere"] \in Pages /\ [page EXCEPT !.open = FALSE] \in Pages
      BY <1>1
    <2> HIDE DEF Pages
    <2>5. QED
      BY <2>1, <2>2, <2>3, <2>4 DEF PageChanges
  <1>3. QED
    BY <1>2, PageActsPreserves

(* What the page may send after the first write is denied.                   *)
LEMMA RequestPreserves ==
    ASSUME FInv, NEW request, Request(request)
    PROVE  FInv'
  <1> USE DEF Request, session, thread, clock, world
  <1>1. TypeOK'
    <2>1. (exposed \/ \E i \in Item : filled[i] > 0) \in BOOLEAN
      BY Zenon
    <2>2. exposed \in BOOLEAN /\ blocked \in BOOLEAN
      BY DEF FInv, TypeOK
    <2>3. exposed' \in BOOLEAN /\ blocked' \in BOOLEAN
      BY <2>1, <2>2, Zenon
    <2>4. QED
      BY <2>3 DEF FInv, TypeOK
  <1>2. Control'
    BY DEF FInv, Control, InExecutor, At
  <1>3. (Items /\ Fenced /\ Looks)'
    BY DEF FInv, Items, Fenced, Looks, At, Untouched, Current
  <1>4. NothingLeaves'
    BY DEF FInv, NothingLeaves, Fenced, Allowed
  <1>5. (ApprovedWritesOnly /\ AttemptedOnceAndCounted)'
    BY DEF FInv, ApprovedWritesOnly, AttemptedOnceAndCounted
  <1>6. QED
    BY <1>1, <1>2, <1>3, <1>4, <1>5 DEF FInv

LEMMA TimePreserves ==
    ASSUME FInv, SessionExpires \/ ObservationAges \/ DiskChanges
    PROVE  FInv'
  <1>1. CASE DiskChanges
    <2>1. acts' \in 0 .. MaxPageActs /\ disk' \in {"approved", "changed"}
      BY <1>1, PreparationAssumption DEF DiskChanges, FInv, TypeOK
    <2>2. QED
      BY <1>1, <2>1, WorldPreserves DEF DiskChanges, fence, clock, FInv, TypeOK
  <1>2. CASE SessionExpires
    BY <1>2, WorldPreserves DEF SessionExpires, world, fence, FInv, TypeOK
  <1>3. CASE ObservationAges
    BY <1>3, WorldPreserves DEF ObservationAges, world, fence, FInv, TypeOK
  <1>4. QED
    BY <1>1, <1>2, <1>3

(* Opening and closing.                                                      *)
LEMMA OwnerPreserves ==
    ASSUME FInv, Enter \/ Entered \/ Close \/ Cancel
    PROVE  FInv'
  <1>1. CASE Entered /\ Raise
    BY <1>1, RaisePreserves DEF Entered
  <1>2. CASE Enter \/ (Entered /\ ~Raise) \/ Close \/ Cancel
    <2> USE <1>2 DEF Enter, Entered, Close, Cancel, Uncounted, Unfenced, fence, clock, history,
                     thread, CloseResources, KeepResources
    <2>1. TypeOK'
      <3>1. page' \in {page, [page EXCEPT !.open = TRUE], [page EXCEPT !.open = FALSE]}
        BY DEF FInv, TypeOK
      <3>2. /\ browser' \in BOOLEAN /\ state' \in {"OPENING", "OPEN", "BLOCKED", "CLOSED"}
            /\ pc' \in {"idle", "enter"} /\ observation' \in {observation, Null}
        BY DEF FInv, TypeOK
      <3>3. page' \in [open: BOOLEAN, url: {"target", "elsewhere"}, form: Form,
                       boundary: SUBSET Boundaries, content: [Item -> {"approved", "other", "changed"}]]
        BY <3>1 DEF FInv, TypeOK
      <3>4. QED
        BY <3>2, <3>3 DEF FInv, TypeOK
    <2>2. Control'
      BY DEF FInv, Control, InExecutor, At
    <2>3. (Items /\ Fenced /\ Looks)'
      BY DEF FInv, Items, Fenced, Looks, At, Untouched, Current, Working, Closing, Executing
    <2>4. (NothingLeaves /\ ApprovedWritesOnly /\ AttemptedOnceAndCounted)'
      BY DEF FInv, NothingLeaves, ApprovedWritesOnly, AttemptedOnceAndCounted
    <2>5. QED
      BY <2>1, <2>2, <2>3, <2>4 DEF FInv
  <1>3. QED
    BY <1>1, <1>2 DEF Entered

-----------------------------------------------------------------------------
(* The call under way. *)

ThreadTyped ==
    /\ pc \in {"idle", "enter", "inspect1", "inspect2", "validate1", "validate2", "read",
               "surface1", "surface2", "begin", "preread", "asset", "fill", "readback",
               "finish", "proposeReady", "proposeBlocked", "final1", "final2"}
    /\ then \in {"idle", "begin", "preread", "asset", "fill", "readback", "finish",
                 "proposeReady", "proposeBlocked"}
    /\ item \in 1 .. Len(Plan) /\ results \subseteq Item
    /\ controls \in Form \cup {Null} /\ seen \in Snapshot \cup {Null}
    /\ payload \in {"none", "approved"}

(* A step that writes nothing and reports nothing keeps what has been done.  *)
LEMMA QuietPreserves ==
    ASSUME FInv, ThreadTyped', Uncounted,
           UNCHANGED <<state, browser, observation, attempted, report, page, blocked,
                       clock, disk, acts, observations, history>>,
           preparing' \in BOOLEAN, Control', Items', Fenced', Looks'
    PROVE  FInv'
  <1> USE DEF Uncounted, clock, history
  <1>1. TypeOK'
    BY DEF FInv, TypeOK, ThreadTyped
  <1>2. (NothingLeaves /\ ApprovedWritesOnly /\ AttemptedOnceAndCounted)'
    BY DEF FInv, NothingLeaves, ApprovedWritesOnly, AttemptedOnceAndCounted
  <1>3. QED
    BY <1>1, <1>2 DEF FInv

LEMMA LooksTyped == FInv => ThreadTyped /\ SecondProbe = [seen EXCEPT !.boundary = @ \cup (page.boundary \cap {"structure"})]
  BY DEF FInv, TypeOK, ThreadTyped, SecondProbe

(* A probe.                                                                  *)
LEMMA FirstProbePreserves ==
    ASSUME FInv, NEW from, NEW to, FirstProbe(from, to),
           \/ from = "inspect1" /\ to = "inspect2"
           \/ from = "validate1" /\ to = "validate2"
           \/ from = "surface1" /\ to = "surface2"
           \/ from = "final1" /\ to = "final2"
    PROVE  FInv'
  <1>1. CASE Raise
    BY <1>1, RaisePreserves DEF FirstProbe
  <1>2. CASE ~Raise
    <2> USE <1>2 DEF FirstProbe, Unfenced, fence, history
    <2>1. seen' \in Snapshot
      BY DEF FInv, TypeOK, Snapshot, Boundaries
    <2>2. ThreadTyped'
      BY <2>1, LooksTyped DEF ThreadTyped
    <2>3. Control'
      BY DEF FInv, Control, InExecutor, At, Executing, Closing, Working
    <2>4. (Items /\ Fenced)'
      BY DEF FInv, Items, Fenced, At, Untouched, Current, Working, Closing
    <2>5. Looks'
      BY <2>1 DEF FInv, Looks, At, Current, Working, Closing, Executing
    <2>6. QED
      BY <2>2, <2>3, <2>4, <2>5, QuietPreserves DEF FInv, TypeOK
  <1>3. QED
    BY <1>1, <1>2

(* The first steps of inspect and prepare.                                   *)
LEMMA CallPreserves ==
    ASSUME FInv, NEW to \in {"inspect1", "validate1"}, Uncounted, Unfenced, Goto(to), pc = "idle", Active,
           to = "inspect1" => observations < MaxObservations,
           to = "validate1" => ~attempted
    PROVE  FInv'
  <1> USE DEF Goto, Unfenced, fence, history, Active
  <1>1. ThreadTyped'
    BY LooksTyped DEF ThreadTyped
  <1>2. Control'
    BY DEF FInv, Control, InExecutor, clock
  <1>3. (Items /\ Fenced /\ Looks)'
    BY DEF FInv, Items, Fenced, Looks, At, Untouched, Current, Working, Closing, Executing
  <1>4. QED
    BY <1>1, <1>2, <1>3, QuietPreserves DEF FInv, TypeOK

LEMMA InspectPreserves ==
    ASSUME FInv, Inspect
    PROVE  FInv'
  BY RaisePreserves, CallPreserves DEF Inspect

LEMMA PreparePreserves ==
    ASSUME FInv, NEW token, Prepare(token)
    PROVE  FInv'
  BY RaisePreserves, CallPreserves DEF Prepare

(* A completed inspection; until the next write nothing is to be said of it. *)
LEMMA InspectedPreserves ==
    ASSUME FInv, Inspected
    PROVE  FInv'
  <1>1. CASE Raise /\ UNCHANGED <<stale, observations>>
    BY <1>1, RaisePreserves DEF Inspected, Unfenced, clock
  <1>2. CASE ~(Raise /\ UNCHANGED <<stale, observations>>)
    <2> USE <1>2 DEF Inspected, Uncounted, fence, history, KeepResources
    <2>1. SecondProbe \in Snapshot
      BY LooksTyped DEF FInv, TypeOK, Looks, Snapshot, Boundaries
    <2>2. observations' \in 1 .. MaxObservations
      BY PreparationAssumption DEF FInv, TypeOK, Control
    <2>3. observation' \in [id: 1 .. MaxObservations, snapshot: Snapshot]
      BY <2>1, <2>2
    <2>4. TypeOK'
      <3>1. observation' \in [id: 1 .. MaxObservations, snapshot: Snapshot] \cup {Null}
        BY <2>3, Zenon
      <3>2. observations' \in 0 .. MaxObservations
        <4> HIDE <1>2 DEF Inspected
        <4>1. QED
          BY <2>2, PreparationAssumption
      <3>3. stale' = FALSE
        OBVIOUS
      <3>4. QED
        BY <3>1, <3>2, <3>3 DEF FInv, TypeOK
    <2>5. Control'
      BY DEF FInv, Control, InExecutor
    <2>6. (Items /\ Fenced /\ Looks)'
      BY DEF FInv, Items, Fenced, Looks, At, Untouched, Working, Closing, Executing
    <2>7. (NothingLeaves /\ ApprovedWritesOnly /\ AttemptedOnceAndCounted)'
      BY DEF FInv, NothingLeaves, ApprovedWritesOnly, AttemptedOnceAndCounted
    <2>8. QED
      BY <2>4, <2>5, <2>6, <2>7 DEF FInv
  <1>3. QED
    BY <1>1, <1>2

(* The executor is entered: this happens once.                               *)
LEMMA ValidatedPreserves ==
    ASSUME FInv, Validated
    PROVE  FInv'
  <1>1. CASE Raise
    BY <1>1, RaisePreserves DEF Validated
  <1>2. CASE ~Raise
    <2> USE <1>2 DEF Validated, Uncounted, Unfenced, fence, clock, history
    <2>1. TypeOK'
      BY DEF FInv, TypeOK
    <2>2. Control'
      BY DEF FInv, Control, InExecutor, At, Executing
    <2>3. (Items /\ Fenced /\ Looks)'
      BY DEF FInv, Items, Fenced, Looks, Control, At, Untouched, Working, Closing, Executing
    <2>4. (NothingLeaves /\ ApprovedWritesOnly /\ AttemptedOnceAndCounted)'
      BY DEF FInv, NothingLeaves, ApprovedWritesOnly, AttemptedOnceAndCounted
    <2>5. QED
      BY <2>1, <2>2, <2>3, <2>4 DEF FInv
  <1>3. QED
    BY <1>1, <1>2

(* The executor goes on by a look at the surface.                            *)
LEMMA GoingOverSurface ==
    ASSUME FInv, NEW step \in Executing \ {"read"}, GotoOverSurface(step), InExecutor
    PROVE  At' = step /\ Control'
  <1>1. pc' = "surface1" /\ then' = step /\ At' = step
    BY DEF GotoOverSurface, At
  <1>2. state = "PREPARING" /\ attempted /\ report = Null
    BY DEF FInv, Control
  <1>3. state' = "PREPARING" /\ attempted' /\ report' = Null
    BY <1>2 DEF GotoOverSurface
  <1>4. QED
    BY <1>1, <1>3 DEF Control, Executing, Working, Closing

(* The executor's own reading, and the look before its next step.            *)
LEMMA ReadFormPreserves ==
    ASSUME FInv, ReadForm
    PROVE  FInv'
  <1>1. CASE Raise
    BY <1>1, RaisePreserves DEF ReadForm
  <1>2. CASE ~Raise
    <2>0. Control' /\ At' = "begin"
      BY <1>2, GoingOverSurface DEF ReadForm, InExecutor, Executing
    <2> USE <1>2 DEF ReadForm, Unfenced, fence, clock, history, GotoOverSurface
    <2>1. ThreadTyped'
      BY LooksTyped DEF ThreadTyped, FInv, TypeOK
    <2>2. At = "read" /\ attempted
      BY DEF At, FInv, Control, InExecutor
    <2>3. (Items /\ Fenced)'
      BY <2>0, <2>2 DEF FInv, Items, Fenced, Untouched, Working, Closing
    <2>4. Looks'
      BY <2>0 DEF FInv, TypeOK, Looks, Working, Closing, Executing
    <2>5. QED
      BY <2>0, <2>1, <2>3, <2>4, QuietPreserves DEF FInv, TypeOK
  <1>3. QED
    BY <1>1, <1>2

LEMMA SurfaceCheckedPreserves ==
    ASSUME FInv, SurfaceChecked
    PROVE  FInv'
  <1>1. CASE Raise
    BY <1>1, RaisePreserves DEF SurfaceChecked
  <1>2. CASE ~Raise
    <2> USE <1>2 DEF SurfaceChecked, Unfenced, fence, clock, history, Goto
    <2>1. ThreadTyped'
      BY LooksTyped DEF ThreadTyped, FInv, TypeOK
    <2>2. Control' /\ At' = At
      <3>1. then \notin {"surface1", "surface2"}
        BY DEF FInv, TypeOK
      <3>2. At' = At
        BY <3>1 DEF At
      <3>3. then \in Executing /\ then # "read" /\ state = "PREPARING" /\ attempted /\ report = Null
        BY DEF FInv, Control, InExecutor, At
      <3>4. QED
        BY <3>2, <3>3 DEF Control, At, Executing, Working, Closing
    <2>3. (Items /\ Fenced)'
      BY <2>2 DEF FInv, Items, Fenced, Untouched, Current
    <2>4. Looks'
      BY <2>2, LooksTyped DEF FInv, TypeOK, Looks, SecondProbe, Snapshot, Current
    <2>5. QED
      BY <2>1, <2>2, <2>3, <2>4, QuietPreserves DEF FInv, TypeOK
  <1>3. QED
    BY <1>1, <1>2

(* The fence is told, and the first item comes up.                           *)
LEMMA BeginPreserves ==
    ASSUME FInv, BeginPreparation
    PROVE  FInv'
  <1>1. CASE Raise /\ UNCHANGED preparing
    BY <1>1, RaisePreserves DEF BeginPreparation, Unfenced, fence
  <1>2. CASE ~(Raise /\ UNCHANGED preparing)
    <2>0. Control' /\ At' = "preread"
      BY <1>2, GoingOverSurface DEF BeginPreparation, InExecutor, Executing, Working
    <2> USE <1>2 DEF BeginPreparation, clock, history, GotoOverSurface
    <2>1. ThreadTyped'
      BY LooksTyped DEF ThreadTyped
    <2>3. Items'
      <3>1. item = 1 /\ results = {} /\ Untouched(1)
        BY DEF FInv, Items, At
      <3>2. 1 \in 1 .. Len(Plan)
        BY PlanFacts, PreparationAssumption
      <3>3. Untouched(2) /\ filled[Plan[1]] = 0
        BY <3>1, <3>2, PlanFacts DEF Untouched
      <3>4. results' = {Plan[j] : j \in 1 .. item' - 1} /\ item' = 1
        BY <3>1
      <3>5. attempted' = attempted /\ attempted
        BY DEF FInv, Control, InExecutor
      <3>6. QED
        BY <2>0, <3>1, <3>3, <3>4, <3>5 DEF Items, Untouched, Current, Working, Closing
    <2>4. (Fenced /\ Looks)'
      BY <2>0 DEF FInv, Fenced, Looks, At, Working, Closing, Executing
    <2>5. QED
      BY <2>0, <2>1, <2>3, <2>4, QuietPreserves DEF FInv, TypeOK
  <1>3. QED
    BY <1>1, <1>2

(* An item is done, and the thread turns to the next one or to the final     *)
(* checks.                                                                   *)
LEMMA NextItemPreserves ==
    ASSUME FInv, NextItem, Uncounted, Unfenced, pc \in {"preread", "readback"}
    PROVE  FInv'
  <1>2. Control' /\ At' = IF item = Len(Plan) THEN "finish" ELSE "preread"
    BY GoingOverSurface DEF NextItem, InExecutor, Executing, Working, Closing
  <1> USE DEF NextItem, Unfenced, fence, history, GotoOverSurface
  <1>0. item \in 1 .. Len(Plan) /\ Current \in Item
    BY PlanFacts DEF FInv, TypeOK, Current
  <1>1. ThreadTyped'
    BY <1>0, LooksTyped, PlanFacts DEF ThreadTyped, FInv, TypeOK
  <1>3. Items'
    <2>1. results = {Plan[j] : j \in 1 .. item - 1} /\ Untouched(item + 1)
      BY DEF FInv, Items, At, Working
    <2>2. results' = {Plan[j] : j \in 1 .. item}
      BY <1>0, <2>1 DEF Current
    <2>3. CASE item = Len(Plan)
      BY <1>2, <2>2, <2>3 DEF Items, Item, Working, Closing, FInv, Control, InExecutor
    <2>4. CASE item # Len(Plan)
      <3>0. item' = item + 1
        BY <2>4
      <3>1. item' \in 1 .. Len(Plan) /\ item' - 1 = item
        <4> HIDE DEF NextItem, GotoOverSurface
        <4>1. item \in Nat /\ Len(Plan) \in Nat /\ 1 =< item /\ item =< Len(Plan)
          BY <1>0, PlanFacts
        <4>2. QED
          BY <2>4, <3>0, <4>1
      <3>2. filled[Plan[item']] = 0 /\ Untouched(item' + 1)
        BY <2>1, <3>0, <3>1, PlanFacts DEF Untouched
      <3>3. results' = {Plan[j] : j \in 1 .. item' - 1}
        BY <2>2, <3>0, <3>1
      <3>4. attempted'
        BY DEF FInv, Control, InExecutor
      <3>5. QED
        BY <1>2, <2>4, <3>2, <3>3, <3>4 DEF Items, Untouched, Current, Working, Closing
    <2>5. QED
      BY <2>3, <2>4
  <1>4. (Fenced /\ Looks)'
    BY <1>2 DEF FInv, Fenced, Looks, At, Working, Closing, Executing
  <1>5. QED
    BY <1>1, <1>2, <1>3, <1>4, QuietPreserves DEF FInv, TypeOK

(* What is read before a write.                                              *)
LEMMA PreReadPreserves ==
    ASSUME FInv, PreRead
    PROVE  FInv'
  <1>1. CASE Raise
    BY <1>1, RaisePreserves DEF PreRead
  <1>2. CASE NextItem
    BY <1>2, NextItemPreserves DEF PreRead
  <1>3. CASE ~Raise /\ ~NextItem
    <2> DEFINE step == IF Current \in Upload THEN "asset" ELSE "fill"
    <2>0. Control' /\ At' = step
      BY <1>3, GoingOverSurface DEF PreRead, InExecutor, Executing, Working
    <2> USE <1>3 DEF PreRead, Unfenced, fence, clock, history, GotoOverSurface
    <2>1. ThreadTyped'
      BY LooksTyped DEF ThreadTyped
    <2>2. At = "preread" /\ attempted
      BY DEF At, FInv, Control, InExecutor
    <2>3. (Items /\ Fenced)'
      BY <2>0, <2>2 DEF FInv, Items, Fenced, Untouched, Current, Working, Closing
    <2>4. Looks'
      BY <2>0, <2>2 DEF FInv, TypeOK, Looks, Current, Working, Closing, Executing
    <2>5. QED
      BY <2>0, <2>1, <2>3, <2>4, QuietPreserves DEF FInv, TypeOK
  <1>4. QED
    BY <1>1, <1>2, <1>3

LEMMA ReadAssetPreserves ==
    ASSUME FInv, ReadAsset
    PROVE  FInv'
  <1>1. CASE Raise
    BY <1>1, RaisePreserves DEF ReadAsset
  <1>2. CASE ~Raise
    <2> USE <1>2 DEF ReadAsset, Unfenced, fence, clock, history
    <2>1. ThreadTyped'
      BY LooksTyped DEF ThreadTyped
    <2>2. At = "asset" /\ attempted /\ state = "PREPARING" /\ report = Null
      BY DEF At, FInv, Control, InExecutor
    <2>3. At' = "fill" /\ attempted' = attempted /\ state' = state /\ report' = report
      BY DEF At
    <2>4. Control'
      BY <2>2, <2>3 DEF Control, Executing, Working, Closing
    <2>5. (Items /\ Fenced)'
      BY <2>2, <2>3 DEF FInv, Items, Fenced, Untouched, Current, Working, Closing
    <2>6. Looks'
      BY <2>2, <2>3 DEF FInv, TypeOK, Looks, Current, Working, Closing, Executing
    <2>7. QED
      BY <2>1, <2>4, <2>5, <2>6, QuietPreserves DEF FInv, TypeOK
  <1>3. QED
    BY <1>1, <1>2

LEMMA ReadBackPreserves ==
    ASSUME FInv, ReadBack
    PROVE  FInv'
  BY RaisePreserves, NextItemPreserves DEF ReadBack

(* The write: the item has not been written, the form was looked at, the     *)
(* fence was told, and the attempt is counted before it takes effect.        *)
LEMMA FillPreserves ==
    ASSUME FInv, Fill
    PROVE  FInv'
  <1> DEFINE fields == {i \in Item \ Upload : filled[i] > 0}
             files  == {i \in Upload : filled[i] > 0}
             Contents == {"approved", "other", "changed"}
  <1>1. /\ item \in 1 .. Len(Plan) /\ Current \in Item /\ filled \in [Item -> Nat]
        /\ filled[Current] = 0 /\ results = {Plan[j] : j \in 1 .. item - 1}
        /\ Untouched(item + 1)
    BY PlanFacts DEF FInv, TypeOK, Items, At, Working, Fill, Current
  <1>2. state = "PREPARING" /\ attempted /\ report = Null /\ preparing
    BY DEF FInv, Control, Fenced, InExecutor, At, Working, Fill
  <1>3. /\ controls \in Form /\ Fingerprint[controls] = Approved
        /\ seen \in Snapshot /\ seen.form = controls
        /\ Value = "approved"
    BY DEF FInv, Looks, At, Working, Executing, Fill, Value
  <1>4. /\ pc' \in {"idle", "surface1"}
        /\ pc' = "surface1" => then' = "readback" /\ state' = state /\ report' = report
        /\ report' \in {report, Report(FALSE)}
        /\ UNCHANGED <<attempted, item, controls, seen, payload, results, preparing>>
        /\ filled' = [filled EXCEPT ![Current] = @ + 1]
        /\ then' \in {then, "readback"} /\ observation' \in {observation, Null}
        /\ state' \in {state, "BLOCKED", "EXPIRED"} /\ browser' \in {browser, FALSE}
        /\ page' \in {page, [page EXCEPT !.open = FALSE], Put(Value)}
    BY <1>2 DEF Fill, Raise, CloseResources, KeepResources, InExecutor, fence
  <1>5. \A i \in Item : filled'[i] = IF i = Current THEN 1 ELSE filled[i]
    BY <1>1, <1>4
  <1>6. ApprovedWritesOnly'
    BY <1>3 DEF FInv, ApprovedWritesOnly, Fill
  <1>7. NothingLeaves'
    BY DEF FInv, NothingLeaves, Fill
  <1>8. AttemptedOnceAndCounted'
    <2>1. \A i \in Item : filled'[i] =< 1
      BY <1>5 DEF FInv, AttemptedOnceAndCounted
    <2>2. /\ fields' = IF Current \in Upload THEN fields ELSE fields \cup {Current}
          /\ files' = IF Current \in Upload THEN files \cup {Current} ELSE files
      BY <1>1, <1>5, PreparationAssumption
    <2>3. fields \subseteq Item /\ files \subseteq Item /\ Current \notin fields /\ Current \notin files
      BY <1>1, PreparationAssumption
    <2>4. writes = Cardinality(fields) /\ uploads = Cardinality(files)
      BY DEF FInv, AttemptedOnceAndCounted
    <2>5. writes' = Cardinality(fields)' /\ uploads' = Cardinality(files)'
      <3> HIDE DEF fields, files
      <3>1. CASE Current \in Upload
        BY <1>1, <2>2, <2>3, <2>4, <3>1, CountOneMore DEF Fill, CountAttempt
      <3>2. CASE Current \notin Upload
        BY <1>1, <2>2, <2>3, <2>4, <3>2, CountOneMore DEF Fill, CountAttempt
      <3>3. QED
        BY <3>1, <3>2
    <2>6. report' # Null => report'.writes = writes' /\ report'.uploads = uploads'
      BY <1>2, <1>4 DEF Report
    <2>7. QED
      BY <2>1, <2>5, <2>6 DEF AttemptedOnceAndCounted
  <1>9. TypeOK'
    <2>1. writes' \in Nat /\ uploads' \in Nat /\ filled' \in [Item -> Nat]
      BY <1>1, <1>4 DEF FInv, TypeOK, Fill, CountAttempt
    <2>2. report' \in [ready: BOOLEAN, writes: Nat, uploads: Nat] \cup {Null}
      <3>1. Report(FALSE) \in [ready: BOOLEAN, writes: Nat, uploads: Nat]
        BY <2>1 DEF Report
      <3>2. QED
        BY <1>2, <1>4, <3>1
    <2>3. page' \in [open: BOOLEAN, url: {"target", "elsewhere"}, form: Form,
                     boundary: SUBSET Boundaries, content: [Item -> Contents]]
      <3> DEFINE Pages == [open: BOOLEAN, url: {"target", "elsewhere"}, form: Form,
                           boundary: SUBSET Boundaries, content: [Item -> Contents]]
      <3>1. page \in Pages
        BY DEF FInv, TypeOK
      <3>2. [page EXCEPT !.open = FALSE] \in Pages
        BY <3>1
      <3>3. Put(Value) \in Pages
        BY <1>3, <3>1 DEF Put
      <3>4. page' \in Pages
        <4> HIDE DEF Pages
        <4>1. QED
          BY <1>4, <3>1, <3>2, <3>3
      <3>5. QED
        BY <3>4
    <2>4. wroteOn' \subseteq Form /\ attached' \subseteq {"approved", "changed"}
      BY <1>3 DEF Fill, FInv, TypeOK
    <2>5. UNCHANGED <<blocked, preparing, expired, stale, disk, acts, observations, exposed>>
      BY DEF Fill, fence, clock
    <2>6. {browser, attempted, blocked, preparing, expired, stale, exposed}' \subseteq BOOLEAN
      BY <1>4, <2>5 DEF FInv, TypeOK
    <2>7. /\ state' \in {"PREPARING", "BLOCKED", "EXPIRED"}
          /\ observation' \in [id: 1 .. MaxObservations, snapshot: Snapshot] \cup {Null}
          /\ then' \in {then, "readback"} /\ pc' \in {"idle", "surface1"}
      BY <1>2, <1>4 DEF FInv, TypeOK
    <2>8. QED
      BY <1>4, <2>1, <2>2, <2>3, <2>4, <2>5, <2>6, <2>7, SMTT(20) DEF FInv, TypeOK
  <1>10. At' \in {"idle", "readback"} /\ (pc' = "surface1" => At' = "readback")
    BY <1>4 DEF At
  <1>11. Control'
    BY <1>2, <1>4, <1>10 DEF Control, InExecutor, Executing, Working
  <1>12. Untouched(item + 1)'
    <2>1. \A j \in item + 1 .. Len(Plan) : j \in 1 .. Len(Plan) /\ j # item
      BY <1>1, PlanFacts
    <2>2. \A j \in item + 1 .. Len(Plan) : Plan[j] \in Item /\ Plan[j] # Current
      BY <1>1, <2>1, PlanFacts DEF Current
    <2>3. QED
      BY <1>1, <1>4, <1>5, <2>2 DEF Untouched
  <1>13. (Items /\ Fenced /\ Looks)'
    BY <1>1, <1>2, <1>3, <1>4, <1>10, <1>12 DEF Items, Fenced, Looks, Working, Closing, Executing
  <1>14. QED
    BY <1>6, <1>7, <1>8, <1>9, <1>11, <1>13 DEF FInv

(* The final checks.                                                         *)
LEMMA FinalChecksPreserves ==
    ASSUME FInv, FinalChecks
    PROVE  FInv'
  <1>1. CASE Raise
    BY <1>1, RaisePreserves DEF FinalChecks
  <1>2. CASE ~Raise
    <2>1. PICK verdict \in {"proposeReady", "proposeBlocked"} : GotoOverSurface(verdict)
      BY <1>2 DEF FinalChecks
    <2>2. Control' /\ At' = verdict
      BY <2>1, GoingOverSurface DEF FinalChecks, InExecutor, Executing, Closing
    <2> USE <1>2, <2>1 DEF FinalChecks, Unfenced, fence, clock, history, GotoOverSurface
    <2>3. ThreadTyped'
      BY LooksTyped DEF ThreadTyped
    <2>4. At = "finish" /\ attempted
      BY DEF At, FInv, Control, InExecutor
    <2>5. (Items /\ Fenced /\ Looks)'
      BY <2>2, <2>4 DEF FInv, Items, Fenced, Looks, Untouched, Working, Closing, Executing
    <2>6. QED
      BY <2>2, <2>3, <2>5, QuietPreserves DEF FInv, TypeOK
  <1>3. QED
    BY <1>1, <1>2

LEMMA ProposePreserves ==
    ASSUME FInv, Propose
    PROVE  FInv'
  <1>1. CASE Raise
    BY <1>1, RaisePreserves DEF Propose
  <1>2. CASE ~Raise
    <2> USE <1>2 DEF Propose, Unfenced, fence, clock, history, Goto
    <2>1. ThreadTyped'
      BY LooksTyped DEF ThreadTyped
    <2>2. At = "proposeReady" /\ attempted /\ state = "PREPARING" /\ report = Null
      BY DEF At, FInv, Control, InExecutor
    <2>3. At' = "final1" /\ attempted' = attempted
      BY DEF At
    <2>4. Control'
      BY <2>2, <2>3 DEF Control, Executing, Working, Closing
    <2>5. (Items /\ Fenced /\ Looks)'
      BY <2>2, <2>3 DEF FInv, Items, Fenced, Looks, Untouched, Working, Closing, Executing
    <2>6. QED
      BY <2>1, <2>4, <2>5, QuietPreserves DEF FInv, TypeOK
  <1>3. QED
    BY <1>1, <1>2

LEMMA CertifyPreserves ==
    ASSUME FInv, Certify
    PROVE  FInv'
  <1>1. CASE Raise
    BY <1>1, RaisePreserves DEF Certify
  <1>2. CASE ~Raise
    <2>1. /\ state' = "PRE_SUBMIT_READY" /\ observation' = Null /\ pc' = "idle" /\ pc = "final2"
          /\ report' = [ready |-> TRUE, writes |-> writes, uploads |-> uploads]
          /\ UNCHANGED <<attempted, then, item, controls, seen, payload, results, browser, page,
                        writes, uploads, filled, preparing, blocked, expired, stale, acts,
                        observations, disk, wroteOn, attached, exposed>>
      BY <1>2 DEF Certify, Report, Uncounted, Unfenced, fence, clock, history, KeepResources
    <2>2. attempted
      BY <2>1 DEF FInv, Control, InExecutor
    <2>3. TypeOK'
      <3>1. report' \in [ready: BOOLEAN, writes: Nat, uploads: Nat] \cup {Null}
        BY <2>1 DEF FInv, TypeOK
      <3>2. QED
        BY <2>1, <3>1, SMTT(20) DEF FInv, TypeOK
    <2>4. (Control /\ Items /\ Fenced /\ Looks)'
      BY <2>1, <2>2
      DEF FInv, Control, InExecutor, Items, Fenced, Looks, At, Working, Closing, Executing
    <2>5. AttemptedOnceAndCounted'
      BY <2>1 DEF FInv, AttemptedOnceAndCounted
    <2>6. (NothingLeaves /\ ApprovedWritesOnly)'
      BY <2>1 DEF FInv, NothingLeaves, ApprovedWritesOnly
    <2>7. QED
      BY <2>3, <2>4, <2>5, <2>6 DEF FInv
  <1>3. QED
    BY <1>1, <1>2

-----------------------------------------------------------------------------
(* The invariant. *)

LEMMA FInit == Init => FInv
  <1> SUFFICES ASSUME Init PROVE FInv
    OBVIOUS
  <1> USE DEF Init
  <1>1. 1 \in 1 .. Len(Plan) /\ \A i \in Item : filled[i] = 0
    BY PlanFacts, PreparationAssumption
  <1>2. Untouched(1)
    BY <1>1, PlanFacts DEF Untouched
  <1>3. TypeOK
    <2>1. PICK f \in Form : page = [open |-> FALSE, url |-> "target", form |-> f, boundary |-> {},
                                    content |-> [i \in Item |-> "other"]]
      OBVIOUS
    <2>2. page \in [open: BOOLEAN, url: {"target", "elsewhere"}, form: Form,
                    boundary: SUBSET Boundaries, content: [Item -> {"approved", "other", "changed"}]]
      BY <2>1
    <2>3. 0 \in 0 .. MaxPageActs /\ 0 \in 0 .. MaxObservations /\ filled \in [Item -> Nat]
      BY PreparationAssumption
    <2>4. QED
      BY <1>1, <2>2, <2>3 DEF TypeOK
  <1>4. Control /\ Items /\ Fenced /\ Looks
    BY <1>1, <1>2 DEF Control, InExecutor, Items, Fenced, Looks, At, Working, Closing, Executing
  <1>5. NothingLeaves /\ ApprovedWritesOnly
    BY DEF NothingLeaves, ApprovedWritesOnly
  <1>6. AttemptedOnceAndCounted
    <2>1. {i \in Item \ Upload : filled[i] > 0} = {} /\ {i \in Upload : filled[i] > 0} = {}
      BY <1>1, PreparationAssumption
    <2>2. Cardinality({}) = 0
      BY FS_EmptySet
    <2>3. writes = Cardinality({i \in Item \ Upload : filled[i] > 0})
          /\ uploads = Cardinality({i \in Upload : filled[i] > 0})
      BY <2>1, <2>2
    <2>4. \A i \in Item : filled[i] =< 1
      BY <1>1
    <2>5. QED
      BY <2>3, <2>4 DEF AttemptedOnceAndCounted
  <1>7. QED
    BY <1>3, <1>4, <1>5, <1>6 DEF FInv

LEMMA FStep == FInv /\ [Next]_vars => FInv'
  <1> SUFFICES ASSUME FInv, [Next]_vars PROVE FInv'
    OBVIOUS
  <1>1. CASE Enter \/ Entered \/ Close \/ Cancel
    BY <1>1, OwnerPreserves
  <1>2. CASE Inspect
    BY <1>2, InspectPreserves
  <1>3. ASSUME NEW token \in 0 .. MaxObservations, Prepare(token) PROVE FInv'
    BY <1>3, PreparePreserves
  <1>4. CASE Inspected \/ Validated \/ ReadForm \/ SurfaceChecked \/ BeginPreparation
    BY <1>4, InspectedPreserves, ValidatedPreserves, ReadFormPreserves, SurfaceCheckedPreserves,
       BeginPreserves
  <1>5. CASE PreRead \/ ReadAsset \/ Fill \/ ReadBack
    BY <1>5, PreReadPreserves, ReadAssetPreserves, FillPreserves, ReadBackPreserves
  <1>6. CASE FinalChecks \/ Propose \/ Certify
    BY <1>6, FinalChecksPreserves, ProposePreserves, CertifyPreserves
  <1>7. CASE \/ FirstProbe("inspect1", "inspect2") \/ FirstProbe("validate1", "validate2")
             \/ FirstProbe("surface1", "surface2") \/ FirstProbe("final1", "final2")
    BY <1>7, FirstProbePreserves
  <1>8. CASE PageChanges
    BY <1>8, PageChangesPreserves
  <1>9. CASE SessionExpires \/ ObservationAges \/ DiskChanges
    BY <1>9, TimePreserves
  <1>10. ASSUME NEW request \in {"entry", "static", "other"}, Request(request) PROVE FInv'
    BY <1>10, RequestPreserves
  <1>11. CASE UNCHANGED vars
    BY <1>11, WorldPreserves DEF vars, session, thread, fence, clock, world, history, FInv, TypeOK
  <1>12. QED
    BY <1>1, <1>2, <1>3, <1>4, <1>5, <1>6, <1>7, <1>8, <1>9, <1>10, <1>11 DEF Next, InCall

LEMMA Strengthening == Spec => []FInv
  BY FInit, FStep, PTL DEF Spec

-----------------------------------------------------------------------------
(* The results. *)

(* The types of a session's state, for every plan and any forms.             *)
THEOREM PreparationTypeCorrect == Spec => []TypeOK
  <1>1. FInv => TypeOK
    BY DEF FInv
  <1>2. QED
    BY <1>1, Strengthening, PTL

(* Once a field may hold personal data, no request is let through.           *)
THEOREM NoRequestAfterWrite == Spec => []NothingLeaves
  <1>1. FInv => NothingLeaves
    BY DEF FInv
  <1>2. QED
    BY <1>1, Strengthening, PTL

(* Writes follow a look at controls of the approved fingerprint, and the     *)
(* bytes that are attached are the approved ones.                            *)
THEOREM OnlyApprovedIsWritten == Spec => []ApprovedWritesOnly
  <1>1. FInv => ApprovedWritesOnly
    BY DEF FInv
  <1>2. QED
    BY <1>1, Strengthening, PTL

(* No item is written twice in the life of a session, and the counters and   *)
(* the report cover every attempt.                                           *)
THEOREM EveryAttemptIsCounted == Spec => []AttemptedOnceAndCounted
  <1>1. FInv => AttemptedOnceAndCounted
    BY DEF FInv
  <1>2. QED
    BY <1>1, Strengthening, PTL

(* A session that is declared ready has passed every check at its last look. *)
THEOREM ReadinessIsCertified == Spec => ReadyIsCertified
  <1>1. FInv /\ [Next]_vars =>
          [state' = "PRE_SUBMIT_READY" /\ state # state' =>
              /\ ~blocked /\ ~expired /\ page.open /\ page.url = "target"
              /\ results = Item /\ seen.form = observation.snapshot.form /\ report'.ready]_vars
    <2> SUFFICES ASSUME FInv, Next, state' = "PRE_SUBMIT_READY", state # state'
                 PROVE  /\ ~blocked /\ ~expired /\ page.open /\ page.url = "target"
                        /\ results = Item /\ seen.form = observation.snapshot.form /\ report'.ready
      OBVIOUS
    <2>1. ~Raise
      BY DEF Raise
    <2>2. Certify
      BY <2>1 DEF Next, InCall, Enter, Entered, Close, Cancel, Inspect, Inspected, Prepare, Validated,
                  ReadForm, SurfaceChecked, BeginPreparation, PreRead, NextItem, ReadAsset, Fill,
                  ReadBack, FinalChecks, Propose, FirstProbe, Goto, GotoOverSurface, PageChanges,
                  PageActs, SessionExpires, ObservationAges, DiskChanges, Request, session
    <2>3. results = Item
      BY <2>2 DEF FInv, Items, Certify, At, Closing
    <2>4. QED
      BY <2>1, <2>2, <2>3 DEF Certify, Inactive, Report
  <1>2. QED
    BY <1>1, Strengthening, PTL DEF Spec, ReadyIsCertified

(* A session that failed, expired or was closed is never usable again.       *)
THEOREM EndedStaysEnded == Spec => EndedForGood
  <1> DEFINE Ended == {"BLOCKED", "EXPIRED", "CLOSED"}
             Kept == /\ state \in Ended => state' \in Ended
                     /\ state = "CLOSED" => state' = "CLOSED"
                     /\ state # "NEW" /\ ~browser => ~browser'
                     /\ filled' # filled => state = "PREPARING" /\ attempted
  <1>1. ASSUME FInv, Raise, filled' = filled PROVE Kept
    BY <1>1 DEF Raise, CloseResources, KeepResources
  <1>2. ASSUME FInv, Next, ~Raise PROVE Kept
    <2>1. CASE Fill
      <3>1. state = "PREPARING" /\ attempted
        BY <1>2, <2>1 DEF Fill, FInv, Control, InExecutor
      <3>2. browser' = browser
        BY <1>2, <2>1 DEF Fill
      <3>3. QED
        BY <3>1, <3>2
    <2>2. CASE Enter \/ Entered \/ Close \/ Cancel
      BY <1>2, <2>2 DEF FInv, Control, Enter, Entered, Close, Cancel, Unfenced, history,
                        CloseResources, KeepResources
    <2>3. CASE Inspect \/ (\E token \in 0 .. MaxObservations : Prepare(token))
               \/ Inspected \/ Validated \/ Certify
      <3>1. state \in {"OPEN", "INSPECTED", "PREPARING"}
        BY <1>2, <2>3 DEF FInv, Control, InExecutor, Active, Inspect, Prepare, Inspected, Validated, Certify
      <3>2. browser' = browser /\ filled' = filled
        BY <1>2, <2>3 DEF Inspect, Prepare, Inspected, Validated, Certify, Goto, Unfenced, history,
                          KeepResources
      <3>3. QED
        BY <1>2, <2>3, <3>1, <3>2 DEF Inspect, Prepare, Inspected, Validated, Certify, Goto
    <2>4. CASE \/ ReadForm \/ SurfaceChecked \/ BeginPreparation \/ PreRead \/ ReadAsset
               \/ ReadBack \/ FinalChecks \/ Propose
               \/ FirstProbe("inspect1", "inspect2") \/ FirstProbe("validate1", "validate2")
               \/ FirstProbe("surface1", "surface2") \/ FirstProbe("final1", "final2")
      <3>1. UNCHANGED <<state, browser, filled>>
        BY <1>2, <2>4 DEF ReadForm, SurfaceChecked, BeginPreparation, PreRead, NextItem, ReadAsset,
                          ReadBack, FinalChecks, Propose, FirstProbe, Goto, GotoOverSurface,
                          Unfenced, history
      <3>2. QED
        BY <3>1
    <2>5. CASE \/ PageChanges \/ SessionExpires \/ ObservationAges \/ DiskChanges
               \/ \E request \in {"entry", "static", "other"} : Request(request)
      <3>1. UNCHANGED <<state, browser, filled>>
        BY <2>5 DEF PageChanges, PageActs, SessionExpires, ObservationAges, DiskChanges, Request,
                    session, history
      <3>2. QED
        BY <3>1
    <2>6. QED
      BY <1>2, <2>1, <2>2, <2>3, <2>4, <2>5 DEF Next, InCall
  <1>3. ASSUME FInv, Next, Raise PROVE Kept
    <2>1. state # "NEW" /\ ~browser => ~browser'
      BY <1>3 DEF Raise, CloseResources, KeepResources
    <2>2. filled' # filled => state = "PREPARING" /\ attempted
      BY <1>3 DEF FInv, Control, InExecutor, Fill,
                  Next, InCall, Enter, Entered, Close, Cancel, Inspect, Inspected, Prepare, Validated,
                  ReadForm, SurfaceChecked, BeginPreparation, PreRead, ReadAsset,
                  ReadBack, FinalChecks, Propose, Certify, FirstProbe, PageChanges,
                  PageActs, SessionExpires, ObservationAges, DiskChanges, Request,
                  Unfenced, history
    <2>3. QED
      BY <1>3, <2>1, <2>2 DEF Raise
  <1>4. ASSUME FInv, [Next]_vars PROVE [Kept]_vars
    BY <1>2, <1>3, <1>4
  <1>5. QED
    BY <1>4, Strengthening, PTL DEF Spec, EndedForGood
=============================================================================
