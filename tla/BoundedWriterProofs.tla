------------------------ MODULE BoundedWriterProofs ------------------------
(***************************************************************************)
(* Theorems about BoundedWriter for any plan, documents, forms and times:  *)
(* bounded and counted writes, an earned review gate, immutable lineage.   *)
(*                                                                         *)
(* What a report says is read off counters that grow step by step with the *)
(* writes, so the strengthening says of every step of an execution what    *)
(* the counters amount to there: the items before the current one are      *)
(* done, those after it untouched.                                         *)
(***************************************************************************)
EXTENDS BoundedWriter, FiniteSetTheorems, SequenceTheorems, TLAPS

States == {"boundary", "schema_drift", "plan_blocked", "readback_failed", "review_gate", "error"}

Pages == [form: Form, boundary: BOOLEAN, moved: BOOLEAN, content: [Item -> Values]]

Typed ==
    /\ uploading \in BOOLEAN
    /\ pc \in {"idle", "open", "extract", "preread", "put", "readback", "final"}
    /\ item \in 1 .. Len(Plan) /\ attempts \in Nat /\ results \subseteq Item
    /\ report \in [state: States, attempts: Nat, verified: SUBSET Item] \cup {Null}
    /\ stamp \in Stamp /\ page \in Pages \cup {Null}
    /\ disk \in [Documents -> {"approved", "changed"}]
    /\ artifacts \in [Documents -> [control: Item, capturedAt: Stamp] \cup {Null}]
    /\ acts \in Nat /\ executions \in Nat

(* What an execution has done to the form so far. *)
HistoryOK ==
    /\ puts \in [Item -> {0, 1}] /\ exact \subseteq Item /\ proven \subseteq Documents
    /\ accepted \in BOOLEAN
    /\ \A i \in Item : puts[i] > 0 => accepted

Written == {i \in Item : puts[i] > 0}

Unwritten(from) == \A j \in from .. Len(Plan) : puts[Plan[j]] = 0

(* What an execution under way has done so far: the items before the one it  *)
(* is at, each at most once; of the count and of what is claimed, everything.*)
UnderWay ==
    /\ pc # "idle" =>
         report = Null /\ attempts = Cardinality(Written) /\ results \subseteq exact
    /\ pc \in {"open", "extract"} => item = 1 /\ results = {} /\ Unwritten(1)
    /\ pc \in {"preread", "put", "readback"} =>
         /\ accepted
         /\ results = {Plan[j] : j \in 1 .. item - 1}
         /\ Unwritten(item + 1)
    /\ pc \in {"preread", "put"} => puts[Current] = 0
    /\ pc = "final" => accepted /\ results = Item
    /\ pc \notin {"idle", "open"} => page \in Pages

(* What the last execution has said, it still says truly.                    *)
Reported ==
    report # Null /\ report.state # "error" =>
        report.attempts = Cardinality(Written) /\ report.verified \subseteq exact

WInv == Typed /\ HistoryOK /\ UnderWay /\ Reported

-----------------------------------------------------------------------------
(* Facts about the plan and about sets of items. *)

LEMMA PlanFacts ==
    /\ Len(Plan) \in Nat /\ Plan \in [1 .. Len(Plan) -> Item]
    /\ \A i, j \in 1 .. Len(Plan) : Plan[i] = Plan[j] => i = j
    /\ IsFiniteSet(Item)
  <1>1. Len(Plan) \in Nat /\ Plan \in [1 .. Len(Plan) -> Item]
    BY WriterAssumption, LenProperties
  <1>2. Plan \in Surjection(1 .. Len(Plan), Item)
    BY <1>1 DEF Item, Surjection
  <1>3. IsFiniteSet(1 .. Len(Plan)) /\ Cardinality(1 .. Len(Plan)) = Len(Plan)
    BY <1>1, FS_Interval
  <1>4. IsFiniteSet(Item) /\ Plan \in Injection(1 .. Len(Plan), Item)
    BY <1>2, <1>3, FS_Surjection, WriterAssumption
  <1>5. QED
    BY <1>1, <1>4 DEF Injection, IsInjective

LEMMA CurrentIsItem ==
    ASSUME WInv
    PROVE  Current \in Item /\ Document[Current] \in Documents /\ item \in Nat
  BY PlanFacts DEF WInv, Typed, Current, Documents

(* One more item is written. *)
LEMMA OneMoreWritten ==
    ASSUME WInv, puts[Current] = 0, puts' = [puts EXCEPT ![Current] = @ + 1]
    PROVE  /\ Written' = Written \cup {Current}
           /\ Cardinality(Written') = Cardinality(Written) + 1
           /\ \A i \in Item : puts'[i] = IF i = Current THEN 1 ELSE puts[i]
  <1>1. Current \in Item /\ puts \in [Item -> {0, 1}]
    BY CurrentIsItem DEF WInv, HistoryOK
  <1>2. \A i \in Item : puts'[i] = IF i = Current THEN 1 ELSE puts[i]
    BY <1>1
  <1>3. Written' = Written \cup {Current} /\ Current \notin Written /\ Written \subseteq Item
    BY <1>1, <1>2 DEF Written
  <1>4. IsFiniteSet(Written)
    BY <1>3, PlanFacts, FS_Subset
  <1>5. QED
    BY <1>2, <1>3, <1>4, FS_AddElement

LEMMA CountType ==
    ASSUME WInv
    PROVE  Cardinality(Written) \in Nat
  <1>1. Written \subseteq Item
    BY DEF Written
  <1>2. QED
    BY <1>1, PlanFacts, FS_Subset, FS_CardinalityType

(* Once every item of the plan is read back, all items are. *)
LEMMA AllItems ==
    /\ Item = {Plan[j] : j \in 1 .. Len(Plan)}
    /\ \A n \in 1 .. Len(Plan) :
         {Plan[j] : j \in 1 .. n} = {Plan[j] : j \in 1 .. n - 1} \cup {Plan[n]}
  BY PlanFacts DEF Item

-----------------------------------------------------------------------------
(* The ways in which an execution ends. *)

Around == UNCHANGED <<uploading, stamp, disk, acts, executions>>

Repository ==
    artifacts \in [Documents -> [control: Item, capturedAt: Stamp] \cup {Null}]

LEMMA RaiseKeeps ==
    ASSUME WInv, Raise, Around, Repository', HistoryOK'
    PROVE  WInv'
  <1> USE DEF Raise, Around
  <1>1. Typed'
    BY DEF WInv, Typed, Repository, States
  <1>2. UnderWay' /\ Reported'
    BY DEF UnderWay, Reported
  <1>3. QED
    BY <1>1, <1>2 DEF WInv

LEMMA StopKeeps ==
    ASSUME WInv, NEW state \in States, Stop(state), Around, Repository', HistoryOK',
           attempts' \in Nat, attempts' = Cardinality(Written'),
           results' \subseteq Item, results' \subseteq exact'
    PROVE  WInv'
  <1> USE DEF Stop, Around
  <1>1. report' = [state |-> state, attempts |-> attempts', verified |-> results']
    OBVIOUS
  <1>2. Typed'
    BY <1>1 DEF WInv, Typed, Repository
  <1>3. UnderWay' /\ Reported'
    BY <1>1 DEF UnderWay, Reported
  <1>4. QED
    BY <1>2, <1>3 DEF WInv

(* A step that stays in the execution, and writes nothing, keeps the count.  *)
LEMMA QuietKeeps ==
    ASSUME WInv, Around, Repository', HistoryOK', UNCHANGED <<puts, attempts, report>>,
           pc # "idle",
           pc' \in {"extract", "preread", "put", "readback", "final"},
           item' \in 1 .. Len(Plan), results' \subseteq Item, results' \subseteq exact',
           page' \in Pages,
           pc' = "extract" => item' = 1 /\ results' = {} /\ Unwritten(1),
           pc' \in {"preread", "put", "readback"} =>
              accepted' /\ results' = {Plan[j] : j \in 1 .. item' - 1} /\ Unwritten(item' + 1),
           pc' \in {"preread", "put"} => puts[Plan[item']] = 0,
           pc' = "final" => accepted' /\ results' = Item
    PROVE  WInv'
  <1>1. Typed'
    BY DEF Around, WInv, Typed, Repository
  <1>2. Written' = Written
    BY DEF Written
  <1>3. UnderWay'
    BY <1>2 DEF WInv, UnderWay, Unwritten, Current
  <1>4. Reported'
    BY DEF WInv, UnderWay, Reported
  <1>5. QED
    BY <1>1, <1>3, <1>4 DEF WInv

-----------------------------------------------------------------------------
(* The steps of an execution. *)

(* What is noted of a value that is read. *)
LEMMA NotedExact ==
    ASSUME WInv, NoteExact
    PROVE  /\ HistoryOK' /\ puts' = puts /\ accepted' = accepted
           /\ exact \subseteq exact' /\ (Matches => Current \in exact')
           /\ Matches => Document[Current] \in proven'
  BY CurrentIsItem DEF NoteExact, WInv, HistoryOK

LEMMA ExecuteKeeps ==
    ASSUME WInv, UNCHANGED uploading, NEW s \in Stamp, Execute(s)
    PROVE  WInv'
  <1> USE DEF Execute
  <1>1. /\ puts' = [i \in Item |-> 0] /\ exact' = {} /\ accepted' = FALSE /\ proven' = proven
        /\ item' = 1 /\ attempts' = 0 /\ results' = {} /\ stamp' = s
        /\ UNCHANGED <<page, disk, artifacts, acts>> /\ executions' = executions + 1
        /\ \/ pc' = "open" /\ report' = Null
           \/ pc' = "idle" /\ report' = [state |-> "plan_blocked", attempts |-> 0, verified |-> {}]
    OBVIOUS
  <1>2. 1 \in 1 .. Len(Plan)
    BY PlanFacts, WriterAssumption
  <1>3. Typed'
    BY <1>1, <1>2 DEF WInv, Typed, States
  <1>4. HistoryOK'
    <2>1. puts' \in [Item -> {0, 1}] /\ \A i \in Item : puts'[i] = 0
      BY <1>1
    <2>2. accepted' \in BOOLEAN /\ exact' \subseteq Item /\ proven' \subseteq Documents
      BY <1>1 DEF WInv, HistoryOK
    <2>3. QED
      BY <2>1, <2>2 DEF HistoryOK
  <1>5. Written' = {} /\ Cardinality(Written') = 0
    <2>1. Written' = {}
      BY <1>1 DEF Written
    <2>2. QED
      BY <2>1, FS_EmptySet
  <1>6. UnderWay'
    BY <1>1, <1>5, PlanFacts DEF UnderWay, Unwritten
  <1>7. Reported'
    BY <1>1, <1>5 DEF Reported
  <1>8. QED
    BY <1>3, <1>4, <1>6, <1>7 DEF WInv

LEMMA InterruptKeeps ==
    ASSUME WInv, UNCHANGED uploading, Interrupt
    PROVE  WInv'
  <1> USE DEF Interrupt, history
  <1>1. Typed' /\ HistoryOK'
    BY DEF WInv, Typed, HistoryOK
  <1>2. UnderWay' /\ Reported'
    BY DEF WInv, UnderWay, Reported
  <1>3. QED
    BY <1>1, <1>2 DEF WInv

LEMMA OpenKeeps ==
    ASSUME WInv, UNCHANGED uploading, Open
    PROVE  WInv'
  <1>1. /\ pc = "open" /\ Around /\ Repository' /\ HistoryOK'
        /\ UNCHANGED <<puts, attempts, results, exact>>
    BY DEF Open, World, Uncounted, Around, history, WInv, Typed, Repository, HistoryOK
  <1>2. CASE Raise
    BY <1>1, <1>2, RaiseKeeps
  <1>3. CASE pc' = "extract" /\ page' \in Pages /\ UNCHANGED <<item, report>>
    <2>1. /\ results' \subseteq Item /\ results' \subseteq exact' /\ item' \in 1 .. Len(Plan)
          /\ item' = 1 /\ results' = {} /\ Unwritten(1)
      BY <1>1, <1>3 DEF WInv, Typed, UnderWay
    <2>2. QED
      BY <1>1, <1>3, <2>1, QuietKeeps
  <1>4. QED
    <2>1. ASSUME NEW f \in Form, NEW b \in BOOLEAN, NEW c \in [Item -> {"approved", "other"}]
          PROVE  [form |-> f, boundary |-> b, moved |-> FALSE, content |-> c] \in Pages
      BY DEF Pages, Values
    <2>2. QED
      BY <1>2, <1>3, <2>1 DEF Open

LEMMA ExtractKeeps ==
    ASSUME WInv, UNCHANGED uploading, Extract
    PROVE  WInv'
  <1>1. /\ pc = "extract" /\ Around /\ Repository'
        /\ UNCHANGED <<puts, exact, proven, attempts, results>>
        /\ item = 1 /\ results = {} /\ Unwritten(1) /\ page \in Pages
        /\ accepted' \in {accepted, TRUE}
    BY DEF Extract, World, Uncounted, Around, WInv, Typed, Repository, UnderWay
  <1>2. HistoryOK' /\ Written' = Written
    <2>1. accepted' \in BOOLEAN /\ (accepted => accepted')
      <3>1. accepted \in BOOLEAN
        BY DEF WInv, HistoryOK
      <3>2. accepted' = accepted \/ accepted' = TRUE
        BY <1>1
      <3>3. QED
        BY <3>1, <3>2
    <2>2. QED
      BY <1>1, <2>1 DEF WInv, HistoryOK, Written
  <1>3. CASE Raise
    BY <1>1, <1>2, <1>3, RaiseKeeps
  <1>4. ASSUME NEW state \in States, Stop(state)
        PROVE  WInv'
    <2>1. /\ attempts' \in Nat /\ attempts' = Cardinality(Written')
          /\ results' \subseteq Item /\ results' \subseteq exact'
      BY <1>1, <1>2 DEF WInv, Typed, UnderWay
    <2>2. QED
      BY <1>1, <1>2, <1>4, <2>1, StopKeeps
  <1>5. CASE /\ pc' = "preread" /\ page' = [page EXCEPT !.moved = FALSE]
             /\ accepted' = TRUE /\ UNCHANGED <<item, report>>
    <2>1. page' \in Pages
      BY <1>1, <1>5 DEF Pages
    <2>2. /\ item' \in 1 .. Len(Plan) /\ results' \subseteq Item /\ results' \subseteq exact'
          /\ results' = {Plan[j] : j \in 1 .. item' - 1}
          /\ Unwritten(item' + 1) /\ puts[Plan[item']] = 0
      BY <1>1, <1>5, PlanFacts DEF WInv, Typed, Unwritten
    <2>3. QED
      BY <1>1, <1>2, <1>5, <2>1, <2>2, QuietKeeps
  <1>6. QED
    BY <1>3, <1>4, <1>5 DEF Extract, States

(* The next item, or the last extraction when there is none. *)
LEMMA NextItemKeeps ==
    ASSUME WInv, pc \in {"preread", "readback"}, NextItem, NoteExact, Matches, Around, Repository'
    PROVE  WInv'
  <1>1. /\ HistoryOK' /\ puts' = puts /\ accepted' = accepted
        /\ exact \subseteq exact' /\ Current \in exact'
    BY NotedExact
  <1>2. /\ accepted /\ results = {Plan[j] : j \in 1 .. item - 1} /\ Unwritten(item + 1)
        /\ page \in Pages /\ results \subseteq exact /\ pc # "idle"
    BY DEF WInv, UnderWay
  <1>3. /\ results' = {Plan[j] : j \in 1 .. item} /\ results' \subseteq exact' /\ results' \subseteq Item
        /\ item \in 1 .. Len(Plan)
    <2>1. item \in 1 .. Len(Plan) /\ results \subseteq Item /\ Current \in Item
      BY CurrentIsItem DEF WInv, Typed
    <2>2. results' = results \cup {Current}
      BY DEF NextItem
    <2>3. QED
      BY <1>1, <1>2, <2>1, <2>2, AllItems DEF Current
  <1>4. CASE item < Len(Plan)
    <2>1. /\ pc' = "preread" /\ item' = item + 1 /\ UNCHANGED <<report, page, attempts>>
      BY <1>4 DEF NextItem
    <2>2. /\ item' \in 1 .. Len(Plan) /\ results' = {Plan[j] : j \in 1 .. item' - 1}
          /\ Unwritten(item' + 1) /\ puts[Plan[item']] = 0
      BY <1>2, <1>3, <1>4, <2>1, PlanFacts DEF Unwritten
    <2>3. QED
      BY <1>1, <1>2, <1>3, <2>1, <2>2, QuietKeeps
  <1>5. CASE ~(item < Len(Plan))
    <2>1. /\ pc' = "final" /\ item' = item /\ UNCHANGED <<report, page, attempts>>
      BY <1>5 DEF NextItem
    <2>2. item = Len(Plan) /\ results' = Item
      BY <1>3, <1>5, PlanFacts, AllItems
    <2>3. QED
      BY <1>1, <1>2, <1>3, <2>1, <2>2, QuietKeeps
  <1>6. QED
    BY <1>4, <1>5

LEMMA PreReadKeeps ==
    ASSUME WInv, UNCHANGED uploading, PreRead
    PROVE  WInv'
  <1>1. pc = "preread" /\ Around /\ Repository' /\ NoteExact
    BY DEF PreRead, World, Around, WInv, Typed, Repository
  <1>2. HistoryOK' /\ puts' = puts /\ accepted' = accepted /\ exact \subseteq exact'
    BY <1>1, NotedExact
  <1>3. CASE Raise
    BY <1>1, <1>2, <1>3, RaiseKeeps
  <1>4. CASE Matches /\ NextItem
    BY <1>1, <1>4, NextItemKeeps
  <1>5. CASE (Goto("readback") \/ Goto("put")) /\ Uncounted
    <2>1. /\ pc' \in {"readback", "put"}
          /\ UNCHANGED <<item, report, page, attempts, results>>
      BY <1>5 DEF Goto, Uncounted
    <2>2. /\ accepted /\ results = {Plan[j] : j \in 1 .. item - 1} /\ Unwritten(item + 1)
          /\ page \in Pages /\ results \subseteq exact /\ puts[Plan[item]] = 0
          /\ item \in 1 .. Len(Plan) /\ results \subseteq Item
      BY <1>1 DEF WInv, Typed, UnderWay, Current
    <2>3. QED
      BY <1>1, <1>2, <2>1, <2>2, QuietKeeps
  <1>6. QED
    BY <1>3, <1>4, <1>5 DEF PreRead

(* The one step that writes. *)
LEMMA PutKeeps ==
    ASSUME WInv, UNCHANGED uploading, Put
    PROVE  WInv'
  <1>1. /\ pc = "put" /\ Around /\ Repository' /\ puts[Current] = 0 /\ accepted /\ report = Null
        /\ attempts = Cardinality(Written) /\ results \subseteq exact /\ results \subseteq Item
        /\ item \in 1 .. Len(Plan) /\ page \in Pages /\ Unwritten(item + 1)
        /\ results = {Plan[j] : j \in 1 .. item - 1}
    BY DEF Put, World, Around, WInv, Typed, Repository, UnderWay
  <1>2. CASE Raise /\ UNCHANGED history
    BY <1>1, <1>2, RaiseKeeps DEF history, WInv, HistoryOK
  <1>3. NotePut => /\ HistoryOK' /\ accepted' = accepted /\ exact' = exact
                   /\ Cardinality(Written') = Cardinality(Written) + 1
                   /\ \A i \in Item : i # Current => puts'[i] = puts[i]
    <2> SUFFICES ASSUME NotePut PROVE /\ HistoryOK' /\ accepted' = accepted /\ exact' = exact
                                      /\ Cardinality(Written') = Cardinality(Written) + 1
                                      /\ \A i \in Item : i # Current => puts'[i] = puts[i]
      OBVIOUS
    <2>1. puts' = [puts EXCEPT ![Current] = @ + 1] /\ UNCHANGED <<exact, proven, accepted>>
      BY DEF NotePut
    <2>2. /\ Cardinality(Written') = Cardinality(Written) + 1
          /\ \A i \in Item : puts'[i] = IF i = Current THEN 1 ELSE puts[i]
      BY <1>1, <2>1, OneMoreWritten
    <2>3. puts' \in [Item -> {0, 1}]
      BY <1>1, <2>1, CurrentIsItem DEF WInv, HistoryOK
    <2>4. QED
      BY <1>1, <2>1, <2>2, <2>3 DEF WInv, HistoryOK
  <1>4. CASE Raise /\ NotePut
    BY <1>1, <1>3, <1>4, RaiseKeeps
  <1>5. CASE NotePut /\ attempts' = attempts + 1 /\ results' = results /\ Stop("readback_failed")
    <2>1. /\ attempts' \in Nat /\ attempts' = Cardinality(Written')
          /\ results' \subseteq Item /\ results' \subseteq exact'
      BY <1>1, <1>3, <1>5 DEF WInv, Typed
    <2>2. QED
      BY <1>1, <1>3, <1>5, <2>1, StopKeeps DEF States
  <1>6. CASE /\ NotePut /\ attempts' = attempts + 1 /\ results' = results
             /\ pc' = "readback" /\ UNCHANGED <<item, report>>
             /\ page' = [page EXCEPT !.content[Current] = Value]
    <2>1. page' \in Pages
      <3>1. Value \in Values
        BY CurrentIsItem DEF Value, Values, WInv, Typed
      <3>2. QED
        BY <1>1, <1>6, <3>1 DEF Pages
    <2>2. Typed'
      BY <1>1, <1>6, <2>1 DEF Around, Repository, WInv, Typed
    <2>3. Unwritten(item + 1)'
      BY <1>1, <1>3, <1>6, PlanFacts DEF Unwritten, Current
    <2>4. UnderWay'
      BY <1>1, <1>3, <1>6, <2>1, <2>3 DEF UnderWay
    <2>5. Reported'
      BY <1>1, <1>6 DEF Reported
    <2>6. QED
      BY <1>3, <1>6, <2>2, <2>4, <2>5 DEF WInv
  <1>7. QED
    BY <1>2, <1>4, <1>5, <1>6 DEF Put

(* An artifact is appended where there is none. *)
LEMMA Appended ==
    ASSUME WInv, artifacts' = [artifacts EXCEPT ![Document[Current]] = Artifact(Current)]
    PROVE  Repository'
  <1>1. Artifact(Current) \in [control: Item, capturedAt: Stamp]
    BY CurrentIsItem DEF Artifact, WInv, Typed
  <1>2. QED
    BY <1>1 DEF WInv, Typed, Repository

LEMMA ReadBackKeeps ==
    ASSUME WInv, UNCHANGED uploading, ReadBack
    PROVE  WInv'
  <1>1. pc = "readback" /\ Around /\ NoteExact
    BY DEF ReadBack, World, Around
  <1>2. HistoryOK' /\ puts' = puts /\ accepted' = accepted /\ exact \subseteq exact'
    BY <1>1, NotedExact
  <1>3. Repository'
    BY Appended DEF ReadBack, AppendArtifact, WInv, Typed, Repository
  <1>4. CASE Raise
    BY <1>1, <1>2, <1>3, <1>4, RaiseKeeps
  <1>5. CASE Uncounted /\ Stop("readback_failed")
    <2>1. /\ attempts' \in Nat /\ attempts' = Cardinality(Written')
          /\ results' \subseteq Item /\ results' \subseteq exact'
      BY <1>1, <1>2, <1>5 DEF Uncounted, WInv, Typed, UnderWay, Written
    <2>2. QED
      BY <1>1, <1>2, <1>3, <1>5, <2>1, StopKeeps DEF States
  <1>6. CASE Matches /\ NextItem
    BY <1>1, <1>3, <1>6, NextItemKeeps
  <1>7. QED
    BY <1>4, <1>5, <1>6 DEF ReadBack, AppendArtifact

LEMMA FinalKeeps ==
    ASSUME WInv, UNCHANGED uploading, Final
    PROVE  WInv'
  <1>1. /\ pc = "final" /\ Around /\ Repository' /\ HistoryOK' /\ Written' = Written
        /\ UNCHANGED <<attempts, results, exact>>
    BY DEF Final, World, Uncounted, Around, history, WInv, Typed, Repository, HistoryOK, Written
  <1>2. CASE Raise
    BY <1>1, <1>2, RaiseKeeps
  <1>3. ASSUME NEW state \in States, Stop(state)
        PROVE  WInv'
    <2>1. /\ attempts' \in Nat /\ attempts' = Cardinality(Written')
          /\ results' \subseteq Item /\ results' \subseteq exact'
      BY <1>1 DEF WInv, Typed, UnderWay
    <2>2. QED
      BY <1>1, <1>3, <2>1, StopKeeps
  <1>4. QED
    BY <1>2, <1>3 DEF Final, States

(* The page and the files.                                                   *)
LEMMA WorldKeeps ==
    ASSUME WInv, UNCHANGED uploading, PageActs \/ FileActs
    PROVE  WInv'
  <1>1. UNCHANGED <<pc, item, attempts, results, report, stamp, artifacts, executions,
                    puts, exact, proven, accepted>>
    BY DEF PageActs, FileActs, code, history
  <1>2. page' \in Pages \cup {Null} /\ (page \in Pages => page' \in Pages)
    <2>1. CASE page' = page
      BY <2>1 DEF WInv, Typed
    <2>2. CASE PageActs
      <3>1. page \in Pages
        BY <2>2 DEF PageActs, WInv, Typed
      <3>2. page' \in Pages
        <4>1. ASSUME NEW f \in Form, page' = [page EXCEPT !.form = f] PROVE page' \in Pages
          BY <3>1, <4>1 DEF Pages
        <4>2. CASE page' = [page EXCEPT !.boundary = ~@] \/ page' = [page EXCEPT !.moved = TRUE]
          BY <3>1, <4>2 DEF Pages
        <4>3. ASSUME NEW i \in Item, NEW v \in {"approved", "other"},
                     page' = [page EXCEPT !.content[i] = v]
              PROVE  page' \in Pages
          BY <3>1, <4>3 DEF Pages, Values
        <4>4. QED
          BY <2>2, <4>1, <4>2, <4>3 DEF PageActs
      <3>3. QED
        BY <3>1, <3>2
    <2>3. QED
      BY <2>1, <2>2 DEF FileActs
  <1>3. acts' \in Nat /\ disk' \in [Documents -> {"approved", "changed"}]
    BY DEF PageActs, FileActs, WInv, Typed
  <1>4. Typed'
    BY <1>1, <1>2, <1>3 DEF WInv, Typed
  <1>5. HistoryOK' /\ UnderWay' /\ Reported'
    BY <1>1, <1>2 DEF WInv, HistoryOK, UnderWay, Reported, Written, Unwritten, Current
  <1>6. QED
    BY <1>4, <1>5 DEF WInv

-----------------------------------------------------------------------------

LEMMA WInit == Init => WInv
  <1> SUFFICES ASSUME Init PROVE WInv
    OBVIOUS
  <1> USE DEF Init
  <1>1. Typed
    BY PlanFacts, WriterAssumption DEF Typed
  <1>2. HistoryOK
    <2>1. puts \in [Item -> {0, 1}] /\ \A i \in Item : puts[i] = 0
      OBVIOUS
    <2>2. exact \subseteq Item /\ proven \subseteq Documents /\ accepted \in BOOLEAN
      OBVIOUS
    <2>3. QED
      BY <2>1, <2>2 DEF HistoryOK
  <1>3. UnderWay /\ Reported
    BY DEF UnderWay, Reported
  <1>4. QED
    BY <1>1, <1>2, <1>3 DEF WInv

LEMMA WStep == WInv /\ [Next]_vars => WInv'
  <1> SUFFICES ASSUME WInv, [Next]_vars PROVE WInv'
    OBVIOUS
  <1>1. CASE UNCHANGED vars
    BY <1>1 DEF vars, code, history, WInv, Typed, HistoryOK, UnderWay, Reported, Written, Unwritten,
       Current
  <1>2. CASE Next
    BY <1>2, ExecuteKeeps, InterruptKeeps, OpenKeeps, ExtractKeeps, PreReadKeeps, PutKeeps,
       ReadBackKeeps, FinalKeeps, WorldKeeps DEF Next, InCall
  <1>3. QED
    BY <1>1, <1>2

THEOREM WriterInvariance == Spec => []WInv
  BY WInit, WStep, PTL DEF Spec

(* No write before the whole plan is accepted, no control written twice, and *)
(* a result that is not an exception counts every write and claims only what *)
(* was read back (safe_field_writer.py, file_uploader.py).                   *)
THEOREM WritesBoundedAndCounted == Spec => []WritesAreBoundedAndCounted
  <1>1. WInv => WritesAreBoundedAndCounted
    BY DEF WInv, HistoryOK, Reported, WritesAreBoundedAndCounted, Written
  <1>2. QED
    BY <1>1, WriterInvariance, PTL

(* The review gate is reached with every item read back, from a form that    *)
(* had the inspected fingerprint before the first write and has it now.      *)
THEOREM ReviewGateIsEarned == Spec => GateIsEarned
  <1> DEFINE Earned == report' # Null /\ report' # report /\ report'.state = "review_gate" =>
                          exact = Item /\ accepted /\ Fingerprint[page.form] = Approved
  <1>1. ASSUME WInv, [Next]_vars PROVE Earned
    <2> SUFFICES ASSUME report' # Null, report' # report, report'.state = "review_gate"
                 PROVE  exact = Item /\ accepted /\ Fingerprint[page.form] = Approved
      OBVIOUS
    <2>1. Final
      BY <1>1 DEF Next, vars, code, Execute, InCall, Interrupt, PageActs, FileActs, Open, Extract,
         PreRead, Put, ReadBack, AppendArtifact, NextItem, Goto, Raise, Stop
    <2>2. Fingerprint[page.form] = Approved
      BY <2>1 DEF Final, Raise, Stop
    <2>3. accepted /\ results = Item /\ results \subseteq exact /\ exact \subseteq Item
      BY <1>1, <2>1 DEF Final, WInv, UnderWay, HistoryOK
    <2>4. QED
      BY <2>2, <2>3
  <1>2. QED
    BY <1>1, WriterInvariance, PTL DEF Spec, GateIsEarned

(* The lineage of a document is appended once, of a document a browser has   *)
(* shown to hold, and never replaced (persistence/tmh_memory.py).            *)
THEOREM LineageNeverChanges == Spec => LineageIsImmutable
  <1> DEFINE Immutable ==
        \A d \in Documents :
          artifacts'[d] # artifacts[d] => artifacts[d] = Null /\ d \in proven'
  <1>1. ASSUME WInv, [Next]_vars PROVE Immutable
    <2> SUFFICES ASSUME NEW d \in Documents, artifacts'[d] # artifacts[d]
                 PROVE  artifacts[d] = Null /\ d \in proven'
      OBVIOUS
    <2>1. ReadBack /\ Matches /\ AppendArtifact
      BY <1>1 DEF Next, vars, Execute, InCall, Interrupt, PageActs, FileActs, Open, Extract,
         PreRead, Put, ReadBack, Final
    <2>2. Document[Current] \in proven'
      BY <1>1, <2>1, NotedExact DEF ReadBack
    <2>3. d = Document[Current] /\ artifacts[d] = Null
      BY <1>1, <2>1 DEF AppendArtifact, WInv, Typed
    <2>4. QED
      BY <2>2, <2>3
  <1>2. QED
    BY <1>1, WriterInvariance, PTL DEF Spec, LineageIsImmutable
=============================================================================
