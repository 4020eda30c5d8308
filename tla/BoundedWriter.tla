--------------------------- MODULE BoundedWriter ---------------------------
(***************************************************************************)
(* The two bounded writers of a form, each an execute() that opens a       *)
(* browser of its own, checks the form against the inspected fingerprint,  *)
(* works through its plan and closes:                                      *)
(*   - services/safe_field_writer.py (BE-2), values of safe fields;        *)
(*   - services/file_uploader.py (FILE-1), approved documents, whose       *)
(*     lineage it appends to persistence/tmh_memory.py.                    *)
(* uploading says which.  The owner may execute again, with the same       *)
(* repository, after whatever end.                                         *)
(*                                                                         *)
(* An action is the code up to its next browser call; the page and the     *)
(* documents' files change in between.  Of a control only its value        *)
(* matters, of a form its fingerprint and whether the plan fits it.        *)
(***************************************************************************)
EXTENDS Naturals, Sequences, FiniteSets

CONSTANTS Plan,              \* the items of request.field_plan or request.upload_plan
          Document,          \* the document of each item
          Form,              \* what the control extractor can return
          Fingerprint,       \* of each form
          Fit,               \* the forms whose controls pass the preflight of the plan
          Approved,          \* request.expected_form_fingerprint
          Stamp,             \* request.observed_at of the executions
          MaxActs, MaxExecutions,   \* bounds
          Null

Item == {Plan[i] : i \in 1 .. Len(Plan)}
Documents == {Document[i] : i \in Item}

ASSUME WriterAssumption ==
    /\ Plan \in Seq(Item) /\ Len(Plan) > 0 /\ Cardinality(Item) = Len(Plan)
    /\ DOMAIN Document = Item /\ DOMAIN Fingerprint = Form /\ Fit \subseteq Form
    /\ MaxActs \in Nat /\ MaxExecutions \in Nat

VARIABLES
    uploading,     \* which of the two writers it is
    pc, item, attempts, results, stamp, report,   \* the execution and what it returned
    page,          \* [form, boundary, moved, content] of its browser, or Null
    disk,          \* the file of each document: "approved" or "changed"
    artifacts,     \* the repository: for each document its artifact, or Null
    acts, executions,                       \* counted against the bounds
    puts, exact, proven, accepted \* history

code    == <<pc, item, attempts, results, report>>
history == <<puts, exact, proven, accepted>>
vars == <<uploading, code, stamp, page, disk, artifacts, acts, executions, history>>

Values == {"approved", "changed", "other"}

Artifact(i) == [control |-> i, capturedAt |-> stamp]

Init ==
    /\ uploading \in BOOLEAN
    /\ pc = "idle" /\ item = 1 /\ attempts = 0 /\ results = {} /\ report = Null
    /\ stamp \in Stamp /\ page = Null /\ disk = [d \in Documents |-> "approved"]
    /\ artifacts = [d \in Documents |-> Null] /\ acts = 0 /\ executions = 0
    /\ puts = [i \in Item |-> 0] /\ exact = {} /\ proven = {} /\ accepted = FALSE

-----------------------------------------------------------------------------
(* How an execution ends: every end closes the browser. *)

Stop(state) ==
    /\ report' = [state |-> state, attempts |-> attempts', verified |-> results']
    /\ pc' = "idle" /\ page' = Null /\ UNCHANGED item

(* Any browser call may raise; the result then says nothing of what was done. *)
Raise ==
    /\ report' = [state |-> "error", attempts |-> 0, verified |-> {}]
    /\ pc' = "idle" /\ page' = Null /\ UNCHANGED <<item, attempts, results>>

Interrupt ==
    /\ pc # "idle"
    /\ pc' = "idle" /\ page' = Null
    /\ UNCHANGED <<item, attempts, results, report, stamp, disk, artifacts, acts, executions, history>>

Goto(step) == pc' = step /\ UNCHANGED <<item, report, page>>

World == UNCHANGED <<stamp, disk, acts, executions>>
Uncounted == UNCHANGED <<attempts, results>>

-----------------------------------------------------------------------------
(* execute. *)

(* The request, and for uploads every file, are checked before the browser. *)
Execute(s) ==
    /\ pc = "idle" /\ executions < MaxExecutions
    /\ executions' = executions + 1 /\ stamp' = s
    /\ item' = 1 /\ attempts' = 0 /\ results' = {}
    /\ puts' = [i \in Item |-> 0] /\ exact' = {} /\ accepted' = FALSE
    /\ IF uploading /\ \E d \in Documents : disk[d] # "approved"
       THEN report' = [state |-> "plan_blocked", attempts |-> 0, verified |-> {}] /\ pc' = "idle"
       ELSE report' = Null /\ pc' = "open"
    /\ UNCHANGED <<page, disk, artifacts, acts, proven>>

Open ==
    /\ pc = "open"
    /\ World /\ Uncounted /\ UNCHANGED <<artifacts, history>>
    /\ \/ Raise
       \/ /\ \E f \in Form, b \in BOOLEAN, c \in [Item -> {"approved", "other"}] :
                page' = [form |-> f, boundary |-> b, moved |-> FALSE, content |-> c]
          /\ pc' = "extract" /\ UNCHANGED <<item, report>>

(* The form is read; a boundary, another fingerprint or any item that does   *)
(* not fit ends the execution before its first write.  base_url is taken.    *)
Extract ==
    /\ pc = "extract"
    /\ World /\ Uncounted /\ UNCHANGED <<artifacts, puts, exact, proven>>
    /\ \/ Raise /\ UNCHANGED accepted
       \/ page.boundary /\ Stop("boundary") /\ UNCHANGED accepted
       \/ /\ ~page.boundary /\ Fingerprint[page.form] # Approved
          /\ Stop("schema_drift") /\ UNCHANGED accepted
       \/ /\ ~page.boundary /\ Fingerprint[page.form] = Approved /\ page.form \notin Fit
          /\ Stop("plan_blocked") /\ UNCHANGED accepted
       \/ /\ ~page.boundary /\ Fingerprint[page.form] = Approved /\ page.form \in Fit
          /\ pc' = "preread" /\ page' = [page EXCEPT !.moved = FALSE]
          /\ accepted' = TRUE /\ UNCHANGED <<item, report>>

Current == Plan[item]

Matches == page.content[Current] = "approved"

NextItem ==
    /\ pc' = IF item < Len(Plan) THEN "preread" ELSE "final"
    /\ item' = IF item < Len(Plan) THEN item + 1 ELSE item
    /\ results' = results \cup {Current} /\ UNCHANGED <<report, page, attempts>>

(* What history notes of a value that is read. *)
NoteExact ==
    /\ exact' = IF Matches THEN exact \cup {Current} ELSE exact
    /\ proven' = IF Matches THEN proven \cup {Document[Current]} ELSE proven
    /\ UNCHANGED <<puts, accepted>>

(* A value that matches is not written; a file is read back all the same.    *)
PreRead ==
    /\ pc = "preread"
    /\ World /\ NoteExact /\ UNCHANGED artifacts
    /\ \/ Raise
       \/ Matches /\ ~uploading /\ NextItem
       \/ Matches /\ uploading /\ Goto("readback") /\ Uncounted
       \/ ~Matches /\ Goto("put") /\ Uncounted

Value == IF uploading THEN disk[Document[Current]] ELSE "approved"

NotePut ==
    /\ puts' = [puts EXCEPT ![Current] = @ + 1]
    /\ UNCHANGED <<exact, proven, accepted>>

(* Mutant: the attempt is counted when the page is found where it was. *)
PutCountedLate ==
    /\ pc = "put"
    /\ World /\ UNCHANGED artifacts
    /\ \/ Raise /\ (NotePut \/ UNCHANGED history)
       \/ NotePut /\ page.moved /\ Uncounted /\ Stop("readback_failed")
       \/ /\ NotePut /\ ~page.moved
          /\ attempts' = attempts + 1 /\ UNCHANGED <<results, item, report>>
          /\ pc' = "readback" /\ page' = [page EXCEPT !.content[Current] = Value]

(* fill, select_option or set_input_files, which takes effect or not, then   *)
(* the count, which an exception skips, and the check for navigation.        *)
Put ==
    /\ pc = "put"
    /\ World /\ UNCHANGED artifacts
    /\ \/ Raise /\ (NotePut \/ UNCHANGED history)
       \/ /\ NotePut /\ attempts' = attempts + 1 /\ UNCHANGED results
          /\ \/ page.moved /\ Stop("readback_failed")
             \/ /\ ~page.moved /\ pc' = "readback" /\ UNCHANGED <<item, report>>
                /\ page' = [page EXCEPT !.content[Current] = Value]

(* Mutant: a later artifact replaces the earlier. *)
AppendArtifactOver ==
    /\ artifacts' = [artifacts EXCEPT ![Document[Current]] = Artifact(Current)]
    /\ NextItem

(* append_artifact: equal records are suppressed, different ones raise.      *)
AppendArtifact ==
    LET d == Document[Current]
    IN  \/ /\ artifacts[d] \in {Null, Artifact(Current)}
           /\ artifacts' = [artifacts EXCEPT ![d] = Artifact(Current)]
           /\ NextItem
        \/ artifacts[d] \notin {Null, Artifact(Current)} /\ Raise /\ UNCHANGED artifacts

(* The value and its validity, which the page decides.                       *)
ReadBack ==
    /\ pc = "readback"
    /\ World /\ NoteExact
    /\ \/ Raise /\ UNCHANGED artifacts
       \/ Uncounted /\ Stop("readback_failed") /\ UNCHANGED artifacts
       \/ Matches /\ ~uploading /\ NextItem /\ UNCHANGED artifacts
       \/ Matches /\ uploading /\ AppendArtifact

(* Mutant: the last extraction is not compared. *)
FinalUncompared ==
    /\ pc = "final"
    /\ World /\ Uncounted /\ UNCHANGED <<artifacts, history>>
    /\ Raise \/ Stop("review_gate")

(* The form is extracted once more.                                          *)
Final ==
    /\ pc = "final"
    /\ World /\ Uncounted /\ UNCHANGED <<artifacts, history>>
    /\ \/ Raise
       \/ Fingerprint[page.form] = Approved /\ Stop("review_gate")
       \/ Fingerprint[page.form] # Approved /\ Stop("schema_drift")

-----------------------------------------------------------------------------
(* The page and the files. *)

PageActs ==
    /\ page # Null /\ acts < MaxActs /\ acts' = acts + 1
    /\ \/ \E f \in Form \ {page.form} : page' = [page EXCEPT !.form = f]
       \/ page' = [page EXCEPT !.boundary = ~@]
       \/ ~page.moved /\ page' = [page EXCEPT !.moved = TRUE]
       \/ \E i \in Item, v \in {"approved", "other"} :
             page.content[i] # v /\ page' = [page EXCEPT !.content[i] = v]
    /\ UNCHANGED <<code, stamp, disk, artifacts, executions, history>>

FileActs ==
    /\ uploading /\ acts < MaxActs /\ acts' = acts + 1
    /\ \E d \in Documents :
          disk' = [disk EXCEPT ![d] = IF @ = "approved" THEN "changed" ELSE "approved"]
    /\ UNCHANGED <<code, stamp, page, artifacts, executions, history>>

-----------------------------------------------------------------------------

InCall == Open \/ Extract \/ PreRead \/ Put \/ ReadBack \/ Final

Next == UNCHANGED uploading /\
        ((\E s \in Stamp : Execute(s)) \/ InCall \/ Interrupt \/ PageActs \/ FileActs)

Spec == Init /\ [][Next]_vars

-----------------------------------------------------------------------------
(* Properties. *)

(* "Every planned control is validated before the first DOM write"           *)
(* (safe_field_writer.py line 32), no execution writes a control twice,      *)
(* whatever the page does with the value, and a result that is not an        *)
(* exception counts every write that was made and claims only items whose    *)
(* exact value the browser showed.                                           *)
WritesAreBoundedAndCounted ==
    /\ \A i \in Item : puts[i] =< 1 /\ (puts[i] > 0 => accepted)
    /\ report # Null /\ report.state # "error" =>
          /\ report.attempts = Cardinality({i \in Item : puts[i] > 0})
          /\ report.verified \subseteq exact

(* The review gate is only reached from a form that had the inspected        *)
(* fingerprint before and after, with every item of the plan read back.      *)
GateIsEarned ==
    [][report' # Null /\ report' # report /\ report'.state = "review_gate" =>
          exact = Item /\ accepted /\ Fingerprint[page.form] = Approved]_vars

(* "Verified assets append immutable SubmissionArtifact lineage"             *)
(* (FILE1_DOCUMENT_UPLOAD_RUNTIME.md): an artifact is appended only of a     *)
(* document that a browser has shown to hold, and no later execution, at     *)
(* another time, replaces it.                                                *)
LineageIsImmutable ==
    [][\A d \in Documents :
          artifacts'[d] # artifacts[d] => artifacts[d] = Null /\ d \in proven']_vars
=============================================================================
