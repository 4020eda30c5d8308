------------------------- MODULE OutcomePublication -------------------------
(***************************************************************************)
(* _publish and _existing_matches of services/application_outcome.py: how  *)
(* the local record of a confirmed application becomes a file, when        *)
(* several runs publish at the same time, fail, or are killed half way.    *)
(*                                                                         *)
(* A run writes its bytes to a temporary name, links the final name to the *)
(* same inode, and removes the temporary name.  The inode is named after   *)
(* the run that created it; the final name points to one of them or to     *)
(* nothing.  Two names on one inode is what _private_file (st_nlink == 1)  *)
(* refuses to read.  The file system is external: link is atomic and       *)
(* exclusive, and a name survives the process that made it.                *)
(*                                                                         *)
(* Every run has passed the ledger checks of write_confirmed_outcome; the  *)
(* posting URL is not in the ledger, so their bytes may still differ.      *)
(***************************************************************************)
EXTENDS Integers, FiniteSets

CONSTANTS Run,        \* the calls of write_confirmed_outcome, over all time
          PayloadOf,  \* the bytes each of them has to publish
          NoFile

ASSUME RunAssumption == IsFiniteSet(Run) /\ NoFile \notin Run

VARIABLES
    target,    \* the inode under the final name, or NoFile
    temps,     \* the inodes that still have their temporary name
    complete,  \* the inodes whose bytes are all written and synced
    at,        \* at[r]: "start", "write", "link", "linked", "verify", "cleanup", "done", "dead"
    answer     \* answer[r]: "none", "wrote", "idempotent", "refused", "failed"

outcomeVars == <<target, temps, complete, at, answer>>

OutcomeInit ==
    /\ target = NoFile /\ temps = {} /\ complete = {}
    /\ at = [r \in Run |-> "start"]
    /\ answer = [r \in Run |-> "none"]

Links(i) == Cardinality({n \in {"final", "temporary"} :
                            IF n = "final" THEN target = i ELSE i \in temps})

(* _private_file: one link and some bytes. *)
Private(i) == Links(i) = 1 /\ i \in complete

(* _existing_matches on a file that is there: it returns True or raises. *)
Matches(r) == Private(target) /\ PayloadOf[target] = PayloadOf[r]

Moves(r, from, to) == at[r] = from /\ at' = [at EXCEPT ![r] = to]

(* The call leaves through `finally`, which removes its temporary name. *)
Leave(r, res) ==
    /\ at' = [at EXCEPT ![r] = IF r \in temps' THEN "cleanup" ELSE "done"]
    /\ answer' = [answer EXCEPT ![r] = res]

-----------------------------------------------------------------------------

(* The final name exists already: same bytes are idempotent, else refused. *)
FindExisting(r) ==
    /\ at[r] = "start" /\ target # NoFile
    /\ UNCHANGED <<target, temps, complete>>
    /\ Leave(r, IF Matches(r) THEN "idempotent" ELSE "refused")

(* It does not: create the temporary name exclusively. *)
CreateTemporary(r) ==
    /\ target = NoFile
    /\ Moves(r, "start", "write")
    /\ temps' = temps \cup {r}
    /\ UNCHANGED <<target, complete, answer>>

(* All bytes are written and synced. *)
WriteBytes(r) ==
    /\ Moves(r, "write", "link")
    /\ complete' = complete \cup {r}
    /\ UNCHANGED <<target, temps, answer>>

Rename(r) ==   \* mutant: rename() replaces what is there
    /\ Moves(r, "link", "linked")
    /\ target' = r
    /\ UNCHANGED <<temps, complete, answer>>

(* link() wins. *)
Link(r) ==
    /\ target = NoFile
    /\ Moves(r, "link", "linked")
    /\ target' = r
    /\ UNCHANGED <<temps, complete, answer>>

LinkExistsAnyway(r) ==   \* mutant: the existing bytes are not compared
    /\ at[r] = "link" /\ target # NoFile
    /\ UNCHANGED <<target, temps, complete>>
    /\ Leave(r, "idempotent")

(* link() finds the final name taken (FileExistsError). *)
LinkExists(r) ==
    /\ at[r] = "link" /\ target # NoFile
    /\ UNCHANGED <<target, temps, complete>>
    /\ Leave(r, IF Matches(r) THEN "idempotent" ELSE "refused")

(* The directory is synced and the temporary name removed. *)
UnlinkTemporary(r) ==
    /\ Moves(r, "linked", "verify")
    /\ temps' = temps \ {r}
    /\ UNCHANGED <<target, complete, answer>>

(* The published file is read back. *)
Verify(r) ==
    /\ at[r] = "verify"
    /\ UNCHANGED <<target, temps, complete>>
    /\ Leave(r, IF target # NoFile /\ Matches(r) THEN "wrote" ELSE "refused")

(* An OS error in any of these steps. *)
Fail(r) ==
    /\ at[r] \in {"start", "write", "link", "linked", "verify"}
    /\ UNCHANGED <<target, temps, complete>>
    /\ Leave(r, "failed")

(* `finally`: the temporary name is removed, or that fails too. *)
CleanUp(r) ==
    /\ Moves(r, "cleanup", "done")
    /\ \/ temps' = temps \ {r} /\ UNCHANGED answer
       \/ UNCHANGED temps /\ answer' = [answer EXCEPT ![r] = "failed"]
    /\ UNCHANGED <<target, complete>>

(* The process is killed. *)
Die(r) ==
    /\ at[r] \notin {"start", "done", "dead"}
    /\ at' = [at EXCEPT ![r] = "dead"]
    /\ UNCHANGED <<target, temps, complete, answer>>

Step(r) ==
    \/ FindExisting(r) \/ CreateTemporary(r) \/ WriteBytes(r) \/ Link(r) \/ LinkExists(r)
    \/ UnlinkTemporary(r) \/ Verify(r) \/ Fail(r) \/ CleanUp(r)

OutcomeNext == \E r \in Run : Step(r) \/ Die(r)

OutcomeSpec == OutcomeInit /\ [][OutcomeNext]_outcomeVars

-----------------------------------------------------------------------------
(* Properties. *)

OutcomeTypeOK ==
    /\ target \in Run \cup {NoFile}
    /\ temps \subseteq Run /\ complete \subseteq Run
    /\ at \in [Run -> {"start", "write", "link", "linked", "verify", "cleanup", "done", "dead"}]
    /\ answer \in [Run -> {"none", "wrote", "idempotent", "refused", "failed"}]

(* "Publish complete bytes atomically, without replacing any existing file" *)
(* (line 87): once there, the final name never changes to another file.     *)
NeverReplaced == [][target # NoFile => target' = target]_outcomeVars

(* Whoever dies when, the final name never shows partial bytes; a call that *)
(* answers APPLIED_RECORDED leaves its own bytes under that name, at most   *)
(* one of them wrote them, and that one is the file.                        *)
RecordedMeansPublished ==
    /\ target # NoFile => target \in complete
    /\ \A r \in Run : answer[r] \in {"wrote", "idempotent"} =>
          target # NoFile /\ PayloadOf[target] = PayloadOf[r]
    /\ \A r \in Run : answer[r] = "wrote" => target = r

(* "Existing canonical bytes are idempotent" (line 142): a call is only     *)
(* refused because the file under the final name holds other bytes.         *)
IdenticalBytesAreAccepted ==
    \A r \in Run : answer[r] = "refused" => target # NoFile /\ PayloadOf[target] # PayloadOf[r]
=============================================================================
