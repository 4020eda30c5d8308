----------------------------- MODULE OneShotJobs -----------------------------
(* What the execution queue promises (docs/GD004_WAVE2_TEST_QUEUE.md, "One   *)
(* claim winner"): a posted job is taken by one worker for good; only that   *)
(* worker finishes it, once, and a job it drops is never handed to another.  *)
CONSTANTS Job, Worker, Verdict, Null

VARIABLES taken, verdict   \* taken[j]: "unposted", Null or its worker

Init == taken = [j \in Job |-> "unposted"] /\ verdict = [j \in Job |-> Null]

Post(j) == taken[j] = "unposted" /\ taken' = [taken EXCEPT ![j] = Null]
           /\ UNCHANGED verdict

Take(j, w) == taken[j] = Null /\ taken' = [taken EXCEPT ![j] = w] /\ UNCHANGED verdict

Finish(j, w, v) ==
    /\ taken[j] = w /\ verdict[j] = Null
    /\ verdict' = [verdict EXCEPT ![j] = [by |-> w, says |-> v]]
    /\ UNCHANGED taken

Next == \E j \in Job : \/ Post(j)
                       \/ \E w \in Worker : Take(j, w) \/ \E v \in Verdict : Finish(j, w, v)

Spec == Init /\ [][Next]_<<taken, verdict>>
=============================================================================
