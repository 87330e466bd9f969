------------------------------- MODULE Claims -------------------------------
(***************************************************************************)
(* The lock manager that internal/jobs says it does without: a queue in    *)
(* which each job is claimed, in one step, by the one worker that is to    *)
(* work it, and has so many tries.  JobQueue.tla claims nothing in its     *)
(* table and implements this one all the same.                             *)
(***************************************************************************)
EXTENDS Naturals

CONSTANTS Keys, Workers, MaxAttempts, None

VARIABLES
    left,   \* left[k]: how many tries k has left; 0 is not in the queue
    holds   \* holds[w]: the job w has claimed, or None

Init ==
    /\ left = [k \in Keys |-> 0]
    /\ holds = [w \in Workers |-> None]

\* A job is queued, with all its tries.
Queue(k) ==
    /\ left[k] = 0
    /\ left' = [left EXCEPT ![k] = MaxAttempts]
    /\ UNCHANGED holds

\* What is queued and nobody holds is taken.
Claim(w, k) ==
    /\ holds[w] = None
    /\ left[k] # 0 /\ \A v \in Workers : holds[v] # k
    /\ holds' = [holds EXCEPT ![w] = k]
    /\ UNCHANGED left

\* There is nothing more to try.
Done(w) ==
    /\ holds[w] # None /\ left[holds[w]] # 0
    /\ left' = [left EXCEPT ![holds[w]] = 0]
    /\ holds' = [holds EXCEPT ![w] = None]

\* It costs one try, the last of which takes the job out of the queue.
Failed(w) ==
    /\ holds[w] # None /\ left[holds[w]] # 0
    /\ left' = [left EXCEPT ![holds[w]] = @ - 1]
    /\ holds' = [holds EXCEPT ![w] = None]

\* What is cut short costs nothing: a job of one worker, or of all of them.
Release(W) ==
    /\ holds' = [w \in Workers |-> IF w \in W THEN None ELSE holds[w]]
    /\ UNCHANGED left

Next ==
    \/ \E k \in Keys : Queue(k)
    \/ \E w \in Workers : Done(w) \/ Failed(w) \/ \E k \in Keys : Claim(w, k)
    \/ \E W \in SUBSET Workers : Release(W)

Spec == Init /\ [][Next]_<<left, holds>>
=============================================================================
