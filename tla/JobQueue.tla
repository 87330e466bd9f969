------------------------------ MODULE JobQueue ------------------------------
(***************************************************************************)
(* internal/jobs: the queue of one kind of background work in main.db, and *)
(* the loop that works it.  What the work is belongs to its handler (see   *)
(* Fetching); here it ends in one of the ways Runner.run tells apart.      *)
(***************************************************************************)
EXTENDS Integers, FiniteSets

CONSTANTS
    Keys,          \* what there is to be done: unique_key
    Workers,       \* Policy.Concurrency goroutines
    Batch,         \* Policy.Batch
    MaxAttempts,   \* Policy.MaxAttempts
    None

ASSUME JobQueueAssumption ==
    /\ Batch \in Nat \ {0}
    /\ MaxAttempts \in Nat \ {0}
    /\ None \notin Keys /\ None \notin [attempts : Nat, due : BOOLEAN]

VARIABLES
    queue,     \* the jobs table: queue[k] is the row with key k, or None
    sweeping,  \* Runner.sweep has read the table and not returned
    handed,    \* of what it read, what no worker has begun
    running,   \* running[w]: the job worker w is at, or None
    failed     \* history: how often k has failed since it was queued

queueVars == <<queue, sweeping, handed, running, failed>>

\* Whether run_at has come, rather than when it is.
Job == [attempts : Nat, due : BOOLEAN]

DueJobs == {k \in Keys : queue[k] # None /\ queue[k].due}

Least(i, j) == IF i <= j THEN i ELSE j

QueueInit ==
    /\ queue = [k \in Keys |-> None]
    /\ sweeping = FALSE /\ handed = {}
    /\ running = [w \in Workers |-> None]
    /\ failed = [k \in Keys |-> 0]

\* Mutant of Enqueue: ON CONFLICT DO UPDATE.
EnqueueAfresh(k) ==
    /\ queue' = [queue EXCEPT ![k] = [attempts |-> 0, due |-> TRUE]]
    /\ failed' = [failed EXCEPT ![k] = 0]
    /\ UNCHANGED <<sweeping, handed, running>>

\* ON CONFLICT DO NOTHING: what is queued already keeps its attempts and the
\* wait it is in.
Enqueue(k) ==
    /\ queue[k] = None
    /\ queue' = [queue EXCEPT ![k] = [attempts |-> 0, due |-> TRUE]]
    /\ failed' = [failed EXCEPT ![k] = 0]
    /\ UNCHANGED <<sweeping, handed, running>>

\* The wait after a failure runs out.
ComesDue(k) ==
    /\ queue[k] # None /\ ~queue[k].due
    /\ queue' = [queue EXCEPT ![k].due = TRUE]
    /\ UNCHANGED <<sweeping, handed, running, failed>>

\* Mutant of BeginSweep: the tick does not wait for the sweep before it.
BeginSweepEarly ==
    /\ handed = {}
    /\ \E S \in SUBSET DueJobs :
           /\ Cardinality(S) = Least(Batch, Cardinality(DueJobs))
           /\ handed' = S
    /\ sweeping' = TRUE
    /\ UNCHANGED <<queue, running, failed>>

\* One goroutine a kind, and one sweep at a time within it.
BeginSweep ==
    /\ ~sweeping
    /\ \E S \in SUBSET DueJobs :
           /\ Cardinality(S) = Least(Batch, Cardinality(DueJobs))
           /\ handed' = S
    /\ sweeping' = TRUE
    /\ UNCHANGED <<queue, running, failed>>

Start(w, k) ==
    /\ running[w] = None /\ k \in handed
    /\ running' = [running EXCEPT ![w] = k]
    /\ handed' = handed \ {k}
    /\ UNCHANGED <<queue, sweeping, failed>>

\* FinishJob: the handler succeeded, or said that nothing will.
Finish(w) ==
    /\ running[w] # None
    /\ queue' = [queue EXCEPT ![running[w]] = None]
    /\ running' = [running EXCEPT ![w] = None]
    /\ UNCHANGED <<sweeping, handed, failed>>

\* Mutant of Fail: the tries are counted down and nobody looks for zero.
FailBackwards(w) ==
    /\ running[w] # None
    /\ LET k == running[w] IN
           /\ failed' = [failed EXCEPT ![k] = @ + 1]
           /\ queue' = [queue EXCEPT ![k] = [attempts |-> @.attempts - 1, due |-> FALSE]]
    /\ running' = [running EXCEPT ![w] = None]
    /\ UNCHANGED <<sweeping, handed>>

\* The last try is the end of the line; any other puts the job back for later.
Fail(w) ==
    /\ running[w] # None
    /\ LET k == running[w] IN
           /\ failed' = [failed EXCEPT ![k] = @ + 1]
           /\ queue' = [queue EXCEPT ![k] =
                 IF queue[k].attempts + 1 >= MaxAttempts THEN None
                 ELSE [attempts |-> queue[k].attempts + 1, due |-> FALSE]]
    /\ running' = [running EXCEPT ![w] = None]
    /\ UNCHANGED <<sweeping, handed>>

\* Neither: the handler was cut short by a shutdown, or the row could not be
\* written.  The job stays as it is.
Leave(w) ==
    /\ running[w] # None
    /\ running' = [running EXCEPT ![w] = None]
    /\ UNCHANGED <<queue, sweeping, handed, failed>>

\* wg.Wait().
EndSweep ==
    /\ sweeping /\ handed = {} /\ \A w \in Workers : running[w] = None
    /\ sweeping' = FALSE
    /\ UNCHANGED <<queue, handed, running, failed>>

\* The process stops and starts again: the table is what is left.
RestartQueue ==
    /\ sweeping' = FALSE /\ handed' = {}
    /\ running' = [w \in Workers |-> None]
    /\ UNCHANGED <<queue, failed>>

QueueNext ==
    \/ \E k \in Keys : Enqueue(k) \/ ComesDue(k)
    \/ BeginSweep \/ EndSweep \/ RestartQueue
    \/ \E w \in Workers : Finish(w) \/ Fail(w) \/ Leave(w) \/ \E k \in Keys : Start(w, k)

(***************************************************************************)
(* Every kind's loop keeps ticking, a wait runs out, and a handler returns *)
(* and is not for ever cut short.                                          *)
(***************************************************************************)
QueueFairness ==
    /\ WF_queueVars(BeginSweep) /\ WF_queueVars(EndSweep)
    /\ \A k \in Keys :
           /\ WF_queueVars(ComesDue(k))
           /\ SF_queueVars(\E w \in Workers : Start(w, k))
           /\ SF_queueVars(\E w \in Workers : running[w] = k /\ (Finish(w) \/ Fail(w)))

QueueSpec == QueueInit /\ [][QueueNext]_queueVars

FairQueueSpec == QueueSpec /\ QueueFairness

(***************************************************************************)
(* Properties.                                                             *)
(***************************************************************************)
\* The table and what the loop holds of it.
QueueTypeOK ==
    /\ queue \in [Keys -> Job \cup {None}]
    /\ sweeping \in BOOLEAN
    /\ handed \subseteq Keys
    /\ running \in [Workers -> Keys \cup {None}]
    /\ failed \in [Keys -> Nat]

\* "No row can be picked up twice": with nothing claimed in the table, no two
\* workers are ever at one job, nor is one about to begin what another is at,
\* and what a worker is at is still in the table.
NoJobTwice ==
    /\ \A w, v \in Workers : running[w] = running[v] /\ running[w] # None => w = v
    /\ \A w \in Workers : running[w] \notin handed
    /\ \A k \in Keys : (k \in handed \/ \E w \in Workers : running[w] = k) => queue[k] # None

\* An attempt is a failure and nothing else - not a shutdown, not being queued
\* again - and a job that has failed MaxAttempts times is out of the queue.
AttemptsAreFailures ==
    \A k \in Keys : queue[k] # None =>
        queue[k].attempts = failed[k] /\ failed[k] < MaxAttempts

\* "That is what makes claiming unnecessary": one loop a kind and one sweep at a
\* time do what a claim in the table would, and the attempts column, the drops
\* and the restarts give each job its MaxAttempts tries and not one more.
Claimed == INSTANCE Claims WITH
    left <- [k \in Keys |-> IF queue[k] = None THEN 0 ELSE MaxAttempts - queue[k].attempts],
    holds <- running

ClaimsSpec == Claimed!Spec

\* Whatever is queued is done with in the end.
QueueDrains == \A k \in Keys : queue[k] # None ~> queue[k] = None
=============================================================================
