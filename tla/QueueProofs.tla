----------------------------- MODULE QueueProofs -----------------------------
(***************************************************************************)
(* The queue and the two kinds of work done from it, for any keys,         *)
(* workers, batch and number of tries.                                     *)
(***************************************************************************)
EXTENDS Fetching, Measuring, TLAPS

(***************************************************************************)
(* JobQueue, without claims: that a job is never taken twice rests on one  *)
(* fact the code has no name for, that between sweeps nobody holds         *)
(* anything.                                                               *)
(***************************************************************************)
IdleBetweenSweeps == ~sweeping => handed = {} /\ \A w \in Workers : running[w] = None

QueueInv == QueueTypeOK /\ IdleBetweenSweeps /\ NoJobTwice /\ AttemptsAreFailures

\* An empty table, and nobody at anything.
LEMMA QueueInitInv == QueueInit => QueueInv
<1> SUFFICES ASSUME QueueInit PROVE QueueInv
  OBVIOUS
<1>1. QueueTypeOK
  BY DEF QueueInit, QueueTypeOK
<1>2. IdleBetweenSweeps /\ NoJobTwice
  BY JobQueueAssumption DEF QueueInit, IdleBetweenSweeps, NoJobTwice
<1>3. AttemptsAreFailures
  BY DEF QueueInit, AttemptsAreFailures
<1> QED
  BY <1>1, <1>2, <1>3 DEF QueueInv

\* The table changes its types at one row only.
LEMMA RowTyped ==
    ASSUME QueueTypeOK, NEW k \in Keys, NEW r \in Job \cup {None}, queue' = [queue EXCEPT ![k] = r]
    PROVE  queue' \in [Keys -> Job \cup {None}]
BY DEF QueueTypeOK

\* Every step keeps it.
LEMMA QueueNextInv == QueueInv /\ [QueueNext]_queueVars => QueueInv'
<1> SUFFICES ASSUME QueueInv, [QueueNext]_queueVars PROVE QueueInv'
  OBVIOUS
<1> USE JobQueueAssumption
<1>1. ASSUME NEW k \in Keys, Enqueue(k) PROVE QueueInv'
  <2> DEFINE r == [attempts |-> 0, due |-> TRUE]
  <2>1. r \in Job /\ r.attempts = 0
    BY DEF Job
  <2>2. queue' = [queue EXCEPT ![k] = r] /\ queue[k] = None
    BY <1>1 DEF Enqueue
  <2> HIDE DEF r
  <2>3. QueueTypeOK'
    BY <1>1, <2>1, <2>2, RowTyped DEF QueueInv, QueueTypeOK, Enqueue
  <2>4. NoJobTwice' /\ IdleBetweenSweeps'
    BY <1>1, <2>2 DEF QueueInv, QueueTypeOK, NoJobTwice, IdleBetweenSweeps, Enqueue
  <2>5. AttemptsAreFailures'
    BY <1>1, <2>1, <2>2 DEF QueueInv, QueueTypeOK, AttemptsAreFailures, Enqueue
  <2> QED
    BY <2>3, <2>4, <2>5 DEF QueueInv
<1>2. ASSUME NEW k \in Keys, ComesDue(k) PROVE QueueInv'
  <2> DEFINE r == [queue[k] EXCEPT !.due = TRUE]
  <2>1. r \in Job /\ r.attempts = queue[k].attempts /\ r # None
    BY <1>2 DEF ComesDue, QueueInv, QueueTypeOK, Job
  <2>2. queue' = [queue EXCEPT ![k] = r] /\ queue[k] # None
    BY <1>2 DEF ComesDue
  <2> HIDE DEF r
  <2>3. QueueTypeOK'
    BY <1>2, <2>1, <2>2, RowTyped DEF QueueInv, QueueTypeOK, ComesDue
  <2>4. NoJobTwice' /\ IdleBetweenSweeps'
    BY <1>2, <2>1, <2>2 DEF QueueInv, QueueTypeOK, NoJobTwice, IdleBetweenSweeps, ComesDue
  <2>5. AttemptsAreFailures'
    BY <1>2, <2>1, <2>2 DEF QueueInv, QueueTypeOK, AttemptsAreFailures, ComesDue
  <2> QED
    BY <2>3, <2>4, <2>5 DEF QueueInv
<1>3. ASSUME BeginSweep PROVE QueueInv'
  <2>1. PICK S \in SUBSET DueJobs : handed' = S
    BY <1>3 DEF BeginSweep
  <2>2. /\ ~sweeping /\ sweeping' = TRUE
        /\ UNCHANGED <<queue, running, failed>>
    BY <1>3 DEF BeginSweep
  <2> QED
    BY <2>1, <2>2 DEF QueueInv, QueueTypeOK, IdleBetweenSweeps, NoJobTwice,
                      AttemptsAreFailures, DueJobs
<1>4. ASSUME NEW w \in Workers, NEW k \in Keys, Start(w, k) PROVE QueueInv'
  BY <1>4 DEF Start, QueueInv, QueueTypeOK, IdleBetweenSweeps, NoJobTwice, AttemptsAreFailures
<1>5. ASSUME NEW w \in Workers, Finish(w) PROVE QueueInv'
  <2> DEFINE k == running[w]
  <2>1. k \in Keys /\ k \notin handed /\ \A v \in Workers : v # w => running[v] # k
    BY <1>5 DEF Finish, QueueInv, QueueTypeOK, NoJobTwice
  <2>2. queue' = [queue EXCEPT ![k] = None] /\ running' = [running EXCEPT ![w] = None]
    BY <1>5 DEF Finish
  <2> HIDE DEF k
  <2> QED
    BY <1>5, <2>1, <2>2 DEF Finish, QueueInv, QueueTypeOK, IdleBetweenSweeps, NoJobTwice,
                            AttemptsAreFailures
<1>6. ASSUME NEW w \in Workers, Fail(w) PROVE QueueInv'
  <2> DEFINE k == running[w]
             a == queue[k].attempts
             r == IF a + 1 >= MaxAttempts THEN None ELSE [attempts |-> a + 1, due |-> FALSE]
  <2>1. /\ k \in Keys /\ k \notin handed /\ queue[k] # None
        /\ \A v \in Workers : v # w => running[v] # k
    BY <1>6 DEF Fail, QueueInv, QueueTypeOK, NoJobTwice
  <2>2. a \in Nat /\ a = failed[k]
    BY <2>1 DEF QueueInv, QueueTypeOK, Job, AttemptsAreFailures
  <2>3. /\ r \in Job \cup {None}
        /\ r # None => r.attempts = a + 1 /\ a + 1 < MaxAttempts
    BY <2>2 DEF Job
  <2>4. /\ queue' = [queue EXCEPT ![k] = r]
        /\ running' = [running EXCEPT ![w] = None]
        /\ failed' = [failed EXCEPT ![k] = @ + 1]
        /\ UNCHANGED <<sweeping, handed>>
    BY <1>6 DEF Fail
  <2> HIDE DEF r, a, k
  <2>5. QueueTypeOK'
    BY <2>1, <2>3, <2>4, RowTyped DEF QueueInv, QueueTypeOK
  <2>6. NoJobTwice' /\ IdleBetweenSweeps'
    BY <2>1, <2>4 DEF QueueInv, QueueTypeOK, NoJobTwice, IdleBetweenSweeps
  <2>7. AttemptsAreFailures'
    BY <2>1, <2>2, <2>3, <2>4 DEF QueueInv, QueueTypeOK, AttemptsAreFailures
  <2> QED
    BY <2>5, <2>6, <2>7 DEF QueueInv
<1>7. ASSUME NEW w \in Workers, Leave(w) PROVE QueueInv'
  BY <1>7 DEF Leave, QueueInv, QueueTypeOK, IdleBetweenSweeps, NoJobTwice, AttemptsAreFailures
<1>8. ASSUME EndSweep PROVE QueueInv'
  BY <1>8 DEF EndSweep, QueueInv, QueueTypeOK, IdleBetweenSweeps, NoJobTwice, AttemptsAreFailures
<1>9. ASSUME RestartQueue PROVE QueueInv'
  BY <1>9 DEF RestartQueue, QueueInv, QueueTypeOK, IdleBetweenSweeps, NoJobTwice,
              AttemptsAreFailures
<1>10. ASSUME UNCHANGED queueVars PROVE QueueInv'
  BY <1>10 DEF queueVars, QueueInv, QueueTypeOK, IdleBetweenSweeps, NoJobTwice,
               AttemptsAreFailures, Job
<1> QED
  BY <1>1, <1>2, <1>3, <1>4, <1>5, <1>6, <1>7, <1>8, <1>9, <1>10 DEF QueueNext

\* The table and what the loop holds of it are of their types for ever.
THEOREM QueueTypeCorrect == QueueSpec => []QueueTypeOK
<1>1. QueueInv => QueueTypeOK
  BY DEF QueueInv
<1> QED
  BY <1>1, QueueInitInv, QueueNextInv, PTL DEF QueueSpec

\* No job is worked by two workers, or taken again while one is at it.
THEOREM JobsAreNeverTakenTwice == QueueSpec => []NoJobTwice
<1>1. QueueInv => NoJobTwice
  BY DEF QueueInv
<1> QED
  BY <1>1, QueueInitInv, QueueNextInv, PTL DEF QueueSpec

\* Attempts count failures, and the last allowed one is the end.
THEOREM AttemptsCountFailures == QueueSpec => []AttemptsAreFailures
<1>1. QueueInv => AttemptsAreFailures
  BY DEF QueueInv
<1> QED
  BY <1>1, QueueInitInv, QueueNextInv, PTL DEF QueueSpec

(***************************************************************************)
(* JobQueue implements Claims: the step that takes a job tests that nobody *)
(* holds it, which NoJobTwice says of what is handed out, and the tries    *)
(* left are what AttemptsAreFailures bounds.                               *)
(***************************************************************************)
Left == [k \in Keys |-> IF queue[k] = None THEN 0 ELSE MaxAttempts - queue[k].attempts]

\* A job has tries left exactly while it is in the table.
LEMMA LeftWhileQueued ==
    ASSUME QueueInv, NEW k \in Keys
    PROVE  Left[k] \in 0..MaxAttempts /\ (Left[k] = 0) = (queue[k] = None)
BY JobQueueAssumption DEF Left, QueueInv, QueueTypeOK, AttemptsAreFailures, Job

\* What one row becomes is what its tries become.
LEMMA LeftChanges ==
    ASSUME NEW k \in Keys, NEW r, queue \in [Keys -> Job \cup {None}],
           queue' = [queue EXCEPT ![k] = r]
    PROVE  Left' = [Left EXCEPT ![k] = IF r = None THEN 0 ELSE MaxAttempts - r.attempts]
BY DEF Left

\* Every step of the queue is one of the lock manager, or none of its business.
LEMMA ClaimsStep ==
    QueueInv /\ [QueueNext]_queueVars => [Claimed!Next]_<<Left, running>>
<1> SUFFICES ASSUME QueueInv, [QueueNext]_queueVars
             PROVE  [Claimed!Next]_<<Left, running>>
  OBVIOUS
<1> USE JobQueueAssumption
<1>1. queue \in [Keys -> Job \cup {None}] /\ running \in [Workers -> Keys \cup {None}]
  BY DEF QueueInv, QueueTypeOK
<1>2. queue' = queue => Left' = Left
  BY DEF Left
<1>3. ASSUME NEW k \in Keys, Enqueue(k) PROVE Claimed!Next
  <2> DEFINE r == [attempts |-> 0, due |-> TRUE]
  <2>1. r # None /\ MaxAttempts - r.attempts = MaxAttempts
    <3>1. r \in Job /\ r.attempts = 0
      BY DEF Job
    <3> HIDE DEF r
    <3> QED
      BY <3>1 DEF Job
  <2>2. queue' = [queue EXCEPT ![k] = r] /\ queue[k] = None /\ running' = running
    BY <1>3 DEF Enqueue
  <2> HIDE DEF r
  <2>3. Left[k] = 0 /\ Left' = [Left EXCEPT ![k] = MaxAttempts]
    <3>1. Left' = [Left EXCEPT ![k] = IF r = None THEN 0 ELSE MaxAttempts - r.attempts]
      BY <1>1, <2>2, LeftChanges
    <3> QED
      BY <2>1, <2>2, <3>1, LeftWhileQueued
  <2>4. Claimed!Queue(k)
    BY <2>2, <2>3 DEF Left, Claimed!Queue
  <2> QED
    BY <2>4 DEF Claimed!Next
<1>4. ASSUME NEW k \in Keys, ComesDue(k) PROVE UNCHANGED <<Left, running>>
  <2> DEFINE r == [queue[k] EXCEPT !.due = TRUE]
  <2>1. r # None /\ r.attempts = queue[k].attempts /\ queue[k] # None
    BY <1>1, <1>4 DEF ComesDue, Job
  <2>2. queue' = [queue EXCEPT ![k] = r] /\ running' = running
    BY <1>4 DEF ComesDue
  <2> HIDE DEF r
  <2>3. Left' = [Left EXCEPT ![k] = MaxAttempts - queue[k].attempts]
    BY <1>1, <2>1, <2>2, LeftChanges
  <2> QED
    BY <2>1, <2>2, <2>3 DEF Left
<1>5. ASSUME NEW w \in Workers, NEW k \in Keys, Start(w, k) PROVE Claimed!Next
  <2>1. /\ running[w] = None /\ k \in handed /\ queue' = queue
        /\ running' = [running EXCEPT ![w] = k]
    BY <1>5 DEF Start
  <2>2. Left[k] # 0 /\ \A v \in Workers : running[v] # k
    BY <2>1, LeftWhileQueued DEF QueueInv, NoJobTwice
  <2>3. Claimed!Claim(w, k)
    BY <1>2, <2>1, <2>2 DEF Left, Claimed!Claim
  <2> QED
    BY <2>3 DEF Claimed!Next
<1>6. ASSUME NEW w \in Workers, running[w] # None
      PROVE  running[w] \in Keys /\ queue[running[w]] # None /\ Left[running[w]] # 0
  BY <1>1, <1>6, LeftWhileQueued DEF QueueInv, NoJobTwice
<1>7. ASSUME NEW w \in Workers, Finish(w) PROVE Claimed!Next
  <2>1. /\ running[w] # None /\ queue' = [queue EXCEPT ![running[w]] = None]
        /\ running' = [running EXCEPT ![w] = None]
    BY <1>7 DEF Finish
  <2>2. Left' = [Left EXCEPT ![running[w]] = 0]
    BY <1>1, <1>6, <2>1, LeftChanges
  <2>3. Claimed!Done(w)
    BY <1>6, <2>1, <2>2 DEF Left, Claimed!Done
  <2> QED
    BY <2>3 DEF Claimed!Next
<1>8. ASSUME NEW w \in Workers, Fail(w) PROVE Claimed!Next
  <2> DEFINE k == running[w]
             a == queue[k].attempts
             r == IF a + 1 >= MaxAttempts THEN None ELSE [attempts |-> a + 1, due |-> FALSE]
  <2>1. k # None /\ queue' = [queue EXCEPT ![k] = r] /\ running' = [running EXCEPT ![w] = None]
    BY <1>8 DEF Fail
  <2>2. k \in Keys /\ queue[k] # None /\ Left[k] # 0
    BY <1>6, <2>1
  <2>3. a \in Nat /\ a < MaxAttempts /\ Left[k] = MaxAttempts - a
    BY <1>1, <2>2 DEF QueueInv, AttemptsAreFailures, QueueTypeOK, Job, Left
  <2>4. IF r = None THEN a + 1 >= MaxAttempts ELSE r.attempts = a + 1
    <3>1. [attempts |-> a + 1, due |-> FALSE] \in Job
      BY <2>3 DEF Job
    <3> QED
      BY <3>1 DEF Job
  <2> HIDE DEF r, a
  <2>5. Left' = [Left EXCEPT ![k] = Left[k] - 1]
    <3>1. Left' = [Left EXCEPT ![k] = IF r = None THEN 0 ELSE MaxAttempts - r.attempts]
      BY <1>1, <2>1, <2>2, LeftChanges
    <3>2. (IF r = None THEN 0 ELSE MaxAttempts - r.attempts) = Left[k] - 1
      BY <2>3, <2>4
    <3> QED
      BY <3>1, <3>2
  <2>6. Claimed!Failed(w)
    BY <2>1, <2>2, <2>5 DEF Left, Claimed!Failed
  <2> QED
    BY <2>6 DEF Claimed!Next
<1>9. ASSUME NEW w \in Workers, Leave(w) PROVE Claimed!Next
  <2>1. queue' = queue /\ running' = [running EXCEPT ![w] = None]
    BY <1>9 DEF Leave
  <2>2. running' = [v \in Workers |-> IF v \in {w} THEN None ELSE running[v]]
    BY <1>1, <2>1
  <2>3. Claimed!Release({w})
    BY <1>2, <2>1, <2>2 DEF Left, Claimed!Release
  <2> QED
    BY <2>3 DEF Claimed!Next
<1>10. ASSUME RestartQueue PROVE Claimed!Next
  <2>1. queue' = queue /\ running' = [v \in Workers |-> IF v \in Workers THEN None ELSE running[v]]
    BY <1>10 DEF RestartQueue
  <2>2. Claimed!Release(Workers)
    BY <1>2, <2>1 DEF Left, Claimed!Release
  <2> QED
    BY <2>2 DEF Claimed!Next
<1>11. ASSUME BeginSweep \/ EndSweep \/ UNCHANGED queueVars PROVE UNCHANGED <<Left, running>>
  BY <1>2, <1>11 DEF BeginSweep, EndSweep, queueVars
<1> QED
  BY <1>3, <1>4, <1>5, <1>7, <1>8, <1>9, <1>10, <1>11 DEF QueueNext

\* A queue with nothing claimed in it implements one with claims.
THEOREM ClaimingIsUnnecessary == QueueSpec => ClaimsSpec
<1>1. QueueInit => Claimed!Init
  BY DEF QueueInit, Claimed!Init
<1>2. QueueInv /\ [QueueNext]_queueVars =>
      [Claimed!Next]_<<[k \in Keys |-> IF queue[k] = None THEN 0
                                      ELSE MaxAttempts - queue[k].attempts], running>>
  BY ClaimsStep DEF Left
<1> QED
  BY <1>1, <1>2, QueueInitInv, QueueNextInv, PTL DEF QueueSpec, ClaimsSpec, Claimed!Spec

(***************************************************************************)
(* Fetching, for any rows, publishers and documents: its queue is          *)
(* JobQueue's, and the validators never run ahead of the articles.  The    *)
(* invariant follows what a handler carries from one database to the other:*)
(* the etag it sent, until it is answered, and the document it saved,      *)
(* until that is recorded.                                                 *)
(***************************************************************************)
Covered(f, n) == Listed(n) \subseteq items[f] \cup pruned[f]

\* What the handlers hold is covered, as what the rows hold is.
HandlersCovered ==
    lost = 0 => \A w \in Workers :
        /\ work[w].at \in {"read", "unchanged"} => Covered(running[w], work[w].asked)
        /\ work[w].at = "saved" => Covered(running[w], work[w].got)

\* TypeOK in three parts, and that a request under way has a feed.
FeedTypeOK ==
    /\ published \in [Urls -> Documents]
    /\ feed \in [Feeds -> Feed \cup {None}]
    /\ spent \subseteq Feeds /\ followed \subseteq Feeds /\ cycled \subseteq Feeds
    /\ request \in Request /\ (request.at # "none" => request.feed \in Feeds)
    /\ items \in [Feeds -> SUBSET Versions] /\ pruned \in [Feeds -> SUBSET Versions]
    /\ lost \in 0 .. MaxLosses

WorkTypeOK ==
    /\ work \in [Workers -> Work]
    /\ \A w \in Workers : (work[w].at = "idle") = (running[w] = None)

\* Every step is one of the queue's, or none of its business.
LEMMA QueueStep == [Next]_vars => [QueueNext]_queueVars
<1> SUFFICES ASSUME [Next]_vars PROVE [QueueNext]_queueVars
  OBVIOUS
<1>1. ASSUME NEW f \in Feeds, UpsertFeed(f) PROVE [QueueNext]_queueVars
  BY <1>1 DEF UpsertFeed
<1>2. ASSUME NEW f \in Feeds, Unfollow(f) PROVE [QueueNext]_queueVars
  BY <1>2 DEF Unfollow
<1>3. ASSUME NEW f \in Feeds, DeleteOrphanFeed(f) PROVE [QueueNext]_queueVars
  BY <1>3 DEF DeleteOrphanFeed
<1>4. ASSUME NEW f \in Feeds, PruneItems(f) PROVE [QueueNext]_queueVars
  BY <1>4 DEF PruneItems, Drop
<1>5. ASSUME NEW f \in Feeds, PruneUnfollowed(f) PROVE [QueueNext]_queueVars
  BY <1>5 DEF PruneUnfollowed, Drop
<1>6. ASSUME NEW f \in Feeds, QueueDueFeed(f) PROVE [QueueNext]_queueVars
  BY <1>6 DEF QueueDueFeed, QueueNext, Feeds
<1>7. ASSUME NEW f \in Feeds, FeedComesDue(f) PROVE [QueueNext]_queueVars
  BY <1>7 DEF FeedComesDue
<1>8. ASSUME Subscribe PROVE [QueueNext]_queueVars
  BY <1>8 DEF Subscribe
<1>9. ASSUME SaveResolved PROVE [QueueNext]_queueVars
  BY <1>9 DEF SaveResolved
<1>10. ASSUME Sweep PROVE [QueueNext]_queueVars
  BY <1>10 DEF Sweep, QueueNext
<1>11. ASSUME Restart PROVE [QueueNext]_queueVars
  BY <1>11 DEF Restart, Stop, QueueNext
<1>12. ASSUME LoseDerived PROVE [QueueNext]_queueVars
  BY <1>12 DEF LoseDerived, Stop, QueueNext
<1>13. ASSUME NEW w \in Workers, NEW f \in Feeds, ReadFeed(w, f) \/ ReadFails(w, f)
       PROVE  [QueueNext]_queueVars
  BY <1>13 DEF ReadFeed, ReadFails, QueueNext, Feeds
<1>14. ASSUME NEW w \in Workers, Answer(w) PROVE [QueueNext]_queueVars
  BY <1>14 DEF Answer
<1>15. ASSUME NEW w \in Workers, Refuse(w) PROVE [QueueNext]_queueVars
  BY <1>15 DEF Refuse
<1>16. ASSUME NEW w \in Workers, SaveItems(w) PROVE [QueueNext]_queueVars
  BY <1>16 DEF SaveItems
<1>17. ASSUME NEW w \in Workers, WriteFails(w) PROVE [QueueNext]_queueVars
  BY <1>17 DEF WriteFails
<1>18. ASSUME NEW w \in Workers, RecordSuccess(w) PROVE [QueueNext]_queueVars
  BY <1>18 DEF RecordSuccess
<1>19. ASSUME NEW w \in Workers, RecordFailure(w) PROVE [QueueNext]_queueVars
  BY <1>19 DEF RecordFailure
<1>20. ASSUME NEW w \in Workers, Return(w) PROVE [QueueNext]_queueVars
  BY <1>20 DEF Return, QueueNext
<1>21. ASSUME NEW u \in Urls, Publish(u) PROVE [QueueNext]_queueVars
  BY <1>21 DEF Publish
<1>22. ASSUME UNCHANGED vars PROVE [QueueNext]_queueVars
  BY <1>22 DEF vars
<1> QED
  BY <1>1, <1>2, <1>3, <1>4, <1>5, <1>6, <1>7, <1>8, <1>9, <1>10, <1>11, <1>12, <1>13, <1>14, <1>15, <1>16, <1>17, <1>18, <1>19, <1>20, <1>21, <1>22 DEF Next, Handler

\* Fetching keeps its queue as JobQueue says.
THEOREM FetchingImplementsQueue == Spec => QueueSpec
<1>1. Init => QueueInit
  BY DEF Init
<1> QED
  BY <1>1, QueueStep, PTL DEF Spec, QueueSpec

\* A row changes into a row, or goes.
LEMMA FeedRowTyped ==
    ASSUME feed \in [Feeds -> Feed \cup {None}], NEW f \in Feeds, NEW r \in Feed \cup {None}
    PROVE  [feed EXCEPT ![f] = r] \in [Feeds -> Feed \cup {None}]
OBVIOUS

\* What a handler's move changes, and what it does not.
LEMMA MovesOne ==
    ASSUME WorkTypeOK, NEW w \in Workers, NEW from, NEW to, Moves(w, from, to),
           to \in {"idle", "read", "answered", "saved", "unchanged", "refused", "done", "failed"}
    PROVE  /\ work' \in [Workers -> Work]
           /\ work[w].at = from /\ work'[w].at = to
           /\ work'[w].asked = work[w].asked /\ work'[w].got = work[w].got
           /\ \A v \in Workers : v # w => work'[v] = work[v]
<1> DEFINE r == [work[w] EXCEPT !.at = to]
<1>1. work[w] \in Work
  BY DEF WorkTypeOK
<1>2. /\ r \in Work
      /\ r.at = to /\ r.asked = work[w].asked /\ r.got = work[w].got
  BY <1>1 DEF Work
<1>3. work' = [work EXCEPT ![w] = r] /\ work[w].at = from
  BY DEF Moves
<1> HIDE DEF r
<1> QED
  BY <1>2, <1>3 DEF WorkTypeOK

\* The worker of a handler that is at something holds the job of a feed.
LEMMA AtWork ==
    ASSUME QueueTypeOK, WorkTypeOK, NEW w \in Workers, work[w].at # "idle"
    PROVE  running[w] \in Feeds /\ running[w] # None /\ work[w] \in Work
BY DEF QueueTypeOK, WorkTypeOK, Feeds

\* The three handlers' records that are written whole.
LEMMA RecordsTyped ==
    /\ Idle \in Work /\ Idle.at = "idle"
    /\ NoRequest \in Request /\ NoRequest.at = "none"
    /\ \A n \in Documents, b \in BOOLEAN : [etag |-> n, due |-> b] \in Feed
    /\ 0 \in Documents
BY FetchingAssumption DEF Idle, Work, NoRequest, Request, Documents, Feed

\* A version lists versions.
LEMMA ListedVersions == \A n : Listed(n) \subseteq Versions
BY DEF Listed

\* The rows, the people, the requests and the articles keep their types.
LEMMA FeedTypes ==
    QueueTypeOK /\ WorkTypeOK /\ FeedTypeOK /\ [Next]_vars => FeedTypeOK'
<1> SUFFICES ASSUME QueueTypeOK, WorkTypeOK, FeedTypeOK, [Next]_vars PROVE FeedTypeOK'
  OBVIOUS
<1> USE FetchingAssumption
<1>1. ASSUME NEW f \in Feeds, UpsertFeed(f) PROVE FeedTypeOK'
  <2>1. PICK n \in 0 .. published[UrlOf[f]] :
            request' = [at |-> "upserted", feed |-> f, got |-> n]
    BY <1>1 DEF UpsertFeed
  <2>2. published[UrlOf[f]] \in Documents
    BY DEF FeedTypeOK, Urls
  <2>3. n \in Documents
    BY <2>2 DEF Documents
  <2>4. request' \in Request /\ request'.feed \in Feeds
    BY <2>1, <2>3 DEF Request
  <2> DEFINE r == [etag |-> 0, due |-> TRUE]
  <2>5. feed' = feed \/ feed' = [feed EXCEPT ![f] = r]
    BY <1>1 DEF UpsertFeed
  <2>6. r \in Feed \cup {None}
    BY RecordsTyped
  <2> HIDE DEF r
  <2>7. feed' \in [Feeds -> Feed \cup {None}]
    BY <2>5, <2>6, FeedRowTyped DEF FeedTypeOK
  <2> QED
    BY <1>1, <2>4, <2>7 DEF UpsertFeed, FeedTypeOK, derivedVars
<1>2. ASSUME NEW f \in Feeds, Unfollow(f) PROVE FeedTypeOK'
  BY <1>2 DEF Unfollow, FeedTypeOK, derivedVars
<1>3. ASSUME NEW f \in Feeds, DeleteOrphanFeed(f) PROVE FeedTypeOK'
  BY <1>3 DEF DeleteOrphanFeed, FeedTypeOK, derivedVars
<1>4. ASSUME NEW f \in Feeds, NEW A \in SUBSET items[f], Drop(f, A) PROVE FeedTypeOK'
  BY <1>4 DEF Drop, FeedTypeOK, mainVars
<1>5. ASSUME NEW f \in Feeds, QueueDueFeed(f) PROVE FeedTypeOK'
  BY <1>5 DEF QueueDueFeed, FeedTypeOK, feedVars, mainVars, derivedVars
<1>6. ASSUME NEW f \in Feeds, FeedComesDue(f) PROVE FeedTypeOK'
  <2> DEFINE r == [feed[f] EXCEPT !.due = TRUE]
  <2>1. r \in Feed
    BY <1>6 DEF FeedComesDue, FeedTypeOK, Feed
  <2>2. feed' = [feed EXCEPT ![f] = r]
    BY <1>6 DEF FeedComesDue
  <2> HIDE DEF r
  <2>3. feed' \in [Feeds -> Feed \cup {None}]
    BY <2>1, <2>2, FeedRowTyped DEF FeedTypeOK
  <2> QED
    BY <1>6, <2>3 DEF FeedComesDue, FeedTypeOK, derivedVars
<1>7. ASSUME Subscribe PROVE FeedTypeOK'
  <2>1. request \in Request /\ request.feed \in Feeds
    BY <1>7 DEF Subscribe, FeedTypeOK
  <2>2. /\ [request EXCEPT !.at = "subscribed"] \in Request
        /\ [request EXCEPT !.at = "subscribed"].feed = request.feed
    BY <2>1 DEF Request
  <2>3. request' \in Request /\ (request'.at # "none" => request'.feed \in Feeds)
    BY <1>7, <2>1, <2>2, RecordsTyped DEF Subscribe
  <2>4. followed' \subseteq Feeds
    BY <1>7, <2>1 DEF Subscribe, FeedTypeOK
  <2> QED
    BY <1>7, <2>3, <2>4 DEF Subscribe, FeedTypeOK, derivedVars
<1>8. ASSUME SaveResolved PROVE FeedTypeOK'
  <2>1. request.feed \in Feeds
    BY <1>8 DEF SaveResolved, FeedTypeOK
  <2>2. items' \in [Feeds -> SUBSET Versions]
    BY <1>8, <2>1, ListedVersions DEF SaveResolved, FeedTypeOK
  <2> QED
    BY <1>8, <2>2, RecordsTyped DEF SaveResolved, FeedTypeOK, mainVars
<1>9. ASSUME Sweep PROVE FeedTypeOK'
  BY <1>9 DEF Sweep, FeedTypeOK, feedVars, mainVars, derivedVars
<1>10. ASSUME Restart PROVE FeedTypeOK'
  BY <1>10, RecordsTyped DEF Restart, Stop, FeedTypeOK, mainVars, derivedVars
<1>11. ASSUME LoseDerived PROVE FeedTypeOK'
  <2>1. /\ lost' \in 0 .. MaxLosses /\ cycled' = {}
        /\ items' \in [Feeds -> SUBSET Versions]
        /\ request' = NoRequest
    BY <1>11 DEF LoseDerived, Stop, FeedTypeOK
  <2> QED
    BY <1>11, <2>1, RecordsTyped DEF LoseDerived, FeedTypeOK, mainVars
<1>12. ASSUME NEW w \in Workers, NEW f \in Feeds, ReadFeed(w, f) \/ ReadFails(w, f) PROVE FeedTypeOK'
  BY <1>12 DEF ReadFeed, ReadFails, FeedTypeOK, mainVars, derivedVars
<1>13. ASSUME NEW w \in Workers, Answer(w) \/ Refuse(w) \/ WriteFails(w) PROVE FeedTypeOK'
  BY <1>13 DEF Answer, Refuse, WriteFails, FeedTypeOK, mainVars, derivedVars
<1>14. ASSUME NEW w \in Workers, SaveItems(w) PROVE FeedTypeOK'
  <2>1. running[w] \in Feeds
    BY <1>14, AtWork DEF SaveItems, Moves
  <2>2. items' \in [Feeds -> SUBSET Versions]
    BY <1>14, <2>1, ListedVersions DEF SaveItems, FeedTypeOK
  <2> QED
    BY <1>14, <2>2 DEF SaveItems, FeedTypeOK, mainVars
<1>15. ASSUME NEW w \in Workers, RecordSuccess(w) PROVE FeedTypeOK'
  <2>1. running[w] \in Feeds /\ work[w] \in Work
    BY <1>15, AtWork DEF RecordSuccess, Moves
  <2>2. work[w].got \in Documents /\ work[w].asked \in Documents
    BY <2>1 DEF Work
  <2>3. PICK r \in Feed \cup {None} : feed' = [feed EXCEPT ![running[w]] = r]
    BY <1>15, <2>1, <2>2, RecordsTyped DEF RecordSuccess, FeedTypeOK
  <2>4. feed' \in [Feeds -> Feed \cup {None}]
    BY <2>1, <2>3, FeedRowTyped DEF FeedTypeOK
  <2> QED
    BY <1>15, <2>1, <2>4 DEF RecordSuccess, FeedTypeOK, derivedVars
<1>16. ASSUME NEW w \in Workers, RecordFailure(w) PROVE FeedTypeOK'
  <2>1. running[w] \in Feeds
    BY <1>16, AtWork DEF RecordFailure, Moves
  <2> DEFINE row == feed[running[w]]
             r == IF row = None THEN None ELSE [row EXCEPT !.due = FALSE]
  <2>2. r \in Feed \cup {None}
    BY <2>1 DEF FeedTypeOK, Feed
  <2>3. feed' = feed \/ feed' = [feed EXCEPT ![running[w]] = r]
    BY <1>16 DEF RecordFailure
  <2> HIDE DEF r
  <2>4. feed' \in [Feeds -> Feed \cup {None}]
    BY <2>1, <2>2, <2>3, FeedRowTyped DEF FeedTypeOK
  <2> QED
    BY <1>16, <2>4 DEF RecordFailure, FeedTypeOK, derivedVars
<1>17. ASSUME NEW w \in Workers, Return(w) PROVE FeedTypeOK'
  BY <1>17 DEF Return, FeedTypeOK, mainVars, derivedVars
<1>18. ASSUME NEW u \in Urls, Publish(u) PROVE FeedTypeOK'
  <2>1. published[u] + 1 \in Documents
    BY <1>18 DEF Publish, FeedTypeOK, Documents
  <2> QED
    BY <1>18, <2>1 DEF Publish, FeedTypeOK, mainVars, derivedVars
<1>19. ASSUME UNCHANGED vars PROVE FeedTypeOK'
  BY <1>19 DEF vars, feedVars, mainVars, derivedVars, FeedTypeOK
<1> QED
  BY <1>1, <1>2, <1>3, <1>4, <1>5, <1>6, <1>7, <1>8, <1>9, <1>10, <1>11, <1>12, <1>13, <1>14,
     <1>15, <1>16, <1>17, <1>18, <1>19 DEF Next, Handler, PruneItems, PruneUnfollowed

\* A handler is at something exactly while its worker holds a job.
LEMMA WorkTypes ==
    QueueTypeOK /\ WorkTypeOK /\ FeedTypeOK /\ [Next]_vars => WorkTypeOK'
<1> SUFFICES ASSUME QueueTypeOK, WorkTypeOK, FeedTypeOK, [Next]_vars PROVE WorkTypeOK'
  OBVIOUS
<1> USE FetchingAssumption, JobQueueAssumption
<1>1. ASSUME UNCHANGED <<running, work>> PROVE WorkTypeOK'
  BY <1>1 DEF WorkTypeOK
<1>2. ASSUME NEW f \in Feeds,
             UpsertFeed(f) \/ Unfollow(f) \/ DeleteOrphanFeed(f) \/ PruneItems(f)
                 \/ PruneUnfollowed(f) \/ QueueDueFeed(f) \/ FeedComesDue(f)
      PROVE  UNCHANGED <<running, work>>
  BY <1>2 DEF UpsertFeed, Unfollow, DeleteOrphanFeed, PruneItems, PruneUnfollowed, Drop,
              QueueDueFeed, Enqueue, FeedComesDue, queueVars, feedVars
<1>3. ASSUME Subscribe \/ SaveResolved \/ Sweep PROVE UNCHANGED <<running, work>>
  BY <1>3 DEF Subscribe, SaveResolved, Sweep, BeginSweep, EndSweep, queueVars, feedVars
<1>4. ASSUME Stop PROVE WorkTypeOK'
  BY <1>4, RecordsTyped DEF Stop, RestartQueue, WorkTypeOK
<1>5. ASSUME NEW w \in Workers, NEW f \in Feeds, ReadFeed(w, f) PROVE WorkTypeOK'
  <2> DEFINE r == IF feed[f] = None THEN [Idle EXCEPT !.at = "done"]
                  ELSE [Idle EXCEPT !.at = "read", !.asked = feed[f].etag]
  <2>1. feed[f] # None => feed[f].etag \in Documents
    BY DEF FeedTypeOK, Feed
  <2>2. r \in Work /\ r.at # "idle"
    BY <2>1, RecordsTyped DEF Idle, Work
  <2>3. work' = [work EXCEPT ![w] = r] /\ running' = [running EXCEPT ![w] = f]
    BY <1>5 DEF ReadFeed, Start
  <2> HIDE DEF r
  <2>4. f # None
    BY DEF Feeds
  <2> QED
    BY <2>2, <2>3, <2>4 DEF WorkTypeOK, QueueTypeOK
<1>6. ASSUME NEW w \in Workers, Answer(w) PROVE WorkTypeOK'
  <2>1. running[w] \in Feeds /\ work[w] \in Work /\ work[w].at = "read"
    BY <1>6, AtWork DEF Answer
  <2> DEFINE n == published[UrlOf[running[w]]]
             r == IF n # 0 /\ n = work[w].asked THEN [work[w] EXCEPT !.at = "unchanged"]
                  ELSE [work[w] EXCEPT !.at = "answered", !.got = n]
  <2>2. n \in Documents
    BY <2>1 DEF FeedTypeOK, Urls
  <2>3. r \in Work /\ r.at # "idle"
    <3> HIDE DEF n
    <3> QED
      BY <2>1, <2>2 DEF Work
  <2>4. work' = [work EXCEPT ![w] = r] /\ UNCHANGED running
    BY <1>6 DEF Answer, queueVars
  <2> HIDE DEF r
  <2> QED
    BY <2>1, <2>3, <2>4 DEF WorkTypeOK
<1>7. ASSUME NEW w \in Workers, NEW from \in {"read", "answered", "saved", "unchanged", "refused"},
             NEW to \in {"refused", "saved", "done", "failed"},
             Moves(w, from, to), UNCHANGED queueVars
      PROVE  WorkTypeOK'
  BY <1>7, MovesOne DEF WorkTypeOK, queueVars
<1>8. ASSUME NEW w \in Workers,
             Refuse(w) \/ SaveItems(w) \/ WriteFails(w) \/ RecordSuccess(w) \/ RecordFailure(w)
      PROVE  WorkTypeOK'
  <2>1. UNCHANGED queueVars
    BY <1>8 DEF Refuse, SaveItems, WriteFails, RecordSuccess, RecordFailure
  <2>2. \E from \in {"read", "answered", "saved", "unchanged", "refused"} :
            \E to \in {"refused", "saved", "done", "failed"} : Moves(w, from, to)
    BY <1>8 DEF Refuse, SaveItems, WriteFails, RecordSuccess, RecordFailure, Moves
  <2> QED
    BY <1>7, <2>1, <2>2
<1>9. ASSUME NEW w \in Workers, Return(w) PROVE WorkTypeOK'
  BY <1>9, RecordsTyped DEF Return, Finish, Fail, Leave, WorkTypeOK, QueueTypeOK
<1>10. ASSUME NEW u \in Urls, Publish(u) PROVE UNCHANGED <<running, work>>
  BY <1>10 DEF Publish, queueVars
<1>11. ASSUME UNCHANGED vars PROVE UNCHANGED <<running, work>>
  BY <1>11 DEF vars, feedVars, queueVars
<1>12. ASSUME NEW w \in Workers, NEW f \in Feeds, ReadFails(w, f) PROVE WorkTypeOK'
  <2> DEFINE r == [Idle EXCEPT !.at = "failed"]
  <2>1. r \in Work /\ r.at # "idle" /\ f # None
    BY RecordsTyped DEF Idle, Work, Feeds
  <2>2. work' = [work EXCEPT ![w] = r] /\ running' = [running EXCEPT ![w] = f]
    BY <1>12 DEF ReadFails, Start
  <2> HIDE DEF r
  <2> QED
    BY <2>1, <2>2 DEF WorkTypeOK, QueueTypeOK
<1> QED
  BY <1>1, <1>2, <1>3, <1>4, <1>5, <1>6, <1>8, <1>9, <1>10, <1>11, <1>12
     DEF Next, Handler, Restart, LoseDerived

\* What is lost stays lost.
LEMMA NotLost ==
    ASSUME FeedTypeOK, [Next]_vars, lost' = 0
    PROVE  lost = 0
<1>1. ~LoseDerived
  BY FetchingAssumption DEF LoseDerived, FeedTypeOK
<1>2. UNCHANGED lost
  BY <1>1 DEF Next, Handler, UpsertFeed, Unfollow, DeleteOrphanFeed, PruneItems, PruneUnfollowed,
              Drop, QueueDueFeed, FeedComesDue, Subscribe, SaveResolved, Sweep, Restart, ReadFeed,
              ReadFails, Answer, Refuse, SaveItems, WriteFails, RecordSuccess, RecordFailure, Return, Publish,
              vars, feedVars, derivedVars
<1> QED
  BY <1>2

\* While derived.db is not lost, what was ever taken in stays accounted for.
LEMMA HeldGrows ==
    ASSUME QueueTypeOK, WorkTypeOK, FeedTypeOK, [Next]_vars, lost' = 0, NEW f \in Feeds
    PROVE  lost = 0 /\ items[f] \cup pruned[f] \subseteq items'[f] \cup pruned'[f]
<1> USE FetchingAssumption
<1>1. ASSUME NEW g \in Feeds, NEW A \in SUBSET items[g], Drop(g, A)
      PROVE  lost = 0 /\ items[f] \cup pruned[f] \subseteq items'[f] \cup pruned'[f]
  BY <1>1 DEF Drop, FeedTypeOK
<1>2. ASSUME SaveResolved
      PROVE  lost = 0 /\ items[f] \cup pruned[f] \subseteq items'[f] \cup pruned'[f]
  BY <1>2 DEF SaveResolved, FeedTypeOK
<1>3. ASSUME NEW w \in Workers, SaveItems(w)
      PROVE  lost = 0 /\ items[f] \cup pruned[f] \subseteq items'[f] \cup pruned'[f]
  BY <1>3 DEF SaveItems, FeedTypeOK
<1>4. ~LoseDerived
  BY DEF LoseDerived, FeedTypeOK
<1>5. ASSUME NEW g \in Feeds, UpsertFeed(g) \/ Unfollow(g) \/ DeleteOrphanFeed(g)
                 \/ QueueDueFeed(g) \/ FeedComesDue(g)
      PROVE  UNCHANGED derivedVars
  BY <1>5 DEF UpsertFeed, Unfollow, DeleteOrphanFeed, QueueDueFeed, FeedComesDue, feedVars
<1>6. ASSUME Subscribe \/ Sweep \/ Restart \/ UNCHANGED vars PROVE UNCHANGED derivedVars
  BY <1>6 DEF Subscribe, Sweep, Restart, vars, feedVars
<1>7. ASSUME NEW w \in Workers, NEW g \in Feeds, ReadFeed(w, g) \/ ReadFails(w, g)
      PROVE  UNCHANGED derivedVars
  BY <1>7 DEF ReadFeed, ReadFails
<1>8. ASSUME NEW w \in Workers, Answer(w) \/ Refuse(w) \/ WriteFails(w) \/ RecordSuccess(w)
                 \/ RecordFailure(w) \/ Return(w)
      PROVE  UNCHANGED derivedVars
  BY <1>8 DEF Answer, Refuse, WriteFails, RecordSuccess, RecordFailure, Return
<1>9. ASSUME NEW u \in Urls, Publish(u) PROVE UNCHANGED derivedVars
  BY <1>9 DEF Publish
<1>10. UNCHANGED derivedVars
           => lost = 0 /\ items[f] \cup pruned[f] \subseteq items'[f] \cup pruned'[f]
  BY DEF derivedVars
<1> QED
  BY <1>1, <1>2, <1>3, <1>4, <1>5, <1>6, <1>7, <1>8, <1>9, <1>10
     DEF Next, Handler, PruneItems, PruneUnfollowed

FetchInv ==
    QueueTypeOK /\ FeedTypeOK /\ WorkTypeOK /\ ValidatorsCovered /\ HandlersCovered

\* Nothing is held, known or under way at first.
LEMMA InitInv == Init => FetchInv
<1> SUFFICES ASSUME Init PROVE FetchInv
  OBVIOUS
<1> USE FetchingAssumption, JobQueueAssumption
<1>1. QueueTypeOK
  BY QueueInitInv DEF Init, QueueInv
<1>2. FeedTypeOK
  <2>1. published \in [Urls -> Documents]
    BY DEF Init, Documents
  <2> QED
    BY <2>1, RecordsTyped DEF Init, FeedTypeOK
<1>3. WorkTypeOK
  BY RecordsTyped DEF Init, QueueInit, WorkTypeOK
<1>4. ValidatorsCovered /\ HandlersCovered
  BY RecordsTyped DEF Init, ValidatorsCovered, HandlersCovered
<1> QED
  BY <1>1, <1>2, <1>3, <1>4 DEF FetchInv

\* What is covered stays covered while derived.db is not lost.
LEMMA StaysCovered ==
    ASSUME QueueTypeOK, WorkTypeOK, FeedTypeOK, [Next]_vars, lost' = 0,
           NEW f \in Feeds, NEW n, Covered(f, n)
    PROVE  Covered(f, n)'
BY HeldGrows DEF Covered

\* Rows: one that is new has no validators, and one that records a fetch takes
\* them from a handler that is covered.
LEMMA RowsStayCovered ==
    ASSUME FetchInv, [Next]_vars, lost' = 0, NEW f \in Feeds, feed'[f] # None
    PROVE  Covered(f, feed[f].etag)'
<1> USE FetchingAssumption
<1>1. lost = 0 /\ lost \in Nat /\ HandlersCovered /\ ValidatorsCovered
  BY HeldGrows DEF FetchInv
<1>2. ASSUME feed[f] # None, feed'[f].etag = feed[f].etag PROVE Covered(f, feed[f].etag)'
  <2>1. Covered(f, feed[f].etag)
    BY <1>1, <1>2 DEF ValidatorsCovered, Covered
  <2> QED
    BY <1>2, <2>1, HeldGrows DEF FetchInv, Covered
<1>3. ASSUME NEW g \in Feeds, UpsertFeed(g) PROVE Covered(f, feed[f].etag)'
  <2>1. CASE feed[f] # None
    <3>1. feed'[f].etag = feed[f].etag
      BY <1>3, <2>1 DEF UpsertFeed, FetchInv, FeedTypeOK
    <3> QED
      BY <1>2, <2>1, <3>1
  <2>2. CASE feed[f] = None
    <3>1. feed'[f].etag = 0
      BY <1>3, <2>2 DEF UpsertFeed, FetchInv, FeedTypeOK
    <3> QED
      BY <3>1 DEF Covered, Listed, Versions
  <2> QED
    BY <2>1, <2>2
<1>4. ASSUME NEW g \in Feeds, DeleteOrphanFeed(g) PROVE feed[f] # None /\ feed'[f].etag = feed[f].etag
  BY <1>4 DEF DeleteOrphanFeed, FetchInv, FeedTypeOK
<1>5. ASSUME NEW g \in Feeds, FeedComesDue(g) PROVE feed[f] # None /\ feed'[f].etag = feed[f].etag
  <2> DEFINE r == [feed[g] EXCEPT !.due = TRUE]
  <2>1. feed[g] # None /\ r.etag = feed[g].etag
    BY <1>5 DEF FeedComesDue, FetchInv, FeedTypeOK, Feed
  <2>2. feed' = [feed EXCEPT ![g] = r]
    BY <1>5 DEF FeedComesDue
  <2> HIDE DEF r
  <2> QED
    BY <2>1, <2>2 DEF FetchInv, FeedTypeOK
<1>6. ASSUME NEW w \in Workers, RecordSuccess(w) PROVE Covered(f, feed[f].etag)'
  <2>1. running[w] \in Feeds /\ work[w].at \in {"saved", "unchanged"}
    BY <1>6, AtWork DEF RecordSuccess, Moves, FetchInv
  <2> DEFINE n == IF work[w].at = "saved" THEN work[w].got ELSE work[w].asked
             r == [etag |-> n, due |-> FALSE]
  <2>2. Covered(running[w], n)
    BY <1>1, <2>1 DEF HandlersCovered
  <2>3. r.etag = n
    OBVIOUS
  <2>4. feed' = [feed EXCEPT ![running[w]] = IF @ = None THEN None ELSE r]
    BY <1>6 DEF RecordSuccess
  <2> HIDE DEF r, n
  <2>5. CASE f = running[w]
    <3>1. feed'[f].etag = n
      BY <2>1, <2>3, <2>4, <2>5 DEF FetchInv, FeedTypeOK
    <3> QED
      BY <2>2, <2>5, <3>1, HeldGrows DEF FetchInv, Covered
  <2>6. CASE f # running[w]
    BY <1>2, <2>1, <2>4, <2>6 DEF FetchInv, FeedTypeOK
  <2> QED
    BY <2>5, <2>6
<1>7. ASSUME NEW w \in Workers, RecordFailure(w) PROVE feed[f] # None /\ feed'[f].etag = feed[f].etag
  <2>1. running[w] \in Feeds
    BY <1>7, AtWork DEF RecordFailure, Moves, FetchInv
  <2> DEFINE r == [feed[running[w]] EXCEPT !.due = FALSE]
  <2>2. feed[running[w]] # None => r.etag = feed[running[w]].etag
    BY <2>1 DEF FetchInv, FeedTypeOK, Feed
  <2>3. feed' = feed \/ feed' = [feed EXCEPT ![running[w]] = IF @ = None THEN None ELSE r]
    BY <1>7 DEF RecordFailure
  <2> HIDE DEF r
  <2> QED
    BY <2>1, <2>2, <2>3 DEF FetchInv, FeedTypeOK
<1>8. UNCHANGED feed => feed[f] # None /\ feed'[f].etag = feed[f].etag
  OBVIOUS
<1>9. ASSUME NEW g \in Feeds, Unfollow(g) \/ PruneItems(g) \/ PruneUnfollowed(g) \/ QueueDueFeed(g)
      PROVE  UNCHANGED feed
  BY <1>9 DEF Unfollow, PruneItems, PruneUnfollowed, Drop, QueueDueFeed, feedVars, mainVars
<1>10. ASSUME Subscribe \/ SaveResolved \/ Sweep \/ Restart \/ LoseDerived \/ UNCHANGED vars
      PROVE  UNCHANGED feed
  BY <1>10 DEF Subscribe, SaveResolved, Sweep, Restart, LoseDerived, vars, feedVars, mainVars
<1>11. ASSUME NEW w \in Workers, NEW g \in Feeds, ReadFeed(w, g) \/ ReadFails(w, g)
       PROVE  UNCHANGED feed
  BY <1>11 DEF ReadFeed, ReadFails, mainVars
<1>12. ASSUME NEW w \in Workers,
              Answer(w) \/ Refuse(w) \/ SaveItems(w) \/ WriteFails(w) \/ Return(w)
       PROVE  UNCHANGED feed
  BY <1>12 DEF Answer, Refuse, SaveItems, WriteFails, Return, mainVars
<1>13. ASSUME NEW u \in Urls, Publish(u) PROVE UNCHANGED feed
  BY <1>13 DEF Publish, mainVars
<1> QED
  BY <1>2, <1>3, <1>4, <1>5, <1>6, <1>7, <1>8, <1>9, <1>10, <1>11, <1>12, <1>13
     DEF Next, Handler

\* Handlers: one that reads its row takes validators that are covered, one that
\* saves covers what it saved, and no other moves to where it counts.
LEMMA HandlersStayCovered ==
    ASSUME FetchInv, [Next]_vars, lost' = 0, NEW v \in Workers
    PROVE  /\ work'[v].at \in {"read", "unchanged"} => Covered(running[v], work[v].asked)'
           /\ work'[v].at = "saved" => Covered(running[v], work[v].got)'
<1> DEFINE Goal == /\ work'[v].at \in {"read", "unchanged"} => Covered(running[v], work[v].asked)'
                   /\ work'[v].at = "saved" => Covered(running[v], work[v].got)'
<1> SUFFICES Goal
  OBVIOUS
<1> USE FetchingAssumption
<1>1. lost = 0 /\ HandlersCovered /\ ValidatorsCovered
  BY NotLost DEF FetchInv
<1>2. ASSUME work'[v] = work[v], running'[v] = running[v] PROVE Goal
  <2>1. CASE work[v].at = "idle"
    BY <1>2, <2>1
  <2>2. CASE work[v].at # "idle"
    <3>1. running[v] \in Feeds
      BY <2>2, AtWork DEF FetchInv
    <3> QED
      BY <1>1, <1>2, <3>1, HeldGrows DEF HandlersCovered, FetchInv, Covered
  <2> QED
    BY <2>1, <2>2
<1>3. ASSUME work'[v].at \in {"idle", "answered", "refused", "done", "failed"} PROVE Goal
  BY <1>3
<1>4. ASSUME NEW w \in Workers, NEW f \in Feeds, ReadFeed(w, f) PROVE Goal
  <2> DEFINE r == IF feed[f] = None THEN [Idle EXCEPT !.at = "done"]
                  ELSE [Idle EXCEPT !.at = "read", !.asked = feed[f].etag]
  <2>1. /\ feed[f] = None => r.at = "done"
        /\ feed[f] # None => r.at = "read" /\ r.asked = feed[f].etag
    BY DEF Idle
  <2>2. /\ work' = [work EXCEPT ![w] = r] /\ running' = [running EXCEPT ![w] = f]
    BY <1>4 DEF ReadFeed, Start
  <2>3. feed[f] # None => Covered(f, feed[f].etag)
    BY <1>1 DEF ValidatorsCovered, Covered
  <2> HIDE DEF r
  <2>4. CASE v = w
    <3>1. work'[v] = r /\ running'[v] = f
      BY <2>2, <2>4 DEF FetchInv, WorkTypeOK, QueueTypeOK
    <3> QED
      BY <2>1, <2>3, <3>1, HeldGrows DEF FetchInv, Covered
  <2>5. CASE v # w
    BY <1>2, <2>2, <2>5 DEF FetchInv, WorkTypeOK, QueueTypeOK
  <2> QED
    BY <2>4, <2>5
<1>5. ASSUME NEW w \in Workers, Answer(w) PROVE Goal
  <2>1. running[w] \in Feeds /\ work[w] \in Work /\ work[w].at = "read" /\ UNCHANGED running
    BY <1>5, AtWork DEF Answer, FetchInv, queueVars
  <2> DEFINE n == published[UrlOf[running[w]]]
             r == IF n # 0 /\ n = work[w].asked THEN [work[w] EXCEPT !.at = "unchanged"]
                  ELSE [work[w] EXCEPT !.at = "answered", !.got = n]
  <2>2. r.at = "answered" \/ (r.at = "unchanged" /\ r.asked = work[w].asked)
    <3> HIDE DEF n
    <3> QED
      BY <2>1 DEF Work
  <2>3. work' = [work EXCEPT ![w] = r]
    BY <1>5 DEF Answer
  <2> HIDE DEF r
  <2>4. CASE v = w
    <3>1. work'[v] = r
      BY <2>3, <2>4 DEF FetchInv, WorkTypeOK
    <3> QED
      BY <1>1, <2>1, <2>2, <2>4, <3>1, HeldGrows DEF HandlersCovered, FetchInv, Covered
  <2>5. CASE v # w
    BY <1>2, <2>1, <2>3, <2>5 DEF FetchInv, WorkTypeOK
  <2> QED
    BY <2>4, <2>5
<1>6. ASSUME NEW w \in Workers, SaveItems(w) PROVE Goal
  <2>1. /\ Moves(w, "answered", "saved") /\ UNCHANGED <<running, pruned>>
        /\ items' = [items EXCEPT ![running[w]] = @ \cup Listed(work[w].got)]
    BY <1>6 DEF SaveItems, queueVars
  <2>2. /\ work'[w].at = "saved" /\ work'[w].got = work[w].got
        /\ \A x \in Workers : x # w => work'[x] = work[x]
        /\ running[w] \in Feeds
    BY <2>1, MovesOne, AtWork DEF FetchInv, Moves
  <2>3. CASE v = w
    <3>1. Listed(work[w].got) \subseteq items'[running[w]]
      BY <2>1, <2>2 DEF FetchInv, FeedTypeOK
    <3> QED
      BY <2>1, <2>2, <2>3, <3>1 DEF Covered
  <2>4. CASE v # w
    BY <1>2, <2>1, <2>2, <2>4
  <2> QED
    BY <2>3, <2>4
<1>7. ASSUME NEW w \in Workers, NEW from, NEW to \in {"refused", "done", "failed"},
             Moves(w, from, to), UNCHANGED queueVars
      PROVE  Goal
  <2>1. work'[w].at = to /\ \A x \in Workers : x # w => work'[x] = work[x]
    BY <1>7, MovesOne DEF FetchInv
  <2>2. UNCHANGED running
    BY <1>7 DEF queueVars
  <2> QED
    BY <1>2, <1>3, <2>1, <2>2
<1>8. ASSUME NEW w \in Workers, Refuse(w) \/ WriteFails(w) \/ RecordSuccess(w) \/ RecordFailure(w)
      PROVE  Goal
  <2>1. UNCHANGED queueVars
    BY <1>8 DEF Refuse, WriteFails, RecordSuccess, RecordFailure
  <2>2. \E from \in {"read", "answered", "saved", "unchanged", "refused"} :
            \E to \in {"refused", "done", "failed"} : Moves(w, from, to)
    BY <1>8 DEF Refuse, WriteFails, RecordSuccess, RecordFailure, Moves
  <2> QED
    BY <1>7, <2>1, <2>2
<1>9. ASSUME NEW w \in Workers, Return(w) PROVE Goal
  <2>1. work' = [work EXCEPT ![w] = Idle] /\ running' = [running EXCEPT ![w] = None]
    BY <1>9 DEF Return, Finish, Fail, Leave
  <2>2. CASE v = w
    BY <1>3, <2>1, <2>2, RecordsTyped DEF FetchInv, WorkTypeOK
  <2>3. CASE v # w
    BY <1>2, <2>1, <2>3 DEF FetchInv, WorkTypeOK, QueueTypeOK
  <2> QED
    BY <2>2, <2>3
<1>10. ASSUME Stop PROVE Goal
  BY <1>3, <1>10, RecordsTyped DEF Stop
<1>11. UNCHANGED <<running, work>> => Goal
  BY <1>2
<1>12. ASSUME NEW f \in Feeds,
              UpsertFeed(f) \/ Unfollow(f) \/ DeleteOrphanFeed(f) \/ PruneItems(f)
                  \/ PruneUnfollowed(f) \/ QueueDueFeed(f) \/ FeedComesDue(f)
       PROVE  UNCHANGED <<running, work>>
  BY <1>12 DEF UpsertFeed, Unfollow, DeleteOrphanFeed, PruneItems, PruneUnfollowed, Drop,
               QueueDueFeed, Enqueue, FeedComesDue, queueVars, feedVars
<1>13. ASSUME Subscribe \/ SaveResolved \/ Sweep \/ UNCHANGED vars
       PROVE  UNCHANGED <<running, work>>
  BY <1>13 DEF Subscribe, SaveResolved, Sweep, BeginSweep, EndSweep, queueVars, feedVars, vars
<1>14. ASSUME NEW u \in Urls, Publish(u) PROVE UNCHANGED <<running, work>>
  BY <1>14 DEF Publish, queueVars
<1>15. ASSUME NEW w \in Workers, NEW f \in Feeds, ReadFails(w, f) PROVE Goal
  <2> DEFINE r == [Idle EXCEPT !.at = "failed"]
  <2>1. r.at = "failed"
    BY DEF Idle
  <2>2. work' = [work EXCEPT ![w] = r] /\ running' = [running EXCEPT ![w] = f]
    BY <1>15 DEF ReadFails, Start
  <2> HIDE DEF r
  <2>3. CASE v = w
    <3>1. work'[v] = r /\ running'[v] = f
      BY <2>2, <2>3 DEF FetchInv, WorkTypeOK, QueueTypeOK
    <3> QED
      BY <2>1, <3>1
  <2>4. CASE v # w
    BY <1>2, <2>2, <2>4 DEF FetchInv, WorkTypeOK, QueueTypeOK
  <2> QED
    BY <2>3, <2>4
<1> HIDE DEF Goal
<1> QED
  BY <1>4, <1>5, <1>6, <1>8, <1>9, <1>10, <1>11, <1>12, <1>13, <1>14, <1>15
     DEF Next, Handler, Restart, LoseDerived

\* Every step keeps all of it.
LEMMA NextInv == FetchInv /\ QueueInv /\ [Next]_vars => FetchInv'
<1> SUFFICES ASSUME FetchInv, QueueInv, [Next]_vars PROVE FetchInv'
  OBVIOUS
<1>1. QueueTypeOK'
  BY QueueStep, QueueNextInv DEF QueueInv
<1>2. FeedTypeOK' /\ WorkTypeOK'
  BY FeedTypes, WorkTypes DEF FetchInv
<1>3. ValidatorsCovered'
  BY RowsStayCovered DEF ValidatorsCovered, Covered
<1>4. HandlersCovered'
  BY HandlersStayCovered DEF HandlersCovered
<1> QED
  BY <1>1, <1>2, <1>3, <1>4 DEF FetchInv

LEMMA FetchInvHolds == Spec => []FetchInv
<1>1. Spec => []QueueInv
  BY FetchingImplementsQueue, QueueInitInv, QueueNextInv, PTL DEF QueueSpec
<1> QED
  BY <1>1, InitInv, NextInv, PTL DEF Spec

\* Both databases, and what is in flight, are of their types for ever.
THEOREM FetchingTypeCorrect == Spec => []TypeOK
<1>1. FetchInv => TypeOK
  BY DEF FetchInv, FeedTypeOK, WorkTypeOK, TypeOK
<1> QED
  BY <1>1, FetchInvHolds, PTL

\* The validators in main.db are of a document derived.db has taken in, whatever
\* stops, fails or is published in between.
THEOREM ValidatorsNeverRunAhead == Spec => []ValidatorsCovered
<1>1. FetchInv => ValidatorsCovered
  BY DEF FetchInv
<1> QED
  BY <1>1, FetchInvHolds, PTL

\* The queue under the fetches hands no feed out twice.
THEOREM FeedsAreNeverFetchedTwice == Spec => []NoJobTwice
BY FetchingImplementsQueue, JobsAreNeverTakenTwice, PTL

\* Nor does it need claims.
THEOREM FetchesNeedNoClaims == Spec => ClaimsSpec
BY FetchingImplementsQueue, ClaimingIsUnnecessary, PTL

\* What is followed has a row: a subscription is refused once its row is gone,
\* and a row with one is not collected.
FollowedHaveRows == \A f \in followed : feed[f] # None

\* Every step keeps it.
LEMMA FollowedKept ==
    FetchInv /\ FollowedHaveRows /\ [Next]_vars => FollowedHaveRows'
<1> SUFFICES ASSUME FetchInv, FollowedHaveRows, [Next]_vars, NEW f \in followed'
             PROVE  feed'[f] # None
  BY DEF FollowedHaveRows
<1> USE FetchingAssumption
<1>1. followed \subseteq Feeds /\ feed \in [Feeds -> Feed \cup {None}]
  BY DEF FetchInv, FeedTypeOK
<1>2. ASSUME followed' \subseteq followed,
             \A g \in Feeds : feed[g] # None => feed'[g] # None
      PROVE  feed'[f] # None
  BY <1>1, <1>2 DEF FollowedHaveRows
<1>3. \A e \in Documents, b \in BOOLEAN : [etag |-> e, due |-> b] # None
  BY RecordsTyped DEF Documents
<1>4. ASSUME NEW g \in Feeds, UpsertFeed(g) PROVE feed'[f] # None
  <2>1. followed' = followed
    BY <1>4 DEF UpsertFeed
  <2>2. feed' = feed \/ feed' = [feed EXCEPT ![g] = [etag |-> 0, due |-> TRUE]]
    BY <1>4 DEF UpsertFeed
  <2>3. [etag |-> 0, due |-> TRUE] # None
    BY <1>3, RecordsTyped
  <2> QED
    BY <1>1, <1>2, <2>1, <2>2, <2>3
<1>5. ASSUME Subscribe PROVE feed'[f] # None
  BY <1>5 DEF Subscribe, FollowedHaveRows
<1>6. ASSUME NEW g \in Feeds, Unfollow(g) PROVE feed'[f] # None
  BY <1>2, <1>6 DEF Unfollow
<1>7. ASSUME NEW g \in Feeds, DeleteOrphanFeed(g) PROVE feed'[f] # None
  BY <1>1, <1>7 DEF DeleteOrphanFeed, FollowedHaveRows
<1>8. ASSUME NEW g \in Feeds, NEW r, r # None, feed[g] # None, followed' = followed,
             feed' = [feed EXCEPT ![g] = r]
      PROVE  feed'[f] # None
  BY <1>1, <1>2, <1>8
<1>9. ASSUME NEW g \in Feeds, FeedComesDue(g) PROVE feed'[f] # None
  <2>1. [feed[g] EXCEPT !.due = TRUE] # None
    BY <1>1, <1>3, <1>9 DEF FeedComesDue, Feed
  <2> QED
    BY <1>8, <1>9, <2>1 DEF FeedComesDue
<1>10. ASSUME NEW w \in Workers, NEW r, running[w] \in Feeds,
              feed[running[w]] # None => r # None, followed' = followed,
              feed' = [feed EXCEPT ![running[w]] = IF @ = None THEN None ELSE r]
       PROVE  feed'[f] # None
  BY <1>1, <1>2, <1>10
<1>11. ASSUME NEW w \in Workers, RecordSuccess(w) PROVE feed'[f] # None
  <2> DEFINE n == IF work[w].at = "saved" THEN work[w].got ELSE work[w].asked
             r == [etag |-> n, due |-> FALSE]
  <2>1. running[w] \in Feeds /\ n \in Documents
    BY <1>11, AtWork DEF RecordSuccess, Moves, FetchInv, WorkTypeOK, Work
  <2>2. r # None
    BY <1>3, <2>1
  <2>3. followed' = followed /\ feed' = [feed EXCEPT ![running[w]] = IF @ = None THEN None ELSE r]
    BY <1>11 DEF RecordSuccess
  <2> HIDE DEF r, n
  <2> QED
    BY <1>10, <2>1, <2>2, <2>3
<1>12. ASSUME NEW w \in Workers, RecordFailure(w) PROVE feed'[f] # None
  <2> DEFINE r == [feed[running[w]] EXCEPT !.due = FALSE]
  <2>1. running[w] \in Feeds
    BY <1>12, AtWork DEF RecordFailure, Moves, FetchInv
  <2>2. feed[running[w]] # None => r # None
    BY <1>1, <1>3, <2>1 DEF Feed
  <2>3. /\ followed' = followed
        /\ \/ feed' = [feed EXCEPT ![running[w]] = IF @ = None THEN None ELSE r]
           \/ feed' = feed
    BY <1>12 DEF RecordFailure
  <2> HIDE DEF r
  <2> QED
    BY <1>2, <1>10, <2>1, <2>2, <2>3
<1>13. UNCHANGED <<feed, followed>> => feed'[f] # None
  BY <1>2
<1>14. ASSUME NEW g \in Feeds, PruneItems(g) \/ PruneUnfollowed(g) \/ QueueDueFeed(g)
       PROVE  UNCHANGED <<feed, followed>>
  BY <1>14 DEF PruneItems, PruneUnfollowed, Drop, QueueDueFeed, feedVars, mainVars
<1>15. ASSUME SaveResolved \/ Sweep \/ Restart \/ LoseDerived \/ UNCHANGED vars
       PROVE  UNCHANGED <<feed, followed>>
  BY <1>15 DEF SaveResolved, Sweep, Restart, LoseDerived, vars, feedVars, mainVars
<1>16. ASSUME NEW w \in Workers,
              \/ \E g \in Feeds : ReadFeed(w, g) \/ ReadFails(w, g)
              \/ Answer(w) \/ Refuse(w) \/ SaveItems(w) \/ WriteFails(w) \/ Return(w)
       PROVE  UNCHANGED <<feed, followed>>
  BY <1>16 DEF ReadFeed, ReadFails, Answer, Refuse, SaveItems, WriteFails, Return, mainVars
<1>17. ASSUME NEW u \in Urls, Publish(u) PROVE UNCHANGED <<feed, followed>>
  BY <1>17 DEF Publish, mainVars
<1> QED
  BY <1>4, <1>5, <1>6, <1>7, <1>9, <1>11, <1>12, <1>13, <1>14, <1>15, <1>16, <1>17
     DEF Next, Handler

\* As long as derived.db has not been lost, what README.md says of one cycle
\* holds; the run that breaks it does so by a loss and nothing else.
THEOREM OneCycleRebuildsUnlessLost == Spec => [](lost = 0 => OneCycleRebuilds)
<1>1. Init => FollowedHaveRows
  BY DEF Init, FollowedHaveRows
<1>2. FetchInv /\ FollowedHaveRows => (lost = 0 => OneCycleRebuilds)
  <2> SUFFICES ASSUME FetchInv, FollowedHaveRows, lost = 0, NEW f \in followed \cap cycled,
                      pruned[f] = {}, Listed(feed[f].etag) # {}
               PROVE  Listed(feed[f].etag) \cap items[f] # {}
    BY DEF OneCycleRebuilds
  <2>1. f \in Feeds /\ feed[f] # None
    BY DEF FetchInv, FeedTypeOK, FollowedHaveRows
  <2>2. Listed(feed[f].etag) \subseteq items[f] \cup pruned[f]
    BY <2>1 DEF FetchInv, ValidatorsCovered
  <2> QED
    BY <2>2
<1>3. Spec => []FollowedHaveRows
  BY <1>1, FetchInvHolds, FollowedKept, PTL DEF Spec
<1> QED
  BY <1>2, <1>3, FetchInvHolds, PTL

(***************************************************************************)
(* Measuring, for any articles and pictures: its queue is JobQueue's too,  *)
(* and a size, once known, is the article's for good.                      *)
(***************************************************************************)
PicturesOK ==
    /\ picture \in [Articles -> Sizes]
    /\ measuring \in [Workers -> {"idle", "asks", "done", "failed"}]
    /\ \A w \in Workers : (measuring[w] = "idle") = (running[w] = None)
    /\ dry \in BOOLEAN

\* Every step is one of the queue's, or none of its business.
LEMMA MeasuringQueueStep == [MeasuringNext]_measureVars => [QueueNext]_queueVars
<1> SUFFICES ASSUME [MeasuringNext]_measureVars PROVE [QueueNext]_queueVars
  OBVIOUS
<1>1. CASE UNCHANGED measureVars
  BY <1>1 DEF measureVars
<1>2. ASSUME NEW x \in Articles, SaveItem(x) \/ PruneItem(x) PROVE [QueueNext]_queueVars
  BY <1>2 DEF SaveItem, PruneItem
<1>3. ASSUME NEW K \in SUBSET Keys, RetryImages(K) PROVE [QueueNext]_queueVars
  BY <1>3 DEF RetryImages, Offered
<1>4. ASSUME NEW k \in Keys, RetryComes(k) PROVE [QueueNext]_queueVars
  BY <1>4 DEF RetryComes, Offered
<1>5. ASSUME NEW k \in Keys, QueueMeasurement(k) \/ JobComesDue(k) PROVE [QueueNext]_queueVars
  BY <1>5 DEF QueueMeasurement, JobComesDue, QueueNext
<1>6. CASE SweepBegins \/ SweepEnds \/ StopMeasuring
  BY <1>6 DEF SweepBegins, SweepEnds, StopMeasuring, QueueNext
<1>7. ASSUME NEW w \in Workers, NEW k \in Keys, Measure(w, k) PROVE [QueueNext]_queueVars
  BY <1>7 DEF Measure, QueueNext
<1>8. ASSUME NEW w \in Workers, Proceeds(w) PROVE [QueueNext]_queueVars
  <2>1. CASE SetImageSize(w) \/ PostponeImage(w) \/ RecordFails(w)
    BY <2>1 DEF SetImageSize, PostponeImage, RecordFails
  <2>2. CASE Measured(w) \/ MeasuredInVain(w)
    BY <2>2 DEF Measured, MeasuredInVain, QueueNext
  <2> QED
    BY <1>8, <2>1, <2>2 DEF Proceeds
<1> QED
  BY <1>1, <1>2, <1>3, <1>4, <1>5, <1>6, <1>7, <1>8 DEF MeasuringNext

\* Measuring keeps its queue as JobQueue says.
THEOREM MeasuringImplementsQueue == MeasuringSpec => QueueSpec
<1>1. MeasuringInit => QueueInit
  BY DEF MeasuringInit
<1> QED
  BY <1>1, MeasuringQueueStep, PTL DEF MeasuringSpec, QueueSpec

\* Pictures are measured as though each were claimed by the one worker that
\* asks for it.
THEOREM MeasuringNeedsNoClaims == MeasuringSpec => ClaimsSpec
BY MeasuringImplementsQueue, ClaimingIsUnnecessary, PTL

\* What a step that leaves the handlers alone does to the articles.
LEMMA OfferedTyped ==
    ASSUME PicturesOK, NEW K, Offered(K) PROVE PicturesOK'
  BY DEF Offered, PicturesOK, Sizes, queueVars

\* A handler with a job moves on and keeps it.
LEMMA HandlerMoves ==
    ASSUME QueueTypeOK, PicturesOK, NEW w \in Workers, measuring[w] = "asks",
           NEW at \in {"done", "failed"}, measuring' = [measuring EXCEPT ![w] = at],
           picture' \in [Articles -> Sizes], UNCHANGED <<running, dry>>
    PROVE  PicturesOK'
  BY DEF PicturesOK

\* A handler that is done gives its job up.
LEMMA HandlerEnds ==
    ASSUME QueueTypeOK, PicturesOK, NEW w \in Workers,
           measuring' = [measuring EXCEPT ![w] = "idle"], running' = [running EXCEPT ![w] = None],
           dry' = FALSE, UNCHANGED picture
    PROVE  PicturesOK'
  BY DEF PicturesOK, QueueTypeOK

LEMMA PicturesTyped ==
    QueueTypeOK /\ PicturesOK /\ [MeasuringNext]_measureVars => PicturesOK'
<1> SUFFICES ASSUME QueueTypeOK, PicturesOK, [MeasuringNext]_measureVars PROVE PicturesOK'
  OBVIOUS
<1>1. CASE UNCHANGED measureVars
  BY <1>1 DEF measureVars, queueVars, PicturesOK
<1>2. ASSUME NEW x \in Articles, SaveItem(x) \/ PruneItem(x) PROVE PicturesOK'
  BY <1>2 DEF SaveItem, PruneItem, PicturesOK, Sizes, queueVars
<1>3. ASSUME NEW K \in SUBSET Keys, RetryImages(K) PROVE PicturesOK'
  BY <1>3, OfferedTyped DEF RetryImages
<1>4. ASSUME NEW k \in Keys, RetryComes(k) PROVE PicturesOK'
  BY <1>4, OfferedTyped DEF RetryComes
<1>5. ASSUME NEW k \in Keys, QueueMeasurement(k) \/ JobComesDue(k) PROVE PicturesOK'
  BY <1>5 DEF QueueMeasurement, JobComesDue, Enqueue, ComesDue, PicturesOK
<1>6. CASE SweepBegins \/ SweepEnds
  BY <1>6 DEF SweepBegins, SweepEnds, BeginSweep, EndSweep, PicturesOK
<1>7. CASE StopMeasuring
  BY <1>7 DEF StopMeasuring, RestartQueue, PicturesOK
<1>8. ASSUME NEW w \in Workers, NEW k \in Keys, Measure(w, k) PROVE PicturesOK'
  BY <1>8, JobQueueAssumption DEF Measure, Start, PicturesOK, QueueTypeOK
<1>9. ASSUME NEW w \in Workers, Proceeds(w) PROVE PicturesOK'
  <2>1. CASE SetImageSize(w)
    <3>1. picture' \in [Articles -> Sizes]
      BY <2>1 DEF SetImageSize, PicturesOK, Sizes
    <3> QED
      BY <2>1, <3>1, HandlerMoves DEF SetImageSize, queueVars
  <2>2. CASE PostponeImage(w)
    <3>1. picture' \in [Articles -> Sizes]
      BY <2>2 DEF PostponeImage, PicturesOK, Sizes
    <3> QED
      BY <2>2, <3>1, HandlerMoves DEF PostponeImage, queueVars
  <2>3. CASE RecordFails(w)
    BY <2>3, HandlerMoves DEF RecordFails, queueVars, PicturesOK
  <2>4. CASE Measured(w)
    <3>1. running' = [running EXCEPT ![w] = None]
      BY <2>4 DEF Measured, Finish, Fail
    <3> QED
      BY <2>4, <3>1, HandlerEnds DEF Measured
  <2>5. CASE MeasuredInVain(w)
    BY <2>5, HandlerEnds DEF MeasuredInVain, Leave
  <2> QED
    BY <1>9, <2>1, <2>2, <2>3, <2>4, <2>5 DEF Proceeds
<1> QED
  BY <1>1, <1>2, <1>3, <1>4, <1>5, <1>6, <1>7, <1>8, <1>9 DEF MeasuringNext

LEMMA MeasuringInvHolds == MeasuringSpec => []QueueInv /\ []PicturesOK
<1>1. MeasuringSpec => []QueueInv
  BY MeasuringImplementsQueue, QueueInitInv, QueueNextInv, PTL DEF QueueSpec
<1>2. QueueInv => QueueTypeOK
  BY DEF QueueInv
<1>3. MeasuringInit => PicturesOK
  BY DEF MeasuringInit, QueueInit, PicturesOK, Sizes
<1> QED
  BY <1>1, <1>2, <1>3, PicturesTyped, PTL DEF MeasuringSpec

\* Queue, articles and handlers keep their types, and a handler is at something
\* exactly while its worker holds a job (jobs.go, images.go).
THEOREM MeasuringTypeCorrect == MeasuringSpec => []MeasuringTypeOK
<1>1. QueueInv /\ PicturesOK => MeasuringTypeOK
  BY DEF QueueInv, PicturesOK, MeasuringTypeOK
<1> QED
  BY <1>1, MeasuringInvHolds, PTL

\* No picture is asked for by two workers at once.
THEOREM PicturesAreNeverAskedTwice == MeasuringSpec => []NoJobTwice
BY MeasuringImplementsQueue, JobsAreNeverTakenTwice, PTL

LEMMA SizeStays ==
    ASSUME PicturesOK, MeasuringNext, NEW a \in Articles, picture[a] = "sized"
    PROVE  picture'[a] \in {"sized", "none"}
<1>1. picture \in [Articles -> Sizes]
  BY DEF PicturesOK
<1>2. ASSUME NEW x \in Articles, SaveItem(x) \/ PruneItem(x) PROVE picture'[a] \in {"sized", "none"}
  BY <1>1, <1>2 DEF SaveItem, PruneItem
<1>3. ASSUME NEW K, Offered(K) PROVE picture'[a] \in {"sized", "none"}
  BY <1>1, <1>3 DEF Offered
<1>4. ASSUME NEW w \in Workers, SetImageSize(w) \/ PostponeImage(w) PROVE picture'[a] \in {"sized", "none"}
  BY <1>1, <1>4 DEF SetImageSize, PostponeImage
<1>5. CASE UNCHANGED picture
  BY <1>5
<1> QED
  BY <1>2, <1>3, <1>4, <1>5
  DEF MeasuringNext, RetryImages, RetryComes, QueueMeasurement, JobComesDue, SweepBegins, SweepEnds,
      StopMeasuring, Proceeds, RecordFails, Measured, MeasuredInVain, Measure

\* A size is the article's for as long as it stays, whatever fails, is listed
\* again or asked again (SetImageSize, PostponeImage, RetryImages, SaveItems).
THEOREM SizesAreKept == MeasuringSpec => SizeIsKept
<1>1. PicturesOK /\ [MeasuringNext]_measureVars =>
        [\A a \in Articles : picture[a] = "sized" => picture'[a] \in {"sized", "none"}]_measureVars
  BY SizeStays
<1> QED
  BY <1>1, MeasuringInvHolds, PTL DEF MeasuringSpec, SizeIsKept
=============================================================================
