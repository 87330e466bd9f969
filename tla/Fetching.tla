------------------------------ MODULE Fetching ------------------------------
(***************************************************************************)
(* internal/feeds/refresh.go on top of JobQueue.  Feeds that are due are   *)
(* queued; a job asks the publisher with the validators main.db keeps,     *)
(* saves what came back in derived.db and then records the fetch in        *)
(* main.db.  Around it people follow and unfollow, the sweep collects, and *)
(* the process may stop between any two steps.                             *)
(*                                                                         *)
(* A publisher's document is its version; version n lists the articles of  *)
(* the last Listing versions, and 0 is a publisher with nothing yet.       *)
(* A feed row is one of Feeds: a row that is deleted does not come back,   *)
(* and following its address again makes another.                          *)
(***************************************************************************)
EXTENDS JobQueue

CONSTANTS
    UrlOf,         \* UrlOf[f]: canonical_url of row f
    Listing,       \* how many articles a document lists
    MaxVersion,    \* bound on what is published
    MaxLosses      \* bound on how often derived.db is lost

Feeds == Keys
Urls == {UrlOf[f] : f \in Feeds}

ASSUME FetchingAssumption ==
    /\ DOMAIN UrlOf = Feeds
    /\ Listing \in Nat \ {0} /\ MaxVersion \in Nat \ {0} /\ MaxLosses \in Nat
    /\ MaxAttempts = 1
    /\ None \notin [etag : Nat, due : BOOLEAN]

VARIABLES
    published,   \* published[u]: the version the publisher answers with
    feed,        \* feed[f]: the row in main.db, or None
    spent,       \* rows that have been deleted
    followed,    \* the rows with a subscription
    request,     \* the request that is following a feed
    items,       \* items[f]: the articles of f in derived.db
    pruned,      \* history: what the sweep has dropped of f
    lost,        \* how often derived.db was lost
    cycled,      \* history: the rows fetched with success since it last was
    work         \* work[w]: where worker w's handler is

mainVars == <<feed, spent, followed>>
derivedVars == <<items, pruned, lost>>
feedVars == <<published, mainVars, request, derivedVars, cycled, work>>
vars == <<queueVars, feedVars>>

Versions == 1 .. MaxVersion
Documents == 0 .. MaxVersion
Listed(n) == {v \in Versions : v <= n /\ v > n - Listing}

\* etag is the version its validators are of, 0 while there are none; due is
\* whether next_fetch_at has come.
Feed == [etag : Documents, due : BOOLEAN]

\* asked: the etag sent.  got: the version that came back.
Work == [at : {"idle", "read", "answered", "saved", "unchanged", "refused", "done", "failed"},
         asked : Documents, got : Documents]

Idle == [at |-> "idle", asked |-> 0, got |-> 0]

\* got is what Resolve parsed; an import parses nothing.
Request == [at : {"none", "upserted", "subscribed"}, feed : Feeds \cup {None}, got : Documents]

NoRequest == [at |-> "none", feed |-> None, got |-> 0]

Init ==
    /\ QueueInit
    /\ published \in [Urls -> 0 .. 1]
    /\ feed = [f \in Feeds |-> None] /\ spent = {} /\ followed = {}
    /\ request = NoRequest
    /\ items = [f \in Feeds |-> {}] /\ pruned = [f \in Feeds |-> {}]
    /\ lost = 0 /\ cycled = {}
    /\ work = [w \in Workers |-> Idle]

(***************************************************************************)
(* Following and unfollowing.                                              *)
(***************************************************************************)
\* addFeed asks the publisher without validators first, and importFeeds not at
\* all.  Then the row there is, or a new one, due at once.
UpsertFeed(f) ==
    /\ request = NoRequest
    /\ \E n \in 0 .. published[UrlOf[f]] :
           request' = [at |-> "upserted", feed |-> f, got |-> n]
    /\ \/ feed[f] # None /\ UNCHANGED feed
       \/ /\ \A g \in Feeds : UrlOf[g] = UrlOf[f] => feed[g] = None
          /\ f \notin spent
          /\ feed' = [feed EXCEPT ![f] = [etag |-> 0, due |-> TRUE]]
    /\ UNCHANGED <<queueVars, published, spent, followed, derivedVars, cycled, work>>

\* The row may be gone again, and then the subscription is refused; so it is
\* when its owner has one.
Subscribe ==
    /\ request.at = "upserted"
    /\ \/ /\ feed[request.feed] # None
          /\ followed' = followed \cup {request.feed}
          /\ request' = [request EXCEPT !.at = "subscribed"]
       \/ /\ feed[request.feed] = None \/ request.feed \in followed
          /\ request' = NoRequest
          /\ UNCHANGED followed
    /\ UNCHANGED <<queueVars, published, feed, spent, derivedVars, cycled, work>>

\* What Resolve parsed is saved, or could not be.
SaveResolved ==
    /\ request.at = "subscribed"
    /\ request' = NoRequest
    /\ \/ items' = [items EXCEPT ![request.feed] = @ \cup Listed(request.got)]
       \/ UNCHANGED items
    /\ UNCHANGED <<queueVars, published, mainVars, pruned, lost, cycled, work>>

Unfollow(f) ==
    /\ f \in followed
    /\ followed' = followed \ {f}
    /\ UNCHANGED <<queueVars, published, feed, spent, request, derivedVars, cycled, work>>

(***************************************************************************)
(* The sweep, as far as feeds are concerned.                               *)
(***************************************************************************)
\* A row some page still shows is spared.
DeleteOrphanFeed(f) ==
    /\ feed[f] # None /\ f \notin followed
    /\ feed' = [feed EXCEPT ![f] = None]
    /\ spent' = spent \cup {f}
    /\ UNCHANGED <<queueVars, published, followed, request, derivedVars, cycled, work>>

Drop(f, A) ==
    /\ A # {}
    /\ items' = [items EXCEPT ![f] = @ \ A]
    /\ pruned' = [pruned EXCEPT ![f] = @ \cup A]
    /\ UNCHANGED <<queueVars, published, mainVars, request, lost, cycled, work>>

\* What is past its feed's retention or count; of a feed nobody follows,
\* everything, as soon as no page shows it.
PruneItems(f) == \E A \in SUBSET items[f] : Drop(f, A)

\* Mutant of PruneUnfollowed: the feeds table is asked which feeds to look at.
PruneUnfollowedRow(f) == feed[f] # None /\ f \notin followed /\ Drop(f, items[f])

PruneUnfollowed(f) == f \notin followed /\ Drop(f, items[f])

(***************************************************************************)
(* The queue and the handler.                                              *)
(***************************************************************************)
\* QueueDueFeeds, which the runner asks for between sweeps.
QueueDueFeed(f) ==
    /\ ~sweeping
    /\ feed[f] # None /\ feed[f].due
    /\ Enqueue(f)
    /\ UNCHANGED feedVars

\* next_fetch_at comes.
FeedComesDue(f) ==
    /\ feed[f] # None /\ ~feed[f].due
    /\ feed' = [feed EXCEPT ![f].due = TRUE]
    /\ UNCHANGED <<queueVars, published, spent, followed, request, derivedVars, cycled, work>>

Sweep == (BeginSweep \/ EndSweep) /\ UNCHANGED feedVars

\* FeedByID: the feed as it is now, or gone and nothing to do.
ReadFeed(w, f) ==
    /\ Start(w, f)
    /\ work' = [work EXCEPT ![w] =
           IF feed[f] = None THEN [Idle EXCEPT !.at = "done"]
           ELSE [Idle EXCEPT !.at = "read", !.asked = feed[f].etag]]
    /\ UNCHANGED <<published, mainVars, request, derivedVars, cycled>>

\* The row could not be read, which is recorded nowhere.
ReadFails(w, f) ==
    /\ Start(w, f)
    /\ work' = [work EXCEPT ![w] = [Idle EXCEPT !.at = "failed"]]
    /\ UNCHANGED <<published, mainVars, request, derivedVars, cycled>>

Moves(w, from, to) == work[w].at = from /\ work' = [work EXCEPT ![w].at = to]

\* A publisher that is asked with what it has says so, and sends its document
\* otherwise.
Answer(w) ==
    LET n == published[UrlOf[running[w]]] IN
    /\ work[w].at = "read"
    /\ work' = IF n # 0 /\ n = work[w].asked
               THEN [work EXCEPT ![w].at = "unchanged"]
               ELSE [work EXCEPT ![w].at = "answered", ![w].got = n]
    /\ UNCHANGED <<queueVars, published, mainVars, request, derivedVars, cycled>>

Refuse(w) ==
    /\ Moves(w, "read", "refused")
    /\ UNCHANGED <<queueVars, published, mainVars, request, derivedVars, cycled>>

\* Mutant of SaveItems: the fetch is recorded, and then what it brought saved.
SaveRecorded(w) ==
    /\ Moves(w, "answered", "saved")
    /\ feed' = [feed EXCEPT ![running[w]] =
           IF @ = None THEN None ELSE [etag |-> work[w].got, due |-> FALSE]]
    /\ UNCHANGED <<queueVars, published, spent, followed, request, derivedVars, cycled>>

SaveItems(w) ==
    /\ Moves(w, "answered", "saved")
    /\ items' = [items EXCEPT ![running[w]] = @ \cup Listed(work[w].got)]
    /\ UNCHANGED <<queueVars, published, mainVars, request, pruned, lost, cycled>>

\* A 304 carries the validators that were sent forward.
RecordSuccess(w) ==
    LET f == running[w] IN
    /\ Moves(w, "saved", "done") \/ Moves(w, "unchanged", "done")
    /\ feed' = [feed EXCEPT ![f] = IF @ = None THEN None
                   ELSE [etag |-> IF work[w].at = "saved" THEN work[w].got ELSE work[w].asked,
                         due |-> FALSE]]
    /\ cycled' = cycled \cup {f}
    /\ UNCHANGED <<queueVars, published, spent, followed, request, derivedVars>>

\* The fetch failed, which is recorded if it can be.
RecordFailure(w) ==
    /\ Moves(w, "refused", "failed")
    /\ \/ feed' = [feed EXCEPT ![running[w]] =
              IF @ = None THEN None ELSE [@ EXCEPT !.due = FALSE]]
       \/ UNCHANGED feed
    /\ UNCHANGED <<queueVars, published, spent, followed, request, derivedVars, cycled>>

\* A write of ours failed: nothing is recorded, and the feed stays due.
WriteFails(w) ==
    /\ work[w].at \in {"answered", "saved", "unchanged"}
    /\ work' = [work EXCEPT ![w].at = "failed"]
    /\ UNCHANGED <<queueVars, published, mainVars, request, derivedVars, cycled>>

\* Mutant of Return: the worker keeps what it was at.
ReturnKeeping(w) ==
    /\ work[w].at = "done" /\ Finish(w)
    /\ UNCHANGED <<work, published, mainVars, request, derivedVars, cycled>>

\* Runner.run, of what the handler returned.  The job stays as it is if its row
\* cannot be written, and if what failed is that a time ran out.
Return(w) ==
    /\ \/ work[w].at = "done" /\ Finish(w)
       \/ work[w].at = "failed" /\ Fail(w)
       \/ work[w].at \in {"done", "failed"} /\ Leave(w)
    /\ work' = [work EXCEPT ![w] = Idle]
    /\ UNCHANGED <<published, mainVars, request, derivedVars, cycled>>

Handler(w) ==
    \/ \E f \in Feeds : ReadFeed(w, f) \/ ReadFails(w, f)
    \/ Answer(w) \/ Refuse(w) \/ SaveItems(w) \/ WriteFails(w)
    \/ RecordSuccess(w) \/ RecordFailure(w) \/ Return(w)

(***************************************************************************)
(* Around it.                                                              *)
(***************************************************************************)
Publish(u) ==
    /\ published[u] < MaxVersion
    /\ published' = [published EXCEPT ![u] = @ + 1]
    /\ UNCHANGED <<queueVars, mainVars, request, derivedVars, cycled, work>>

Stop ==
    /\ RestartQueue
    /\ work' = [w \in Workers |-> Idle]
    /\ request' = NoRequest

\* The process stops and starts again.
Restart ==
    /\ Stop
    /\ UNCHANGED <<published, mainVars, derivedVars, cycled>>

\* It is started on an empty derived.db.
LoseDerived ==
    /\ lost < MaxLosses
    /\ Stop
    /\ lost' = lost + 1 /\ cycled' = {}
    /\ items' = [f \in Feeds |-> {}]
    /\ UNCHANGED <<published, mainVars, pruned>>

Next ==
    \/ \E f \in Feeds : \/ UpsertFeed(f) \/ Unfollow(f)
                        \/ DeleteOrphanFeed(f) \/ PruneItems(f) \/ PruneUnfollowed(f)
                        \/ QueueDueFeed(f) \/ FeedComesDue(f)
    \/ Subscribe \/ SaveResolved \/ Sweep \/ Restart \/ LoseDerived
    \/ \E w \in Workers : Handler(w)
    \/ \E u \in Urls : Publish(u)

Spec == Init /\ [][Next]_vars

(***************************************************************************)
(* The minute's tick and the hour's sweep come round, time passes, and a   *)
(* fetch gets through again and again: restarts, refusals and failed       *)
(* writes may be endless, but not all there is.                            *)
(***************************************************************************)
Fairness ==
    /\ WF_vars(Sweep)
    /\ \A f \in Feeds : /\ WF_vars(FeedComesDue(f)) /\ SF_vars(QueueDueFeed(f))
                        /\ WF_vars(PruneUnfollowed(f))
                        /\ SF_vars(\E w \in Workers : ReadFeed(w, f))
    /\ \A w \in Workers : /\ SF_vars(Answer(w)) /\ SF_vars(SaveItems(w))
                          /\ SF_vars(RecordSuccess(w)) /\ SF_vars(RecordFailure(w))
                          /\ SF_vars(Return(w))

FairSpec == Spec /\ Fairness

(***************************************************************************)
(* Properties.                                                             *)
(***************************************************************************)
\* The state of both databases and of what is in flight; a handler is at
\* something exactly while its worker holds a job.
TypeOK ==
    /\ QueueTypeOK
    /\ published \in [Urls -> Documents]
    /\ feed \in [Feeds -> Feed \cup {None}]
    /\ spent \subseteq Feeds /\ followed \subseteq Feeds /\ cycled \subseteq Feeds
    /\ request \in Request
    /\ items \in [Feeds -> SUBSET Versions] /\ pruned \in [Feeds -> SUBSET Versions]
    /\ lost \in 0 .. MaxLosses
    /\ work \in [Workers -> Work]
    /\ \A w \in Workers : (work[w].at = "idle") = (running[w] = None)

\* The validators main.db keeps are of a document derived.db has taken in: no
\* order of crash, failed write and publication lets a feed say it has seen
\* what was never saved - after that a publisher answers "unchanged" and the
\* articles are gone for good.
ValidatorsCovered ==
    lost = 0 => \A f \in Feeds : feed[f] # None =>
        Listed(feed[f].etag) \subseteq items[f] \cup pruned[f]

\* What a publisher goes on listing reaches a feed that stays followed, over
\* any number of restarts, refusals and failed writes, if derived.db is not
\* lost.
NewsArrives ==
    \A f \in Feeds : \A v \in Versions :
        <>[](lost = 0 /\ f \in followed /\ v \in Listed(published[UrlOf[f]]))
            => <>(v \in items[f] \cup pruned[f])

\* A feed that is deleted takes its articles with it in the end, those a fetch
\* or a request in flight saved after it was gone included.
OrphansCollected ==
    \A f \in Feeds : <>[](f \in spent => items[f] = {})

\* README.md:359, "Losing `derived.db` costs one fetch cycle": once a followed
\* feed has been fetched, something of what it lists is back.
OneCycleRebuilds ==
    \A f \in followed \cap cycled :
        pruned[f] = {} /\ Listed(feed[f].etag) # {}
            => Listed(feed[f].etag) \cap items[f] # {}
=============================================================================
