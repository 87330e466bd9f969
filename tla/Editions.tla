------------------------------ MODULE Editions ------------------------------
(***************************************************************************)
(* The life of a front page: how editions are composed, become the live    *)
(* one, are superseded, collected and dropped, and how articles come and   *)
(* go underneath them (internal/edition, internal/store/editions.go and    *)
(* items.go, the handlers of internal/api/pages.go and edition.go).        *)
(*                                                                         *)
(* Two kinds of process compose: the scheduler goroutine, which also runs  *)
(* the sweep and so never sweeps while it composes, and the request        *)
(* handlers.  Each compose is cut where the code goes from one SQLite      *)
(* database to the other, or from a read to the write that uses it: those  *)
(* are the points where another process runs.  The sampler is abstracted   *)
(* to what Selection.tla lets it place (Sampler.tla has its rounds).          *)
(***************************************************************************)
EXTENDS Sequences, Selection

CONSTANTS
    Pages, Feeds, Articles, Readers,
    FeedOf,        \* FeedOf[a]: the feed article a was published in
    OwnerOf,       \* OwnerOf[p]: whose page p is
    Filters,       \* the sets of feeds, at a priority above zero, a page's filter
                   \* may come down to
    Handlers,      \* request handlers that may be composing at once
    Scheduler,     \* the goroutine of Scheduler.Run
    None,          \* no page, no offer
    MaxEditions,   \* bound: editions of one page in the table at once
    MaxNow,        \* bound: seconds the wall clock moves
    MaxRestarts    \* bound: times the process dies

ASSUME ConstantsAssumption ==
    /\ FeedOf \in [Articles -> Feeds]
    /\ DOMAIN LinkOf = Articles
    /\ OwnerOf \in [Pages -> Readers]
    /\ Filters \subseteq SUBSET Feeds
    /\ EditionSize \in Nat \ {0}
    /\ Scheduler \notin Handlers
    /\ None \notin Pages
    /\ None \notin [page : Pages, show : SUBSET Articles]
    /\ MaxEditions \in Nat /\ MaxNow \in Nat /\ MaxRestarts \in Nat

Workers == Handlers \cup {Scheduler}

VARIABLES
    \* main.db
    filter,     \* filter[p]: the feeds eligible() lets page p draw from
    due,        \* the pages whose next_edition_at has passed
    disabled,   \* the readers whose account is switched off
    \* derived.db
    items,      \* the articles held
    editions,   \* editions[p]: page p's editions in rowid order
    shown,      \* shown[p]: the articles page p remembers having carried
    read,       \* read[r]: the articles r has a read mark for
    \* the process
    task,       \* task[w]: what worker w is composing and how far it has come
    turns,      \* what is left of the list DuePages gave the scheduler
    now,        \* the wall clock, in the seconds generated_at is kept in
    restarts    \* how often the process has died

main == <<filter, due, disabled>>
derived == <<items, editions, shown, read>>
vars == <<main, derived, task, turns, now, restarts>>

(***************************************************************************)
(* Editions and the live one.                                              *)
(***************************************************************************)
Edition == [at : Nat, articles : SUBSET Articles]

\* Mutant of Newer: the row alone decides which edition is the newest.
NewerByRow(s, i, j) == i >= j

\* The order of the currentEditions CTE: newest second, then newest row.
Newer(s, i, j) == s[i].at > s[j].at \/ (s[i].at = s[j].at /\ i >= j)

Newest(s) == CHOOSE i \in DOMAIN s : \A j \in DOMAIN s : Newer(s, i, j)

Current(p) == editions[p][Newest(editions[p])]

\* What CurrentEdition returns: the join with items drops a card without one.
Live(p) == IF editions[p] = <<>> THEN {} ELSE Current(p).articles \cap items

Placed(a) ==
    \E p \in Pages : \E i \in DOMAIN editions[p] : a \in editions[p][i].articles

\* The articles a page could be composed of now, read or not.
Drawable(p) == {a \in items : FeedOf[a] \in filter[p]}

(***************************************************************************)
(* Workers.                                                                *)
(***************************************************************************)
Idle == [op |-> "none", at |-> "idle", page |-> None,
         from |-> {}, picks |-> {}, now |-> 0]

Task == [op : {"none", "turn", "reroll", "patch"},
         at : {"idle", "release", "delete", "read", "queues", "commit", "clock", "drop"},
         page : Pages \cup {None},
         from : SUBSET Feeds, picks : SUBSET Articles, now : Nat]

\* An idle worker holds nothing; a busy one has the page it works on.
Formed(k) == IF k.at = "idle" THEN k = Idle ELSE k.page \in Pages

Init ==
    /\ filter \in [Pages -> Filters]
    /\ due = Pages
    /\ disabled = {}
    /\ items = {}
    /\ editions = [p \in Pages |-> <<>>]
    /\ shown = [p \in Pages |-> {}]
    /\ read = [r \in Readers |-> {}]
    /\ task = [w \in Workers |-> Idle]
    /\ turns = {}
    /\ now = 0
    /\ restarts = 0

\* Room for one more edition of p, counting those being composed.
Room(p) ==
    Len(editions[p]) + Cardinality({w \in Workers : task[w].page = p})
        + (IF p \in turns THEN 1 ELSE 0) < MaxEditions

Goes(w, at) == task' = [task EXCEPT ![w].at = at]
Ends(w) == task' = [task EXCEPT ![w] = Idle]

\* Composing found nothing to draw from.  A turn leaves the clock alone, a
\* re-roll answers not found, and a save of the filter clears the page.
Nothing(w) == IF task[w].op = "patch" THEN Goes(w, "drop") ELSE Ends(w)

(***************************************************************************)
(* generateDue: the list of due pages is read once, without those of an    *)
(* account that is switched off, and each page on it is composed in its    *)
(* turn, whatever has happened to it or to the account since.              *)
(***************************************************************************)
DueEnabled == {p \in due : OwnerOf[p] \notin disabled}

DuePages ==
    /\ task[Scheduler] = Idle /\ turns = {}
    /\ DueEnabled # {} /\ \A p \in DueEnabled : Room(p)
    /\ turns' = DueEnabled
    /\ UNCHANGED <<main, derived, task, now, restarts>>

TakeTurn(p) ==
    /\ task[Scheduler] = Idle /\ p \in turns
    /\ turns' = turns \ {p}
    /\ task' = [task EXCEPT ![Scheduler] = [Idle EXCEPT !.op = "turn", !.at = "read", !.page = p]]
    /\ UNCHANGED <<main, derived, now, restarts>>

\* POST /api/edition/regenerate.
StartReroll(h, p) ==
    /\ task[h] = Idle /\ Room(p)
    /\ task' = [task EXCEPT ![h] = [Idle EXCEPT !.op = "reroll", !.at = "release", !.page = p]]
    /\ UNCHANGED <<main, derived, turns, now, restarts>>

\* PATCH /api/pages: the save, then the recompose it leads to.
PatchFilter(h, p) ==
    /\ task[h] = Idle /\ Room(p)
    /\ \E f \in Filters \ {filter[p]} : filter' = [filter EXCEPT ![p] = f]
    /\ task' = [task EXCEPT ![h] = [Idle EXCEPT !.op = "patch", !.at = "release", !.page = p]]
    /\ UNCHANGED <<due, disabled, derived, turns, now, restarts>>

(***************************************************************************)
(* Regenerate and compose, step by step.                                   *)
(***************************************************************************)
\* ReleaseUnread reads the live page's unread articles...
ReadUnread(w) ==
    LET p == task[w].page
        unread == Live(p) \ read[OwnerOf[p]] IN
    /\ task[w].at = "release"
    /\ IF unread = {} THEN Goes(w, "read")
       ELSE task' = [task EXCEPT ![w].at = "delete", ![w].picks = unread]
    /\ UNCHANGED <<main, derived, turns, now, restarts>>

\* ... and then, in a transaction of its own, forgets having shown them.
ReleaseUnread(w) ==
    LET p == task[w].page IN
    /\ task[w].at = "delete"
    /\ shown' = [shown EXCEPT ![p] = @ \ task[w].picks]
    /\ task' = [task EXCEPT ![w].at = "read", ![w].picks = {}]
    /\ UNCHANGED <<main, items, editions, read, turns, now, restarts>>

\* PageByID and ListSubscriptions, in main.db.
ReadPage(w) ==
    /\ task[w].at = "read"
    /\ IF filter[task[w].page] = {} THEN Nothing(w)
       ELSE task' = [task EXCEPT ![w].at = "queues", ![w].from = filter[task[w].page]]
    /\ UNCHANGED <<main, derived, turns, now, restarts>>

\* The bands of one page's queues.
Fresh(p, A) == A \ (shown[p] \cup read[OwnerOf[p]])
Unread(p, A) == (A \cap shown[p]) \ read[OwnerOf[p]]
Seen(p, A) == A \cap read[OwnerOf[p]]

\* Queues, in derived.db, then Select; AddEdition stamps the edition before
\* it waits for the connection.
ReadQueues(w) ==
    LET p == task[w].page
        reach == {a \in items : FeedOf[a] \in task[w].from} IN
    /\ task[w].at = "queues"
    /\ IF reach = {} THEN Nothing(w)
       ELSE \E S \in Selections(Fresh(p, reach), Unread(p, reach), Seen(p, reach)) :
                task' = [task EXCEPT ![w].at = "commit", ![w].from = {},
                                     ![w].picks = S, ![w].now = now]
    /\ UNCHANGED <<main, derived, turns, now, restarts>>

\* Mutant of AddEdition: the connection opened without foreign_keys(ON).
AddEditionUnchecked(w) ==
    LET p == task[w].page
        picks == task[w].picks IN
    /\ task[w].at = "commit"
    /\ editions' = [editions EXCEPT ![p] =
                        Append(@, [at |-> task[w].now, articles |-> picks])]
    /\ shown' = [shown EXCEPT ![p] = @ \cup picks]
    /\ Goes(w, "clock")
    /\ UNCHANGED <<main, items, read, turns, now, restarts>>

\* The transaction of AddEdition.  A pick collected since it was drawn fails
\* the foreign key, and nothing is written.
AddEdition(w) ==
    LET p == task[w].page
        picks == task[w].picks IN
    /\ task[w].at = "commit"
    /\ IF picks \subseteq items
       THEN /\ editions' = [editions EXCEPT ![p] =
                                Append(@, [at |-> task[w].now, articles |-> picks])]
            /\ shown' = [shown EXCEPT ![p] = @ \cup picks]
            /\ Goes(w, "clock")
       ELSE Ends(w) /\ UNCHANGED <<editions, shown>>
    /\ UNCHANGED <<main, items, read, turns, now, restarts>>

\* Mutant of ScheduleNextEdition: the page composed, its clock forgotten.
ScheduleNothing(w) ==
    /\ task[w].at = "clock"
    /\ Ends(w)
    /\ UNCHANGED <<main, derived, turns, now, restarts>>

\* The clock moves only once a page was written.
ScheduleNextEdition(w) ==
    /\ task[w].at = "clock"
    /\ due' = due \ {task[w].page}
    /\ Ends(w)
    /\ UNCHANGED <<filter, disabled, derived, turns, now, restarts>>

\* recompose, when the new filter matches nothing.
DropEditions(w) ==
    /\ task[w].at = "drop"
    /\ editions' = [editions EXCEPT ![task[w].page] = <<>>]
    /\ Ends(w)
    /\ UNCHANGED <<main, items, shown, read, turns, now, restarts>>

Step(w) ==
    \/ ReadUnread(w) \/ ReleaseUnread(w)
    \/ ReadPage(w) \/ ReadQueues(w) \/ AddEdition(w)
    \/ ScheduleNextEdition(w) \/ DropEditions(w)

(***************************************************************************)
(* Reading marks, fetches and the wall clock: one statement each.          *)
(***************************************************************************)
SetRead(r) ==
    /\ \E a \in items : read' = [read EXCEPT ![r] = @ \cup {a}]
    /\ UNCHANGED <<main, items, editions, shown, task, turns, now, restarts>>

SetUnread(r) ==
    /\ \E a \in read[r] : read' = [read EXCEPT ![r] = @ \ {a}]
    /\ UNCHANGED <<main, items, editions, shown, task, turns, now, restarts>>

MarkFeedRead(r, f) ==
    /\ read' = [read EXCEPT ![r] = @ \cup {a \in items : FeedOf[a] = f}]
    /\ UNCHANGED <<main, items, editions, shown, task, turns, now, restarts>>

UnmarkFeedRead(r, f) ==
    /\ read' = [read EXCEPT ![r] = {a \in @ : FeedOf[a] # f}]
    /\ UNCHANGED <<main, items, editions, shown, task, turns, now, restarts>>

\* A fetch brings articles of one feed.
SaveItems(f) ==
    /\ \E new \in SUBSET {a \in Articles \ items : FeedOf[a] = f} :
           new # {} /\ items' = items \cup new
    /\ UNCHANGED <<main, editions, shown, read, task, turns, now, restarts>>

\* A page's interval runs out.
BecomesDue(p) ==
    /\ p \notin due
    /\ due' = due \cup {p}
    /\ UNCHANGED <<filter, disabled, derived, task, turns, now, restarts>>

\* An administrator switches an account off, or on again.  A request of its
\* owner's that has come in goes on.
SwitchOff(r) ==
    /\ disabled' = disabled \cup {r}
    /\ UNCHANGED <<filter, due, derived, task, turns, now, restarts>>

SwitchOn(r) ==
    /\ disabled' = disabled \ {r}
    /\ UNCHANGED <<filter, due, derived, task, turns, now, restarts>>

Tick ==
    /\ now < MaxNow
    /\ now' = now + 1
    /\ UNCHANGED <<main, derived, task, turns, restarts>>

(***************************************************************************)
(* The sweep, on the scheduler's goroutine.                                *)
(***************************************************************************)
\* Mutant of Sweeping: the sweep given a goroutine of its own.
SweepingAlongside == TRUE

Sweeping == task[Scheduler] = Idle /\ turns = {}

PruneOldEditions ==
    /\ Sweeping
    /\ editions' = [p \in Pages |-> IF editions[p] = <<>> THEN <<>> ELSE <<Current(p)>>]
    /\ UNCHANGED <<main, items, shown, read, task, turns, now, restarts>>

\* Mutant of PruneItems: articles on an edition not spared.
PruneItemsUnsparing ==
    /\ Sweeping
    /\ \E gone \in SUBSET items :
           /\ gone # {}
           /\ items' = items \ gone
           /\ editions' = [p \in Pages |-> [i \in DOMAIN editions[p] |->
                               [editions[p][i] EXCEPT !.articles = @ \ gone]]]
    /\ UNCHANGED <<main, shown, read, task, turns, now, restarts>>

\* PruneItems and CapItemsPerFeed: whichever articles the retention rules let
\* go of, sparing those on an edition.  A row deleted takes its places on
\* editions with it (ON DELETE CASCADE).
PruneItems ==
    /\ Sweeping
    /\ \E gone \in SUBSET {a \in items : ~Placed(a)} :
           /\ gone # {}
           /\ items' = items \ gone
           /\ editions' = [p \in Pages |-> [i \in DOMAIN editions[p] |->
                               [editions[p][i] EXCEPT !.articles = @ \ gone]]]
    /\ UNCHANGED <<main, shown, read, task, turns, now, restarts>>

\* The process dies and comes back: what was being composed is lost, the
\* databases are not.
Restart ==
    /\ restarts < MaxRestarts
    /\ restarts' = restarts + 1
    /\ task' = [w \in Workers |-> Idle]
    /\ turns' = {}
    /\ UNCHANGED <<main, derived, now>>

Next ==
    \/ DuePages
    \/ \E p \in Pages : TakeTurn(p) \/ BecomesDue(p)
    \/ \E h \in Handlers, p \in Pages : StartReroll(h, p) \/ PatchFilter(h, p)
    \/ \E w \in Workers : Step(w)
    \/ \E r \in Readers : SetRead(r) \/ SetUnread(r) \/ SwitchOff(r) \/ SwitchOn(r)
    \/ \E r \in Readers, f \in Feeds : MarkFeedRead(r, f) \/ UnmarkFeedRead(r, f)
    \/ \E f \in Feeds : SaveItems(f)
    \/ Tick
    \/ PruneOldEditions \/ PruneItems
    \/ Restart

Spec == Init /\ [][Next]_vars

\* A goroutine that can go on does, the sweep comes round every hour, and a
\* request handler is never abandoned half way.  Strong for DuePages because
\* Room, which the code does not have, may hold it back again and again.
Fairness ==
    /\ SF_vars(DuePages)
    /\ WF_vars(\E p \in Pages : TakeTurn(p))
    /\ \A w \in Workers : WF_vars(Step(w))
    /\ WF_vars(PruneOldEditions)

LiveSpec == Spec /\ Fairness

(***************************************************************************)
(* Properties.                                                             *)
(***************************************************************************)
\* Every table holds what its columns can, an edition never has more places
\* than it was asked for, and a worker's locals are set exactly where its
\* handler has them.
TypeOK ==
    /\ filter \in [Pages -> Filters]
    /\ due \subseteq Pages /\ disabled \subseteq Readers
    /\ items \subseteq Articles
    /\ editions \in [Pages -> Seq(Edition)]
    /\ \A p \in Pages : \A i \in DOMAIN editions[p] :
           Cardinality(editions[p][i].articles) <= EditionSize
    /\ shown \in [Pages -> SUBSET Articles]
    /\ read \in [Readers -> SUBSET Articles]
    /\ task \in [Workers -> Task]
    /\ \A w \in Workers : Formed(task[w])
    /\ turns \subseteq Pages
    /\ now \in Nat /\ restarts \in Nat

\* A card on any edition has its article: CurrentEdition joins the two, and a
\* row missing on one side is a hole in a page somebody is reading.
EditionsStand ==
    \A p \in Pages : \A i \in DOMAIN editions[p] : editions[p][i].articles \subseteq items

\* A scheduled turn cannot fail on an article collected under it: between
\* Queues and AddEdition nothing the scheduler drew can go, because the sweep
\* is the same goroutine.
TurnPicksStand ==
    task[Scheduler].at = "commit" => task[Scheduler].picks \subseteq items

\* What a worker has composed and not yet written; an empty page is composed
\* of nothing.
Offer(w) ==
    CASE task[w].at = "commit" -> [page |-> task[w].page, show |-> task[w].picks]
      [] task[w].at = "drop" -> [page |-> task[w].page, show |-> {}]
      [] OTHER -> None

\* The page a reader sees changes only as a whole, and only to what somebody
\* composed for it: collecting old editions, pruning articles, fetching and a
\* restart in the middle of a compose leave every card of the live edition
\* where it is.
LP == INSTANCE LivePage WITH live <- [p \in Pages |-> Live(p)],
                             offer <- [w \in Workers |-> Offer(w)]
LivePageSpec == LP!Spec

\* Two composes of one page may commit in the other order than they were
\* stamped in; the page shown never goes back to an earlier stamp for it.
LiveMovesForward ==
    [][\A p \in Pages : editions[p] # <<>> /\ editions'[p] # <<>>
            => Current(p)'.at >= Current(p).at]_vars

\* A page that is due and has something to be made of gets its turn, or its
\* last article goes, or its owner's account is switched off.
DuePagesTurn ==
    \A p \in Pages :
        (p \in due) ~> (p \notin due \/ Drawable(p) = {} \/ OwnerOf[p] \in disabled)

\* store/editions.go, DropEditions: an edition "chosen under the old filter" is
\* not left up, which "would be showing somebody a page they have just told
\* the program not to want".  Once no worker is composing it, a page shows
\* only what its filter takes.
FilterHonoured ==
    \A p \in Pages : (\A w \in Workers : task[w].page # p)
        => \A a \in Live(p) : FeedOf[a] \in filter[p]
=============================================================================
