------------------------------- MODULE Erasure -------------------------------
(***************************************************************************)
(* What accounts leave in derived.db, and its erasing.  The accounts and   *)
(* their pages are rows of main.db; what a page has composed and shown,    *)
(* and what its owner has read, are rows of derived.db that name them with *)
(* no foreign key.  The sweep takes an account out of main.db first and    *)
(* its rows out of derived.db after, and then collects whatever is not on  *)
(* two lists that it reads one after the other; requests compose, read,    *)
(* and make and delete pages all the while.  (A reader's own unmarking,    *)
(* unfollowing and dropping of editions, the pruning of old editions and   *)
(* shown rows by their number, and the collection of what was read on      *)
(* feeds that are gone, take rows too and are left out.)                   *)
(***************************************************************************)
EXTENDS Accounts, Sequences

CONSTANTS
    Pages,         \* the pages there may ever be beside the main ones
    New, Gone      \* a page there is no row of yet, or no longer

ASSUME ErasureAssumption ==
    /\ Pages \cap Accounts = {} /\ None \notin Pages
    /\ {New, Gone} \cap Accounts = {} /\ New # Gone

VARIABLES
    page,          \* pages: whose it is, while its owner is there
    derived,       \* derived.db: what it has rows of, by table and id
    composing,     \* the page each request composes
    sweep,         \* what the scheduler is at
    unlisted       \* history: what was made since the sweep listed the pages

erasureVars == <<vars, page, derived, composing, sweep, unlisted>>

\* The id of a main page follows from its account's, and stands for it here.
Ids == Accounts \cup Pages

Owner(x) == IF x \in Accounts THEN x ELSE page[x]

\* A page goes with its owner by cascade.
There(x) == Exists(Owner(x))

\* The tables in the order in which they are gone through.
TableOrder == <<"editions", "shown", "read">>
PageTables == {"editions", "shown"}

Composed(x) == PageTables \X {x}
Kinds == PageTables \X Ids \cup {"read"} \X Accounts

NoSweep == [at |-> "idle", target |-> None, pages |-> {}, people |-> {}, left |-> <<>>]

ErasureInit ==
    /\ Init
    /\ page = [p \in Pages |-> New]
    /\ derived = {} /\ unlisted = {}
    /\ composing = [h \in Handlers |-> None]
    /\ sweep = NoSweep

(***************************************************************************)
(* Requests.                                                               *)
(***************************************************************************)
derivedVars == <<derived, composing, sweep>>

\* setRead: whoever the session was of when the request came in.
Read(h) ==
    /\ composing[h] = None /\ Use(h)
    /\ derived' = derived \cup {<<"read", request[h].by>>}
    /\ UNCHANGED <<page, composing, sweep>>

\* Regenerate, of one's own page, and a look at a page of saved articles with no
\* edition, by whoever it is published to: the page is read, and its edition
\* written a while later.
BeginCompose(h, x) ==
    /\ request[h].at = "in" /\ composing[h] = None
    /\ There(x) /\ (Owner(x) = request[h].by \/ x \in Pages)
    /\ composing' = [composing EXCEPT ![h] = x]
    /\ UNCHANGED <<vars, page, derived, sweep>>

\* AddEdition, in one transaction.
AddEdition(h) ==
    /\ composing[h] # None /\ Use(h)
    /\ derived' = derived \cup Composed(composing[h])
    /\ composing' = [composing EXCEPT ![h] = None]
    /\ UNCHANGED <<page, sweep>>

\* The foreign key refuses a page to an account that has gone.
CreatePage(h, p) ==
    /\ composing[h] = None /\ Use(h)
    /\ page[p] = New /\ Exists(request[h].by)
    /\ page' = [page EXCEPT ![p] = request[h].by]
    /\ UNCHANGED derivedVars

DeletePage(h, p) ==
    /\ composing[h] = None /\ Use(h)
    /\ There(p) /\ page[p] = request[h].by
    /\ page' = [page EXCEPT ![p] = Gone]
    /\ UNCHANGED derivedVars

Fails(h) ==
    /\ GivesUp(h)
    /\ composing' = [composing EXCEPT ![h] = None]
    /\ UNCHANGED <<page, derived, sweep>>

\* What leaves derived.db alone.
InMain(h) ==
    /\ composing[h] = None /\ Handler(h)
    /\ UNCHANGED <<page, derivedVars>>

(***************************************************************************)
(* PurgeDeletedAccounts.                                                   *)
(***************************************************************************)
BeginSweep ==
    /\ sweep.at = "idle" /\ ListDue
    /\ sweep' = [sweep EXCEPT !.at = "erase"]
    /\ UNCHANGED <<page, derived, composing>>

\* pageIDsOf, read before the delete: of whom there is no account there are none.
PagesOf(a) ==
    /\ sweep.at = "erase" /\ a \in erasing
    /\ sweep' = [sweep EXCEPT !.at = "delete", !.target = a,
                              !.pages = {x \in Ids : There(x) /\ Owner(x) = a}]
    /\ UNCHANGED <<vars, page, derived, composing>>

\* Mutant of EraseAccount: refused while a page of one's own is there.
EraseChildless(a) ==
    /\ sweep.at = "delete" /\ sweep.target = a /\ sweep.pages \subseteq {a} /\ Erase(a)
    /\ sweep' = [sweep EXCEPT !.at = "purge", !.left = IF sweep.pages = {} THEN <<"read">> ELSE TableOrder]
    /\ UNCHANGED <<page, derived, composing>>

EraseAccount(a) ==
    /\ sweep.at = "delete" /\ sweep.target = a /\ Erase(a)
    /\ sweep' = [sweep EXCEPT !.at = "purge", !.left = IF sweep.pages = {} THEN <<"read">> ELSE TableOrder]
    /\ UNCHANGED <<page, derived, composing>>

\* DELETE FROM the next table, and on.
Deletes(rows, then) ==
    LET t == Head(sweep.left)
    IN /\ derived' = derived \ ({t} \X rows)
       /\ sweep' = IF Len(sweep.left) > 1 THEN [sweep EXCEPT !.left = Tail(@)] ELSE [NoSweep EXCEPT !.at = then]
       /\ UNCHANGED <<vars, page, composing>>

\* A page made between the list and the delete is not on the list.
PurgeDerived ==
    /\ sweep.at = "purge"
    /\ Deletes(IF Head(sweep.left) \in PageTables THEN sweep.pages ELSE {sweep.target}, "erase")

\* The first error ends the erasing.
PurgeFails ==
    /\ sweep.at \in {"erase", "delete", "purge"} /\ ErasingFails
    /\ sweep' = [NoSweep EXCEPT !.at = "list"]
    /\ UNCHANGED <<page, derived, composing>>

(***************************************************************************)
(* The collection.                                                         *)
(***************************************************************************)
Erased == sweep.at = "list" \/ (sweep.at = "erase" /\ erasing = {})

LivePageIDs ==
    /\ Erased
    /\ sweep' = [NoSweep EXCEPT !.at = "people", !.pages = {x \in Ids : There(x)}]
    /\ UNCHANGED <<vars, page, derived, composing>>

ListPrincipals ==
    /\ sweep.at = "people"
    /\ sweep' = [sweep EXCEPT !.at = "collect", !.left = TableOrder,
                              !.people = {a \in Accounts : Exists(a)}]
    /\ UNCHANGED <<vars, page, derived, composing>>

\* Mutant of Unlisted: one list for both, that of the accounts.
UnlistedAccounts(t) == Ids \ sweep.people

\* NOT IN the list that goes with the table; everything, if either is empty.
Unlisted(t) ==
    IF sweep.pages = {} \/ sweep.people = {} THEN Ids
    ELSE IF t \in PageTables THEN Ids \ sweep.pages ELSE Ids \ sweep.people

\* Mutant of DeleteEditionsExcept: what was read is left to purgeDerived.
DeleteUnread ==
    sweep.at = "collect" /\ Deletes(IF Head(sweep.left) = "read" THEN {} ELSE Unlisted(Head(sweep.left)), "idle")

DeleteEditionsExcept ==
    sweep.at = "collect" /\ Deletes(Unlisted(Head(sweep.left)), "idle")

\* The sweep goes on with what is not modelled here, or ends.
SweepFails ==
    /\ sweep.at \in {"list", "people", "collect"}
    /\ sweep' = NoSweep
    /\ UNCHANGED <<vars, page, derived, composing>>

(***************************************************************************)
(* Composing a page that is due, which the same goroutine does between two *)
(* sweeps, by a list that may be older than what has become of its owner.  *)
(***************************************************************************)
DuePage(x) ==
    /\ sweep.at = "idle" /\ There(x)
    /\ sweep' = [sweep EXCEPT !.at = "compose", !.target = x]
    /\ UNCHANGED <<vars, page, derived, composing>>

SaveEdition ==
    /\ sweep.at = "compose"
    /\ derived' = derived \cup Composed(sweep.target)
    /\ sweep' = NoSweep
    /\ UNCHANGED <<vars, page, composing>>

DueFails ==
    /\ sweep.at = "compose"
    /\ sweep' = NoSweep
    /\ UNCHANGED <<vars, page, derived, composing>>

(***************************************************************************)
(* The rest.                                                               *)
(***************************************************************************)
Stops ==
    /\ Restart
    /\ composing' = [h \in Handlers |-> None] /\ sweep' = NoSweep
    /\ UNCHANGED <<page, derived>>

Elsewhere ==
    /\ \/ \E a \in Accounts : FallsDue(a) \/ \E w \in Passwords : UseRecoveryLink(a, w)
       \/ SweepSessions \/ \E t \in Tokens : Lapse(t)
    /\ UNCHANGED <<page, derivedVars>>

\* With a note of what comes to be there while the sweep has its lists.
Noted(Step) ==
    /\ Step
    /\ unlisted' = IF {sweep.at, sweep'.at} \subseteq {"people", "collect"}
                   THEN unlisted \cup {x \in Ids : ~There(x) /\ There(x)'} ELSE {}

Requests(h) ==
    \/ Read(h) \/ AddEdition(h) \/ Fails(h) \/ InMain(h)
    \/ \E x \in Ids : BeginCompose(h, x)
    \/ \E p \in Pages : CreatePage(h, p) \/ DeletePage(h, p)

Sweeping ==
    \/ BeginSweep \/ PurgeDerived \/ PurgeFails
    \/ \E a \in Accounts : PagesOf(a) \/ EraseAccount(a)
    \/ LivePageIDs \/ ListPrincipals \/ DeleteEditionsExcept \/ SweepFails
    \/ SaveEdition \/ DueFails \/ \E x \in Ids : DuePage(x)

ErasureStep == Sweeping \/ Stops \/ Elsewhere \/ \E h \in Handlers : Requests(h)

ErasureNext == Noted(ErasureStep)

ErasureSpec == ErasureInit /\ [][ErasureNext]_erasureVars

(***************************************************************************)
(* The week passes, and the sweep comes round every hour.  Restarts and    *)
(* failures of the databases may be endless, but again and again a sweep   *)
(* gets through its collection, and no statement of the erasing of one     *)
(* account fails whenever it is tried.                                     *)
(***************************************************************************)
CollectsAll == Noted(DeleteEditionsExcept /\ Len(sweep.left) = 1)

ErasureFairness ==
    /\ []<><<CollectsAll>>_erasureVars
    /\ \A a \in Accounts :
           /\ SF_erasureVars(Noted(PagesOf(a))) /\ SF_erasureVars(Noted(EraseAccount(a)))
           /\ WF_erasureVars(Noted(FallsDue(a) /\ UNCHANGED <<page, derivedVars>>))

FairErasureSpec == ErasureSpec /\ ErasureFairness

(***************************************************************************)
(* Properties.                                                             *)
(***************************************************************************)
\* The pages, the rows of derived.db, and what the requests and the scheduler
\* hold; what a statement is to delete is known when it comes to it, and no
\* account is left to be erased once the sweep goes on to its lists.
ErasureTypeOK ==
    /\ page \in [Pages -> Accounts \cup {New, Gone}]
    /\ derived \subseteq Kinds /\ unlisted \subseteq Ids
    /\ composing \in [Handlers -> Ids \cup {None}]
    /\ sweep \in [at : {"idle", "erase", "delete", "purge", "list", "people", "collect", "compose"},
                  target : Ids \cup {None}, pages : SUBSET Ids, people : SUBSET Accounts,
                  left : Seq(PageTables \cup {"read"})]
    /\ sweep.at \in {"purge", "collect"} <=> sweep.left # <<>>
    /\ sweep.at \in {"delete", "purge"} => sweep.target \in Accounts
    /\ sweep.at = "compose" => sweep.target \in Ids
    /\ sweep.at \notin {"erase", "delete", "purge"} => erasing = {}

\* "The other order would leave an account whose history had been erased under
\* it" (store/deletion.go:123): no row goes from under a page or an account that
\* is there, whatever has been erased, made or deleted since the sweep read its
\* two lists - but what was made after it listed the pages is on neither, and
\* loses what it has had composed and read by then.
HistoryGoesLast ==
    [][\A r \in derived \ derived' : There(r[2])' => r[2] \in unlisted]_erasureVars

\* An account whose week has run out is erased, unless it is signed into.
DueAreErased ==
    \A a \in Accounts :
        Exists(a) /\ account[a].deleted = "due"
            ~> a \in gone \/ (Exists(a) /\ account[a].deleted = "no")

\* No row is left in the end of a page or an account that has gone, whatever
\* stopped its erasure half way and whatever a request or the scheduler, begun
\* before, wrote after it.
NothingLeftBehind == <>[](\A r \in derived : There(r[2]))
=============================================================================
