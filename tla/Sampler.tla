------------------------------ MODULE Sampler ------------------------------
(***************************************************************************)
(* edition.Select: three passes over the feeds' queues, each a line the    *)
(* feeds are laid along, one number thrown at it a turn.  Which feed a     *)
(* number lands on is the choice of Turn; a feed of priority zero has no   *)
(* length to land on.                                                      *)
(***************************************************************************)
EXTENDS Sequences, Selection

CONSTANTS
    Feeds, Articles,
    Priorities,   \* the priorities subscriptions are followed at
    Offers        \* what the feeds may have queued: see queue

Bands == 1 .. 3   \* Fresh, Unread, Read

ASSUME SamplerAssumption ==
    /\ IsFiniteSet(Feeds)
    /\ DOMAIN LinkOf = Articles
    /\ EditionSize \in Nat
    /\ Priorities \subseteq [Feeds -> Nat]
    /\ Offers \subseteq [Feeds -> [Bands -> Seq(Articles)]]

VARIABLES
    priority,   \* Source.Priority
    queue,      \* queue[f][b]: band b of feed f, in the order the page wants it
    band,       \* the pass, or 4 when there are no more
    live,       \* who is still on the line
    cursor,     \* how far into the band's queue each feed is
    picks,      \* the articles placed, by rank
    turns       \* turns taken around the loop, over the page

vars == <<priority, queue, band, live, cursor, picks, turns>>

OnLine == {f \in Feeds : priority[f] > 0}

Placed == {picks[i] : i \in DOMAIN picks}

\* Mutant of Taken: a piece is known by its row.
TakenRow(a) == a \in Placed

\* A piece is known by its link.
Taken(a) == LinkOf[a] \in Links(Placed)

Items(f) == queue[f][band]

\* What of f's queue is still to come and not on the page already.
Waiting(f) == {i \in DOMAIN Items(f) : i > cursor[f] /\ ~Taken(Items(f)[i])}

Full == Len(picks) >= EditionSize

Init ==
    /\ priority \in Priorities /\ queue \in Offers
    /\ band = 1
    /\ live = OnLine
    /\ cursor = [f \in Feeds |-> 0]
    /\ picks = <<>>
    /\ turns = 0

\* The number lands on f, which has something for the page.
Place(f) ==
    /\ band \in Bands /\ ~Full /\ f \in live
    /\ \E i \in Waiting(f) :
           /\ \A j \in Waiting(f) : i <= j
           /\ picks' = Append(picks, Items(f)[i])
           /\ cursor' = [cursor EXCEPT ![f] = i]
    /\ turns' = turns + 1
    /\ UNCHANGED <<priority, queue, band, live>>

\* Mutant of TakeOff: a turn that places nothing leaves the line as it was.
LeaveOn(f) ==
    /\ band \in Bands /\ ~Full /\ f \in live
    /\ Waiting(f) = {}
    /\ turns' = turns + 1
    /\ UNCHANGED <<priority, queue, band, live, cursor, picks>>

\* The number lands on f, which has nothing left: it comes off the line.
TakeOff(f) ==
    /\ band \in Bands /\ ~Full /\ f \in live
    /\ Waiting(f) = {}
    /\ live' = live \ {f}
    /\ cursor' = [cursor EXCEPT ![f] = Len(Items(f))]
    /\ turns' = turns + 1
    /\ UNCHANGED <<priority, queue, band, picks>>

NextBand ==
    /\ band \in Bands
    /\ Full \/ live = {}
    /\ band' = band + 1
    /\ live' = OnLine
    /\ cursor' = [f \in Feeds |-> 0]
    /\ UNCHANGED <<priority, queue, picks, turns>>

Turn == \E f \in Feeds : Place(f) \/ TakeOff(f)

Next == Turn \/ NextBand

Spec == Init /\ [][Next]_vars

(***************************************************************************)
(* Properties.                                                             *)
(***************************************************************************)
\* The articles of a band, over the feeds that are not set to never.
Band(b) == {a \in Articles : \E f \in Feeds : \E i \in DOMAIN queue[f][b] :
                                 priority[f] # 0 /\ queue[f][b][i] = a}

\* Every local of Select has what its type and its bounds allow.
TypeOK ==
    /\ priority \in [Feeds -> Nat]
    /\ queue \in [Feeds -> [Bands -> Seq(Articles)]]
    /\ band \in 1 .. 4
    /\ live \subseteq OnLine
    /\ cursor \in [Feeds -> Nat]
    /\ picks \in Seq(Articles) /\ Len(picks) <= EditionSize
    /\ turns \in Nat

\* The page, when the passes are over, is one Editions may compose: at most
\* EditionSize places, one place for a piece however many feeds carry it, the
\* bands in their order across every feed, and short only when every queue is
\* dry.
ChoosesASelection == band = 4 => Placed \in Selections(Band(1), Band(2), Band(3))

\* "A count, not a probability": every turn places an article or shortens the
\* line, so a page takes at most EditionSize turns and one a band for each
\* feed.
WorkIsBounded == turns <= EditionSize + 3 * Cardinality(Feeds)
=============================================================================
