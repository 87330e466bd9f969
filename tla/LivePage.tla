------------------------------ MODULE LivePage ------------------------------
(***************************************************************************)
(* What a reader of bystander is promised about a page: it changes only as *)
(* a whole.  A page shows nothing, or one composed arrangement of at most  *)
(* EditionSize articles; what somebody composed for it takes its place all *)
(* at once, or comes to nothing, and it never loses or gains a single card *)
(* in between.  Editions.tla is the detailed specification that implements *)
(* this one.                                                               *)
(***************************************************************************)
EXTENDS Naturals, FiniteSets

CONSTANTS
    Pages,        \* the pages people have
    Articles,     \* every article the feeds may ever publish
    EditionSize,  \* how many places a page has
    Workers,      \* those who compose pages
    None          \* no offer

VARIABLES
    live,         \* live[p]: the articles page p is showing; {} before its first
    offer         \* offer[w]: what w has composed and not yet put up, or None

Arrangements ==
    {S \in SUBSET Articles : S # {} /\ Cardinality(S) <= EditionSize}

Init ==
    /\ live = [p \in Pages |-> {}]
    /\ offer = [w \in Workers |-> None]

\* An arrangement of a page is composed, or the decision made to empty it.
Compose(w) ==
    /\ offer[w] = None
    /\ \E p \in Pages, S \in Arrangements \cup {{}} :
           offer' = [offer EXCEPT ![w] = [page |-> p, show |-> S]]
    /\ UNCHANGED live

\* What was composed takes the page over.
PutUp(w) ==
    /\ offer[w] # None
    /\ live' = [live EXCEPT ![offer[w].page] = offer[w].show]
    /\ offer' = [offer EXCEPT ![w] = None]

\* It comes to nothing: the write failed, a page stamped later is up already,
\* or the process died.
Withdraw(W) ==
    /\ offer' = [w \in Workers |-> IF w \in W THEN None ELSE offer[w]]
    /\ UNCHANGED live

Next ==
    \/ \E w \in Workers : Compose(w) \/ PutUp(w)
    \/ \E W \in SUBSET Workers : Withdraw(W)

Spec == Init /\ [][Next]_<<live, offer>>
=============================================================================
