----------------------------- MODULE Selection -----------------------------
(***************************************************************************)
(* What edition.Select may put on a page, as a set: Editions.tla composes  *)
(* pages of it, and Sampler.tla, which has the fill rounds themselves, is  *)
(* shown to choose nothing else.                                           *)
(***************************************************************************)
EXTENDS Naturals, FiniteSets

CONSTANTS
    LinkOf,       \* LinkOf[a]: what identify() makes of article a
    EditionSize   \* places on a page

Links(A) == {LinkOf[a] : a \in A}

\* Every piece among A is carried by S, in a row of its own or its mirror's.
Carries(S, A) == Links(A) \subseteq Links(S \cap A)

\* Mutant of Selections: the loop over places has no end.
SelectionsUnbounded(fresh, unread, seen) == {fresh \cup unread \cup seen}

\* One row for a piece; the page is full or nothing is left over; and no band
\* is reached into before the one above it is dry.
Selections(fresh, unread, seen) ==
    {S \in SUBSET (fresh \cup unread \cup seen) :
        /\ Cardinality(S) <= EditionSize
        /\ \A a, b \in S : LinkOf[a] = LinkOf[b] => a = b
        /\ Cardinality(S) = EditionSize \/ Carries(S, fresh \cup unread \cup seen)
        /\ S \subseteq fresh \/ Carries(S, fresh)
        /\ S \subseteq fresh \cup unread \/ Carries(S, fresh \cup unread)}
=============================================================================
