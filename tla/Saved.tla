------------------------------- MODULE Saved -------------------------------
(***************************************************************************)
(* store/saved.go: the page of saved articles of one person.  A save and   *)
(* its page are rows of main.db; the articles, and what the page shows of  *)
(* them, are in derived.db.  Saves, looks at the page, its turns, the      *)
(* publisher and the sweep interleave, and no transaction spans the two.   *)
(* Select places one piece once, and a piece is what a link leads to       *)
(* (Sampler): of the saved articles that link to one place any may be      *)
(* taken, and of pieces that do not fit any; the marks it goes by are left *)
(* out.                                                                    *)
(***************************************************************************)
EXTENDS Sequences, FiniteSetsExt, Functions

CONSTANTS
    Guids,        \* what publishers call articles; an id is derived from a guid
    Origin,       \* Origin[g]: the feed the article of guid g, or of id g, is of
    Link,         \* Link[g]: where it links to, whatever its feed calls it later
    Saves,        \* save requests in flight at once
    Compositions, \* compositions in flight at once
    SavedPages,   \* the ids the page may ever have
    PageSize,     \* its EditionSize
    MaxEditions,  \* bound: editions of a page between two sweeps
    Nowhere

ASSUME SavedAssumption ==
    /\ IsFiniteSet(Guids) /\ DOMAIN Origin = Guids /\ DOMAIN Link = Guids
    /\ PageSize \in Nat \ {0} /\ MaxEditions \in Nat \ {0}
    /\ Nowhere \notin SavedPages \cup Guids

VARIABLES
    held,       \* items: the guid of each article held, by id
    saved,      \* the saved table: the guid of each copy kept, by id
    home,       \* the row of pages with is_saved, or Nowhere
    past,       \* the ids that row has had
    editions,   \* what each page has composed, the newest last: sets of ids
    saving,     \* what each save is at
    composing,  \* what each composition is at
    sweeping,   \* what the sweep is at, and the pages it listed
    settled     \* history: saves that whatever is composed from now on has read

mainVars == <<saved, home, past>>
savedVars == <<held, mainVars, editions, saving, composing, sweeping, settled>>

\* Rows by id.
Rows == UNION {[ids -> Guids] : ids \in SUBSET Guids}

NoSave == [at |-> "idle", id |-> Nowhere, guid |-> Nowhere, page |-> Nowhere]
NoComposition == [at |-> "idle", page |-> Nowhere, kept |-> <<>>]
NoSweep == [at |-> "idle", live |-> {}]

SavedInit ==
    /\ held = <<>> /\ saved = <<>>
    /\ home = Nowhere /\ past = {}
    /\ editions = [p \in SavedPages |-> <<>>]
    /\ saving = [q \in Saves |-> NoSave]
    /\ composing = [c \in Compositions |-> NoComposition]
    /\ sweeping = NoSweep
    /\ settled = {}

With(rows, i, g) == [j \in DOMAIN rows \cup {i} |-> IF j = i THEN g ELSE rows[j]]

\* What any edition holds, the ones a page has moved on from too.
Carded == UNION {UNION Range(editions[p]) : p \in SavedPages}

(***************************************************************************)
(* SaveArticle.                                                            *)
(***************************************************************************)
\* The article is looked up, to be copied.
BeginSave(q, i) ==
    /\ saving[q].at = "idle" /\ i \in DOMAIN held
    /\ saving' = [saving EXCEPT ![q] = [NoSave EXCEPT !.at = "keep", !.id = i, !.guid = held[i]]]
    /\ UNCHANGED <<held, mainVars, editions, composing, sweeping, settled>>

\* ensureSavedPage.
EnsureSavedPage(p) ==
    \/ home # Nowhere /\ p = home /\ UNCHANGED <<home, past>>
    \/ home = Nowhere /\ p \notin past /\ home' = p /\ past' = past \cup {p}

\* The transaction: the copy, unless there is one, and the page it goes on.
\* A second save is done with that.
KeepCopy(q) ==
    /\ saving[q].at = "keep"
    /\ \E p \in SavedPages :
           /\ EnsureSavedPage(p)
           /\ IF saving[q].id \in DOMAIN saved
              THEN saved' = saved /\ saving' = [saving EXCEPT ![q] = NoSave]
              ELSE /\ saved' = With(saved, saving[q].id, saving[q].guid)
                   /\ saving' = [saving EXCEPT ![q] = [NoSave EXCEPT !.at = "drop", !.id = saving[q].id, !.page = p]]
    /\ UNCHANGED <<held, editions, composing, sweeping, settled>>

\* Compositions that will not have i: they had read what is saved before.
Without(i) == {c \in Compositions : composing[c].at \in {"items", "add"} /\ i \notin DOMAIN composing[c].kept}

\* Kept still, dropped from the page there is or read for it, and no
\* composition but that of c lacks it.
Settles(i, p, c) == i \in DOMAIN saved /\ p = home /\ Without(i) \subseteq c

\* Mutant of DropEditions: what the page has moved on from is dropped.
DropOldOnly(q) ==
    /\ saving[q].at = "drop"
    /\ editions' = [editions EXCEPT ![saving[q].page] = IF @ = <<>> THEN @ ELSE <<@[Len(@)]>>]
    /\ settled' = settled \cup {i \in {saving[q].id} : Settles(i, saving[q].page, {})}
    /\ saving' = [saving EXCEPT ![q] = NoSave]
    /\ UNCHANGED <<held, mainVars, composing, sweeping>>

\* DropEditions, so that the next look composes the page again.  The SetRead
\* before it writes a mark nothing here reads, and may fail (SaveFails).
DropEditions(q) ==
    /\ saving[q].at = "drop"
    /\ editions' = [editions EXCEPT ![saving[q].page] = <<>>]
    /\ settled' = settled \cup {i \in {saving[q].id} : Settles(i, saving[q].page, {})}
    /\ saving' = [saving EXCEPT ![q] = NoSave]
    /\ UNCHANGED <<held, mainVars, composing, sweeping>>

\* Either database may refuse: kept, and not yet on its page.
SaveFails(q) ==
    /\ saving[q].at # "idle"
    /\ saving' = [saving EXCEPT ![q] = NoSave]
    /\ UNCHANGED <<held, mainVars, editions, composing, sweeping, settled>>

\* The page is left alone.
UnsaveArticle(i) ==
    /\ i \in DOMAIN saved
    /\ saved' = Restrict(saved, DOMAIN saved \ {i})
    /\ settled' = settled \ {i}
    /\ UNCHANGED <<held, home, past, editions, saving, composing, sweeping>>

\* DeletePage; what was saved stays, and the next save makes another page.
DeleteSavedPage ==
    /\ home # Nowhere /\ home' = Nowhere
    /\ UNCHANGED <<held, saved, past, editions, saving, composing, sweeping, settled>>

(***************************************************************************)
(* compose, for a look at a page with no edition, for its turn or on       *)
(* request.                                                                *)
(***************************************************************************)
BeginComposition(c) ==
    /\ composing[c].at = "idle" /\ home # Nowhere
    /\ composing' = [composing EXCEPT ![c] = [NoComposition EXCEPT !.at = "saved", !.page = home]]
    /\ UNCHANGED <<held, mainVars, editions, saving, sweeping, settled>>

\* SavedQueues, first the copies.  With nothing saved nothing is composed.
ReadSaved(c) ==
    /\ composing[c].at = "saved"
    /\ composing' = [composing EXCEPT ![c] =
           IF saved = <<>> THEN NoComposition ELSE [@ EXCEPT !.at = "items", !.kept = saved]]
    /\ UNCHANGED <<held, mainVars, editions, saving, sweeping, settled>>

\* Then the articles that are still held, which stand before their copies.
Fresh(rows) == [i \in DOMAIN rows |-> IF i \in DOMAIN held THEN held[i] ELSE rows[i]]

ReadItems(c) ==
    /\ composing[c].at = "items"
    /\ composing' = [composing EXCEPT ![c] = [@ EXCEPT !.at = "add", !.kept = Fresh(composing[c].kept)]]
    /\ UNCHANGED <<held, mainVars, editions, saving, sweeping, settled>>

\* INSERT OR IGNORE leaves a guid that is held as it is, under whatever id:
\* the copy is then not put back, and placing it fails.
CanPlace(rows, ids) ==
    LET missing == ids \ DOMAIN held
    IN /\ \A i \in missing : rows[i] \notin Range(held)
       /\ \A i, j \in missing : rows[i] = rows[j] => i = j

PutBack(rows, ids) == [i \in DOMAIN held \cup ids |-> IF i \in DOMAIN held THEN held[i] ELSE rows[i]]

\* The pieces articles are of, by identify.
Pieces(ids) == {Link[i] : i \in ids}

\* Select, of as many sources of one article each: pieces until the page is
\* full or there are no more.
PicksOf(ids) ==
    {picks \in kSubset(Min({PageSize, Cardinality(Pieces(ids))}), ids) :
        \A i, j \in picks : Link[i] = Link[j] => i = j}

\* AddEdition, in one transaction.
AddSavedEdition(c) ==
    LET kept == composing[c].kept
        page == composing[c].page
    IN /\ composing[c].at = "add" /\ Len(editions[page]) < MaxEditions
       /\ \E picks \in PicksOf(DOMAIN kept) :
              /\ CanPlace(kept, picks)
              /\ held' = PutBack(kept, picks)
              /\ editions' = [editions EXCEPT ![page] = Append(@, picks)]
       /\ composing' = [composing EXCEPT ![c] = NoComposition]
       /\ settled' = settled \cup {i \in DOMAIN kept : Settles(i, page, {c})}
       /\ UNCHANGED <<mainVars, saving, sweeping>>

\* A look or a turn that fails leaves the page as it was.
CompositionFails(c) ==
    /\ composing[c].at # "idle"
    /\ composing' = [composing EXCEPT ![c] = NoComposition]
    /\ UNCHANGED <<held, mainVars, editions, saving, sweeping, settled>>

(***************************************************************************)
(* The feeds and the sweep.                                                *)
(***************************************************************************)
\* SaveItems, of one article whose feed lists no other with its link.  A guid
\* never seen is the new name of an article of that feed that links to the
\* same (renameByLink), which keeps its id; else it is a new article.
Ingest(g) ==
    LET before == {i \in DOMAIN held : Origin[i] = Origin[g] /\ Link[i] = Link[g]}
    IN /\ g \notin Range(held)
       /\ \E i \in IF before = {} THEN {g} ELSE before : held' = With(held, i, g)
       /\ UNCHANGED <<mainVars, editions, saving, composing, sweeping, settled>>

\* LivePageIDs, before anything is collected.
ListPages ==
    /\ sweeping.at = "idle"
    /\ sweeping' = [at |-> "old", live |-> {home} \cap SavedPages]
    /\ UNCHANGED <<held, mainVars, editions, saving, composing, settled>>

PruneOldEditions ==
    /\ sweeping.at = "old" /\ sweeping' = [sweeping EXCEPT !.at = "gone"]
    /\ editions' = [p \in SavedPages |->
           IF editions[p] = <<>> THEN <<>> ELSE <<editions[p][Len(editions[p])]>>]
    /\ UNCHANGED <<held, mainVars, saving, composing, settled>>

DeleteEditionsExcept ==
    /\ sweeping.at = "gone" /\ sweeping' = [NoSweep EXCEPT !.at = "items"]
    /\ editions' = [p \in SavedPages |-> IF p \in sweeping.live THEN editions[p] ELSE <<>>]
    /\ UNCHANGED <<held, mainVars, saving, composing, settled>>

\* Mutant of PruneItem: what an edition holds goes too, and its place on it.
PruneAnyItem(i) ==
    /\ sweeping.at = "items" /\ i \in DOMAIN held
    /\ held' = Restrict(held, DOMAIN held \ {i})
    /\ editions' = [p \in SavedPages |-> [n \in DOMAIN editions[p] |-> editions[p][n] \ {i}]]
    /\ UNCHANGED <<mainVars, saving, composing, sweeping, settled>>

\* PruneItems and CapItemsPerFeed: any article, by its age, its feed or their
\* number, but what an edition holds.
PruneItem(i) ==
    /\ sweeping.at = "items" /\ i \in DOMAIN held \ Carded
    /\ held' = Restrict(held, DOMAIN held \ {i})
    /\ UNCHANGED <<mainVars, editions, saving, composing, sweeping, settled>>

EndSweep ==
    /\ sweeping.at = "items" /\ sweeping' = NoSweep
    /\ UNCHANGED <<held, mainVars, editions, saving, composing, settled>>

\* The process stops: what is in the databases stays.
StopSaving ==
    /\ saving' = [q \in Saves |-> NoSave]
    /\ composing' = [c \in Compositions |-> NoComposition]
    /\ sweeping' = NoSweep
    /\ UNCHANGED <<held, mainVars, editions, settled>>

SavedNext ==
    \/ \E q \in Saves : KeepCopy(q) \/ DropEditions(q) \/ SaveFails(q) \/ \E i \in Guids : BeginSave(q, i)
    \/ \E c \in Compositions : BeginComposition(c) \/ ReadSaved(c) \/ ReadItems(c) \/ AddSavedEdition(c)
                                   \/ CompositionFails(c)
    \/ \E i \in Guids : UnsaveArticle(i) \/ Ingest(i) \/ PruneItem(i)
    \/ DeleteSavedPage \/ ListPages \/ PruneOldEditions \/ DeleteEditionsExcept \/ EndSweep
    \/ StopSaving

SavedSpec == SavedInit /\ [][SavedNext]_savedVars

(***************************************************************************)
(* Properties.                                                             *)
(***************************************************************************)
\* The tables and what is in flight.  Whatever an edition places is held,
\* put back or never gone, while the sweep collects and copies come from a
\* look at the articles that is out of date; no two articles have one guid.
SavedTypeOK ==
    /\ held \in Rows /\ saved \in Rows
    /\ \A i, j \in DOMAIN held : held[i] = held[j] => i = j
    /\ past \subseteq SavedPages /\ home \in past \cup {Nowhere}
    /\ editions \in [SavedPages -> Seq(SUBSET DOMAIN held)]
    /\ saving \in [Saves -> [at : {"idle", "keep", "drop"}, id : Guids \cup {Nowhere},
                             guid : Guids \cup {Nowhere}, page : SavedPages \cup {Nowhere}]]
    /\ composing \in [Compositions -> [at : {"idle", "saved", "items", "add"},
                                       page : SavedPages \cup {Nowhere}, kept : Rows]]
    /\ sweeping \in [at : {"idle", "old", "gone", "items"}, live : SUBSET SavedPages]
    /\ settled \subseteq DOMAIN saved

\* "The next look at it composes one that has the new save on it"
\* (store/saved.go:43), and where the save stopped before its drop the next
\* turn does (:90): a page with room to spare has the piece of every save
\* whose drop came, or that went into an edition, after the last composition
\* that had not read it, whatever turns, other saves, sweeps, new names and
\* deletions of the page came between.  Two saves of one piece take one place.
SettledIsUp ==
    home # Nowhere /\ editions[home] # <<>> =>
        LET current == editions[home][Len(editions[home])]
        IN Pieces(settled) \subseteq Pieces(current) \/ Cardinality(current) = PageSize

\* No article vanishes from a composed page: the page is replaced by a newer
\* one or dropped, and never loses a card of its own.
CardsStand ==
    [][\A p \in SavedPages :
           \/ editions[p] = <<>> \/ editions'[p] = <<>>
           \/ Len(editions'[p]) > Len(editions[p])
           \/ editions'[p][Len(editions'[p])] = editions[p][Len(editions[p])]]_savedVars

\* "Composing the saved page puts the article back into items from it"
\* (docs/entities.md:490): a copy that is saved and not held any more is never
\* refused by the table it goes back into, whose guids are unique.
CopiesGoBack == \A i \in DOMAIN saved : CanPlace(saved, {i})
=============================================================================
