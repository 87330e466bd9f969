----------------------------- MODULE KeptProofs -----------------------------
(***************************************************************************)
(* What a reader keeps: the articles saved, on a page of their own, and    *)
(* the tags the feeds are filed under.                                     *)
(***************************************************************************)
EXTENDS Saved, Tags, Integers, FiniteSetTheorems, SequenceTheorems, TLAPS

(***************************************************************************)
(* The page of saved articles, for any articles, saves, compositions and   *)
(* pages it has had: what is placed is held, what is settled was seen by   *)
(* whatever will still be composed, and a page is the person's for good or *)
(* was never composed.                                                     *)
(***************************************************************************)
SavingType == [at : {"idle", "keep", "drop"}, id : Guids \cup {Nowhere},
               guid : Guids \cup {Nowhere}, page : SavedPages \cup {Nowhere}]

ComposingType == [at : {"idle", "saved", "items", "add"},
                  page : SavedPages \cup {Nowhere}, kept : Rows]

HeldOK == held \in Rows /\ \A i, j \in DOMAIN held : held[i] = held[j] => i = j

MainOK ==
    /\ saved \in Rows /\ past \subseteq SavedPages /\ home \in past \cup {Nowhere}
    /\ settled \subseteq DOMAIN saved

PagesOK ==
    /\ editions \in [SavedPages -> Seq(SUBSET DOMAIN held)]
    /\ \A p \in SavedPages \ past : editions[p] = <<>>

OneSave(r) ==
    /\ r \in SavingType
    /\ r.at = "keep" => r.id \in Guids /\ r.guid \in Guids
    /\ r.at = "drop" => r.page \in SavedPages

SavingOK == saving \in [Saves -> SavingType] /\ \A q \in Saves : OneSave(saving[q])

\* A composition is of a page the person has had, and will have what is settled.
OneComposition(r, pages, ids) ==
    /\ r \in ComposingType
    /\ r.at # "idle" => r.page \in pages
    /\ r.at \in {"items", "add"} => ids \subseteq DOMAIN r.kept

ComposingOK ==
    /\ composing \in [Compositions -> ComposingType]
    /\ \A c \in Compositions : OneComposition(composing[c], past, settled)

SweepOK == sweeping \in [at : {"idle", "old", "gone", "items"}, live : SUBSET SavedPages]

SavedInv ==
    HeldOK /\ MainOK /\ PagesOK /\ SavingOK /\ ComposingOK /\ SweepOK /\ SettledIsUp

LEMMA SavedInvGives == SavedInv => SavedTypeOK /\ SettledIsUp
  BY DEF SavedInv, SavedTypeOK, HeldOK, MainOK, PagesOK, SavingOK, ComposingOK, SweepOK,
         SavingType, ComposingType

(***************************************************************************)
(* Rows by id.                                                             *)
(***************************************************************************)
LEMMA RowsIs ==
    ASSUME NEW r PROVE r \in Rows <=> DOMAIN r \subseteq Guids /\ r \in [DOMAIN r -> Guids]
  BY DEF Rows

LEMMA NoRows == <<>> \in Rows /\ DOMAIN <<>> = {}
<1>1. <<>> \in [{} -> Guids]
  OBVIOUS
<1> QED
  BY <1>1 DEF Rows

LEMMA WithOK ==
    ASSUME NEW r \in Rows, NEW i \in Guids, NEW g \in Guids
    PROVE  With(r, i, g) \in Rows /\ DOMAIN With(r, i, g) = DOMAIN r \cup {i}
  BY RowsIs DEF With

LEMMA RestrictOK ==
    ASSUME NEW r \in Rows, NEW S \in SUBSET DOMAIN r
    PROVE  Restrict(r, S) \in Rows /\ DOMAIN Restrict(r, S) = S
  BY RowsIs DEF Restrict

LEMMA IdleOK ==
    /\ OneSave(NoSave) /\ NoSave \in SavingType
    /\ \A pages, ids : OneComposition(NoComposition, pages, ids)
    /\ NoComposition \in ComposingType
  BY NoRows DEF NoSave, NoComposition, OneSave, OneComposition, SavingType, ComposingType

LEMMA SavedStarts == SavedInit => SavedInv
<1> SUFFICES ASSUME SavedInit PROVE SavedInv
  OBVIOUS
<1>1. HeldOK /\ MainOK
  BY NoRows DEF SavedInit, HeldOK, MainOK
<1>2. PagesOK
  BY EmptySeq DEF SavedInit, PagesOK
<1>3. SavingOK /\ ComposingOK
  BY IdleOK DEF SavedInit, SavingOK, ComposingOK
<1>4. SweepOK
  BY DEF SavedInit, SweepOK, NoSweep
<1>5. SettledIsUp
  BY DEF SavedInit, SettledIsUp
<1> QED
  BY <1>1, <1>2, <1>3, <1>4, <1>5 DEF SavedInv

(***************************************************************************)
(* One request or composition moves on.                                    *)
(***************************************************************************)
LEMMA SavingMoves ==
    ASSUME SavingOK, NEW q \in Saves, NEW r, OneSave(r), saving' = [saving EXCEPT ![q] = r]
    PROVE  SavingOK'
<1>1. r \in SavingType
  BY DEF OneSave
<1>2. saving' \in [Saves -> SavingType]
  BY <1>1 DEF SavingOK
<1>3. \A s \in Saves : saving'[s] = IF s = q THEN r ELSE saving[s]
  BY DEF SavingOK
<1> QED
  BY <1>2, <1>3 DEF SavingOK

LEMMA ComposingMoves ==
    ASSUME ComposingOK, NEW c \in Compositions, NEW r, OneComposition(r, past, settled),
           composing' = [composing EXCEPT ![c] = r], UNCHANGED <<past, settled>>
    PROVE  ComposingOK'
<1>1. r \in ComposingType
  BY DEF OneComposition
<1>2. composing' \in [Compositions -> ComposingType]
  BY <1>1 DEF ComposingOK
<1>3. \A s \in Compositions : composing'[s] = IF s = c THEN r ELSE composing[s]
  BY DEF ComposingOK
<1> QED
  BY <1>2, <1>3 DEF ComposingOK

LEMMA BeginSaveOK == ASSUME SavedInv, NEW q \in Saves, NEW i \in Guids, BeginSave(q, i) PROVE SavedInv'
<1> DEFINE r == [NoSave EXCEPT !.at = "keep", !.id = i, !.guid = held[i]]
<1>1. held[i] \in Guids
  BY RowsIs DEF BeginSave, SavedInv, HeldOK
<1>2. OneSave(r)
  BY <1>1 DEF NoSave, OneSave, SavingType
<1>3. saving' = [saving EXCEPT ![q] = r]
  BY DEF BeginSave
<1> HIDE DEF r
<1>4. SavingOK'
  BY <1>2, <1>3, SavingMoves DEF SavedInv
<1> QED
  BY <1>4 DEF BeginSave, mainVars, SavedInv, HeldOK, MainOK, PagesOK, ComposingOK, SweepOK, SettledIsUp

LEMMA SaveFailsOK == ASSUME SavedInv, NEW q \in Saves, SaveFails(q) PROVE SavedInv'
<1>1. SavingOK'
  BY IdleOK, SavingMoves DEF SavedInv, SaveFails
<1> QED
  BY <1>1 DEF SaveFails, mainVars, SavedInv, HeldOK, MainOK, PagesOK, ComposingOK, SweepOK, SettledIsUp

LEMMA KeepCopyOK == ASSUME SavedInv, NEW q \in Saves, KeepCopy(q) PROVE SavedInv'
<1> DEFINE old == saving[q]
<1>1. PICK p \in SavedPages :
        /\ EnsureSavedPage(p)
        /\ IF old.id \in DOMAIN saved
           THEN saved' = saved /\ saving' = [saving EXCEPT ![q] = NoSave]
           ELSE /\ saved' = With(saved, old.id, old.guid)
                /\ saving' = [saving EXCEPT ![q] = [NoSave EXCEPT !.at = "drop", !.id = old.id, !.page = p]]
  BY DEF KeepCopy
<1>2. OneSave(old) /\ old.at = "keep" /\ saved \in Rows
  BY DEF KeepCopy, SavedInv, SavingOK, MainOK
<1>3. SavingOK'
  <2>1. CASE old.id \in DOMAIN saved
    BY <1>1, <2>1, IdleOK, SavingMoves DEF SavedInv
  <2>2. CASE old.id \notin DOMAIN saved
    <3> DEFINE r == [NoSave EXCEPT !.at = "drop", !.id = old.id, !.page = p]
    <3>1. OneSave(r)
      BY <1>2 DEF OneSave, SavingType, NoSave
    <3>2. saving' = [saving EXCEPT ![q] = r]
      BY <1>1, <2>2
    <3> HIDE DEF r
    <3> QED
      BY <3>1, <3>2, SavingMoves DEF SavedInv
  <2> QED
    BY <2>1, <2>2
<1>4. saved' \in Rows /\ DOMAIN saved \subseteq DOMAIN saved'
  <2>1. old.id \in Guids /\ old.guid \in Guids
    BY <1>2 DEF OneSave
  <2>2. /\ With(saved, old.id, old.guid) \in Rows
        /\ DOMAIN With(saved, old.id, old.guid) = DOMAIN saved \cup {old.id}
    BY <1>2, <2>1, WithOK
  <2>3. saved' = saved \/ saved' = With(saved, old.id, old.guid)
    BY <1>1
  <2> QED
    BY <1>2, <2>2, <2>3
<1>5. UNCHANGED <<held, editions, composing, sweeping, settled>>
  BY DEF KeepCopy
<1>6. /\ past \subseteq past' /\ past' \subseteq SavedPages /\ home' \in past' \cup {Nowhere}
      /\ home' = home \/ home' \notin past
  BY <1>1 DEF EnsureSavedPage, SavedInv, MainOK
<1>7. MainOK'
  <2>1. settled \subseteq DOMAIN saved /\ settled' = settled
    BY <1>5 DEF SavedInv, MainOK
  <2>2. settled' \subseteq DOMAIN saved'
    BY <1>4, <2>1
  <2> QED
    BY <1>4, <1>6, <2>2 DEF MainOK
<1>8. HeldOK' /\ SweepOK'
  BY <1>5 DEF SavedInv, HeldOK, SweepOK
<1>9. PagesOK'
  BY <1>5, <1>6 DEF SavedInv, PagesOK
<1>10. ComposingOK'
  BY <1>5, <1>6 DEF SavedInv, ComposingOK, OneComposition
<1>11. SettledIsUp'
  <2>1. CASE home' = home
    BY <1>5, <2>1 DEF SavedInv, SettledIsUp
  <2>2. CASE home' # home
    BY <1>5, <1>6, <2>2 DEF SavedInv, SettledIsUp, PagesOK
  <2> QED
    BY <2>1, <2>2
<1> QED
  BY <1>3, <1>7, <1>8, <1>9, <1>10, <1>11 DEF SavedInv

LEMMA DropEditionsOK == ASSUME SavedInv, NEW q \in Saves, DropEditions(q) PROVE SavedInv'
<1> DEFINE i == saving[q].id
           p == saving[q].page
<1>1. p \in SavedPages
  BY DEF DropEditions, SavedInv, SavingOK, OneSave
<1>2. /\ editions' = [editions EXCEPT ![p] = <<>>]
      /\ settled' = settled \cup {j \in {i} : Settles(j, p, {})}
      /\ UNCHANGED <<held, saved, home, past, composing, sweeping>>
  BY DEF DropEditions, mainVars
<1>3. SavingOK'
  BY IdleOK, SavingMoves DEF SavedInv, DropEditions
<1>4. HeldOK' /\ MainOK' /\ SweepOK'
  BY <1>2 DEF SavedInv, HeldOK, MainOK, SweepOK, Settles
<1>5. PagesOK'
  BY <1>1, <1>2, EmptySeq DEF SavedInv, PagesOK
<1>6. ComposingOK'
  BY <1>2 DEF SavedInv, ComposingOK, OneComposition, Settles, Without
<1>7. SettledIsUp'
  <2>1. CASE p = home
    BY <1>1, <1>2, <2>1 DEF SettledIsUp, SavedInv, PagesOK
  <2>2. CASE p # home
    <3>1. home = Nowhere \/ (settled' = settled /\ editions'[home] = editions[home])
      BY <1>2, <2>2 DEF Settles, SavedInv, PagesOK, MainOK
    <3>2. settled' = settled /\ home' = home
      BY <1>2, <2>2 DEF Settles
    <3> QED
      BY <3>1, <3>2 DEF SavedInv, SettledIsUp
  <2> QED
    BY <2>1, <2>2
<1> QED
  BY <1>3, <1>4, <1>5, <1>6, <1>7 DEF SavedInv

LEMMA UnsaveArticleOK == ASSUME SavedInv, NEW i \in Guids, UnsaveArticle(i) PROVE SavedInv'
<1>1. /\ saved' = Restrict(saved, DOMAIN saved \ {i}) /\ settled' = settled \ {i}
      /\ UNCHANGED <<held, home, past, editions, saving, composing, sweeping>>
  BY DEF UnsaveArticle
<1>2. saved' \in Rows /\ DOMAIN saved' = DOMAIN saved \ {i}
  BY <1>1, RestrictOK DEF SavedInv, MainOK
<1>3. MainOK'
  BY <1>1, <1>2 DEF SavedInv, MainOK
<1>4. HeldOK' /\ PagesOK' /\ SavingOK' /\ SweepOK'
  BY <1>1 DEF SavedInv, HeldOK, PagesOK, SavingOK, SweepOK
<1>5. ComposingOK'
  BY <1>1 DEF SavedInv, ComposingOK, OneComposition
<1>6. SettledIsUp'
  BY <1>1 DEF SavedInv, SettledIsUp, Pieces
<1> QED
  BY <1>3, <1>4, <1>5, <1>6 DEF SavedInv

LEMMA DeleteSavedPageOK == ASSUME SavedInv, DeleteSavedPage PROVE SavedInv'
<1>1. home' = Nowhere /\ UNCHANGED <<held, saved, past, editions, saving, composing, sweeping, settled>>
  BY DEF DeleteSavedPage
<1> QED
  BY <1>1 DEF SavedInv, HeldOK, MainOK, PagesOK, SavingOK, ComposingOK, SweepOK, SettledIsUp

(***************************************************************************)
(* Compositions.                                                           *)
(***************************************************************************)
\* A step of a composition that writes nothing.
LEMMA ComposesOK ==
    ASSUME SavedInv, NEW c \in Compositions, NEW r, OneComposition(r, past, settled),
           composing' = [composing EXCEPT ![c] = r],
           UNCHANGED <<held, mainVars, editions, saving, sweeping, settled>>
    PROVE  SavedInv'
<1>1. ComposingOK'
  BY ComposingMoves DEF SavedInv, mainVars
<1> QED
  BY <1>1 DEF mainVars, SavedInv, HeldOK, MainOK, PagesOK, SavingOK, SweepOK, SettledIsUp

LEMMA BeginCompositionOK ==
    ASSUME SavedInv, NEW c \in Compositions, BeginComposition(c) PROVE SavedInv'
<1> DEFINE r == [NoComposition EXCEPT !.at = "saved", !.page = home]
<1>1. OneComposition(r, past, settled)
  BY NoRows DEF NoComposition, OneComposition, ComposingType, BeginComposition, SavedInv, MainOK
<1>2. composing' = [composing EXCEPT ![c] = r]
  BY DEF BeginComposition
<1> HIDE DEF r
<1> QED
  BY <1>1, <1>2, ComposesOK DEF BeginComposition

LEMMA ReadSavedOK == ASSUME SavedInv, NEW c \in Compositions, ReadSaved(c) PROVE SavedInv'
<1> DEFINE old == composing[c]
           read == [old EXCEPT !.at = "items", !.kept = saved]
           r == IF saved = <<>> THEN NoComposition ELSE read
<1>1. OneComposition(old, past, settled) /\ old.at = "saved"
  BY DEF ReadSaved, SavedInv, ComposingOK
<1>2. OneComposition(read, past, settled)
  BY <1>1 DEF OneComposition, ComposingType, SavedInv, MainOK
<1>3. composing' = [composing EXCEPT ![c] = r]
  BY DEF ReadSaved
<1> HIDE DEF read
<1>4. OneComposition(r, past, settled)
  BY <1>2, IdleOK
<1> HIDE DEF r
<1> QED
  BY <1>3, <1>4, ComposesOK DEF ReadSaved

LEMMA FreshOK ==
    ASSUME SavedInv, NEW rows \in Rows PROVE Fresh(rows) \in Rows /\ DOMAIN Fresh(rows) = DOMAIN rows
<1>1. /\ DOMAIN rows \subseteq Guids /\ rows \in [DOMAIN rows -> Guids]
      /\ held \in [DOMAIN held -> Guids]
  BY RowsIs DEF SavedInv, HeldOK
<1>2. Fresh(rows) \in [DOMAIN rows -> Guids] /\ DOMAIN Fresh(rows) = DOMAIN rows
  BY <1>1 DEF Fresh
<1> QED
  BY <1>1, <1>2, RowsIs

LEMMA ReadItemsOK == ASSUME SavedInv, NEW c \in Compositions, ReadItems(c) PROVE SavedInv'
<1> DEFINE old == composing[c]
           rows == Fresh(old.kept)
           r == [old EXCEPT !.at = "add", !.kept = rows]
<1>1. OneComposition(old, past, settled) /\ old.at = "items" /\ old.kept \in Rows
  BY DEF ReadItems, SavedInv, ComposingOK, OneComposition, ComposingType
<1>2. composing' = [composing EXCEPT ![c] = r]
  BY DEF ReadItems
<1>3. rows \in Rows /\ DOMAIN rows = DOMAIN old.kept
  BY <1>1, FreshOK
<1> HIDE DEF rows
<1>4. OneComposition(r, past, settled)
  BY <1>1, <1>3 DEF OneComposition, ComposingType
<1> HIDE DEF r
<1> QED
  BY <1>2, <1>4, ComposesOK DEF ReadItems

LEMMA CompositionFailsOK == ASSUME SavedInv, NEW c \in Compositions, CompositionFails(c) PROVE SavedInv'
  BY IdleOK, ComposesOK DEF CompositionFails

\* Sequences of sets, one of which may be left out of wherever it is not.
LEMMA Spared ==
    ASSUME NEW S, NEW i, NEW s \in Seq(SUBSET S), \A n \in DOMAIN s : i \notin s[n]
    PROVE  s \in Seq(SUBSET (S \ {i}))
<1>1. Len(s) \in Nat /\ s \in [1..Len(s) -> SUBSET S] /\ DOMAIN s = 1..Len(s)
  BY LenProperties
<1>2. \A n \in 1..Len(s) : s[n] \in SUBSET (S \ {i})
  BY <1>1
<1>3. s \in [1..Len(s) -> SUBSET (S \ {i})]
  BY <1>1, <1>2
<1> QED
  BY <1>1, <1>3, SeqDef

LEMMA PutBackOK ==
    ASSUME HeldOK, NEW rows \in Rows, NEW ids \in SUBSET DOMAIN rows, CanPlace(rows, ids),
           held' = PutBack(rows, ids)
    PROVE  HeldOK' /\ DOMAIN held' = DOMAIN held \cup ids
<1>1. /\ DOMAIN held \subseteq Guids /\ held \in [DOMAIN held -> Guids]
      /\ DOMAIN rows \subseteq Guids /\ rows \in [DOMAIN rows -> Guids]
  BY RowsIs DEF HeldOK
<1>2. /\ DOMAIN held' = DOMAIN held \cup ids
      /\ \A i \in DOMAIN held' : held'[i] = IF i \in DOMAIN held THEN held[i] ELSE rows[i]
  BY DEF PutBack
<1>3. held' \in [DOMAIN held' -> Guids]
  BY <1>1, <1>2 DEF PutBack
<1>4. held' \in Rows
  BY <1>1, <1>2, <1>3, RowsIs
<1>5. ASSUME NEW i \in DOMAIN held', NEW j \in DOMAIN held', held'[i] = held'[j] PROVE i = j
  <2>1. CASE i \in DOMAIN held /\ j \in DOMAIN held
    BY <1>2, <1>5, <2>1 DEF HeldOK
  <2>2. CASE i \notin DOMAIN held /\ j \notin DOMAIN held
    BY <1>2, <1>5, <2>2 DEF CanPlace
  <2>3. CASE i \in DOMAIN held /\ j \notin DOMAIN held
    BY <1>2, <1>5, <2>3 DEF CanPlace, Range
  <2>4. CASE i \notin DOMAIN held /\ j \in DOMAIN held
    BY <1>2, <1>5, <2>4 DEF CanPlace, Range
  <2> QED
    BY <2>1, <2>2, <2>3, <2>4
<1> QED
  BY <1>2, <1>4, <1>5 DEF HeldOK

LEMMA PiecesFinite == ASSUME NEW ids, IsFiniteSet(ids) PROVE IsFiniteSet(Pieces(ids))
<1> DEFINE f == [i \in ids |-> Link[i]]
<1>1. f \in Surjection(ids, Pieces(ids))
  BY DEF Surjection, Pieces
<1> QED
  BY <1>1, FS_Surjection

\* Picks are of every piece there is, or fill the page.
LEMMA PicksFill ==
    ASSUME NEW ids, IsFiniteSet(ids), NEW picks \in PicksOf(ids)
    PROVE  picks \subseteq ids /\ (Pieces(picks) = Pieces(ids) \/ Cardinality(picks) = PageSize)
<1> DEFINE m == Min({PageSize, Cardinality(Pieces(ids))})
           f == [i \in picks |-> Link[i]]
<1>1. IsFiniteSet(Pieces(ids)) /\ PageSize \in Nat /\ Cardinality(Pieces(ids)) \in Nat
  BY SavedAssumption, PiecesFinite, FS_CardinalityType
<1>2. m = PageSize \/ m = Cardinality(Pieces(ids))
  BY <1>1 DEF Min
<1>3. /\ picks \subseteq ids /\ Cardinality(picks) = m
      /\ \A i, j \in picks : Link[i] = Link[j] => i = j
  BY DEF PicksOf, kSubset
<1>4. CASE m = Cardinality(Pieces(ids))
  <2>1. f \in Injection(picks, Pieces(ids))
    BY <1>3 DEF Injection, IsInjective, Pieces
  <2>2. f \in Surjection(picks, Pieces(ids))
    BY <1>1, <1>3, <1>4, <2>1, FS_Injection
  <2>3. Pieces(ids) \subseteq Pieces(picks)
    BY <2>2 DEF Surjection, Pieces
  <2> QED
    BY <1>3, <2>3 DEF Pieces
<1> QED
  BY <1>2, <1>3, <1>4

LEMMA AddSavedEditionOK ==
    ASSUME SavedInv, NEW c \in Compositions, AddSavedEdition(c)
    PROVE  SavedInv' /\ editions' = [editions EXCEPT ![composing[c].page] =
                                        Append(@, editions'[composing[c].page][Len(editions[composing[c].page]) + 1])]
<1> DEFINE kept == composing[c].kept
           page == composing[c].page
<1>1. PICK picks \in PicksOf(DOMAIN kept) :
        /\ CanPlace(kept, picks)
        /\ held' = PutBack(kept, picks)
        /\ editions' = [editions EXCEPT ![page] = Append(@, picks)]
  BY DEF AddSavedEdition
<1>2. OneComposition(composing[c], past, settled) /\ composing[c].at = "add"
  BY DEF AddSavedEdition, SavedInv, ComposingOK
<1>3. page \in past /\ page \in SavedPages /\ kept \in Rows /\ settled \subseteq DOMAIN kept
  BY <1>2 DEF OneComposition, ComposingType, SavedInv, MainOK
<1>4. IsFiniteSet(DOMAIN kept)
  BY <1>3, RowsIs, SavedAssumption, FS_Subset
<1>5. picks \subseteq DOMAIN kept /\ (Pieces(picks) = Pieces(DOMAIN kept) \/ Cardinality(picks) = PageSize)
  BY <1>4, PicksFill
<1>6. /\ UNCHANGED <<saved, home, past, saving, sweeping>>
      /\ composing' = [composing EXCEPT ![c] = NoComposition]
      /\ settled' = settled \cup {i \in DOMAIN kept : Settles(i, page, {c})}
  BY DEF AddSavedEdition, mainVars
<1>7. HeldOK' /\ DOMAIN held' = DOMAIN held \cup picks
  BY <1>1, <1>3, <1>5, PutBackOK DEF SavedInv
<1> DEFINE before == editions[page]
<1>8. before \in Seq(SUBSET DOMAIN held')
  BY <1>3, <1>7, SeqMonotonic DEF SavedInv, PagesOK
<1>9. /\ Append(before, picks) \in Seq(SUBSET DOMAIN held')
      /\ Len(Append(before, picks)) = Len(before) + 1
      /\ Append(before, picks)[Len(before) + 1] = picks
  BY <1>7, <1>8, LenProperties
<1>10. \A p \in SavedPages : editions[p] \in Seq(SUBSET DOMAIN held')
  BY <1>7, SeqMonotonic DEF SavedInv, PagesOK
<1>11. /\ editions \in [SavedPages -> Seq(SUBSET DOMAIN held)]
       /\ \A p \in SavedPages :
              editions'[p] = IF p = page THEN Append(before, picks) ELSE editions[p]
  BY <1>1, <1>3 DEF SavedInv, PagesOK
<1>12. PagesOK'
  BY <1>1, <1>3, <1>6, <1>9, <1>10, <1>11 DEF SavedInv, PagesOK
<1>13. MainOK' /\ SavingOK' /\ SweepOK'
  BY <1>6 DEF SavedInv, MainOK, SavingOK, SweepOK, Settles
<1>14. ComposingOK'
  <2>1. ASSUME NEW d \in Compositions PROVE OneComposition(composing[d], past, settled)'
    <3>1. CASE d = c
      BY <1>6, <3>1, IdleOK DEF SavedInv, ComposingOK
    <3>2. CASE d # c
      <4>1. composing'[d] = composing[d] /\ OneComposition(composing[d], past, settled)
        BY <1>6, <3>2 DEF SavedInv, ComposingOK
      <4>2. composing[d].at \in {"items", "add"} => settled' \subseteq DOMAIN composing[d].kept
        BY <1>6, <3>2, <4>1 DEF Settles, Without, OneComposition
      <4> QED
        BY <1>6, <4>1, <4>2 DEF OneComposition
    <3> QED
      BY <3>1, <3>2
  <2> QED
    BY <1>6, <2>1, IdleOK DEF SavedInv, ComposingOK
<1>15. SettledIsUp'
  <2>1. CASE page = home
    <3>1. settled' \subseteq DOMAIN kept
      BY <1>3, <1>6
    <3>2. Pieces(settled') \subseteq Pieces(DOMAIN kept)
      BY <3>1 DEF Pieces
    <3> QED
      BY <1>3, <1>5, <1>6, <1>9, <1>11, <2>1, <3>2 DEF SettledIsUp
  <2>2. CASE page # home
    <3>1. settled' = settled
      BY <1>6, <2>2 DEF Settles
    <3> QED
      BY <1>6, <1>11, <2>2, <3>1 DEF SettledIsUp, SavedInv, MainOK
  <2> QED
    BY <2>1, <2>2
<1> QED
  BY <1>1, <1>7, <1>9, <1>11, <1>3, <1>12, <1>13, <1>14, <1>15 DEF SavedInv

(***************************************************************************)
(* The feeds and the sweep.                                                *)
(***************************************************************************)
\* With more held, every page is as good as it was.
LEMMA MoreHeldOK ==
    ASSUME PagesOK, DOMAIN held \subseteq DOMAIN held', UNCHANGED <<editions, past>> PROVE PagesOK'
<1>1. \A p \in SavedPages : editions[p] \in Seq(SUBSET DOMAIN held')
  BY SeqMonotonic DEF PagesOK
<1> QED
  BY <1>1 DEF PagesOK

LEMMA IngestOK == ASSUME SavedInv, NEW g \in Guids, Ingest(g) PROVE SavedInv'
<1> DEFINE before == {i \in DOMAIN held : Origin[i] = Origin[g] /\ Link[i] = Link[g]}
<1>1. PICK i \in IF before = {} THEN {g} ELSE before : held' = With(held, i, g)
  BY DEF Ingest
<1>2. g \notin Range(held) /\ UNCHANGED <<saved, home, past, editions, saving, composing, sweeping, settled>>
  BY DEF Ingest, mainVars
<1>3. held \in Rows /\ DOMAIN held \subseteq Guids /\ i \in Guids
  BY <1>1, RowsIs DEF SavedInv, HeldOK
<1>4. held' \in Rows /\ DOMAIN held' = DOMAIN held \cup {i}
  BY <1>1, <1>3, WithOK
<1>5. \A j \in DOMAIN held' : held'[j] = IF j = i THEN g ELSE held[j]
  BY <1>1, <1>4 DEF With
<1>6. \A j \in DOMAIN held : held[j] # g
  BY <1>2 DEF Range
<1>7. HeldOK'
  <2>1. ASSUME NEW j \in DOMAIN held', NEW k \in DOMAIN held', held'[j] = held'[k] PROVE j = k
    BY <1>4, <1>5, <1>6, <2>1 DEF SavedInv, HeldOK
  <2> QED
    BY <1>4, <2>1 DEF HeldOK
<1>8. PagesOK'
  BY <1>2, <1>4, MoreHeldOK DEF SavedInv
<1>9. MainOK' /\ SavingOK' /\ ComposingOK' /\ SweepOK' /\ SettledIsUp'
  BY <1>2 DEF SavedInv, MainOK, SavingOK, ComposingOK, SweepOK, SettledIsUp
<1> QED
  BY <1>7, <1>8, <1>9 DEF SavedInv

\* What is not placed may go.
LEMMA PruneItemOK == ASSUME SavedInv, NEW i \in Guids, PruneItem(i) PROVE SavedInv'
<1>1. /\ i \in DOMAIN held /\ i \notin Carded /\ held' = Restrict(held, DOMAIN held \ {i})
      /\ UNCHANGED <<saved, home, past, editions, saving, composing, sweeping, settled>>
  BY DEF PruneItem, mainVars
<1>2. held \in Rows
  BY DEF SavedInv, HeldOK
<1>3. held' \in Rows /\ DOMAIN held' = DOMAIN held \ {i}
  BY <1>1, <1>2, RestrictOK
<1>4. \A j \in DOMAIN held' : held'[j] = held[j]
  BY <1>1, <1>3 DEF Restrict
<1>5. HeldOK'
  BY <1>3, <1>4 DEF SavedInv, HeldOK
<1>6. ASSUME NEW p \in SavedPages PROVE editions'[p] \in Seq(SUBSET DOMAIN held')
  <2>1. editions[p] \in Seq(SUBSET DOMAIN held)
    BY DEF SavedInv, PagesOK
  <2>2. \A n \in DOMAIN editions[p] : i \notin editions[p][n]
    BY <1>1 DEF Carded, Range
  <2>3. editions[p] \in Seq(SUBSET (DOMAIN held \ {i}))
    BY <2>1, <2>2, Spared
  <2> QED
    BY <1>1, <1>3, <2>3
<1>7. PagesOK'
  BY <1>1, <1>6 DEF SavedInv, PagesOK
<1>8. MainOK' /\ SavingOK' /\ ComposingOK' /\ SweepOK' /\ SettledIsUp'
  BY <1>1 DEF SavedInv, MainOK, SavingOK, ComposingOK, SweepOK, SettledIsUp
<1> QED
  BY <1>5, <1>7, <1>8 DEF SavedInv

LEMMA ListPagesOK == ASSUME SavedInv, ListPages PROVE SavedInv'
<1>1. SweepOK'
  BY DEF ListPages, SweepOK
<1> QED
  BY <1>1 DEF ListPages, mainVars, SavedInv, HeldOK, MainOK, PagesOK, SavingOK, ComposingOK, SettledIsUp

LEMMA EndSweepOK == ASSUME SavedInv, EndSweep PROVE SavedInv'
<1>1. SweepOK'
  BY DEF EndSweep, SweepOK, NoSweep
<1> QED
  BY <1>1 DEF EndSweep, mainVars, SavedInv, HeldOK, MainOK, PagesOK, SavingOK, ComposingOK, SettledIsUp

LEMMA StopSavingOK == ASSUME SavedInv, StopSaving PROVE SavedInv'
<1>1. SavingOK' /\ ComposingOK' /\ SweepOK'
  BY IdleOK DEF StopSaving, SavingOK, ComposingOK, SweepOK, NoSweep
<1> QED
  BY <1>1 DEF StopSaving, mainVars, SavedInv, HeldOK, MainOK, PagesOK, SettledIsUp

\* A page that composed something keeps the last of it.
LEMMA NewestOnly ==
    ASSUME NEW S, NEW s \in Seq(S), s # <<>>
    PROVE  <<s[Len(s)]>> \in Seq(S) /\ Len(s) \in DOMAIN s /\ Len(<<s[Len(s)]>>) = 1
<1>1. Len(s) \in Nat /\ Len(s) # 0 /\ DOMAIN s = 1..Len(s)
  BY EmptySeq
<1>2. s[Len(s)] \in S
  BY <1>1, ElementOfSeq
<1> QED
  BY <1>1, <1>2

LEMMA PruneOldEditionsOK ==
    ASSUME SavedInv, PruneOldEditions
    PROVE  /\ SavedInv'
           /\ \A p \in SavedPages : editions[p] # <<>> =>
                  editions'[p] # <<>> /\ editions'[p][Len(editions'[p])] = editions[p][Len(editions[p])]
<1>1. /\ editions' = [p \in SavedPages |->
             IF editions[p] = <<>> THEN <<>> ELSE <<editions[p][Len(editions[p])]>>]
      /\ UNCHANGED <<held, saved, home, past, saving, composing, settled>>
  BY DEF PruneOldEditions, mainVars
<1>2. \A p \in SavedPages :
         /\ editions'[p] \in Seq(SUBSET DOMAIN held)
         /\ (editions[p] = <<>>) = (editions'[p] = <<>>)
         /\ editions[p] # <<>> => editions'[p][Len(editions'[p])] = editions[p][Len(editions[p])]
  <2> SUFFICES ASSUME NEW p \in SavedPages
               PROVE  /\ editions'[p] \in Seq(SUBSET DOMAIN held)
                      /\ (editions[p] = <<>>) = (editions'[p] = <<>>)
                      /\ editions[p] # <<>> =>
                             editions'[p][Len(editions'[p])] = editions[p][Len(editions[p])]
    OBVIOUS
  <2>1. editions[p] \in Seq(SUBSET DOMAIN held)
    BY DEF SavedInv, PagesOK
  <2>2. CASE editions[p] = <<>>
    BY <1>1, <2>2, EmptySeq
  <2>3. CASE editions[p] # <<>>
    <3>1. editions'[p] = <<editions[p][Len(editions[p])]>>
      BY <1>1, <2>3
    <3>2. editions'[p] \in Seq(SUBSET DOMAIN held) /\ Len(editions'[p]) = 1
      BY <2>1, <2>3, <3>1, NewestOnly
    <3>3. editions'[p] # <<>>
      <4>1. Len(<<>>) = 0
        OBVIOUS
      <4> QED
        BY <3>2, <4>1
    <3> QED
      BY <2>3, <3>1, <3>2, <3>3
  <2> QED
    BY <2>2, <2>3
<1>3. PagesOK'
  <2>1. editions' \in [SavedPages -> Seq(SUBSET DOMAIN held)]
    BY <1>1, <1>2
  <2> QED
    BY <1>1, <1>2, <2>1 DEF SavedInv, PagesOK
<1>4. HeldOK' /\ MainOK' /\ SavingOK' /\ ComposingOK'
  BY <1>1 DEF SavedInv, HeldOK, MainOK, SavingOK, ComposingOK
<1>5. SweepOK'
  BY DEF PruneOldEditions, SavedInv, SweepOK
<1>6. SettledIsUp'
  BY <1>1, <1>2 DEF SavedInv, SettledIsUp, MainOK
<1> QED
  BY <1>2, <1>3, <1>4, <1>5, <1>6 DEF SavedInv

LEMMA DeleteEditionsExceptOK == ASSUME SavedInv, DeleteEditionsExcept PROVE SavedInv'
<1>1. /\ editions' = [p \in SavedPages |-> IF p \in sweeping.live THEN editions[p] ELSE <<>>]
      /\ UNCHANGED <<held, saved, home, past, saving, composing, settled>>
  BY DEF DeleteEditionsExcept, mainVars
<1>2. \A p \in SavedPages : editions'[p] = editions[p] \/ editions'[p] = <<>>
  BY <1>1
<1>3. PagesOK'
  <2>1. \A p \in SavedPages : editions'[p] \in Seq(SUBSET DOMAIN held)
    BY <1>2, EmptySeq DEF SavedInv, PagesOK
  <2> QED
    BY <1>1, <1>2, <2>1 DEF SavedInv, PagesOK
<1>4. HeldOK' /\ MainOK' /\ SavingOK' /\ ComposingOK'
  BY <1>1 DEF SavedInv, HeldOK, MainOK, SavingOK, ComposingOK
<1>5. SweepOK'
  BY DEF DeleteEditionsExcept, SavedInv, SweepOK, NoSweep
<1>6. SettledIsUp'
  BY <1>1, <1>2 DEF SavedInv, SettledIsUp, MainOK
<1> QED
  BY <1>3, <1>4, <1>5, <1>6 DEF SavedInv

LEMMA SavedSteps == SavedInv /\ [SavedNext]_savedVars => SavedInv'
<1> SUFFICES ASSUME SavedInv, [SavedNext]_savedVars PROVE SavedInv'
  OBVIOUS
<1>1. CASE UNCHANGED savedVars
  BY <1>1 DEF savedVars, mainVars, SavedInv, HeldOK, MainOK, PagesOK, SavingOK, ComposingOK, SweepOK,
              SettledIsUp
<1>2. ASSUME NEW q \in Saves, KeepCopy(q) \/ DropEditions(q) \/ SaveFails(q) PROVE SavedInv'
  BY <1>2, KeepCopyOK, DropEditionsOK, SaveFailsOK
<1>3. ASSUME NEW q \in Saves, NEW i \in Guids, BeginSave(q, i) PROVE SavedInv'
  BY <1>3, BeginSaveOK
<1>4. ASSUME NEW c \in Compositions, BeginComposition(c) \/ ReadSaved(c) \/ ReadItems(c) PROVE SavedInv'
  BY <1>4, BeginCompositionOK, ReadSavedOK, ReadItemsOK
<1>5. ASSUME NEW c \in Compositions, AddSavedEdition(c) \/ CompositionFails(c) PROVE SavedInv'
  BY <1>5, AddSavedEditionOK, CompositionFailsOK
<1>6. ASSUME NEW i \in Guids, UnsaveArticle(i) \/ Ingest(i) \/ PruneItem(i) PROVE SavedInv'
  BY <1>6, UnsaveArticleOK, IngestOK, PruneItemOK
<1>7. CASE DeleteSavedPage \/ ListPages \/ PruneOldEditions
  BY <1>7, DeleteSavedPageOK, ListPagesOK, PruneOldEditionsOK
<1>8. CASE DeleteEditionsExcept \/ EndSweep \/ StopSaving
  BY <1>8, DeleteEditionsExceptOK, EndSweepOK, StopSavingOK
<1> QED
  BY <1>1, <1>2, <1>3, <1>4, <1>5, <1>6, <1>7, <1>8 DEF SavedNext

LEMMA SavedInvariant == SavedSpec => []SavedInv
  BY SavedStarts, SavedSteps, PTL DEF SavedSpec

\* The tables of the saved page and what is in flight are well formed in
\* every state: what an edition places is held, though saves, compositions
\* and the sweep (store/saved.go, store/items.go) share no transaction.
THEOREM SavedTypeCorrect == SavedSpec => []SavedTypeOK
  BY SavedInvariant, SavedInvGives, PTL

\* The piece of a save is on the page it was to be on, from the drop, or the
\* edition, that no composition under way can undo to the day the save is
\* taken off (store/saved.go:43, edition/select.go:177).
THEOREM SavesComeUp == SavedSpec => []SettledIsUp
  BY SavedInvariant, SavedInvGives, PTL

\* One page of one step.
Stands(p) ==
    \/ editions[p] = <<>> \/ editions'[p] = <<>>
    \/ Len(editions'[p]) > Len(editions[p])
    \/ editions'[p][Len(editions'[p])] = editions[p][Len(editions[p])]

LEMMA StepsStand == ASSUME SavedInv, SavedNext, NEW p \in SavedPages PROVE Stands(p)
<1>1. editions \in [SavedPages -> Seq(SUBSET DOMAIN held)]
  BY DEF SavedInv, PagesOK
<1>2. CASE UNCHANGED editions
  BY <1>2 DEF Stands
<1>3. ASSUME NEW q \in Saves, DropEditions(q) PROVE Stands(p)
  BY <1>1, <1>3 DEF DropEditions, Stands
<1>4. ASSUME NEW c \in Compositions, AddSavedEdition(c) PROVE Stands(p)
  <2>1. PICK picks : editions' = [editions EXCEPT ![composing[c].page] = Append(@, picks)]
    BY <1>4 DEF AddSavedEdition
  <2>2. CASE p = composing[c].page
    <3>1. editions'[p] = Append(editions[p], picks) /\ editions[p] \in Seq(SUBSET DOMAIN held)
      BY <1>1, <2>1, <2>2
    <3>2. Len(editions[p]) \in Nat /\ Len(editions'[p]) = Len(editions[p]) + 1
      BY <3>1
    <3> QED
      BY <3>2 DEF Stands
  <2>3. CASE p # composing[c].page
    BY <1>1, <2>1, <2>3 DEF Stands
  <2> QED
    BY <2>2, <2>3
<1>5. CASE PruneOldEditions
  BY <1>5, PruneOldEditionsOK DEF Stands
<1>6. CASE DeleteEditionsExcept
  BY <1>6 DEF DeleteEditionsExcept, Stands
<1> QED
  BY <1>2, <1>3, <1>4, <1>5, <1>6
  DEF SavedNext, KeepCopy, SaveFails, BeginSave, BeginComposition, ReadSaved, ReadItems, CompositionFails,
      UnsaveArticle, Ingest, PruneItem, DeleteSavedPage, ListPages, EndSweep, StopSaving

\* No card leaves a composed page but with the page or for a newer one
\* (AddEdition, DropEditions, PruneOldEditions, DeleteEditionsExcept).
THEOREM CardsStay == SavedSpec => CardsStand
<1>1. SavedInv /\ [SavedNext]_savedVars =>
        [\A p \in SavedPages :
           \/ editions[p] = <<>> \/ editions'[p] = <<>>
           \/ Len(editions'[p]) > Len(editions[p])
           \/ editions'[p][Len(editions'[p])] = editions[p][Len(editions[p])]]_savedVars
  BY StepsStand DEF Stands
<1> QED
  BY <1>1, SavedInvariant, PTL DEF SavedSpec, CardsStand

(***************************************************************************)
(* Where no two articles of a feed link to one place none is ever renamed, *)
(* and every article is held, saved, carried and composed under the id of  *)
(* its guid.                                                               *)
(***************************************************************************)
LinksTell == \A i, j \in Guids : Origin[i] = Origin[j] /\ Link[i] = Link[j] => i = j

OwnNames(rows) == \A i \in DOMAIN rows : rows[i] = i

NamesInv ==
    /\ OwnNames(held) /\ OwnNames(saved)
    /\ \A q \in Saves : saving[q].at = "keep" => saving[q].guid = saving[q].id
    /\ \A c \in Compositions : OwnNames(composing[c].kept)

LEMMA NamesStart == SavedInit => NamesInv
  BY NoRows DEF SavedInit, NamesInv, OwnNames, NoSave, NoComposition

LEMMA NamesPlace == SavedInv /\ NamesInv => CopiesGoBack
  BY DEF NamesInv, OwnNames, CopiesGoBack, CanPlace, Range

\* A save and a composition in flight move on.
LEMMA SavesKeepNames ==
    ASSUME SavedInv, NamesInv, NEW q \in Saves, NEW r, saving' = [saving EXCEPT ![q] = r],
           r.at = "keep" => r.guid = r.id, UNCHANGED <<held, composing>>, OwnNames(saved)'
    PROVE  NamesInv'
  BY DEF SavedInv, SavingOK, NamesInv, OwnNames

LEMMA ComposesKeepNames ==
    ASSUME SavedInv, NamesInv, NEW c \in Compositions, NEW r, composing' = [composing EXCEPT ![c] = r],
           OwnNames(r.kept), UNCHANGED <<saved, saving>>, OwnNames(held)'
    PROVE  NamesInv'
  BY DEF SavedInv, ComposingOK, NamesInv, OwnNames

LEMMA NamesStep == LinksTell /\ SavedInv /\ NamesInv /\ [SavedNext]_savedVars => NamesInv'
<1> SUFFICES ASSUME LinksTell, SavedInv, NamesInv, [SavedNext]_savedVars PROVE NamesInv'
  OBVIOUS
<1>1. CASE UNCHANGED <<held, saved, saving, composing>>
  BY <1>1 DEF NamesInv, OwnNames
<1>2. ASSUME NEW q \in Saves, NEW i \in Guids, BeginSave(q, i) PROVE NamesInv'
  <2> DEFINE r == [NoSave EXCEPT !.at = "keep", !.id = i, !.guid = held[i]]
  <2>1. r.guid = r.id
    BY <1>2 DEF BeginSave, NoSave, NamesInv, OwnNames
  <2>2. saving' = [saving EXCEPT ![q] = r] /\ UNCHANGED <<held, composing, saved>>
    BY <1>2 DEF BeginSave, mainVars
  <2> HIDE DEF r
  <2>3. OwnNames(saved)'
    BY <2>2 DEF NamesInv, OwnNames
  <2> QED
    BY <2>1, <2>2, <2>3, SavesKeepNames
<1>3. ASSUME NEW q \in Saves, DropEditions(q) \/ SaveFails(q) PROVE NamesInv'
  <2>1. NoSave.at # "keep"
    BY DEF NoSave
  <2>2. saving' = [saving EXCEPT ![q] = NoSave] /\ UNCHANGED <<held, composing, saved>>
    BY <1>3 DEF DropEditions, SaveFails, mainVars
  <2>3. OwnNames(saved)'
    BY <2>2 DEF NamesInv, OwnNames
  <2> QED
    BY <2>1, <2>2, <2>3, SavesKeepNames
<1>4. ASSUME NEW q \in Saves, KeepCopy(q) PROVE NamesInv'
  <2> DEFINE old == saving[q]
  <2>1. PICK p \in SavedPages :
          IF old.id \in DOMAIN saved
          THEN saved' = saved /\ saving' = [saving EXCEPT ![q] = NoSave]
          ELSE /\ saved' = With(saved, old.id, old.guid)
               /\ saving' = [saving EXCEPT ![q] = [NoSave EXCEPT !.at = "drop", !.id = old.id, !.page = p]]
    BY <1>4 DEF KeepCopy
  <2>2. UNCHANGED <<held, composing>> /\ old.at = "keep" /\ old.guid = old.id /\ old \in SavingType
    BY <1>4 DEF KeepCopy, NamesInv, SavedInv, SavingOK
  <2>3. OwnNames(saved)'
    BY <2>1, <2>2 DEF NamesInv, OwnNames, With
  <2>4. CASE old.id \in DOMAIN saved
    <3>1. NoSave.at # "keep" /\ saving' = [saving EXCEPT ![q] = NoSave]
      BY <2>1, <2>4 DEF NoSave
    <3> QED
      BY <2>2, <2>3, <3>1, SavesKeepNames
  <2>5. CASE old.id \notin DOMAIN saved
    <3> DEFINE r == [NoSave EXCEPT !.at = "drop", !.id = old.id, !.page = p]
    <3>1. r.at # "keep"
      BY DEF NoSave
    <3>2. saving' = [saving EXCEPT ![q] = r]
      BY <2>1, <2>5
    <3> HIDE DEF r
    <3> QED
      BY <2>2, <2>3, <3>1, <3>2, SavesKeepNames
  <2> QED
    BY <2>4, <2>5
<1>5. ASSUME NEW c \in Compositions, BeginComposition(c) \/ CompositionFails(c) PROVE NamesInv'
  <2> DEFINE r == IF BeginComposition(c) THEN [NoComposition EXCEPT !.at = "saved", !.page = home]
                                         ELSE NoComposition
  <2>1. OwnNames(r.kept)
    BY NoRows DEF NoComposition, OwnNames
  <2>2. composing' = [composing EXCEPT ![c] = r] /\ UNCHANGED <<held, saved, saving>>
    BY <1>5 DEF BeginComposition, CompositionFails, mainVars
  <2> HIDE DEF r
  <2>3. OwnNames(held)'
    BY <2>2 DEF NamesInv, OwnNames
  <2> QED
    BY <2>1, <2>2, <2>3, ComposesKeepNames
<1>6. ASSUME NEW c \in Compositions, ReadSaved(c) \/ ReadItems(c) PROVE NamesInv'
  <2> DEFINE old == composing[c]
             read == [old EXCEPT !.at = "items", !.kept = saved]
             fresh == [old EXCEPT !.at = "add", !.kept = Fresh(old.kept)]
  <2>1. old \in ComposingType /\ OwnNames(old.kept)
    BY DEF SavedInv, ComposingOK, NamesInv
  <2>2. OwnNames(read.kept) /\ OwnNames(fresh.kept) /\ OwnNames(NoComposition.kept)
    BY <2>1, NoRows DEF ComposingType, NamesInv, OwnNames, Fresh, NoComposition
  <2>3. PICK r : composing' = [composing EXCEPT ![c] = r] /\ r \in {read, fresh, NoComposition}
    BY <1>6 DEF ReadSaved, ReadItems
  <2> HIDE DEF read, fresh
  <2>4. OwnNames(r.kept)
    BY <2>2, <2>3
  <2>5. UNCHANGED <<held, saved, saving>>
    BY <1>6 DEF ReadSaved, ReadItems, mainVars
  <2>6. OwnNames(held)'
    BY <2>5 DEF NamesInv, OwnNames
  <2> QED
    BY <2>3, <2>4, <2>5, <2>6, ComposesKeepNames
<1>7. ASSUME NEW c \in Compositions, AddSavedEdition(c) PROVE NamesInv'
  <2>1. PICK picks \in SUBSET DOMAIN composing[c].kept : held' = PutBack(composing[c].kept, picks)
    BY <1>7 DEF AddSavedEdition, PicksOf, kSubset
  <2>2. OwnNames(held)'
    BY <2>1 DEF PutBack, NamesInv, OwnNames
  <2>3. /\ composing' = [composing EXCEPT ![c] = NoComposition] /\ UNCHANGED <<saved, saving>>
        /\ OwnNames(NoComposition.kept)
    BY <1>7, NoRows DEF AddSavedEdition, mainVars, NoComposition, OwnNames
  <2> QED
    BY <2>2, <2>3, ComposesKeepNames
<1>8. ASSUME NEW i \in Guids, UnsaveArticle(i) \/ PruneItem(i) PROVE NamesInv'
  BY <1>8 DEF UnsaveArticle, PruneItem, mainVars, Restrict, NamesInv, OwnNames
<1>9. ASSUME NEW g \in Guids, Ingest(g) PROVE NamesInv'
  <2> DEFINE before == {i \in DOMAIN held : Origin[i] = Origin[g] /\ Link[i] = Link[g]}
  <2>1. PICK i \in IF before = {} THEN {g} ELSE before : held' = With(held, i, g)
    BY <1>9 DEF Ingest
  <2>2. DOMAIN held \subseteq Guids
    BY RowsIs DEF SavedInv, HeldOK
  <2>3. i = g
    BY <2>1, <2>2 DEF LinksTell
  <2> QED
    BY <1>9, <2>1, <2>3 DEF Ingest, mainVars, With, NamesInv, OwnNames
<1>10. CASE StopSaving
  BY <1>10, NoRows DEF StopSaving, mainVars, NoSave, NoComposition, NamesInv, OwnNames
<1> QED
  BY <1>1, <1>2, <1>3, <1>4, <1>5, <1>6, <1>7, <1>8, <1>9, <1>10
  DEF SavedNext, savedVars, mainVars, DeleteSavedPage, ListPages, PruneOldEditions, DeleteEditionsExcept, EndSweep

\* Renaming is all that stands in the way of docs/entities.md:490: with no
\* two articles of one feed that link to one place, whatever other feeds
\* carry, a copy is never refused by the table it goes back into, however saves, compositions and sweeps interleave.
THEOREM OnlyRenamedStayOut == LinksTell => (SavedSpec => []CopiesGoBack)
<1> SUFFICES ASSUME LinksTell PROVE SavedSpec => []CopiesGoBack
  OBVIOUS
<1>1. SavedInv /\ NamesInv /\ [SavedNext]_savedVars => NamesInv'
  BY NamesStep
<1> QED
  BY <1>1, NamesStart, NamesPlace, SavedInvariant, PTL DEF SavedSpec

(***************************************************************************)
(* Tags, for any tags, names and paths: rows and requests keep their types *)
(* however many requests there are, and with one at a time the walk of     *)
(* CheckTagParent is enough to keep a tree.                                *)
(***************************************************************************)
\* What a request goes on to write is there to be written.
FilingOK ==
    \A h \in Filers :
        /\ filing[h].at \in {"walk", "write"} => filing[h].id \in Tags
        /\ filing[h].at \in {"walk", "write", "insert"} => filing[h].name \in Names
        /\ filing[h].at = "walk" => filing[h].up \in Tags
        /\ filing[h].at = "list" => filing[h].path # <<>>

TagsInv == TagsTypeOK /\ FilingOK

\* The type of one request, and what it goes on to write.
OneFiling(r) ==
    /\ r \in Filing
    /\ r.at \in {"walk", "write"} => r.id \in Tags
    /\ r.at \in {"walk", "write", "insert"} => r.name \in Names
    /\ r.at = "walk" => r.up \in Tags
    /\ r.at = "list" => r.path # <<>>

FilingsOK == filing \in [Filers -> Filing] /\ \A h \in Filers : OneFiling(filing[h])

RowsOK ==
    /\ tag \in [Tags -> TagRow \cup {New, Gone}]
    /\ \A t \in Tags : Filed(t) => tag[t].parent = Root \/ TagByID(tag[t].parent)
    /\ \A t, u \in Tags : Filed(t) /\ Filed(u) /\ tag[t] = tag[u] => t = u

LEMMA InvParts == TagsInv <=> FilingsOK /\ RowsOK
  BY DEF TagsInv, TagsTypeOK, FilingOK, FilingsOK, OneFiling, RowsOK

LEMMA FiledRow == ASSUME RowsOK, NEW t \in Tags, Filed(t) PROVE tag[t] \in TagRow
  BY DEF RowsOK, Filed

LEMMA UnfiledOK == OneFiling(Unfiled) /\ Unfiled \in Filing
  BY DEF OneFiling, Unfiled, Filing

\* A request is replaced by one of its type.
LEMMA Replaces ==
    ASSUME FilingsOK, NEW h \in Filers, NEW r, OneFiling(r), filing' = [filing EXCEPT ![h] = r]
    PROVE  FilingsOK'
<1>1. r \in Filing /\ filing' \in [Filers -> Filing]
  BY DEF FilingsOK, OneFiling
<1>2. ASSUME NEW g \in Filers PROVE OneFiling(filing'[g])
  BY DEF FilingsOK
<1> QED
  BY <1>1, <1>2 DEF FilingsOK, OneFiling

LEMMA AnswersOK == ASSUME FilingsOK, NEW h \in Filers, Answers(h) PROVE FilingsOK'
  BY UnfiledOK, Replaces DEF Answers

LEMMA FilingsStep == ASSUME FilingsOK, RowsOK, NEW h \in Filers, Files(h) PROVE FilingsOK'
<1> DEFINE r == filing[h]
<1>0. r \in Filing /\ OneFiling(r)
  BY DEF FilingsOK
<1>1. ASSUME NEW n \in Names, NEW p \in Tags \cup {Root}, CreateTag(h, n, p) PROVE FilingsOK'
  <2> DEFINE q == [Unfiled EXCEPT !.at = "insert", !.name = n, !.parent = p]
  <2>1. OneFiling(q)
    BY UnfiledOK DEF OneFiling, Filing
  <2>2. filing' = [filing EXCEPT ![h] = q]
    BY <1>1 DEF CreateTag
  <2> QED
    BY <2>1, <2>2, Replaces
<1>2. ASSUME NEW t \in Tags, InsertTag(h, t) PROVE FilingsOK'
  <2> DEFINE q == [Unfiled EXCEPT !.at = "list", !.parent = t, !.path = r.path]
  <2>1. CASE r.path = <<>>
    BY <1>2, <2>1, AnswersOK DEF InsertTag
  <2>2. CASE r.path # <<>>
    <3>1. OneFiling(q)
      BY <1>0, <2>2, UnfiledOK DEF OneFiling, Filing
    <3>2. filing' = [filing EXCEPT ![h] = q]
      BY <1>2, <2>2 DEF InsertTag
    <3> QED
      BY <3>1, <3>2, Replaces
  <2> QED
    BY <2>1, <2>2
<1>3. ASSUME NEW path \in Paths, EnsureTagPath(h, path) PROVE FilingsOK'
  <2> DEFINE q == [Unfiled EXCEPT !.at = "list", !.path = path]
  <2>1. OneFiling(q)
    BY <1>3, TagsAssumption, UnfiledOK DEF EnsureTagPath, OneFiling, Filing
  <2>2. filing' = [filing EXCEPT ![h] = q]
    BY <1>3 DEF EnsureTagPath
  <2> QED
    BY <2>1, <2>2, Replaces
<1>4. ASSUME NextSegment(h) PROVE FilingsOK'
  <2>0. r.at = "list" /\ r.path \in Seq(Names) /\ r.path # <<>>
    BY <1>0, <1>4 DEF NextSegment, OneFiling, Filing
  <2>1. Head(r.path) \in Names /\ Tail(r.path) \in Seq(Names) /\ Len(r.path) \in Nat \ {0}
    BY <2>0
  <2>2. Len(r.path) # 1 => Tail(r.path) # <<>>
    <3> SUFFICES ASSUME Tail(r.path) = <<>> PROVE Len(r.path) = 1
      OBVIOUS
    <3>1. Len(Tail(r.path)) = Len(r.path) - 1
      BY <2>0
    <3>2. Len(<<>>) = 0
      OBVIOUS
    <3>3. Len(Tail(r.path)) = 0
      BY <3>2, Zenon
    <3> HIDE DEF r
    <3> QED
      BY <2>1, <3>1, <3>3
  <2>3. CASE Answers(h)
    BY <2>3, AnswersOK
  <2>4. ASSUME NEW t \in Tags, Len(r.path) # 1,
               filing' = [filing EXCEPT ![h].parent = t, ![h].path = Tail(r.path)]
        PROVE  FilingsOK'
    <3> DEFINE q == [r EXCEPT !.parent = t, !.path = Tail(r.path)]
    <3>1. OneFiling(q)
      BY <1>0, <2>0, <2>1, <2>2, <2>4 DEF OneFiling, Filing
    <3>2. filing' = [filing EXCEPT ![h] = q]
      BY <2>4 DEF FilingsOK
    <3> QED
      BY <3>1, <3>2, Replaces
  <2>5. ASSUME filing' = [filing EXCEPT ![h].at = "insert", ![h].name = Head(r.path),
                                         ![h].path = Tail(r.path)]
        PROVE  FilingsOK'
    <3> DEFINE q == [r EXCEPT !.at = "insert", !.name = Head(r.path), !.path = Tail(r.path)]
    <3>1. OneFiling(q)
      BY <1>0, <2>0, <2>1 DEF OneFiling, Filing
    <3>2. filing' = [filing EXCEPT ![h] = q]
      BY <2>5 DEF FilingsOK
    <3> QED
      BY <3>1, <3>2, Replaces
  <2> QED
    BY <1>4, <2>3, <2>4, <2>5 DEF NextSegment, ChildrenOf
<1>5. ASSUME NEW t \in Tags, NEW n \in Names, NEW p \in Tags \cup {Root}, UpdateTag(h, t, n, p)
      PROVE  FilingsOK'
  <2> DEFINE q == [Unfiled EXCEPT !.at = IF p = Root THEN "write" ELSE "walk",
                       !.id = t, !.name = n, !.parent = p, !.up = p, !.seen = {t}]
  <2>1. OneFiling(q)
    BY UnfiledOK DEF OneFiling, Filing
  <2>2. filing' = [filing EXCEPT ![h] = q]
    BY <1>5 DEF UpdateTag
  <2> QED
    BY <2>1, <2>2, Replaces
<1>6. ASSUME NEW t \in Tags, NEW n \in Names, RenameTag(h, t, n) PROVE FilingsOK'
  <2> DEFINE q == [Unfiled EXCEPT !.at = "write", !.id = t, !.name = n, !.parent = tag[t].parent]
  <2>1. tag[t].parent \in Tags \cup {Root}
    BY <1>6, FiledRow DEF RenameTag, TagRow
  <2>2. OneFiling(q)
    BY <2>1, UnfiledOK DEF OneFiling, Filing
  <2>3. filing' = [filing EXCEPT ![h] = q]
    BY <1>6 DEF RenameTag
  <2> QED
    BY <2>2, <2>3, Replaces
<1>7. ASSUME CheckTagParent(h) PROVE FilingsOK'
  <2>1. CASE Answers(h)
    BY <2>1, AnswersOK
  <2>2. CASE ~Answers(h)
    <3> DEFINE up == tag[r.up].parent
               q == [r EXCEPT !.at = IF up = Root THEN "write" ELSE "walk", !.up = up,
                              !.seen = @ \cup {r.up}]
    <3>1. r.at = "walk" /\ Filed(r.up) /\ r.up \in Tags
      BY <1>0, <1>7, <2>2 DEF CheckTagParent, OneFiling
    <3>2. up \in Tags \cup {Root}
      BY <3>1, FiledRow DEF TagRow
    <3>3. filing' = [filing EXCEPT ![h] = q]
      BY <1>7, <2>2 DEF CheckTagParent, FilingsOK
    <3> HIDE DEF up
    <3>4. OneFiling(q)
      BY <1>0, <3>1, <3>2 DEF OneFiling, Filing
    <3> QED
      BY <3>3, <3>4, Replaces
  <2> QED
    BY <2>1, <2>2
<1>8. ASSUME InsertFails(h) \/ WriteTag(h) \/ Abandons(h) PROVE FilingsOK'
  BY <1>8, AnswersOK DEF InsertFails, WriteTag, Abandons
<1>9. ASSUME NEW t \in Tags, DeleteTag(h, t) PROVE FilingsOK'
  BY <1>9 DEF DeleteTag, FilingsOK, OneFiling
<1> QED
  BY <1>1, <1>2, <1>3, <1>4, <1>5, <1>6, <1>7, <1>8, <1>9 DEF Files

(***************************************************************************)
(* Rows.                                                                   *)
(***************************************************************************)
\* One row is written that has its parent there and no like beside it.
LEMMA FilingWrites ==
    ASSUME RowsOK, NEW t \in Tags, NEW n \in Names, NEW p \in Tags \cup {Root},
           tag[t] # Gone, Writable(t, n, p), tag' = [tag EXCEPT ![t] = [name |-> n, parent |-> p]]
    PROVE  RowsOK'
<1> DEFINE row == [name |-> n, parent |-> p]
<1>1. row \in TagRow /\ row.name = n /\ row.parent = p
  BY DEF TagRow
<1>2. row # New /\ row # Gone
  BY <1>1, TagsAssumption
<1> HIDE DEF row
<1>3. tag' = [tag EXCEPT ![t] = row]
  BY DEF row
<1>4. tag' \in [Tags -> TagRow \cup {New, Gone}]
  BY <1>1, <1>3 DEF RowsOK
<1>5. \A u \in Tags : Filed(u)' <=> u = t \/ Filed(u)
  BY <1>2, <1>3 DEF Filed, RowsOK
<1>6. ASSUME NEW u \in Tags, Filed(u)' PROVE tag'[u].parent = Root \/ TagByID(tag[u].parent)'
  BY <1>1, <1>3, <1>5, <1>6 DEF RowsOK, TagByID, Writable
<1>7. ASSUME NEW u \in Tags, NEW v \in Tags, Filed(u)', Filed(v)', tag'[u] = tag'[v] PROVE u = v
  BY <1>1, <1>3, <1>5, <1>7 DEF RowsOK, Writable, ChildrenOf
<1> QED
  BY <1>4, <1>6, <1>7 DEF RowsOK

LEMMA DeletesOK == ASSUME RowsOK, NEW h \in Filers, NEW t \in Tags, DeleteTag(h, t) PROVE RowsOK'
<1> DEFINE Promoted(u) == [tag[u] EXCEPT !.parent = Root]
<1>1. \A u \in Tags : tag'[u] = IF u = t THEN Gone
                               ELSE IF u \in ChildrenOf(t) THEN Promoted(u) ELSE tag[u]
  BY DEF DeleteTag
<1>2. ASSUME NEW u \in ChildrenOf(t)
      PROVE  /\ Promoted(u) \in TagRow /\ Promoted(u).parent = Root
             /\ Promoted(u).name = tag[u].name
             /\ u \in Tags /\ Filed(u) /\ tag[u].parent = t /\ tag[u] \in TagRow
  <2>1. u \in Tags /\ Filed(u) /\ tag[u].parent = t
    BY DEF ChildrenOf
  <2>2. tag[u] \in TagRow
    BY <2>1, FiledRow
  <2> QED
    BY <2>1, <2>2 DEF TagRow
<1>9. \A u \in Tags, v \in ChildrenOf(Root) :
          u \in ChildrenOf(t) /\ v # t => tag[u].name # tag[v].name
  BY DEF DeleteTag
<1> HIDE DEF Promoted
<1>3. tag' \in [Tags -> TagRow \cup {New, Gone}]
  <2>1. tag' = [u \in Tags |-> tag'[u]]
    BY DEF DeleteTag
  <2>2. ASSUME NEW u \in Tags PROVE tag'[u] \in TagRow \cup {New, Gone}
    BY <1>1, <1>2 DEF RowsOK
  <2> QED
    BY <2>1, <2>2
<1>4. \A u \in Tags : Filed(u)' <=> u # t /\ Filed(u)
  BY <1>1, <1>2, TagsAssumption DEF Filed, ChildrenOf
<1>5. ASSUME NEW u \in Tags, Filed(u)' PROVE tag'[u].parent = Root \/ TagByID(tag[u].parent)'
  BY <1>1, <1>2, <1>4, <1>5 DEF RowsOK, TagByID, ChildrenOf
<1>6. ASSUME NEW u \in Tags, NEW v \in Tags, Filed(u)', Filed(v)', tag'[u] = tag'[v] PROVE u = v
  <2>1. u # t /\ v # t /\ Filed(u) /\ Filed(v) /\ tag[u] \in TagRow /\ tag[v] \in TagRow
    BY <1>4, <1>6, FiledRow
  <2>2. CASE u \in ChildrenOf(t) /\ v \in ChildrenOf(t)
    <3>1. tag[u].name = tag[v].name /\ tag[u].parent = tag[v].parent
      BY <1>1, <1>2, <1>6, <2>1, <2>2
    <3>2. tag[u] = tag[v]
      BY <2>1, <3>1 DEF TagRow
    <3> QED
      BY <2>1, <3>2 DEF RowsOK
  <2>3. CASE u \in ChildrenOf(t) /\ v \notin ChildrenOf(t)
    BY <1>1, <1>2, <1>6, <1>9, <2>1, <2>3 DEF ChildrenOf
  <2>4. CASE u \notin ChildrenOf(t) /\ v \in ChildrenOf(t)
    BY <1>1, <1>2, <1>6, <1>9, <2>1, <2>4 DEF ChildrenOf
  <2>5. CASE u \notin ChildrenOf(t) /\ v \notin ChildrenOf(t)
    BY <1>1, <1>6, <2>1, <2>5 DEF RowsOK
  <2> QED
    BY <2>2, <2>3, <2>4, <2>5
<1> QED
  BY <1>3, <1>5, <1>6 DEF RowsOK

\* What a step may do to the rows.
LEMMA RowsChange ==
    ASSUME FilingsOK, RowsOK, NEW h \in Filers, Files(h)
    PROVE  \/ tag' = tag
           \/ \E t \in Tags : InsertTag(h, t) \/ DeleteTag(h, t)
           \/ WriteTag(h)
  BY DEF Files, CreateTag, EnsureTagPath, InsertFails, NextSegment, CheckTagParent, Abandons,
         RenameTag, UpdateTag

LEMMA RowsStep == ASSUME FilingsOK, RowsOK, NEW h \in Filers, Files(h) PROVE RowsOK'
<1> DEFINE r == filing[h]
<1>0. r \in Filing /\ OneFiling(r)
  BY DEF FilingsOK
<1>1. ASSUME NEW t \in Tags, InsertTag(h, t) PROVE RowsOK'
  <2>1. r.name \in Names /\ r.parent \in Tags \cup {Root}
    BY <1>0, <1>1 DEF InsertTag, OneFiling, Filing
  <2>2. tag[t] # Gone
    BY <1>1, TagsAssumption DEF InsertTag
  <2> QED
    BY <1>1, <2>1, <2>2, FilingWrites DEF InsertTag
<1>2. CASE WriteTag(h)
  <2>1. r.id \in Tags /\ r.name \in Names /\ r.parent \in Tags \cup {Root}
    BY <1>0, <1>2 DEF WriteTag, OneFiling, Filing
  <2>2. CASE Filed(r.id) /\ Writable(r.id, r.name, r.parent)
    <3>1. tag[r.id] # Gone
      BY <2>2 DEF Filed
    <3> QED
      BY <1>2, <2>1, <2>2, <3>1, FilingWrites DEF WriteTag
  <2>3. CASE ~(Filed(r.id) /\ Writable(r.id, r.name, r.parent))
    BY <1>2, <2>3 DEF WriteTag, RowsOK, Filed, TagByID
  <2> QED
    BY <2>2, <2>3
<1>3. CASE tag' = tag
  BY <1>3 DEF RowsOK, Filed, TagByID
<1> QED
  BY <1>1, <1>2, <1>3, DeletesOK, RowsChange

LEMMA TagsInvStep == TagsInv /\ [TagsNext]_tagVars => TagsInv'
<1> SUFFICES ASSUME TagsInv, [TagsNext]_tagVars PROVE TagsInv'
  OBVIOUS
<1>1. FilingsOK /\ RowsOK
  BY InvParts
<1>2. CASE TagsNext
  <2>1. FilingsOK' /\ RowsOK'
    BY <1>1, <1>2, FilingsStep, RowsStep DEF TagsNext
  <2> QED
    BY <2>1 DEF TagsInv, TagsTypeOK, FilingOK, FilingsOK, OneFiling, RowsOK
<1>3. CASE UNCHANGED tagVars
  BY <1>3 DEF tagVars, TagsInv, TagsTypeOK, FilingOK, Filed, TagByID
<1> QED
  BY <1>2, <1>3

LEMMA TagsInvInit == TagsInit => TagsInv
<1> SUFFICES ASSUME TagsInit PROVE FilingsOK /\ RowsOK
  BY InvParts
<1>1. FilingsOK
  BY UnfiledOK DEF TagsInit, FilingsOK
<1>2. \A t \in Tags : ~Filed(t)
  BY DEF TagsInit, Filed
<1>3. RowsOK
  BY <1>2 DEF TagsInit, RowsOK
<1> QED
  BY <1>1, <1>3

\* Rows are nested under rows, and none has the name of another beside it,
\* whatever requests overlap (tags_name, ON DELETE SET NULL).
THEOREM TagsTypes == TagsSpec => []TagsTypeOK
<1>1. TagsInv => TagsTypeOK
  BY DEF TagsInv
<1> QED
  BY TagsInvInit, TagsInvStep, <1>1, PTL DEF TagsSpec

(***************************************************************************)
(* One request at a time.  What it has met on its way up, but for the tag  *)
(* it moves, is closed under parents once it reaches the root: no circle   *)
(* goes through it, so none can be closed below it.                        *)
(***************************************************************************)
OneRequest == \A g, h \in Filers : g = h

\* Tags that go round: each is under another of them.
Circle(S) == S # {} /\ \A t \in S : t \in Tags /\ Filed(t) /\ tag[t].parent \in S

\* What the walk has met lies on the way from the new parent to up.
Climbed(r) ==
    /\ r.id \in r.seen
    /\ r.parent \in (r.seen \ {r.id}) \cup {r.up}
    /\ \A u \in r.seen \ {r.id} :
          Filed(u) /\ tag[u].parent \in (r.seen \ {r.id}) \cup {r.up}

\* A rename writes the parent there is.
OneWalk(h) ==
    /\ filing[h].at = "walk" => Climbed(filing[h])
    /\ filing[h].at = "write" =>
          \/ Filed(filing[h].id) /\ filing[h].parent = tag[filing[h].id].parent
          \/ Climbed(filing[h]) /\ filing[h].up = Root

WalkOK == \A h \in Filers : OneWalk(h)

TreeInv == TagsInv /\ TagsAreATree /\ WalkOK

LEMMA NoCircles == ASSUME RowsOK PROVE TagsAreATree <=> \A S \in SUBSET Tags : ~Circle(S)
  BY DEF TagsAreATree, Circle

LEMMA NoCirclesNext == ASSUME RowsOK' PROVE (\A S \in SUBSET Tags : ~Circle(S)') => TagsAreATree'
  BY DEF TagsAreATree, Circle

LEMMA InsertKeepsTree ==
    ASSUME TagsInv, TagsAreATree, NEW h \in Filers, NEW t \in Tags, InsertTag(h, t), RowsOK'
    PROVE  TagsAreATree'
<1> DEFINE r == filing[h]
<1>0. RowsOK /\ FilingsOK
  BY InvParts
<1>1. SUFFICES ASSUME NEW S \in SUBSET Tags, Circle(S)' PROVE FALSE
  BY NoCirclesNext
<1>2. /\ tag[t] = New /\ ~Filed(t) /\ tag'[t].parent = r.parent
      /\ \A u \in Tags \ {t} : tag'[u] = tag[u]
  BY <1>0 DEF InsertTag, RowsOK, Filed
<1>3. r.parent # t /\ \A u \in Tags : Filed(u) => tag[u].parent # t
  BY <1>0, <1>2, TagsAssumption DEF RowsOK, TagByID, InsertTag, Writable
<1>4. Circle(S \ {t})
  BY <1>1, <1>2, <1>3 DEF Circle, Filed
<1> QED
  BY <1>0, <1>4, NoCircles

LEMMA DeleteKeepsTree ==
    ASSUME TagsInv, TagsAreATree, NEW h \in Filers, NEW t \in Tags, DeleteTag(h, t), RowsOK'
    PROVE  TagsAreATree'
<1> DEFINE Promoted(u) == [tag[u] EXCEPT !.parent = Root]
<1>0. RowsOK /\ FilingsOK
  BY InvParts
<1>1. SUFFICES ASSUME NEW S \in SUBSET Tags, Circle(S)' PROVE FALSE
  BY NoCirclesNext
<1>2. \A u \in Tags : tag'[u] = IF u = t THEN Gone
                               ELSE IF u \in ChildrenOf(t) THEN Promoted(u) ELSE tag[u]
  BY DEF DeleteTag
<1>3. \A u \in ChildrenOf(t) : Promoted(u).parent = Root
  BY <1>0, FiledRow DEF ChildrenOf, TagRow
<1> HIDE DEF Promoted
<1>4. Root \notin S
  BY TagsAssumption
<1>5. \A u \in S : Filed(u) /\ tag[u].parent \in S
  BY <1>1, <1>2, <1>3, <1>4, TagsAssumption DEF Circle, Filed, ChildrenOf
<1>6. Circle(S)
  BY <1>1, <1>5 DEF Circle
<1> QED
  BY <1>0, <1>6, NoCircles

LEMMA WriteKeepsTree ==
    ASSUME TreeInv, NEW h \in Filers, WriteTag(h), RowsOK'
    PROVE  TagsAreATree'
<1> DEFINE r == filing[h]
           A == r.seen \ {r.id}
<1>0. RowsOK /\ FilingsOK /\ WalkOK /\ TagsAreATree
  BY InvParts DEF TreeInv
<1>1. SUFFICES ASSUME NEW S \in SUBSET Tags, Circle(S)' PROVE FALSE
  BY NoCirclesNext
<1>2. r.at = "write" /\ r.id \in Tags /\ A \subseteq Tags /\ Root \notin S
  BY <1>0, TagsAssumption DEF WriteTag, FilingsOK, OneFiling, Filing
<1>3. CASE tag' = tag
  BY <1>0, <1>1, <1>3, NoCircles DEF Circle, Filed
<1>4. CASE Filed(r.id) /\ tag' = [tag EXCEPT ![r.id] = [name |-> r.name, parent |-> r.parent]]
  <2>1. tag'[r.id].parent = r.parent /\ \A u \in Tags \ {r.id} : tag'[u] = tag[u]
    BY <1>0, <1>2, <1>4 DEF RowsOK
  <2>2. CASE r.parent = tag[r.id].parent
    <3>1. Circle(S)
      BY <1>1, <1>4, <2>1, <2>2 DEF Circle, Filed
    <3> QED
      BY <1>0, <3>1, NoCircles
  <2>3. CASE r.id \notin S
    <3>1. Circle(S)
      BY <1>1, <2>1, <2>3 DEF Circle, Filed
    <3> QED
      BY <1>0, <3>1, NoCircles
  <2>4. CASE r.id \in S /\ r.parent # tag[r.id].parent
    <3>1. Climbed(r) /\ r.up = Root
      BY <1>0, <1>2, <2>4 DEF WalkOK, OneWalk
    <3>2. r.parent \in S /\ r.parent # Root
      BY <1>1, <1>2, <2>1, <2>4 DEF Circle
    <3>3. r.parent \in S \cap A
      BY <3>1, <3>2 DEF Climbed
    <3>4. \A u \in S \cap A : Filed(u) /\ tag[u].parent \in S \cap A
      BY <1>1, <1>2, <2>1, <3>1 DEF Circle, Climbed
    <3>5. Circle(S \cap A)
      BY <3>3, <3>4 DEF Circle
    <3> QED
      BY <1>0, <3>5, NoCircles
  <2> QED
    BY <2>2, <2>3, <2>4
<1> QED
  BY <1>3, <1>4 DEF WriteTag

\* Rows move only in steps that leave their request idle or at a list.
LEMMA WalkStep ==
    ASSUME OneRequest, TreeInv, NEW h \in Filers, Files(h)
    PROVE  WalkOK'
<1> DEFINE r == filing[h]
           WalkDone == \/ filing'[h].at \notin {"walk", "write"}
                       \/ /\ tag' = tag
                          /\ filing'[h].at = "walk" => Climbed(filing'[h])
                          /\ filing'[h].at = "write" =>
                                \/ Filed(filing'[h].id) /\ filing'[h].parent = tag[filing'[h].id].parent
                                \/ Climbed(filing'[h]) /\ filing'[h].up = Root
<1>0. RowsOK /\ FilingsOK /\ WalkOK /\ r \in Filing /\ OneFiling(r) /\ DOMAIN filing = Filers
  BY InvParts DEF TreeInv, FilingsOK
<1>1. SUFFICES WalkDone
  BY DEF WalkOK, OneWalk, OneRequest, Climbed, Filed
<1>2. ASSUME Answers(h) PROVE WalkDone
  BY <1>0, <1>2 DEF Answers, Unfiled
<1>3. ASSUME NEW n \in Names, NEW p \in Tags \cup {Root}, CreateTag(h, n, p) PROVE WalkDone
  BY <1>0, <1>3 DEF CreateTag, Unfiled
<1>4. ASSUME NEW t \in Tags, InsertTag(h, t) PROVE WalkDone
  BY <1>0, <1>2, <1>4 DEF InsertTag, Unfiled
<1>5. ASSUME NEW path \in Paths, EnsureTagPath(h, path) PROVE WalkDone
  BY <1>0, <1>5 DEF EnsureTagPath, Unfiled
<1>6. ASSUME NextSegment(h) PROVE WalkDone
  <2>1. r.at = "list"
    BY <1>6 DEF NextSegment
  <2>2. ASSUME NEW t \in Tags, filing' = [filing EXCEPT ![h].parent = t, ![h].path = Tail(r.path)]
        PROVE  WalkDone
    <3>1. filing'[h].at = r.at
      BY <1>0, <2>2 DEF Filing
    <3> QED
      BY <2>1, <3>1
  <2>3. ASSUME filing' = [filing EXCEPT ![h].at = "insert", ![h].name = Head(r.path),
                                       ![h].path = Tail(r.path)]
        PROVE  WalkDone
    <3>1. filing'[h].at = "insert"
      BY <1>0, <2>3 DEF Filing
    <3> QED
      BY <3>1
  <2> HIDE DEF WalkDone
  <2> QED
    BY <1>2, <1>6, <2>2, <2>3 DEF NextSegment, ChildrenOf
<1>7. ASSUME NEW t \in Tags, NEW n \in Names, NEW p \in Tags \cup {Root}, UpdateTag(h, t, n, p)
      PROVE  WalkDone
  <2>1. /\ filing'[h].at \in {"walk", "write"} /\ filing'[h].id = t /\ filing'[h].parent = p
        /\ filing'[h].up = p /\ filing'[h].seen = {t} /\ tag' = tag
        /\ filing'[h].at = "write" => p = Root
    BY <1>0, <1>7 DEF UpdateTag, Unfiled
  <2> QED
    BY <2>1 DEF Climbed
<1>8. ASSUME NEW t \in Tags, NEW n \in Names, RenameTag(h, t, n) PROVE WalkDone
  BY <1>0, <1>8 DEF RenameTag, Unfiled
<1>9. ASSUME CheckTagParent(h), ~Answers(h) PROVE WalkDone
  <2> DEFINE up == tag[r.up].parent
  <2>1. /\ r.at = "walk" /\ r.up \notin r.seen /\ Filed(r.up) /\ tag' = tag
        /\ filing' = [filing EXCEPT ![h].at = IF up = Root THEN "write" ELSE "walk",
                                    ![h].up = up, ![h].seen = @ \cup {r.up}]
    BY <1>9 DEF CheckTagParent
  <2>2. /\ filing'[h].at = IF up = Root THEN "write" ELSE "walk"
        /\ filing'[h].up = up /\ filing'[h].seen = r.seen \cup {r.up}
        /\ filing'[h].id = r.id /\ filing'[h].parent = r.parent
    BY <1>0, <2>1 DEF Filing
  <2>3. Climbed(r)
    BY <1>0, <2>1 DEF WalkOK, OneWalk
  <2> HIDE DEF r
  <2>4. Climbed(filing'[h])
    BY <2>1, <2>2, <2>3 DEF Climbed
  <2> QED
    BY <2>1, <2>2, <2>4
<1>10. ASSUME NEW t \in Tags, DeleteTag(h, t) PROVE WalkDone
  BY <1>0, <1>10 DEF DeleteTag
<1>11. ASSUME InsertFails(h) \/ WriteTag(h) \/ Abandons(h) PROVE WalkDone
  BY <1>2, <1>11 DEF InsertFails, WriteTag, Abandons
<1> HIDE DEF WalkDone
<1>12. CheckTagParent(h) => WalkDone
  BY <1>2, <1>9
<1> QED
  BY <1>3, <1>4, <1>5, <1>6, <1>7, <1>8, <1>10, <1>11, <1>12 DEF Files

\* Tags stay a tree for any tags, names and paths as long as one request is
\* done before the next begins: what store/tags.go:198 lacks is a transaction.
THEOREM OneRequestKeepsATree == OneRequest => (TagsSpec => []TagsAreATree)
<1> SUFFICES ASSUME OneRequest PROVE TagsSpec => []TagsAreATree
  OBVIOUS
<1>1. TagsInit => TreeInv
  <2> SUFFICES ASSUME TagsInit PROVE TagsAreATree /\ WalkOK
    BY TagsInvInit DEF TreeInv
  <2> QED
    BY DEF TagsInit, TagsAreATree, WalkOK, OneWalk, Filed, Unfiled
<1>2. TreeInv /\ [TagsNext]_tagVars => TreeInv'
  <2> SUFFICES ASSUME TreeInv, [TagsNext]_tagVars PROVE TreeInv'
    OBVIOUS
  <2>1. TagsInv'
    BY TagsInvStep DEF TreeInv
  <2>2. RowsOK /\ RowsOK'
    BY <2>1, InvParts DEF TreeInv, TagsInv, TagsTypeOK, RowsOK
  <2>3. ASSUME NEW h \in Filers, Files(h) PROVE TagsAreATree' /\ WalkOK'
    <3>1. ASSUME tag' = tag PROVE TagsAreATree'
      <4>1. \A S \in SUBSET Tags : Circle(S)' => Circle(S)
        BY <3>1 DEF Circle, Filed
      <4> QED
        BY <2>2, <4>1, NoCircles, NoCirclesNext DEF TreeInv
    <3>2. TagsAreATree'
      <4>1. ASSUME NEW t \in Tags, InsertTag(h, t) PROVE TagsAreATree'
        BY <2>2, <4>1, InsertKeepsTree DEF TreeInv
      <4>2. ASSUME NEW t \in Tags, DeleteTag(h, t) PROVE TagsAreATree'
        BY <2>2, <4>2, DeleteKeepsTree DEF TreeInv
      <4>3. ASSUME WriteTag(h) PROVE TagsAreATree'
        BY <2>2, <4>3, WriteKeepsTree
      <4>4. FilingsOK
        BY InvParts DEF TreeInv
      <4> QED
        BY <2>2, <2>3, <3>1, <4>1, <4>2, <4>3, <4>4, RowsChange
    <3> QED
      BY <2>3, <3>2, WalkStep
  <2>4. CASE UNCHANGED tagVars
    <3>1. TagsAreATree'
      <4>1. \A S \in SUBSET Tags : Circle(S)' => Circle(S)
        BY <2>4 DEF tagVars, Circle, Filed
      <4> QED
        BY <2>2, <4>1, NoCircles, NoCirclesNext DEF TreeInv
    <3>2. WalkOK'
      <4>1. WalkOK
        BY DEF TreeInv
      <4>2. filing' = filing /\ tag' = tag
        BY <2>4 DEF tagVars
      <4>3. \A h \in Filers : Climbed(filing[h])' <=> Climbed(filing[h])
        BY <4>2 DEF Climbed, Filed
      <4>4. ASSUME NEW h \in Filers PROVE OneWalk(h)'
        <5>1. OneWalk(h)
          BY <4>1 DEF WalkOK
        <5>2. Filed(filing[h].id)' <=> Filed(filing[h].id)
          BY <4>2 DEF Filed
        <5> QED
          BY <4>2, <4>3, <5>1, <5>2 DEF OneWalk
      <4> QED
        BY <4>4 DEF WalkOK
    <3> QED
      BY <2>1, <3>1, <3>2 DEF TreeInv
  <2> QED
    BY <2>1, <2>3, <2>4 DEF TreeInv, TagsNext
<1>3. TreeInv => TagsAreATree
  BY DEF TreeInv
<1> QED
  BY <1>1, <1>2, <1>3, PTL DEF TagsSpec
=============================================================================
