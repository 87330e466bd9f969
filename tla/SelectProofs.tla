---------------------------- MODULE SelectProofs ----------------------------
(***************************************************************************)
(* What is on a page and how wide it is: the rounds of Select, for any     *)
(* feeds, queues, priorities and page size, and assignSlots, for pages of  *)
(* any length and pictures of any size.                                    *)
(***************************************************************************)
EXTENDS Sampler, Layout, TLAPS, FiniteSetTheorems

(***************************************************************************)
(* The rounds of Select.                                                   *)
(***************************************************************************)
\* The articles of bands 1 to n.
Upto(n) == {a \in Articles : \E m \in Bands : m <= n /\ a \in Band(m)}

\* No piece twice.
PlacedOnce ==
    \A i, j \in DOMAIN picks : LinkOf[picks[i]] = LinkOf[picks[j]] => i = j

\* Nothing has been reached for below the band being drawn.
InOrder == \A n \in Bands : band <= n => Placed \subseteq Upto(n)

\* What a cursor has passed is on the page, and who is off the line has been
\* read to the end.
Passed ==
    band \in Bands =>
        \A f \in OnLine : \A i \in DOMAIN Items(f) :
            i <= cursor[f] \/ f \notin live => Taken(Items(f)[i])

\* A band is behind only when it is dry, or the page was full within it.
Behind ==
    \A n \in Bands : n < band =>
        \/ Full /\ Placed \subseteq Upto(n)
        \/ Carries(Placed, Upto(n))

Spent ==
    /\ band \in Bands =>
           turns + Cardinality(live) <= Len(picks) + band * Cardinality(Feeds)
    /\ band = 4 => turns <= Len(picks) + 3 * Cardinality(Feeds)

IInv == /\ TypeOK /\ PlacedOnce /\ InOrder /\ Placed \subseteq Upto(3)
        /\ Passed /\ Behind /\ Spent

(***************************************************************************)
(* Sets and links.                                                         *)
(***************************************************************************)
LEMMA PlacedCount ==
    ASSUME TypeOK, PlacedOnce
    PROVE  IsFiniteSet(Placed) /\ Cardinality(Placed) = Len(picks)
<1> DEFINE S == 1 .. Len(picks)
<1>1. picks \in Seq(Articles) /\ Len(picks) \in Nat /\ DOMAIN picks = S
  BY DEF TypeOK
<1>2. IsFiniteSet(S) /\ Cardinality(S) = Len(picks)
  BY <1>1, FS_Interval
<1>3. picks \in [S -> Placed]
  BY <1>1 DEF Placed
<1>4. picks \in Surjection(S, Placed)
  BY <1>1, <1>3 DEF Surjection, Placed
<1>5. picks \in Injection(S, Placed)
  BY <1>1, <1>3 DEF Injection, IsInjective, PlacedOnce
<1>6. IsFiniteSet(Placed) /\ Cardinality(Placed) = Cardinality(S)
  <2> HIDE DEF S
  <2>1. QED
    BY <1>2, <1>4, <1>5, FS_Surjection
<1>7. QED
  BY <1>2, <1>6

LEMMA LinksGrow ==
    ASSUME NEW S, NEW R, S \subseteq R
    PROVE  Links(S) \subseteq Links(R)
BY DEF Links

LEMMA CarriesGrows ==
    ASSUME NEW S, NEW R, NEW A, S \subseteq R, Carries(S, A)
    PROVE  Carries(R, A)
<1>1. S \cap A \subseteq R \cap A
  OBVIOUS
<1>2. QED
  BY <1>1, LinksGrow DEF Carries

\* What the bands hold does not change while a page is drawn.
LEMMA BandsFixed ==
    ASSUME UNCHANGED <<priority, queue>>
    PROVE  /\ OnLine' = OnLine
           /\ \A n \in Bands : Upto(n)' = Upto(n)
<1>1. OnLine' = OnLine
  BY DEF OnLine
<1>2. \A n \in Bands : Band(n)' = Band(n)
  BY DEF Band, Bands
<1>3. \A n \in Bands : Upto(n)' = Upto(n)
  BY <1>2 DEF Upto
<1>4. QED
  BY <1>1, <1>3

LEMMA BandItems ==
    ASSUME TypeOK, NEW n \in Bands, NEW f \in OnLine, NEW i \in DOMAIN queue[f][n]
    PROVE  queue[f][n][i] \in Band(n)
<1>1. f \in Feeds /\ priority[f] # 0
  BY DEF TypeOK, OnLine
<1>2. queue[f][n] \in Seq(Articles)
  BY <1>1 DEF TypeOK
<1>3. queue[f][n][i] \in Articles
  BY <1>2
<1>4. QED
  BY <1>1, <1>3 DEF Band

LEMMA BandHolders ==
    ASSUME TypeOK, NEW n \in Bands, NEW a \in Band(n)
    PROVE  \E f \in OnLine : \E i \in DOMAIN queue[f][n] : queue[f][n][i] = a
<1>1. PICK f \in Feeds : \E i \in DOMAIN queue[f][n] :
                             priority[f] # 0 /\ queue[f][n][i] = a
  BY DEF Band
<1>2. f \in OnLine
  BY <1>1 DEF TypeOK, OnLine
<1>3. QED
  BY <1>1, <1>2

LEMMA UptoSteps ==
    /\ Upto(1) = Band(1)
    /\ Upto(2) = Upto(1) \cup Band(2)
    /\ Upto(3) = Upto(2) \cup Band(3)
BY DEF Upto, Band, Bands

(***************************************************************************)
(* The initial state and the steps.                                        *)
(***************************************************************************)
LEMMA Initially == Init => IInv
<1> SUFFICES ASSUME Init PROVE IInv
  OBVIOUS
<1>1. TypeOK
  <2>1. <<>> \in Seq(Articles) /\ Len(<<>>) = 0
    OBVIOUS
  <2>2. QED
    BY <2>1, SamplerAssumption DEF Init, TypeOK, OnLine
<1>2. Placed = {} /\ DOMAIN picks = {}
  BY DEF Init, Placed
<1>3. PlacedOnce /\ InOrder /\ Placed \subseteq Upto(3)
  BY <1>2 DEF PlacedOnce, InOrder
<1>4. Passed
  <2> SUFFICES ASSUME NEW f \in OnLine, NEW i \in DOMAIN Items(f),
                      i <= cursor[f] \/ f \notin live
               PROVE  FALSE
    BY DEF Passed
  <2>1. f \in Feeds /\ band \in Bands /\ f \in live /\ cursor[f] = 0
    BY DEF Init, OnLine, Bands
  <2>2. Items(f) \in Seq(Articles)
    BY <2>1, <1>1 DEF TypeOK, Items
  <2>3. QED
    BY <2>1, <2>2
<1>5. Behind
  BY DEF Behind, Init, Bands
<1>6. Spent
  <2>1. OnLine \in SUBSET Feeds
    BY DEF OnLine
  <2>2. /\ Cardinality(OnLine) <= Cardinality(Feeds)
        /\ Cardinality(OnLine) \in Nat /\ Cardinality(Feeds) \in Nat
    BY <2>1, SamplerAssumption, FS_Subset, FS_CardinalityType
  <2>3. QED
    BY <2>2 DEF Spent, Init, Bands
<1>7. QED
  BY <1>1, <1>3, <1>4, <1>5, <1>6 DEF IInv

LEMMA PlaceKeeps ==
    ASSUME IInv, NEW f \in Feeds, Place(f)
    PROVE  IInv'
<1>0. /\ TypeOK /\ PlacedOnce /\ InOrder /\ Placed \subseteq Upto(3)
      /\ Passed /\ Behind /\ Spent
  BY DEF IInv
<1>1. PICK i \in Waiting(f) :
          /\ \A j \in Waiting(f) : i <= j
          /\ picks' = Append(picks, Items(f)[i])
          /\ cursor' = [cursor EXCEPT ![f] = i]
  BY DEF Place
<1>2. /\ band \in Bands /\ ~Full /\ f \in live /\ f \in OnLine
      /\ turns' = turns + 1
      /\ UNCHANGED <<priority, queue, band, live>>
  BY <1>0 DEF Place, TypeOK
<1>3. /\ OnLine' = OnLine
      /\ \A n \in Bands : Upto(n)' = Upto(n)
  BY <1>2, BandsFixed
<1>4. Items(f) \in Seq(Articles) /\ i \in DOMAIN Items(f) /\ i \in Nat
  BY <1>0, <1>2 DEF TypeOK, Items, Waiting
<1> DEFINE new == Items(f)[i]
<1>5. new \in Articles /\ new \in Band(band)
  BY <1>0, <1>2, <1>4, BandItems DEF Items
<1>6. ~Taken(new)
  BY <1>1 DEF Waiting
<1>7. /\ picks' = Append(picks, new)
      /\ picks \in Seq(Articles) /\ Len(picks) \in Nat
  BY <1>0, <1>1 DEF TypeOK
<1> HIDE DEF new
<1>8. /\ picks' \in Seq(Articles) /\ Len(picks') = Len(picks) + 1
      /\ DOMAIN picks = 1 .. Len(picks)
      /\ DOMAIN picks' = 1 .. (Len(picks) + 1)
      /\ \A c \in 1 .. Len(picks) : picks'[c] = picks[c]
      /\ picks'[Len(picks) + 1] = new
  BY <1>5, <1>7
<1>9. Placed' = Placed \cup {new}
  BY <1>7, <1>8 DEF Placed
<1>10. TypeOK'
  <2>1. Len(picks') <= EditionSize
    BY <1>2, <1>7, <1>8, SamplerAssumption DEF Full
  <2>2. cursor' \in [Feeds -> Nat]
    BY <1>0, <1>1, <1>4 DEF TypeOK
  <2>3. QED
    BY <1>0, <1>2, <1>3, <1>8, <2>1, <2>2 DEF TypeOK
<1>11. PlacedOnce'
  <2>1. \A c \in DOMAIN picks : LinkOf[picks[c]] # LinkOf[new]
    BY <1>6 DEF Taken, Links, Placed
  <2>2. QED
    BY <1>0, <1>7, <1>8, <2>1 DEF PlacedOnce
<1>12. new \in Upto(3) /\ \A n \in Bands : band <= n => new \in Upto(n)
  BY <1>2, <1>5 DEF Upto, Bands
<1>13. InOrder' /\ (Placed \subseteq Upto(3))'
  BY <1>0, <1>2, <1>3, <1>9, <1>12 DEF InOrder, Bands
<1>14. Passed'
  <2> SUFFICES ASSUME NEW g \in OnLine, NEW c \in DOMAIN Items(g),
                      c <= cursor'[g] \/ g \notin live
               PROVE  Items(g)[c] \in Articles => LinkOf[Items(g)[c]] \in Links(Placed')
    <3>1. \A g \in Feeds : Items(g)' = Items(g)
      BY <1>2 DEF Items
    <3>2. \A g \in OnLine : g \in Feeds
      BY DEF OnLine
    <3>3. \A g \in OnLine : \A c \in DOMAIN Items(g) : Items(g)[c] \in Articles
      BY <1>0, <1>2, <3>2 DEF Items, TypeOK
    <3>4. Links(Placed)' = Links(Placed')
      BY DEF Links
    <3>5. QED
      BY <1>2, <1>3, <3>1, <3>2, <3>3, <3>4 DEF Passed, Taken
  <2>0. Links(Placed) \subseteq Links(Placed')
    BY <1>9, LinksGrow
  <2>1. CASE g # f \/ g \notin live
    <3>1. g # f => cursor'[g] = cursor[g]
      BY <1>0, <1>1 DEF TypeOK, OnLine
    <3>2. Taken(Items(g)[c])
      BY <1>0, <1>2, <2>1, <3>1 DEF Passed
    <3>3. QED
      BY <2>0, <3>2 DEF Taken
  <2>2. CASE g = f /\ g \in live
    <3>1. cursor'[g] = i /\ c <= i
      BY <1>0, <1>1, <2>2 DEF TypeOK
    <3>2. CASE c = i
      BY <2>2, <3>2, <1>9 DEF Links, new
    <3>3. CASE c # i
      <4>1. c \in Nat /\ c \in DOMAIN Items(f) /\ c < i /\ cursor[f] \in Nat
        BY <1>0, <1>4, <2>2, <3>1, <3>3 DEF TypeOK
      <4>2. c \notin Waiting(f)
        BY <1>1, <1>4, <4>1
      <4>3. Taken(Items(f)[c])
        BY <1>0, <1>2, <4>1, <4>2 DEF Waiting, Passed
      <4>4. QED
        BY <2>0, <2>2, <4>3 DEF Taken
    <3>4. QED
      BY <3>2, <3>3
  <2>3. QED
    BY <2>1, <2>2
<1>15. Behind'
  <2>1. \A n \in Bands : n < band => Carries(Placed, Upto(n))
    BY <1>0, <1>2 DEF Behind
  <2>2. \A n \in Bands : n < band => Carries(Placed', Upto(n))
    BY <1>9, <2>1, CarriesGrows
  <2>3. \A n \in Bands : Carries(Placed, Upto(n))' <=> Carries(Placed', Upto(n))
    BY <1>3 DEF Carries, Links
  <2>4. QED
    BY <1>2, <2>2, <2>3 DEF Behind
<1>16. Spent'
  <2>1. Cardinality(live) \in Nat /\ Cardinality(Feeds) \in Nat
    <3>1. live \in SUBSET Feeds
      BY <1>0 DEF TypeOK, OnLine
    <3>2. QED
      BY <3>1, SamplerAssumption, FS_Subset, FS_CardinalityType
  <2>2. turns \in Nat /\ band \in 1 .. 3
    BY <1>0, <1>2 DEF TypeOK, Bands
  <2>3. turns + Cardinality(live) <= Len(picks) + band * Cardinality(Feeds)
    BY <1>0, <1>2 DEF Spent
  <2>4. band * Cardinality(Feeds) \in Nat
    BY <2>1, <2>2
  <2>5. turns' + Cardinality(live) <= Len(picks') + band * Cardinality(Feeds)
    BY <1>2, <1>7, <1>8, <2>1, <2>2, <2>3, <2>4
  <2>6. QED
    BY <1>2, <2>2, <2>5 DEF Spent
<1>17. QED
  BY <1>10, <1>11, <1>13, <1>14, <1>15, <1>16 DEF IInv

LEMMA TakeOffKeeps ==
    ASSUME IInv, NEW f \in Feeds, TakeOff(f)
    PROVE  IInv'
<1>0. /\ TypeOK /\ PlacedOnce /\ InOrder /\ Placed \subseteq Upto(3)
      /\ Passed /\ Behind /\ Spent
  BY DEF IInv
<1>1. /\ band \in Bands /\ f \in live /\ Waiting(f) = {}
      /\ live' = live \ {f}
      /\ cursor' = [cursor EXCEPT ![f] = Len(Items(f))]
      /\ turns' = turns + 1
      /\ UNCHANGED <<priority, queue, band, picks>>
  BY DEF TakeOff
<1>2. OnLine' = OnLine /\ \A n \in Bands : Upto(n)' = Upto(n)
  BY <1>1, BandsFixed
<1>3. Placed' = Placed /\ (Full' <=> Full)
  BY <1>1 DEF Placed, Full
<1>4. Items(f) \in Seq(Articles) /\ Len(Items(f)) \in Nat
  BY <1>0, <1>1 DEF TypeOK, Items
<1>5. TypeOK'
  BY <1>0, <1>1, <1>2, <1>4 DEF TypeOK
<1>6. PlacedOnce' /\ InOrder' /\ (Placed \subseteq Upto(3))'
  BY <1>0, <1>1, <1>2, <1>3 DEF PlacedOnce, InOrder, Bands
<1>7. Passed'
  <2>1. \A g \in Feeds : Items(g)' = Items(g)
    BY <1>1 DEF Items
  <2>2. \A a : Taken(a)' <=> Taken(a)
    BY <1>3 DEF Taken, Links
  <2> SUFFICES ASSUME NEW g \in OnLine, NEW c \in DOMAIN Items(g),
                      c <= cursor'[g] \/ g \notin live'
               PROVE  Taken(Items(g)[c])
    BY <1>1, <1>2, <2>1, <2>2 DEF Passed, OnLine
  <2>3. CASE g # f
    BY <1>0, <1>1, <2>3 DEF Passed, TypeOK, OnLine
  <2>4. CASE g = f
    <3>1. c \in Nat /\ cursor[f] \in Nat
      BY <1>0, <1>4, <2>4 DEF TypeOK
    <3>2. c <= cursor[f] \/ Taken(Items(g)[c])
      BY <1>1, <2>4, <3>1 DEF Waiting
    <3>3. QED
      BY <1>0, <1>1, <2>4, <3>2 DEF Passed
  <2>5. QED
    BY <2>3, <2>4
<1>8. Behind'
  BY <1>0, <1>1, <1>2, <1>3 DEF Behind, Carries, Links
<1>9. Spent'
  <2>1. live \in SUBSET Feeds
    BY <1>0 DEF TypeOK, OnLine
  <2>2. IsFiniteSet(live)
    BY <2>1, SamplerAssumption, FS_Subset
  <2>3. /\ Cardinality(live) \in Nat
        /\ Cardinality(live \ {f}) = Cardinality(live) - 1
        /\ Cardinality(live \ {f}) \in Nat
    BY <1>1, <2>2, FS_RemoveElement, FS_CardinalityType
  <2>4. turns \in Nat /\ band \in 1 .. 3
    BY <1>0, <1>1 DEF TypeOK, Bands
  <2>5. turns + Cardinality(live) = turns' + Cardinality(live')
    BY <1>1, <2>3, <2>4
  <2>6. QED
    BY <1>0, <1>1, <2>4, <2>5 DEF Spent
<1>10. QED
  BY <1>5, <1>6, <1>7, <1>8, <1>9 DEF IInv

\* A line with nobody on it has been read to the end by everybody.
LEMMA DryBand ==
    ASSUME IInv, band \in Bands, live = {}
    PROVE  Links(Band(band)) \subseteq Links(Placed)
<1> SUFFICES ASSUME NEW a \in Band(band) PROVE LinkOf[a] \in Links(Placed)
  BY DEF Links
<1>1. PICK f \in OnLine : \E i \in DOMAIN queue[f][band] : queue[f][band][i] = a
  BY BandHolders DEF IInv
<1>2. PICK i \in DOMAIN Items(f) : Items(f)[i] = a
  BY <1>1 DEF Items
<1>3. QED
  BY <1>2 DEF IInv, Passed, Taken

LEMMA NextBandKeeps ==
    ASSUME IInv, NextBand
    PROVE  IInv'
<1>0. /\ TypeOK /\ PlacedOnce /\ InOrder /\ Placed \subseteq Upto(3)
      /\ Passed /\ Behind /\ Spent
  BY DEF IInv
<1>1. /\ band \in Bands /\ (Full \/ live = {})
      /\ band' = band + 1 /\ live' = OnLine
      /\ cursor' = [f \in Feeds |-> 0]
      /\ UNCHANGED <<priority, queue, picks, turns>>
  BY DEF NextBand
<1>2. OnLine' = OnLine /\ \A n \in Bands : Upto(n)' = Upto(n)
  BY <1>1, BandsFixed
<1>3. Placed' = Placed /\ (Full' <=> Full)
  BY <1>1 DEF Placed, Full
<1>4. band \in 1 .. 3 /\ band' \in 1 .. 4
  BY <1>1 DEF Bands
<1>5. TypeOK'
  BY <1>0, <1>1, <1>2, <1>4 DEF TypeOK
<1>6. PlacedOnce' /\ InOrder' /\ (Placed \subseteq Upto(3))'
  BY <1>0, <1>1, <1>2, <1>3, <1>4 DEF PlacedOnce, InOrder, Bands
<1>7. Passed'
  <2> SUFFICES ASSUME band' \in Bands, NEW f \in OnLine, NEW i \in DOMAIN Items(f)',
                      i <= cursor'[f] \/ f \notin live'
               PROVE  FALSE
    BY <1>2 DEF Passed
  <2>1. f \in Feeds /\ f \in live' /\ cursor'[f] = 0
    BY <1>1 DEF OnLine
  <2>2. Items(f)' \in Seq(Articles)
    BY <1>5, <2>1 DEF TypeOK, Items
  <2>3. QED
    BY <2>1, <2>2
<1>8. Behind'
  <2> SUFFICES ASSUME NEW n \in Bands, n < band',
                      ~(Full /\ Placed \subseteq Upto(n))
               PROVE  Carries(Placed, Upto(n))
    BY <1>2, <1>3 DEF Behind, Carries, Links
  <2>1. CASE n < band
    BY <1>0, <2>1 DEF Behind
  <2>2. CASE n = band
    <3>1. Placed \subseteq Upto(n) /\ ~Full
      BY <1>0, <1>4, <2>2 DEF InOrder, Bands
    <3>2. Links(Band(n)) \subseteq Links(Placed)
      BY <1>1, <2>2, <3>1, DryBand
    <3>3. \A m \in Bands : m < n => Links(Upto(m)) \subseteq Links(Placed)
      BY <1>0, <2>2, <3>1 DEF Behind, Carries, Links
    <3>4. Upto(n) \subseteq Band(n) \cup UNION {Upto(m) : m \in {c \in Bands : c < n}}
      BY <1>4, <2>2 DEF Upto, Bands
    <3>5. Links(Upto(n)) \subseteq Links(Placed)
      BY <3>2, <3>3, <3>4 DEF Links
    <3>6. Placed \cap Upto(n) = Placed
      BY <3>1
    <3>7. QED
      BY <3>5, <3>6 DEF Carries
  <2>3. QED
    BY <1>1, <1>4, <2>1, <2>2 DEF Bands
<1>9. Spent'
  <2>1. OnLine \in SUBSET Feeds /\ live \in SUBSET Feeds
    BY <1>0 DEF TypeOK, OnLine
  <2>2. /\ Cardinality(OnLine) <= Cardinality(Feeds)
        /\ Cardinality(OnLine) \in Nat /\ Cardinality(Feeds) \in Nat
        /\ Cardinality(live) \in Nat
    BY <2>1, SamplerAssumption, FS_Subset, FS_CardinalityType
  <2>3. turns \in Nat /\ Len(picks) \in Nat
    BY <1>0 DEF TypeOK
  <2>4. turns + Cardinality(live) <= Len(picks) + band * Cardinality(Feeds)
    BY <1>0, <1>1 DEF Spent
  <2>5. CASE band = 1
    BY <1>1, <2>2, <2>3, <2>4, <2>5 DEF Spent, Bands
  <2>6. CASE band = 2
    BY <1>1, <2>2, <2>3, <2>4, <2>6 DEF Spent, Bands
  <2>7. CASE band = 3
    BY <1>1, <2>2, <2>3, <2>4, <2>7 DEF Spent, Bands
  <2>8. QED
    BY <1>4, <2>5, <2>6, <2>7
<1>10. QED
  BY <1>5, <1>6, <1>7, <1>8, <1>9 DEF IInv

LEMMA StutterKeeps ==
    ASSUME IInv, UNCHANGED vars
    PROVE  IInv'
<1> USE DEF vars
<1>1. TypeOK'
  BY DEF IInv, TypeOK, OnLine
<1>2. UNCHANGED <<priority, queue>>
  OBVIOUS
<1>3. OnLine' = OnLine /\ \A n \in Bands : Upto(n)' = Upto(n)
  BY <1>2, BandsFixed
<1>4. Placed' = Placed /\ (Full' <=> Full)
  BY DEF Placed, Full
<1>5. PlacedOnce' /\ InOrder' /\ (Placed \subseteq Upto(3))'
  BY <1>3, <1>4 DEF IInv, PlacedOnce, InOrder, Bands
<1>6. Passed' /\ Behind' /\ Spent'
  BY <1>3, <1>4 DEF IInv, Passed, Behind, Spent, Carries, Links, Taken, Items, OnLine
<1>7. QED
  BY <1>1, <1>5, <1>6 DEF IInv

LEMMA Inductive == Spec => []IInv
<1>1. IInv /\ [Next]_vars => IInv'
  <2> SUFFICES ASSUME IInv, [Next]_vars PROVE IInv'
    OBVIOUS
  <2>1. ASSUME NEW f \in Feeds, Place(f) PROVE IInv'
    BY <2>1, PlaceKeeps
  <2>2. ASSUME NEW f \in Feeds, TakeOff(f) PROVE IInv'
    BY <2>2, TakeOffKeeps
  <2>3. CASE NextBand
    BY <2>3, NextBandKeeps
  <2>4. CASE UNCHANGED vars
    BY <2>4, StutterKeeps
  <2>5. QED
    BY <2>1, <2>2, <2>3, <2>4 DEF Next, Turn
<1>2. QED
  BY Initially, <1>1, PTL DEF Spec

(***************************************************************************)
(* The theorems.                                                           *)
(***************************************************************************)
\* Every local of Select stays within its type and its bounds.
THEOREM SamplerTypeCorrect == Spec => []TypeOK
<1>1. IInv => TypeOK
  BY DEF IInv
<1>2. QED
  BY <1>1, Inductive, PTL

\* Whatever numbers are thrown, a page is one of Editions' selections: the
\* set Editions takes for what compose may pick is what the code's own rounds
\* pick.
THEOREM RoundsChooseASelection == Spec => []ChoosesASelection
<1>1. IInv => ChoosesASelection
  <2> SUFFICES ASSUME IInv, band = 4
               PROVE  Placed \in Selections(Band(1), Band(2), Band(3))
    BY DEF ChoosesASelection
  <2>0. /\ TypeOK /\ PlacedOnce /\ Placed \subseteq Upto(3) /\ Behind
    BY DEF IInv
  <2>1. Band(1) = Upto(1) /\ Band(1) \cup Band(2) = Upto(2)
        /\ Band(1) \cup Band(2) \cup Band(3) = Upto(3)
    BY UptoSteps
  <2>2. Cardinality(Placed) <= EditionSize /\ (Full => Cardinality(Placed) = EditionSize)
    BY <2>0, PlacedCount, SamplerAssumption DEF TypeOK, Full
  <2>3. \A a, b \in Placed : LinkOf[a] = LinkOf[b] => a = b
    BY <2>0 DEF PlacedOnce, Placed
  <2>4. 1 \in Bands /\ 2 \in Bands /\ 3 \in Bands
    BY DEF Bands
  <2>5. \A n \in Bands : n < 4
    BY DEF Bands
  <2>6. Full \/ Carries(Placed, Upto(3))
    BY <2>0, <2>4, <2>5 DEF Behind
  <2>7. Placed \subseteq Upto(1) \/ Carries(Placed, Upto(1))
    BY <2>0, <2>4, <2>5 DEF Behind
  <2>8. Placed \subseteq Upto(2) \/ Carries(Placed, Upto(2))
    BY <2>0, <2>4, <2>5 DEF Behind
  <2>9. QED
    BY <2>0, <2>1, <2>2, <2>3, <2>6, <2>7, <2>8 DEF Selections
<1>2. QED
  BY <1>1, Inductive, PTL

\* A page of any size out of any queues takes a bounded number of turns, the
\* count the comment above Select gives as the reason it has no backstop.
THEOREM WorkAlwaysBounded == Spec => []WorkIsBounded
<1>1. IInv => WorkIsBounded
  <2> SUFFICES ASSUME IInv PROVE WorkIsBounded
    OBVIOUS
  <2>1. live \in SUBSET Feeds
    BY DEF IInv, TypeOK, OnLine
  <2>2. Cardinality(live) \in Nat /\ Cardinality(Feeds) \in Nat
    BY <2>1, SamplerAssumption, FS_Subset, FS_CardinalityType
  <2>3. /\ turns \in Nat /\ Len(picks) \in Nat /\ Len(picks) <= EditionSize
        /\ EditionSize \in Nat /\ band \in 1 .. 4
    BY SamplerAssumption DEF IInv, TypeOK
  <2>4. CASE band = 4
    BY <2>2, <2>3, <2>4 DEF IInv, Spent, WorkIsBounded
  <2>5. CASE band \in Bands
    <3>1. turns + Cardinality(live) <= Len(picks) + band * Cardinality(Feeds)
      BY <2>5 DEF IInv, Spent
    <3>2. band = 1 \/ band = 2 \/ band = 3
      BY <2>5 DEF Bands
    <3>3. band * Cardinality(Feeds) <= 3 * Cardinality(Feeds)
      BY <2>2, <3>2
    <3>4. band * Cardinality(Feeds) \in Nat
      BY <2>2, <3>2
    <3>5. QED
      BY <2>2, <2>3, <3>1, <3>3, <3>4 DEF WorkIsBounded
  <2>6. QED
    BY <2>3, <2>4, <2>5 DEF Bands
<1>2. QED
  BY <1>1, Inductive, PTL

(***************************************************************************)
(* Widths: how wide a card may be, how many cards stand out and how they   *)
(* are spread.                                                             *)
(***************************************************************************)
\* What is to be widened: no brief, and one card a band at most - the j-th is
\* past the first j - 1 bands, unless it is the opener.
Chosen ==
    \A j \in DOMAIN at :
        /\ ~Bare(items[at[j]])
        /\ j > 1 => at[j] >= 2 + (j - 1) * BandLength

Counted ==
    /\ Len(at) <= Wides
    /\ stage = "scatter" => Len(at) <= k /\ k <= Wides

\* Who stands out was chosen, or is a panorama.
Landmarks ==
    \A i \in DOMAIN items : slot[i] \in WideSlots => Panorama(items[i]) \/ \E j \in DOMAIN at : at[j] = i

UprightNarrow == \A i \in DOMAIN items : Upright(items[i]) => slot[i] \notin {"lead", "wide"}

PanoramasWide ==
    stage = "done" =>
        \A i \in DOMAIN items :
            Panorama(items[i]) /\ Fits(items[i], "feature") => slot[i] \in WideSlots

CountInv == LayoutTypeOK /\ Counted /\ Chosen

SlotInv == NeverPastTwice /\ BareStaysBrief /\ Landmarks /\ UprightNarrow /\ PanoramasWide

LayoutInv == CountInv /\ SlotInv

(***************************************************************************)
(* Numbers and widths.                                                     *)
(***************************************************************************)
LEMMA Numbers ==
    ASSUME LayoutTypeOK
    PROVE  /\ Size \in Nat /\ DOMAIN items = 1 .. Size
           /\ Wides \in Nat /\ Wides >= 1 /\ BandLength \in Int
           /\ Len(at) \in Nat /\ DOMAIN at = 1 .. Len(at)
<1>1. Size \in Nat /\ DOMAIN items = 1 .. Size
  BY DEF LayoutTypeOK, Size
<1>2. Wides \in Nat /\ Wides >= 1
  BY <1>1 DEF Wides, Larger
<1>3. BandLength \in Int
  BY <1>1, <1>2 DEF BandLength
<1>4. Len(at) \in Nat /\ DOMAIN at = 1 .. Len(at)
  BY DEF LayoutTypeOK
<1> QED
  BY <1>1, <1>2, <1>3, <1>4

\* The bands behind grow with their number.
LEMMA BandsGrow ==
    ASSUME NEW m \in Nat, NEW n \in Nat, NEW length \in Nat, m <= n
    PROVE  m * length \in Nat /\ n * length \in Nat /\ m * length <= n * length
  OBVIOUS

LEMMA Widths ==
    /\ slotWidth["lead"] = 1352 /\ slotWidth["wide"] = 1007 /\ slotWidth["feature"] = 772
    /\ slotWidth["standard"] = 512 /\ slotWidth["brief"] = 512
  BY DEF slotWidth

LEMMA ItemFields == \A item \in Item : item.width \in Nat /\ item.height \in Nat
  BY DEF Item

\* The widest that fits: a wide one that does, when one does, and no wide slot
\* narrower than a column.
LEMMA WidestFits ==
    ASSUME NEW item \in Item
    PROVE  \/ WidestSlotFor(item) = "standard" /\ \A s \in WideSlots : ~Fits(item, s)
           \/ WidestSlotFor(item) \in WideSlots /\ Fits(item, WidestSlotFor(item))
<1> DEFINE fit == {s \in WideSlots : Fits(item, s)}
<1>1. CASE fit = {}
  <2>1. WidestSlotFor(item) = "standard"
    BY <1>1 DEF WidestSlotFor
  <2> QED
    BY <1>1, <2>1
<1>2. CASE fit # {}
  <2>1. fit \subseteq WideSlots /\ WideSlots = {"lead", "wide", "feature"}
    BY DEF WideSlots
  <2>2. \E s \in fit : \A t \in fit : slotWidth[t] <= slotWidth[s]
    <3>1. CASE "lead" \in fit
      BY <2>1, <3>1, Widths
    <3>2. CASE "lead" \notin fit /\ "wide" \in fit
      BY <2>1, <3>2, Widths
    <3>3. CASE "lead" \notin fit /\ "wide" \notin fit
      BY <1>2, <2>1, <3>3, Widths
    <3> QED
      BY <3>1, <3>2, <3>3
  <2>3. WidestSlotFor(item) = CHOOSE s \in fit : \A t \in fit : slotWidth[t] <= slotWidth[s]
    BY <1>2 DEF WidestSlotFor
  <2> HIDE DEF fit
  <2>4. WidestSlotFor(item) \in fit
    BY <2>2, <2>3
  <2> QED
    BY <2>1, <2>4 DEF fit
<1> QED
  BY <1>1, <1>2

\* A width that was drawn, held to the picture: as wide as drawn or narrower,
\* never a brief, and drawn past twice its size in a column at most.
LEMMA HeldToPicture ==
    ASSUME NEW item \in Item, NEW s \in WideSlots
    PROVE  LET held == Narrower(s, WidestSlotFor(item))
           IN  /\ held \in WideSlots \cup {"standard"}
               /\ held \in WideSlots => Fits(item, held)
               /\ s = "feature" => held \in {"feature", "standard"}
               /\ s = "feature" /\ Fits(item, "feature") => held = "feature"
<1> DEFINE w == WidestSlotFor(item)
           held == Narrower(s, w)
<1>1. WideSlots = {"lead", "wide", "feature"}
  BY DEF WideSlots
<1>2. \A t \in WideSlots : slotWidth[t] \in Nat /\ slotWidth[t] >= 772
  BY <1>1, Widths
<1>3. w = "standard" \/ (w \in WideSlots /\ Fits(item, w))
  BY WidestFits
<1>4. CASE w = "standard"
  <2>1. held = "standard"
    BY <1>2, <1>4, Widths DEF Narrower
  <2>2. ~Fits(item, "feature")
    BY <1>1, <1>4, WidestFits
  <2> QED
    BY <1>1, <2>1, <2>2
<1>5. CASE w \in WideSlots /\ Fits(item, w)
  <2>1. CASE slotWidth[s] <= slotWidth[w]
    <3>1. held = s
      BY <2>1 DEF Narrower
    <3>2. Fits(item, s)
      BY <1>2, <1>5, <2>1, ItemFields DEF Fits, MaxUpscale
    <3> QED
      BY <1>1, <3>1, <3>2
  <2>2. CASE ~(slotWidth[s] <= slotWidth[w])
    <3>1. held = w
      BY <2>2 DEF Narrower
    <3>2. s # "feature"
      BY <1>2, <1>5, <2>2, Widths
    <3> QED
      BY <1>5, <3>1, <3>2
  <2> QED
    BY <2>1, <2>2
<1> QED
  BY <1>3, <1>4, <1>5

(***************************************************************************)
(* Which cards are to be widened.                                          *)
(***************************************************************************)
LEMMA LayoutStarts == LayoutInit => LayoutInv
<1> SUFFICES ASSUME LayoutInit PROVE LayoutInv
  OBVIOUS
<1>1. LayoutTypeOK
  BY LayoutAssumption DEF LayoutInit, LayoutTypeOK, Slots
<1>2. Wides \in Nat /\ Len(at) = 0 /\ DOMAIN at = {}
  BY <1>1, Numbers DEF LayoutInit
<1>3. CountInv
  BY <1>1, <1>2 DEF LayoutInit, CountInv, Counted, Chosen
<1>4. \A i \in DOMAIN items : slot[i] = "standard"
  BY DEF LayoutInit
<1>5. SlotInv
  BY <1>4 DEF LayoutInit, SlotInv, NeverPastTwice, BareStaysBrief, Landmarks, UprightNarrow,
              PanoramasWide, WideSlots
<1> QED
  BY <1>3, <1>5 DEF LayoutInv

LEMMA CountStep == LayoutInv /\ [LayoutNext]_layoutVars => CountInv'
<1> SUFFICES ASSUME LayoutInv, [LayoutNext]_layoutVars PROVE CountInv'
  OBVIOUS
<1>0. LayoutTypeOK /\ Counted /\ Chosen /\ BareStaysBrief
  BY DEF LayoutInv, CountInv, SlotInv
<1>1. /\ Size \in Nat /\ DOMAIN items = 1 .. Size
      /\ Wides \in Nat /\ Wides >= 1 /\ BandLength \in Int
      /\ Len(at) \in Nat /\ DOMAIN at = 1 .. Len(at)
  BY <1>0, Numbers
<1>2. items' = items /\ Size' = Size /\ Wides' = Wides /\ BandLength' = BandLength
  <2>1. items' = items
    BY DEF LayoutNext, layoutVars, Mark, MarkNothing, Scatter, ScatterEnds, Widen, WidenEnds, Raise
  <2> QED
    BY <2>1 DEF Size, Wides, BandLength
<1>3. CASE Mark
  <2>1. 1 \in DOMAIN items
    BY <1>1, <1>3 DEF Mark
  <2>2. slot' \in [DOMAIN items -> Slots]
    BY <1>3 DEF Mark, Slots
  <2>3. \/ at' = <<>> /\ Len(at') = 0 /\ DOMAIN at' = {}
        \/ at' = <<1>> /\ Len(at') = 1 /\ DOMAIN at' = {1} /\ ~Bare(items[1])
    BY <1>3 DEF Mark
  <2>4. at' \in Seq(DOMAIN items)
    <3>1. <<>> \in Seq(DOMAIN items) /\ <<1>> \in Seq(DOMAIN items)
      BY <2>1
    <3>2. at' = <<>> \/ at' = <<1>>
      BY <2>3
    <3> QED
      BY <3>1, <3>2
  <2>5. LayoutTypeOK'
    BY <1>0, <1>2, <1>3, <2>2, <2>3, <2>4 DEF Mark, LayoutTypeOK
  <2>6. Counted'
    BY <1>1, <1>2, <1>3, <2>3 DEF Mark, Counted
  <2>7. Chosen'
    BY <1>2, <2>3 DEF Chosen
  <2> QED
    BY <2>5, <2>6, <2>7 DEF CountInv
<1>4. CASE Scatter
  <2>1. PICK pos \in (2 + k * BandLength) .. (1 + (k + 1) * BandLength) :
            at' = IF pos <= Size /\ slot[pos] = "standard" THEN Append(at, pos) ELSE at
    BY <1>4 DEF Scatter
  <2>2. k \in Nat /\ BandLength \in Nat /\ k < Wides /\ k' = k + 1 /\ Len(at) <= k
        /\ stage = "scatter" /\ stage' = "scatter" /\ UNCHANGED slot
    BY <1>0, <1>1, <1>4 DEF Scatter, LayoutTypeOK, Counted
  <2>3. /\ k * BandLength \in Nat /\ Len(at) * BandLength \in Nat
        /\ Len(at) * BandLength <= k * BandLength
    BY <1>1, <2>2, BandsGrow
  <2>4. CASE at' = at
    <3>1. LayoutTypeOK'
      BY <1>0, <1>2, <2>2, <2>4 DEF LayoutTypeOK
    <3>2. Counted' /\ Chosen'
      BY <1>0, <1>1, <1>2, <2>2, <2>4 DEF Counted, Chosen
    <3> QED
      BY <3>1, <3>2 DEF CountInv
  <2>5. CASE at' = Append(at, pos) /\ pos <= Size /\ slot[pos] = "standard"
    <3>1. pos \in Int /\ pos >= 2 + k * BandLength
      BY <2>2, <2>3, <2>1
    <3>2. pos \in DOMAIN items /\ pos >= 2 + Len(at) * BandLength
      BY <1>1, <2>3, <2>5, <3>1
    <3>3. at' \in Seq(DOMAIN items) /\ Len(at') = Len(at) + 1 /\ DOMAIN at' = 1 .. (Len(at) + 1)
      BY <1>0, <2>5, <3>2 DEF LayoutTypeOK
    <3>4. at'[Len(at) + 1] = pos /\ \A j \in DOMAIN at : at'[j] = at[j]
      BY <1>0, <1>1, <2>5, <3>2 DEF LayoutTypeOK
    <3>5. LayoutTypeOK'
      BY <1>0, <1>2, <2>2, <3>3 DEF LayoutTypeOK
    <3>6. Counted'
      BY <1>1, <1>2, <2>2, <3>3 DEF Counted
    <3>7. ~Bare(items[pos])
      BY <1>0, <2>2, <2>5, <3>2 DEF BareStaysBrief
    <3>8. ASSUME NEW j \in DOMAIN at'
          PROVE  ~Bare(items[at'[j]]) /\ (j > 1 => at'[j] >= 2 + (j - 1) * BandLength)
      <4>1. CASE j = Len(at) + 1
        BY <1>1, <3>2, <3>4, <3>7, <4>1
      <4>2. CASE j \in DOMAIN at
        BY <1>0, <3>4, <4>2 DEF Chosen
      <4> QED
        BY <1>1, <3>3, <4>1, <4>2
    <3>9. Chosen'
      BY <1>2, <3>8 DEF Chosen
    <3> QED
      BY <3>5, <3>6, <3>9 DEF CountInv
  <2> QED
    BY <2>1, <2>4, <2>5
<1>5. CASE Widen
  <2>1. k \in Nat /\ k + 1 \in DOMAIN at /\ at[k + 1] \in DOMAIN items
    BY <1>0, <1>1, <1>5 DEF Widen, LayoutTypeOK
  <2>2. PICK s \in Drawable(items[at[k + 1]]) : slot' =
            [slot EXCEPT ![at[k + 1]] = Narrower(s, WidestSlotFor(items[at[k + 1]]))]
    BY <1>5 DEF Widen
  <2>3. s \in WideSlots /\ items[at[k + 1]] \in Item
    BY <1>0, <2>1 DEF Drawable, WideSlots, LayoutTypeOK
  <2>4. slot' \in [DOMAIN items -> Slots]
    <3> DEFINE held == Narrower(s, WidestSlotFor(items[at[k + 1]]))
    <3>1. held \in Slots
      BY <2>3, HeldToPicture DEF WideSlots, Slots
    <3>2. slot' = [slot EXCEPT ![at[k + 1]] = held]
      BY <2>2
    <3> HIDE DEF held
    <3> QED
      BY <1>0, <3>1, <3>2 DEF LayoutTypeOK
  <2>5. LayoutTypeOK'
    BY <1>0, <1>2, <1>5, <2>1, <2>4 DEF Widen, LayoutTypeOK
  <2>6. Counted' /\ Chosen'
    BY <1>0, <1>2, <1>5 DEF Widen, Counted, Chosen
  <2> QED
    BY <2>5, <2>6 DEF CountInv
<1>6. CASE Raise
  <2>1. \A i \in DOMAIN items : items[i] \in Item
    BY <1>0 DEF LayoutTypeOK
  <2>2. \A i \in DOMAIN items : Narrower("feature", WidestSlotFor(items[i])) \in Slots
    BY <2>1, HeldToPicture DEF WideSlots, Slots
  <2>3. slot' \in [DOMAIN items -> Slots]
    BY <1>0, <1>6, <2>2 DEF Raise, LayoutTypeOK
  <2>4. LayoutTypeOK'
    BY <1>0, <1>2, <1>6, <2>3 DEF Raise, LayoutTypeOK
  <2>5. Counted' /\ Chosen'
    BY <1>0, <1>2, <1>6 DEF Raise, Counted, Chosen
  <2> QED
    BY <2>4, <2>5 DEF CountInv
<1>7. CASE MarkNothing \/ ScatterEnds \/ WidenEnds \/ UNCHANGED layoutVars
  <2>1. /\ UNCHANGED <<items, slot, at>> /\ k' \in {0, k}
        /\ (stage' = stage /\ k' = k) \/ stage' # "scatter"
        /\ stage' \in {"mark", "scatter", "widen", "raise", "done"}
    BY <1>0, <1>7 DEF MarkNothing, ScatterEnds, WidenEnds, layoutVars, LayoutTypeOK
  <2>2. LayoutTypeOK'
    BY <1>0, <2>1 DEF LayoutTypeOK
  <2>3. Counted' /\ Chosen'
    BY <1>0, <1>2, <2>1 DEF Counted, Chosen
  <2> QED
    BY <2>2, <2>3 DEF CountInv
<1> QED
  BY <1>3, <1>4, <1>5, <1>6, <1>7 DEF LayoutNext
(***************************************************************************)
(* How wide they are.                                                      *)
(***************************************************************************)
LEMMA SlotStep == LayoutInv /\ [LayoutNext]_layoutVars => SlotInv'
<1> SUFFICES ASSUME LayoutInv, [LayoutNext]_layoutVars PROVE SlotInv'
  OBVIOUS
<1>0. LayoutTypeOK /\ Chosen /\ NeverPastTwice /\ BareStaysBrief /\ Landmarks /\ UprightNarrow /\ PanoramasWide
  BY DEF LayoutInv, CountInv, SlotInv
<1>1. /\ Size \in Nat /\ DOMAIN items = 1 .. Size
      /\ Len(at) \in Nat /\ DOMAIN at = 1 .. Len(at)
      /\ \A i \in DOMAIN items : items[i] \in Item
      /\ slot \in [DOMAIN items -> Slots]
  BY <1>0, Numbers DEF LayoutTypeOK
<1>2. items' = items
  BY DEF LayoutNext, layoutVars, Mark, MarkNothing, Scatter, ScatterEnds, Widen, WidenEnds, Raise
<1>3. "standard" \notin WideSlots /\ "brief" \notin WideSlots /\ "feature" \in WideSlots
  BY DEF WideSlots
<1>4. CASE Mark
  <2>1. /\ \A i \in DOMAIN items : slot'[i] = IF Bare(items[i]) THEN "brief" ELSE "standard"
        /\ stage' = "scatter"
    BY <1>4 DEF Mark
  <2> QED
    BY <1>2, <1>3, <2>1
       DEF SlotInv, NeverPastTwice, BareStaysBrief, Landmarks, UprightNarrow, PanoramasWide
<1>5. CASE Scatter
  <2>1. slot' = slot /\ stage = "scatter" /\ stage' = "scatter"
    BY <1>5 DEF Scatter
  <2>2. \A j \in DOMAIN at : j \in DOMAIN at' /\ at'[j] = at[j]
    <3>1. PICK pos \in (2 + k * BandLength) .. (1 + (k + 1) * BandLength) :
              at' = IF pos <= Size /\ slot[pos] = "standard" THEN Append(at, pos) ELSE at
      BY <1>5 DEF Scatter
    <3>2. at \in Seq(DOMAIN items)
      BY <1>0 DEF LayoutTypeOK
    <3> QED
      BY <1>1, <3>1, <3>2
  <2>3. Landmarks'
    BY <1>0, <1>2, <2>1, <2>2 DEF Landmarks
  <2> QED
    BY <1>0, <1>2, <2>1, <2>3
       DEF SlotInv, NeverPastTwice, BareStaysBrief, UprightNarrow, PanoramasWide
<1>6. CASE Widen
  <2> DEFINE c == at[k + 1]
  <2>1. stage = "widen" /\ stage' = "widen" /\ at' = at /\ k + 1 \in DOMAIN at
    BY <1>0, <1>1, <1>6 DEF Widen, LayoutTypeOK
  <2>2. c \in DOMAIN items /\ ~Bare(items[c]) /\ items[c] \in Item
    BY <1>0, <1>1, <2>1 DEF LayoutTypeOK, Chosen
  <2>3. PICK s \in Drawable(items[c]) :
            slot' = [slot EXCEPT ![c] = Narrower(s, WidestSlotFor(items[c]))]
    BY <1>6 DEF Widen
  <2> DEFINE held == Narrower(s, WidestSlotFor(items[c]))
  <2>4. s \in WideSlots /\ (Upright(items[c]) => s = "feature")
    BY <1>3, <2>3 DEF Drawable
  <2>5. /\ held \in WideSlots \cup {"standard"}
        /\ held \in WideSlots => Fits(items[c], held)
        /\ Upright(items[c]) => held \in {"feature", "standard"}
    BY <2>2, <2>4, HeldToPicture
  <2>6. slot'[c] = held /\ \A i \in DOMAIN items : i # c => slot'[i] = slot[i]
    BY <1>1, <2>2, <2>3
  <2> HIDE DEF held
  <2>7. held # "brief"
    BY <1>3, <2>5
  <2>8. NeverPastTwice'
    BY <1>0, <1>2, <1>3, <2>5, <2>6 DEF NeverPastTwice
  <2>9. BareStaysBrief'
    BY <1>0, <1>2, <2>1, <2>2, <2>6, <2>7 DEF BareStaysBrief
  <2>10. Landmarks'
    BY <1>0, <1>2, <2>1, <2>6 DEF Landmarks
  <2>11. UprightNarrow'
    BY <1>0, <1>2, <2>5, <2>6 DEF UprightNarrow
  <2> QED
    BY <2>1, <2>8, <2>9, <2>10, <2>11 DEF SlotInv, PanoramasWide
<1>7. CASE Raise
  <2>1. stage = "raise" /\ stage' = "done" /\ at' = at
    BY <1>7 DEF Raise
  <2> DEFINE held(i) == Narrower("feature", WidestSlotFor(items[i]))
  <2>2. \A i \in DOMAIN items : slot'[i] =
            IF slot[i] = "standard" /\ Panorama(items[i]) THEN held(i) ELSE slot[i]
    BY <1>7 DEF Raise
  <2>3. \A i \in DOMAIN items :
            /\ held(i) \in {"feature", "standard"}
            /\ held(i) \in WideSlots => Fits(items[i], held(i))
            /\ Fits(items[i], "feature") => held(i) = "feature"
    BY <1>1, <1>3, HeldToPicture
  <2>4. \A i \in DOMAIN items : Panorama(items[i]) => ~Bare(items[i])
    BY DEF Panorama, Measured, Bare
  <2> HIDE DEF held
  <2>5. NeverPastTwice'
    BY <1>0, <1>2, <2>2, <2>3 DEF NeverPastTwice
  <2>6. BareStaysBrief'
    BY <1>0, <1>2, <2>1, <2>2, <2>3, <2>4 DEF BareStaysBrief
  <2>7. Landmarks'
    BY <1>0, <1>2, <2>1, <2>2 DEF Landmarks
  <2>8. UprightNarrow'
    BY <1>0, <1>2, <2>2, <2>3 DEF UprightNarrow
  <2>9. PanoramasWide'
    <3> SUFFICES ASSUME NEW i \in DOMAIN items, Panorama(items[i]), Fits(items[i], "feature")
                 PROVE  slot'[i] \in WideSlots
      BY <1>2 DEF PanoramasWide
    <3>1. slot[i] # "brief"
      BY <1>0, <2>1, <2>4 DEF BareStaysBrief
    <3>2. slot[i] \in WideSlots \cup {"standard"}
      BY <1>1, <3>1 DEF Slots, WideSlots
    <3> QED
      BY <1>3, <2>2, <2>3, <3>2
  <2> QED
    BY <2>5, <2>6, <2>7, <2>8, <2>9 DEF SlotInv
<1>8. CASE MarkNothing
  <2>1. DOMAIN items = {} /\ UNCHANGED <<items, slot, at>>
    BY <1>1, <1>8 DEF MarkNothing
  <2> QED
    BY <2>1 DEF SlotInv, NeverPastTwice, BareStaysBrief, Landmarks, UprightNarrow, PanoramasWide
<1>9. CASE ScatterEnds \/ WidenEnds \/ UNCHANGED layoutVars
  <2>1. /\ UNCHANGED <<items, slot, at>> /\ (stage = "mark" => stage' = "mark")
        /\ stage' = "done" => stage = "done"
    BY <1>9 DEF ScatterEnds, WidenEnds, layoutVars
  <2>2. stage' # "mark" => stage # "mark"
    BY <2>1
  <2> QED
    BY <1>0, <2>1, <2>2
       DEF SlotInv, NeverPastTwice, BareStaysBrief, Landmarks, UprightNarrow, PanoramasWide
<1> QED
  BY <1>4, <1>5, <1>6, <1>7, <1>8, <1>9 DEF LayoutNext

LEMMA LayoutInductive == LayoutSpec => []LayoutInv
<1>1. LayoutInv /\ [LayoutNext]_layoutVars => LayoutInv'
  BY CountStep, SlotStep DEF LayoutInv
<1> QED
  BY LayoutStarts, <1>1, PTL DEF LayoutSpec

(***************************************************************************)
(* The results.                                                            *)
(***************************************************************************)
\* Every card has a slot and every card to be widened is on the page, for a
\* page of any length (edition/select.go, assignSlots).
THEOREM LayoutTypeCorrect == LayoutSpec => []LayoutTypeOK
<1>1. LayoutInv => LayoutTypeOK
  BY DEF LayoutInv, CountInv
<1> QED
  BY <1>1, LayoutInductive, PTL

\* No picture, whatever its size, is drawn past twice of it in a wide slot.
THEOREM PicturesNeverPastTwice == LayoutSpec => []NeverPastTwice
<1>1. LayoutInv => NeverPastTwice
  BY DEF LayoutInv, SlotInv
<1> QED
  BY <1>1, LayoutInductive, PTL

\* What has nothing to show is a brief from the first stage to the last, and
\* nothing else is one.
THEOREM BareCardsAreBriefs == LayoutSpec => []BareStaysBrief
<1>1. LayoutInv => BareStaysBrief
  BY DEF LayoutInv, SlotInv
<1> QED
  BY <1>1, LayoutInductive, PTL

\* A portrait ends no wider than the narrowest wide slot, and a panorama that
\* can be drawn there is never left in a column.
THEOREM PicturesShapeWidths == LayoutSpec => []WidthFollowsPicture
<1>1. LayoutInv => WidthFollowsPicture
  BY DEF LayoutInv, SlotInv, UprightNarrow, PanoramasWide, WidthFollowsPicture
<1> QED
  BY <1>1, LayoutInductive, PTL

\* However long the page, the cards drawn as landmarks are one in four and no
\* more: each has a place of its own in the list of what is to be widened.
THEOREM LandmarksAreFew == LayoutSpec => []FewLandmarks
<1>1. LayoutInv => FewLandmarks
  <2> SUFFICES ASSUME LayoutInv PROVE FewLandmarks
    OBVIOUS
  <2> DEFINE J == 1 .. Len(at)
             L == {i \in DOMAIN items : slot[i] \in WideSlots /\ ~Panorama(items[i])}
             R == {at[j] : j \in J}
  <2>1. LayoutTypeOK /\ Landmarks /\ Len(at) <= Wides
    BY DEF LayoutInv, CountInv, SlotInv, Counted
  <2>2. Len(at) \in Nat /\ DOMAIN at = J /\ Wides \in Nat
    BY <2>1, Numbers
  <2>3. IsFiniteSet(J) /\ Cardinality(J) = Len(at)
    <3>1. Len(at) \in Nat
      BY <2>2
    <3> QED
      BY <3>1, FS_Interval
  <2>4. at \in Surjection(J, R)
    <3>1. at \in [J -> R]
      BY <2>1, <2>2 DEF LayoutTypeOK
    <3> QED
      BY <3>1 DEF Surjection
  <2> HIDE DEF J
  <2>5. IsFiniteSet(R) /\ Cardinality(R) <= Cardinality(J)
    <3> HIDE DEF R
    <3> QED
      BY <2>3, <2>4, FS_Surjection
  <2>6. L \in SUBSET R
    BY <2>1, <2>2 DEF Landmarks
  <2>7. IsFiniteSet(L) /\ Cardinality(L) <= Cardinality(R)
    <3> HIDE DEF L, R
    <3> QED
      BY <2>5, <2>6, FS_Subset
  <2>8. Cardinality(L) \in Nat /\ Cardinality(R) \in Nat
    BY <2>5, <2>7, FS_CardinalityType
  <2>9. Cardinality(L) <= Wides
    <3> HIDE DEF L, R
    <3> QED
      BY <2>1, <2>2, <2>3, <2>5, <2>7, <2>8
  <2> QED
    BY <2>9 DEF FewLandmarks
<1> QED
  BY <1>1, LayoutInductive, PTL

\* And they are spread: to the end of any band no more of them than bands.
THEOREM LandmarksAreSpread == LayoutSpec => []LandmarksSpread
<1>1. LayoutInv => LandmarksSpread
  <2> SUFFICES ASSUME LayoutInv, NEW n \in 1 .. Wides, BandLength > 0
               PROVE  Cardinality({j \in DOMAIN at : at[j] <= 1 + n * BandLength}) <= n
    BY DEF LandmarksSpread
  <2> DEFINE E == {j \in DOMAIN at : at[j] <= 1 + n * BandLength}
  <2>1. LayoutTypeOK /\ Chosen
    BY DEF LayoutInv, CountInv
  <2>2. /\ Wides \in Nat /\ BandLength \in Nat /\ n \in Nat /\ n >= 1
        /\ Len(at) \in Nat /\ DOMAIN at = 1 .. Len(at)
        /\ \A j \in DOMAIN at : at[j] \in Nat
    BY <2>1, Numbers DEF LayoutTypeOK
  <2>3. ASSUME NEW j \in DOMAIN at, j > n PROVE at[j] > 1 + n * BandLength
    <3>1. j - 1 \in Nat /\ n <= j - 1 /\ j > 1
      BY <2>2, <2>3
    <3>2. n * BandLength \in Nat /\ (j - 1) * BandLength \in Nat
          /\ n * BandLength <= (j - 1) * BandLength
      BY <2>2, <3>1, BandsGrow
    <3>3. at[j] >= 2 + (j - 1) * BandLength
      BY <2>1, <3>1 DEF Chosen
    <3> QED
      BY <2>2, <3>2, <3>3
  <2>4. E \in SUBSET (1 .. n)
    <3>1. \A j \in E : j \in 1 .. n
      <4> SUFFICES ASSUME NEW j \in E, ~(j <= n) PROVE FALSE
        BY <2>2
      <4>1. j \in DOMAIN at /\ at[j] <= 1 + n * BandLength /\ j > n
        BY <2>2
      <4>2. n * BandLength \in Nat
        BY <2>2, BandsGrow
      <4> QED
        BY <2>2, <2>3, <4>1, <4>2
    <3> QED
      BY <3>1
  <2>5. IsFiniteSet(1 .. n) /\ Cardinality(1 .. n) = n
    BY <2>2, FS_Interval
  <2> HIDE DEF E
  <2>6. Cardinality(E) <= n
    BY <2>4, <2>5, FS_Subset
  <2> QED
    BY <2>6 DEF E
<1> QED
  BY <1>1, LayoutInductive, PTL
=============================================================================
