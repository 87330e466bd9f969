------------------------------- MODULE Layout -------------------------------
(***************************************************************************)
(* edition.assignSlots: how wide each card of a page is laid out.  Where   *)
(* the wide ones fall, and how wide one is drawn, are random; how far a    *)
(* picture may be drawn past its own size is not.                          *)
(***************************************************************************)
EXTENDS Integers, Sequences, FiniteSets

CONSTANT Pages   \* the pages to lay out, as Select picked them: see items

\* A picture nobody has measured has no width and no height.
Item == [image : BOOLEAN, summary : BOOLEAN, width : Nat, height : Nat]

ASSUME LayoutAssumption == Pages \subseteq Seq(Item)

Slots == {"lead", "wide", "feature", "standard", "brief"}
WideSlots == {"lead", "wide", "feature"}
slotWidth == [lead |-> 1352, wide |-> 1007, feature |-> 772,
              standard |-> 512, brief |-> 512]
MaxUpscale == 2

VARIABLES
    items,   \* the picks, in order of rank; the first card is items[1]
    slot,    \* Pick.Slot
    at,      \* the cards to widen
    k,       \* the loop counter of the stage
    stage    \* "mark", "scatter", "widen", "raise" or "done"

layoutVars == <<items, slot, at, k, stage>>

Size == Len(items)
Larger(i, j) == IF i < j THEN j ELSE i
Wides == Larger(Size \div 4, 1)
BandLength == (Size - 1) \div Wides

Bare(item) == ~item.image /\ ~item.summary
Measured(item) == item.image /\ item.width > 0
Panorama(item) == Measured(item) /\ item.height > 0 /\ 2 * item.width > 5 * item.height
Upright(item) == Measured(item) /\ item.height > 0 /\ item.width < item.height

\* What the picture of item can be drawn at without stretching it past twice.
Fits(item, s) == ~Measured(item) \/ slotWidth[s] <= item.width * MaxUpscale

Narrower(s, t) == IF slotWidth[s] <= slotWidth[t] THEN s ELSE t

\* The widest that fits, and a column when none does.
WidestSlotFor(item) ==
    LET fit == {s \in WideSlots : Fits(item, s)}
    IN  IF fit = {} THEN "standard"
        ELSE CHOOSE s \in fit : \A t \in fit : slotWidth[t] <= slotWidth[s]

\* The widths the weights allow; the weights of a portrait are not weights at
\* all.
Drawable(item) == IF Upright(item) THEN {"feature"} ELSE WideSlots

LayoutInit ==
    /\ items \in Pages
    /\ slot = [i \in DOMAIN items |-> "standard"]
    /\ at = <<>> /\ k = 0 /\ stage = "mark"

\* What has nothing to show is a brief; the opener is wide unless it is one.
Mark ==
    /\ stage = "mark" /\ Size > 0
    /\ slot' = [i \in DOMAIN items |-> IF Bare(items[i]) THEN "brief" ELSE "standard"]
    /\ at' = IF Bare(items[1]) THEN <<>> ELSE <<1>>
    /\ k' = Len(at')
    /\ stage' = "scatter"
    /\ UNCHANGED items

\* A page with nothing on it has no first card.
MarkNothing ==
    /\ stage = "mark" /\ Size = 0
    /\ stage' = "done"
    /\ UNCHANGED <<items, slot, at, k>>

\* Mutant of Scatter: a card anywhere on the page.
ScatterAnywhere ==
    /\ stage = "scatter" /\ BandLength > 0 /\ k < Wides
    /\ \E pos \in 2 .. Size :
           at' = IF slot[pos] = "standard" THEN Append(at, pos) ELSE at
    /\ k' = k + 1
    /\ UNCHANGED <<items, slot, stage>>

\* One card of band k, unless that one is a brief.
Scatter ==
    /\ stage = "scatter" /\ BandLength > 0 /\ k < Wides
    /\ \E pos \in (2 + k * BandLength) .. (1 + (k + 1) * BandLength) :
           at' = IF pos <= Size /\ slot[pos] = "standard" THEN Append(at, pos) ELSE at
    /\ k' = k + 1
    /\ UNCHANGED <<items, slot, stage>>

ScatterEnds ==
    /\ stage = "scatter" /\ (BandLength <= 0 \/ k >= Wides)
    /\ k' = 0
    /\ stage' = "widen"
    /\ UNCHANGED <<items, slot, at>>

\* Mutant of Widen: the width drawn, whatever the picture.
WidenAsDrawn ==
    /\ stage = "widen" /\ k < Len(at)
    /\ \E s \in Drawable(items[at[k + 1]]) : slot' = [slot EXCEPT ![at[k + 1]] = s]
    /\ k' = k + 1
    /\ UNCHANGED <<items, at, stage>>

\* The draw, held to what the picture can carry.
Widen ==
    /\ stage = "widen" /\ k < Len(at)
    /\ LET pos == at[k + 1] IN
           \E s \in Drawable(items[pos]) :
               slot' = [slot EXCEPT ![pos] = Narrower(s, WidestSlotFor(items[pos]))]
    /\ k' = k + 1
    /\ UNCHANGED <<items, at, stage>>

WidenEnds ==
    /\ stage = "widen" /\ k >= Len(at)
    /\ stage' = "raise"
    /\ UNCHANGED <<items, slot, at, k>>

\* A band is never left in a column it could be legible out of.
Raise ==
    /\ stage = "raise"
    /\ slot' = [i \in DOMAIN items |->
                   IF slot[i] = "standard" /\ Panorama(items[i])
                   THEN Narrower("feature", WidestSlotFor(items[i]))
                   ELSE slot[i]]
    /\ stage' = "done"
    /\ UNCHANGED <<items, at, k>>

LayoutNext == Mark \/ MarkNothing \/ Scatter \/ ScatterEnds \/ Widen \/ WidenEnds \/ Raise

LayoutSpec == LayoutInit /\ [][LayoutNext]_layoutVars

(***************************************************************************)
(* Properties.                                                             *)
(***************************************************************************)
\* Every card has a slot, and what is to be widened is on the page.
LayoutTypeOK ==
    /\ items \in Seq(Item)
    /\ slot \in [DOMAIN items -> Slots]
    /\ at \in Seq(DOMAIN items)
    /\ k \in Nat
    /\ stage \in {"mark", "scatter", "widen", "raise", "done"}

\* No picture is drawn past twice its own size in a slot wider than a column
\* (maxUpscale), on whichever of the two ways the card came by its slot.
NeverPastTwice ==
    \A i \in DOMAIN items : slot[i] \in WideSlots => Fits(items[i], slot[i])

\* A card with neither picture nor summary is a brief and stays one, and no
\* other card is.
BareStaysBrief ==
    stage # "mark" =>
        \A i \in DOMAIN items : slot[i] = "brief" <=> Bare(items[i])

\* One card in four, the opener included, stands out; only panoramas come on
\* top of that.
FewLandmarks ==
    Cardinality({i \in DOMAIN items : slot[i] \in WideSlots /\ ~Panorama(items[i])})
        <= Wides

\* The landmarks the page draws are spread down it: down to the end of any
\* band there is no more than one for each.
LandmarksSpread ==
    \A n \in 1 .. Wides : BandLength > 0 =>
        Cardinality({j \in DOMAIN at : at[j] <= 1 + n * BandLength}) <= n

\* At the end a portrait is no wider than the narrowest wide slot, and a
\* panorama that can be drawn across half the page is not in a column.
WidthFollowsPicture ==
    stage = "done" =>
        \A i \in DOMAIN items :
            /\ Upright(items[i]) => slot[i] \notin {"lead", "wide"}
            /\ Panorama(items[i]) /\ Fits(items[i], "feature") => slot[i] \in WideSlots
=============================================================================
