------------------------------ MODULE MCParts ------------------------------
(***************************************************************************)
(* Parts that share no state, checked together: a behaviour runs one of    *)
(* them, from any input that part can be given.                            *)
(*   choose: every way of queueing five articles of three feeds, two of    *)
(*     whose pieces each stand in two feeds (Sampler);                     *)
(*   arrange: a page of up to MaxSize cards, whose kinds come round every  *)
(*     three, enough for each band of a page to hold each (Layout);        *)
(*   relay: two relays, two requests to one publisher (Relays);            *)
(*   keep: two pieces, one in two feeds, saved, and their page (Saved);    *)
(*   recover: an account and one that is invited, two inboxes, and two   *)
(*     requests whose mails leave or are lost (Recovery);                  *)
(*   file: three tags, and one request at a time that edits them (Tags).   *)
(***************************************************************************)
EXTENDS Sampler, Layout, Relays, MCSaved, MCRecovery, MCTags

CONSTANTS f, g, h, a, b, c, d, e, x, y, z, d1, MaxSize

VARIABLE part

FeedOf == a :> f @@ b :> f @@ c :> g @@ d :> g @@ e :> h
MirroredLinks == a :> x @@ b :> y @@ c :> x @@ d :> z @@ e :> y
SomeAtZero == {f :> 1 @@ g :> 2 @@ h :> 1, f :> 1 @@ g :> 1 @@ h :> 0}

\* In what order a feed would queue its own.
Order == <<b, a, c, d, e>>

Queued(bandOf) ==
    [feed \in Feeds |-> [n \in Bands |->
        SelectSeq(Order, LAMBDA art : FeedOf[art] = feed /\ bandOf[art] = n)]]

\* Every article in one of the bands, or out of reach.
EveryOffer == {Queued(bandOf) : bandOf \in [Articles -> 0 .. 3]}

Bare0 == [image |-> FALSE, summary |-> FALSE, width |-> 0, height |-> 0]
Text == [image |-> FALSE, summary |-> TRUE, width |-> 0, height |-> 0]
Unmeasured == [image |-> TRUE, summary |-> TRUE, width |-> 0, height |-> 0]
Thumbnail == [image |-> TRUE, summary |-> FALSE, width |-> 140, height |-> 100]
Middling == [image |-> TRUE, summary |-> TRUE, width |-> 503, height |-> 400]
Portrait == [image |-> TRUE, summary |-> TRUE, width |-> 800, height |-> 1200]
Banner == [image |-> TRUE, summary |-> FALSE, width |-> 1000, height |-> 100]
Sliver == [image |-> TRUE, summary |-> TRUE, width |-> 385, height |-> 40]

Kinds == {Bare0, Text, Unmeasured, Thumbnail, Middling, Portrait, Banner, Sliver}

Repeating == {[i \in 1 .. n |-> round[(i % 3) + 1]] : n \in 0 .. MaxSize, round \in [1 .. 3 -> Kinds]}

NoPage ==
    /\ items = <<>> /\ slot = <<>> /\ at = <<>> /\ k = 0 /\ stage = "done"

NoOffer ==
    /\ priority = [feed \in Feeds |-> 0]
    /\ queue = [feed \in Feeds |-> [n \in Bands |-> <<>>]]
    /\ band = 4 /\ live = {} /\ cursor = [feed \in Feeds |-> 0]
    /\ picks = <<>> /\ turns = 0

PartsInit ==
    \E name \in {"choose", "arrange", "relay", "keep", "recover", "file"} :
        /\ part = name
        /\ IF name = "choose" THEN Init ELSE NoOffer
        /\ IF name = "arrange" THEN LayoutInit ELSE NoPage
        /\ RelaysInit /\ SavedInit /\ RecoveryInit /\ TagsInit

\* All but the part that is run.
Rests(name, partVars) == IF part = name THEN TRUE ELSE UNCHANGED partVars

PartsNext ==
    /\ UNCHANGED part
    /\ Rests("choose", vars) /\ Rests("arrange", layoutVars) /\ Rests("relay", relayVars)
    /\ Rests("keep", savedVars) /\ Rests("recover", recoveryVars) /\ Rests("file", tagVars)
    /\ \/ part = "choose" /\ Next
       \/ part = "arrange" /\ LayoutNext
       \/ part = "relay" /\ RelaysNext
       \/ part = "keep" /\ SavedNext
       \/ part = "recover" /\ RecoveryNext
       \/ part = "file" /\ TagsNext

allVars == <<part, vars, layoutVars, relayVars, savedVars, recoveryVars, tagVars>>

PartsSpec == PartsInit /\ [][PartsNext]_allVars

\* What each part keeps stays within its types.
PartsTypeOK ==
    /\ TypeOK /\ LayoutTypeOK /\ RelaysTypeOK
    /\ SavedTypeOK /\ RecoveryTypeOK /\ TagsTypeOK

\* One pair of values is the relays of one part and the secrets of another,
\* one the requests of both.
Alike == Permutations(Secrets) \cup Permutations(Handlers)
=============================================================================
