----------------------------- MODULE PartsProofs -----------------------------
(***************************************************************************)
(* The composition MCParts checks, for any values of its constants: each   *)
(* part in it behaves as its own module says, whatever runs beside it, so  *)
(* that what is proved of a part is proved of what the run explores.       *)
(***************************************************************************)
EXTENDS MCParts, SelectProofs, OutboundProofs, RecoveryProofs, KeptProofs

\* A part that is not run stands still, and one that is takes its own steps.
LEMMA PartsStep ==
    ASSUME [PartsNext]_allVars
    PROVE  /\ UNCHANGED part
           /\ [RelaysNext]_relayVars /\ [SavedNext]_savedVars
           /\ [RecoveryNext]_recoveryVars /\ [TagsNext]_tagVars
           /\ IF part = "choose" THEN [Next]_vars ELSE UNCHANGED vars
           /\ IF part = "arrange" THEN [LayoutNext]_layoutVars ELSE UNCHANGED layoutVars
<1>1. CASE UNCHANGED allVars
  BY <1>1 DEF allVars
<1>2. CASE PartsNext
  BY <1>2 DEF PartsNext, Rests
<1> QED
  BY <1>1, <1>2

\* Relays, saved articles, recovery and tags: every behaviour of the
\* composition is one of each of them.
THEOREM PartsAreTheirOwn ==
    PartsSpec => RelaysSpec /\ SavedSpec /\ RecoverySpec /\ TagsSpec
<1>1. PartsInit => RelaysInit /\ SavedInit /\ RecoveryInit /\ TagsInit
  BY DEF PartsInit
<1>2. [PartsNext]_allVars => /\ [RelaysNext]_relayVars /\ [SavedNext]_savedVars
                             /\ [RecoveryNext]_recoveryVars /\ [TagsNext]_tagVars
  BY PartsStep
<1> QED
  BY <1>1, <1>2, PTL DEF PartsSpec, RelaysSpec, SavedSpec, RecoverySpec, TagsSpec

\* Choosing and arranging start from an input only where they are what is run,
\* and then behave as their modules say.
THEOREM ChosenAndArranged ==
    PartsSpec => (part = "choose" => Spec) /\ (part = "arrange" => LayoutSpec)
<1>1. PartsInit => (part = "choose" => Init) /\ (part = "arrange" => LayoutInit)
  BY DEF PartsInit
<1>2. [PartsNext]_allVars => /\ part = "choose" => [Next]_vars /\ (part = "choose")'
                             /\ part = "arrange" => [LayoutNext]_layoutVars /\ (part = "arrange")'
  BY PartsStep
<1> QED
  BY <1>1, <1>2, PTL DEF PartsSpec, Spec, LayoutSpec

\* A part that has no input to run on holds nothing, and for good.
LEMMA TheRestRest ==
    PartsSpec => /\ ~(part = "choose") => []TypeOK
                 /\ ~(part = "arrange") => []LayoutTypeOK
<1>1. PartsInit => (~(part = "choose") => TypeOK) /\ (~(part = "arrange") => LayoutTypeOK)
  <2>1. NoOffer => TypeOK
    BY SamplerAssumption DEF NoOffer, TypeOK, OnLine, Bands
  <2>2. NoPage => LayoutTypeOK
    BY DEF NoPage, LayoutTypeOK
  <2> QED
    BY <2>1, <2>2 DEF PartsInit
<1>2. ~(part = "choose") /\ TypeOK /\ [PartsNext]_allVars => TypeOK' /\ (~(part = "choose"))'
  <2>1. UNCHANGED vars => (TypeOK => TypeOK')
    BY DEF vars, TypeOK, OnLine
  <2> QED
    BY <2>1, PartsStep
<1>3. ~(part = "arrange") /\ LayoutTypeOK /\ [PartsNext]_allVars
          => LayoutTypeOK' /\ (~(part = "arrange"))'
  <2>1. UNCHANGED layoutVars => (LayoutTypeOK => LayoutTypeOK')
    BY DEF layoutVars, LayoutTypeOK
  <2> QED
    BY <2>1, PartsStep
<1> QED
  BY <1>1, <1>2, <1>3, PTL DEF PartsSpec

\* Whichever part runs, and on whatever it is given, what every part keeps
\* stays within its types.
THEOREM PartsTypesHold == PartsSpec => []PartsTypeOK
<1>1. PartsSpec => []TypeOK /\ []LayoutTypeOK
  BY ChosenAndArranged, TheRestRest, SamplerTypeCorrect, LayoutTypeCorrect, PTL
<1>2. PartsSpec => []RelaysTypeOK /\ []SavedTypeOK /\ []RecoveryTypeOK /\ []TagsTypeOK
  BY PartsAreTheirOwn, RelaysTypeCorrect, SavedTypeCorrect, RecoveryTypes, TagsTypes, PTL
<1>3. TypeOK /\ LayoutTypeOK /\ RelaysTypeOK /\ SavedTypeOK /\ RecoveryTypeOK /\ TagsTypeOK
          => PartsTypeOK
  BY DEF PartsTypeOK
<1> QED
  BY <1>1, <1>2, <1>3, PTL
=============================================================================
