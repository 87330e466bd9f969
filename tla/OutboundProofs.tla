--------------------------- MODULE OutboundProofs ---------------------------
(***************************************************************************)
(* What goes out to others.  Relays: requests through any relays to any    *)
(* publishers, however many there are at once and whatever is edited       *)
(* meanwhile.  Backup: copies of any number of tables, for any number of   *)
(* writes and failures.                                                    *)
(***************************************************************************)
EXTENDS Relays, Backup, TLAPS

(***************************************************************************)
(* Requests.  What one holds, given the relays that are on and the         *)
(* publishers that have refused.                                           *)
(***************************************************************************)
RungOK(rung, on, ref) ==
    /\ rung \in Rung
    /\ rung.at # "idle" => rung.domain \in Domains
    /\ rung.at \in {"find", "known", "keep", "drop", "learn"} => rung.known \in Relays
    /\ rung.tried \subseteq rung.list /\ rung.list \subseteq rung.seen
    /\ rung.at \in {"find", "known", "keep", "drop"} \/ rung.learn => rung.domain \in ref
    /\ rung.at = "learn" => rung.learn
    /\ rung.at # "idle" => rung.steady \subseteq on /\ on \subseteq rung.seen
    /\ rung.loaded /\ ~rung.blind => rung.steady \subseteq rung.list
    /\ rung.at = "climb" => rung.loaded
    /\ ~rung.loaded => rung.list = {}
    /\ rung.at \in {"find", "list"} => ~rung.loaded
    /\ rung.at = "known" => rung.known \in rung.seen

LadderOK ==
    /\ ladder \in [Requests -> Rung]
    /\ \A q \in Requests : RungOK(ladder[q], SwitchedOn, refused)

RoutesOK ==
    /\ proxies \in [Relays -> {"new", "on", "off", "none"}]
    /\ route \in [Domains -> Relays \cup {None}]
    /\ erasing \subseteq Relays /\ refused \subseteq Domains
    /\ \A d \in Domains : route[d] # None => d \in refused

RelaysInv == RoutesOK /\ LadderOK

LEMMA RelaysInvGives == RelaysInv => RelaysTypeOK /\ RoutesFromRefusals /\ OffIsNotDialled
  BY RelaysAssumption
     DEF RelaysInv, RoutesOK, LadderOK, RungOK, RelaysTypeOK, RoutesFromRefusals, OffIsNotDialled

LEMMA NoRequestOK == ASSUME NEW on, NEW ref PROVE RungOK(NoRequest, on, ref) /\ NoRequest \in Rung
  BY DEF RungOK, NoRequest, Rung

\* A refusal more does no rung harm.
LEMMA MoreRefused ==
    ASSUME NEW rung, NEW on, NEW ref, NEW more, RungOK(rung, on, ref), ref \subseteq more
    PROVE  RungOK(rung, on, more)
  BY DEF RungOK

LEMMA MovesOK ==
    ASSUME LadderOK, NEW q \in Requests, NEW rung, Moves(q, rung),
           RungOK(rung, SwitchedOn, refused'), refused \subseteq refused', UNCHANGED proxies
    PROVE  LadderOK'
<1>1. rung \in Rung /\ ladder' \in [Requests -> Rung]
  BY DEF Moves, LadderOK, RungOK
<1>2. SwitchedOn' = SwitchedOn
  BY DEF SwitchedOn
<1>3. ASSUME NEW p \in Requests PROVE RungOK(ladder'[p], SwitchedOn, refused')
  <2>1. RungOK(ladder[p], SwitchedOn, refused')
    BY MoreRefused DEF LadderOK
  <2> QED
    BY <1>1, <2>1 DEF Moves, LadderOK
<1> QED
  BY <1>1, <1>2, <1>3 DEF LadderOK

LEMMA EndsOK ==
    ASSUME LadderOK, NEW q \in Requests, Moves(q, NoRequest), UNCHANGED <<proxies, refused>>
    PROVE  LadderOK'
  BY NoRequestOK, MovesOK

LEMMA BeginOK == ASSUME RelaysInv, NEW q \in Requests, NEW d \in Domains, Begin(q, d) PROVE LadderOK'
<1>1. PICK id \in {route[d], None} :
          Moves(q, [NoRequest EXCEPT !.at = IF id = None THEN "direct" ELSE "find",
                        !.domain = d, !.known = id, !.seen = SwitchedOn, !.steady = SwitchedOn])
  BY DEF Begin
<1> DEFINE rung == [NoRequest EXCEPT !.at = IF id = None THEN "direct" ELSE "find",
                        !.domain = d, !.known = id, !.seen = SwitchedOn, !.steady = SwitchedOn]
<1>2. id \in Relays \cup {None} /\ (id # None => d \in refused) /\ SwitchedOn \in SUBSET Relays
  BY DEF RelaysInv, RoutesOK, SwitchedOn
<1>3. RungOK(rung, SwitchedOn, refused)
  BY <1>2 DEF RungOK, NoRequest, Rung
<1> HIDE DEF rung
<1> QED
  BY <1>1, <1>3, MovesOK DEF Begin, RelaysInv, rung

LEMMA ReadsOK ==
    ASSUME RelaysInv, NEW q \in Requests, NEW at \in {"known", "direct", "climb"}, Reads(q, at),
           ladder[q].at # "idle", at = "known" => ladder[q].known \in SwitchedOn,
           at = "known" => ladder[q].domain \in refused, UNCHANGED <<proxies, refused>>,
           ladder[q].list = {}
    PROVE  LadderOK'
<1> DEFINE old == ladder[q]
           read == [old EXCEPT !.loaded = TRUE, !.list = SwitchedOn, !.at = at]
           not == [old EXCEPT !.loaded = TRUE, !.blind = TRUE,
                              !.at = IF at = "known" THEN "direct" ELSE at]
<1>1. RungOK(old, SwitchedOn, refused) /\ LadderOK /\ SwitchedOn \in SUBSET Relays
  BY DEF RelaysInv, LadderOK, SwitchedOn
<1>2. Moves(q, read) \/ Moves(q, not)
  BY DEF Reads
<1>3. RungOK(read, SwitchedOn, refused)
  BY <1>1 DEF RungOK, Rung
<1>4. RungOK(not, SwitchedOn, refused)
  BY <1>1 DEF RungOK, Rung
<1> HIDE DEF read, not
<1> QED
  BY <1>1, <1>2, <1>3, <1>4, MovesOK

LEMMA FindOK == ASSUME RelaysInv, NEW q \in Requests, Find(q) PROVE LadderOK'
<1>1. RungOK(ladder[q], SwitchedOn, refused) /\ ladder[q].at = "find"
  BY DEF RelaysInv, LadderOK, Find
<1>2. ladder[q].list = {} /\ ladder[q].domain \in refused
  BY <1>1 DEF RungOK
<1>3. CASE ladder[q].known \in SwitchedOn
  BY <1>1, <1>2, <1>3, ReadsOK DEF Find
<1>4. CASE ladder[q].known \notin SwitchedOn
  BY <1>1, <1>2, <1>4, ReadsOK DEF Find
<1> QED
  BY <1>3, <1>4

LEMMA LoadListOK == ASSUME RelaysInv, NEW q \in Requests, LoadList(q) PROVE LadderOK'
<1>1. RungOK(ladder[q], SwitchedOn, refused) /\ ladder[q].at = "list"
  BY DEF RelaysInv, LadderOK, LoadList
<1>2. ladder[q].list = {}
  BY <1>1 DEF RungOK
<1> QED
  BY <1>1, <1>2, ReadsOK DEF LoadList

LEMMA TryKnownOK == ASSUME RelaysInv, NEW q \in Requests, TryKnown(q) PROVE LadderOK'
<1>1. PICK at \in {"keep", "drop"} : Moves(q, [ladder[q] EXCEPT !.at = at])
  BY DEF TryKnown
<1> DEFINE rung == [ladder[q] EXCEPT !.at = at]
<1>2. RungOK(ladder[q], SwitchedOn, refused) /\ ladder[q].at = "known"
  BY DEF RelaysInv, LadderOK, TryKnown
<1>3. RungOK(rung, SwitchedOn, refused)
  BY <1>2 DEF RungOK, Rung
<1> HIDE DEF rung
<1> QED
  BY <1>1, <1>3, MovesOK DEF RelaysInv, TryKnown, rung

LEMMA DropKnownOK == ASSUME RelaysInv, NEW q \in Requests, DropKnown(q) PROVE LadderOK'
<1> DEFINE rung == [ladder[q] EXCEPT !.at = "direct"]
<1>1. RungOK(ladder[q], SwitchedOn, refused) /\ ladder[q].at = "drop"
  BY DEF RelaysInv, LadderOK, DropKnown
<1>2. RungOK(rung, SwitchedOn, refused)
  BY <1>1 DEF RungOK, Rung
<1>3. Moves(q, rung)
  BY DEF DropKnown
<1> HIDE DEF rung
<1> QED
  BY <1>2, <1>3, MovesOK DEF RelaysInv, DropKnown

LEMMA AskDirectlyOK == ASSUME RelaysInv, NEW q \in Requests, AskDirectly(q) PROVE LadderOK'
<1> DEFINE old == ladder[q]
           clear == [old EXCEPT !.at = "clear"]
           turned(often) == [old EXCEPT !.learn = ~often,
                                        !.at = IF old.loaded THEN "climb" ELSE "list"]
           more(often) == IF often THEN refused ELSE refused \cup {old.domain}
<1>1. RungOK(old, SwitchedOn, refused) /\ old.at = "direct" /\ LadderOK
  BY DEF RelaysInv, LadderOK, AskDirectly
<1>2. RungOK(clear, SwitchedOn, refused)
  BY <1>1 DEF RungOK, Rung
<1>3. ASSUME NEW often \in BOOLEAN PROVE RungOK(turned(often), SwitchedOn, more(often))
  BY <1>1 DEF RungOK, Rung
<1>4. CASE Moves(q, clear) /\ UNCHANGED refused
  <2> HIDE DEF clear
  <2> QED
    BY <1>1, <1>2, <1>4, MovesOK DEF AskDirectly
<1>5. CASE Turned(q)
  <2>1. PICK often \in BOOLEAN : Moves(q, turned(often)) /\ refused' = more(often)
    BY <1>5 DEF Turned
  <2>2. refused \subseteq more(often)
    OBVIOUS
  <2>3. RungOK(turned(often), SwitchedOn, more(often))
    BY <1>3
  <2> HIDE DEF turned, more
  <2> QED
    BY <1>1, <2>1, <2>2, <2>3, MovesOK DEF AskDirectly
<1> QED
  BY <1>4, <1>5 DEF AskDirectly

LEMMA ClimbOK == ASSUME RelaysInv, NEW q \in Requests, Climb(q) PROVE LadderOK'
<1>1. PICK r \in ladder[q].list \ ladder[q].tried :
          \/ Moves(q, IF ladder[q].learn THEN [ladder[q] EXCEPT !.known = r, !.at = "learn"]
                      ELSE NoRequest)
          \/ Moves(q, [ladder[q] EXCEPT !.tried = @ \cup {r}])
  BY DEF Climb
<1> DEFINE old == ladder[q]
           learns == [old EXCEPT !.known = r, !.at = "learn"]
           tries == [old EXCEPT !.tried = old.tried \cup {r}]
<1>2. RungOK(old, SwitchedOn, refused) /\ old.at = "climb" /\ LadderOK
  BY DEF RelaysInv, LadderOK, Climb
<1>3. r \in Relays
  BY <1>2 DEF RungOK, Rung
<1>4. old.learn => RungOK(learns, SwitchedOn, refused)
  BY <1>2, <1>3 DEF RungOK, Rung
<1>5. RungOK(tries, SwitchedOn, refused)
  BY <1>2, <1>3 DEF RungOK, Rung
<1>6. \/ old.learn /\ Moves(q, learns)
      \/ Moves(q, NoRequest)
      \/ Moves(q, tries)
  BY <1>1
<1> HIDE DEF learns, tries
<1> QED
  BY <1>2, <1>4, <1>5, <1>6, MovesOK, EndsOK DEF Climb

\* Steps that end a request, or leave every request alone.
LEMMA LeavesOK ==
    ASSUME RelaysInv, NEW q \in Requests, Keep(q) \/ Clear(q) \/ Learn(q) \/ GiveUp(q)
    PROVE  LadderOK'
  BY EndsOK DEF RelaysInv, Keep, Clear, Learn, GiveUp

\* What an administrator sets is seen by every request, or no longer steady.
LEMMA SetsOK ==
    ASSUME RelaysInv, NEW r \in Relays, NEW s \in {"on", "off", "none"}, Sets(r, s),
           UNCHANGED refused
    PROVE  LadderOK' /\ proxies' \in [Relays -> {"new", "on", "off", "none"}]
<1>1. proxies' \in [Relays -> {"new", "on", "off", "none"}]
  BY DEF RelaysInv, RoutesOK, Sets
<1>2. SwitchedOn' = IF s = "on" THEN SwitchedOn \cup {r} ELSE SwitchedOn \ {r}
  BY DEF SwitchedOn, Sets, RelaysInv, RoutesOK
<1> DEFINE old(q) == ladder[q]
           seen(q) == [old(q) EXCEPT !.seen = old(q).seen \cup {r}]
           steady(q) == [old(q) EXCEPT !.steady = old(q).steady \ {r}]
<1>3. ASSUME NEW q \in Requests PROVE RungOK(ladder'[q], SwitchedOn', refused) /\ ladder'[q] \in Rung
  <2>1. RungOK(old(q), SwitchedOn, refused) /\ SwitchedOn \in SUBSET Relays
    BY DEF RelaysInv, LadderOK, SwitchedOn
  <2>2. CASE old(q).at = "idle"
    <3>1. ladder'[q] = old(q)
      BY <2>2 DEF Sets
    <3> QED
      BY <2>1, <2>2, <3>1 DEF RungOK
  <2>3. CASE old(q).at # "idle" /\ s = "on"
    <3>1. ladder'[q] = seen(q)
      BY <2>3 DEF Sets
    <3>2. RungOK(seen(q), SwitchedOn \cup {r}, refused)
      BY <2>1, <2>3 DEF RungOK, Rung
    <3> QED
      BY <1>2, <2>3, <3>1, <3>2 DEF RungOK
  <2>4. CASE old(q).at # "idle" /\ s # "on"
    <3>1. ladder'[q] = steady(q)
      BY <2>4 DEF Sets
    <3>2. RungOK(steady(q), SwitchedOn \ {r}, refused)
      BY <2>1, <2>4 DEF RungOK, Rung
    <3> QED
      BY <1>2, <2>4, <3>1, <3>2 DEF RungOK
  <2> QED
    BY <2>2, <2>3, <2>4
<1>4. ladder' \in [Requests -> Rung]
  BY <1>3 DEF Sets
<1> QED
  BY <1>1, <1>3, <1>4 DEF LadderOK

\* Only a relay that a refusal led to is written, and forgetting writes none.
LEMMA WritesOK ==
    ASSUME RoutesOK, NEW d \in Domains, NEW r \in Relays \cup {None}, Writes(d, r),
           r # None => d \in refused, UNCHANGED <<proxies, erasing, refused>>
    PROVE  RoutesOK'
  BY DEF RoutesOK, Writes

LEMMA ForgetsOK ==
    ASSUME RoutesOK, NEW r \in Relays, ForgetProxyRoutes(r), erasing' \subseteq Relays
    PROVE  RoutesOK'
  BY DEF RoutesOK, ForgetProxyRoutes

LEMMA ClimbsRoutes ==
    ASSUME RelaysInv, NEW q \in Requests, Climbs(q) PROVE RoutesOK'
<1>1. RoutesOK /\ RungOK(ladder[q], SwitchedOn, refused)
  BY DEF RelaysInv, LadderOK
<1>2. CASE Keep(q) \/ Learn(q)
  <2>1. ladder[q].domain \in Domains /\ ladder[q].known \in Relays /\ ladder[q].domain \in refused
    BY <1>1, <1>2 DEF Keep, Learn, RungOK
  <2>2. /\ Writes(ladder[q].domain, ladder[q].known)
        /\ UNCHANGED <<proxies, erasing, refused>>
    BY <1>2 DEF Keep, Learn
  <2> QED
    BY <1>1, <2>1, <2>2, WritesOK
<1>3. CASE DropKnown(q) \/ Clear(q)
  <2>1. ladder[q].domain \in Domains
    BY <1>1, <1>3 DEF DropKnown, Clear, RungOK
  <2>2. Writes(ladder[q].domain, None) /\ UNCHANGED <<proxies, erasing, refused>>
    BY <1>3 DEF DropKnown, Clear
  <2> QED
    BY <1>1, <2>1, <2>2, WritesOK
<1>4. CASE AskDirectly(q)
  <2>1. ladder[q].domain \in Domains
    BY <1>1, <1>4 DEF AskDirectly, RungOK
  <2>2. refused \subseteq refused' /\ refused' \subseteq refused \cup {ladder[q].domain}
    BY <1>4 DEF AskDirectly, Turned
  <2>3. UNCHANGED <<proxies, route, erasing>>
    BY <1>4 DEF AskDirectly
  <2> QED
    BY <1>1, <2>1, <2>2, <2>3 DEF RoutesOK
<1>5. CASE Find(q) \/ TryKnown(q) \/ LoadList(q) \/ Climb(q) \/ GiveUp(q)
  BY <1>1, <1>5 DEF RoutesOK, Find, TryKnown, LoadList, Climb, GiveUp
<1> QED
  BY <1>2, <1>3, <1>4, <1>5 DEF Climbs

LEMMA RelaysStarts == RelaysInit => RelaysInv
<1> SUFFICES ASSUME RelaysInit PROVE RelaysInv
  OBVIOUS
<1>1. RoutesOK
  BY DEF RelaysInit, RoutesOK
<1>2. \A q \in Requests : RungOK(ladder[q], SwitchedOn, refused) /\ ladder[q] = NoRequest
  BY NoRequestOK DEF RelaysInit
<1>3. ladder \in [Requests -> Rung]
  BY <1>2, NoRequestOK DEF RelaysInit
<1> QED
  BY <1>1, <1>2, <1>3 DEF RelaysInv, LadderOK

LEMMA RelaysSteps == RelaysInv /\ [RelaysNext]_relayVars => RelaysInv'
<1> SUFFICES ASSUME RelaysInv, [RelaysNext]_relayVars PROVE RelaysInv'
  OBVIOUS
<1>1. ASSUME NEW q \in Requests, Climbs(q) PROVE RelaysInv'
  <2>1. LadderOK'
    BY <1>1, FindOK, LoadListOK, TryKnownOK, DropKnownOK, AskDirectlyOK, ClimbOK, LeavesOK
       DEF Climbs
  <2> QED
    BY <1>1, <2>1, ClimbsRoutes DEF RelaysInv
<1>2. ASSUME NEW q \in Requests, NEW d \in Domains, Begin(q, d) PROVE RelaysInv'
  BY <1>2, BeginOK DEF RelaysInv, RoutesOK, Begin
<1>3. ASSUME NEW r \in Relays, AddProxy(r) \/ UpdateProxy(r) \/ DeleteProxy(r) PROVE RelaysInv'
  <2>1. PICK s \in {"on", "off", "none"} : Sets(r, s)
    BY <1>3 DEF AddProxy, UpdateProxy, DeleteProxy
  <2>2. UNCHANGED <<route, refused>> /\ (UNCHANGED erasing \/ erasing' = erasing \cup {r})
    BY <1>3 DEF AddProxy, UpdateProxy, DeleteProxy
  <2> QED
    BY <2>1, <2>2, SetsOK DEF RelaysInv, RoutesOK
<1>4. ASSUME NEW r \in Relays, FinishDelete(r) \/ ResetProxy(r) PROVE RelaysInv'
  <2>1. ForgetProxyRoutes(r) /\ erasing' \subseteq Relays
    BY <1>4 DEF FinishDelete, ResetProxy, RelaysInv, RoutesOK
  <2>2. UNCHANGED <<proxies, ladder, refused>>
    BY <2>1 DEF ForgetProxyRoutes
  <2> QED
    BY <2>1, <2>2, ForgetsOK DEF RelaysInv, LadderOK, SwitchedOn
<1>5. CASE StopRelaying
  <2>1. LadderOK'
    BY <1>5, NoRequestOK DEF StopRelaying, LadderOK
  <2> QED
    BY <1>5, <2>1 DEF StopRelaying, RelaysInv, RoutesOK
<1>6. CASE UNCHANGED relayVars
  BY <1>6 DEF relayVars, RelaysInv, RoutesOK, LadderOK, SwitchedOn
<1> QED
  BY <1>1, <1>2, <1>3, <1>4, <1>5, <1>6 DEF RelaysNext

THEOREM RelaysInductive == RelaysSpec => []RelaysInv
  BY RelaysStarts, RelaysSteps, PTL DEF RelaysSpec

\* The tables and what each request holds are well formed at every step, for
\* any number of relays, publishers and requests at once.
THEOREM RelaysTypeCorrect == RelaysSpec => []RelaysTypeOK
  BY RelaysInductive, RelaysInvGives, PTL

\* A route is never learned from a rate limit alone: whatever requests, resets
\* and deletions interleave, a publisher with a route has refused for good.
THEOREM RoutesComeFromRefusals == RelaysSpec => []RoutesFromRefusals
  BY RelaysInductive, RelaysInvGives, PTL

\* No request dials a relay that was off or deleted from before it began.
THEOREM NoRelayOffIsDialled == RelaysSpec => []OffIsNotDialled
  BY RelaysInductive, RelaysInvGives, PTL

\* A request that gives up has been turned away by every relay that was on
\* throughout, unless it could not read the list.
THEOREM GivesUpRefusedEverywhere == RelaysSpec => RefusedEverywhere
<1>1. ASSUME RelaysInv, NEW q \in Requests, GiveUp(q)
      PROVE  ladder[q].blind \/ ladder[q].steady \subseteq ladder[q].tried
  <2>1. RungOK(ladder[q], SwitchedOn, refused)
    BY <1>1 DEF RelaysInv, LadderOK
  <2> QED
    BY <1>1, <2>1 DEF RungOK, GiveUp
<1>2. RelaysInv => [\A q \in Requests :
          GiveUp(q) => ladder[q].blind \/ ladder[q].steady \subseteq ladder[q].tried]_relayVars
  BY <1>1
<1> QED
  BY <1>2, RelaysInductive, PTL DEF RefusedEverywhere

(***************************************************************************)
(* Backups.  What is recorded of fetches never runs ahead of the articles  *)
(* saved, main.db is copied before derived.db, and so a copy of both is    *)
(* covered whatever is written between the two.                            *)
(***************************************************************************)
Copies ==
    [typed : [1..Tables -> Contents] \cup {Absent}, etag : 0..MaxWritten \cup {Absent},
     taken : 0..MaxWritten \cup {Absent}, reads : 0..MaxWritten \cup {Absent}]

DatabaseOK ==
    /\ mode \in Modes /\ typed \in [1..Tables -> Contents]
    /\ etag \in 0..MaxWritten /\ taken \in 0..MaxWritten /\ reads \in 0..MaxWritten
    /\ etag <= taken

RecordOK ==
    /\ last \in [1..Tables -> Contents] \cup {Absent} /\ aged \in BOOLEAN
    /\ returned \in BOOLEAN /\ faults \in 0..MaxFaults

PassOK ==
    /\ due \in BOOLEAN /\ step \in Steps
    /\ digest \in Seq(Contents) /\ Len(digest) <= Tables
    /\ step \in {"copy", "push", "record"} => Len(digest) = Tables
    /\ step = "waiting" => ~due /\ digest = <<>> /\ copy = Nothing

CopyOK ==
    /\ copy \in Copies
    /\ copy.typed # Absent => copy.etag \in Nat /\ copy.etag <= taken
    /\ copy.taken # Absent => copy.typed # Absent /\ copy.etag <= copy.taken

ArchiveOK == archive \in Copies /\ RestoresCovered

BackupInv == DatabaseOK /\ RecordOK /\ PassOK /\ CopyOK /\ ArchiveOK

LEMMA BackupInvGives == BackupInv => BackupTypeOK /\ RestoresCovered
  BY DEF BackupInv, DatabaseOK, RecordOK, PassOK, CopyOK, ArchiveOK, Copies, BackupTypeOK

LEMMA NothingOK == Nothing \in Copies /\ Nothing.typed = Absent /\ Nothing.taken = Absent
  BY DEF Nothing, Copies

LEMMA EmptyOK == <<>> \in Seq(Contents) /\ Len(<<>>) = 0
  OBVIOUS

LEMMA BackupStarts == BackupInit => BackupInv
<1> SUFFICES ASSUME BackupInit PROVE BackupInv
  OBVIOUS
<1>1. DatabaseOK
  BY BackupAssumption DEF BackupInit, DatabaseOK
<1>2. RecordOK
  <2>1. faults \in 0..MaxFaults
    BY BackupAssumption DEF BackupInit
  <2> QED
    BY <2>1, Zenon DEF BackupInit, RecordOK
<1>3. PassOK
  <2>1. digest \in Seq(Contents) /\ Len(digest) <= Tables
    BY EmptyOK, BackupAssumption DEF BackupInit
  <2>2. step \in Steps /\ step \notin {"copy", "push", "record"}
    BY DEF BackupInit, Steps
  <2> QED
    BY <2>1, <2>2, Zenon DEF BackupInit, PassOK
<1>4. CopyOK /\ ArchiveOK
  BY NothingOK DEF BackupInit, CopyOK, ArchiveOK, RestoresCovered
<1> QED
  BY <1>1, <1>2, <1>3, <1>4 DEF BackupInv

\* A pass that stops leaves nothing behind.
LEMMA StoppedOK == ASSUME BackupInv, Stopped PROVE PassOK' /\ CopyOK'
<1>1. PassOK'
  <2>1. digest' \in Seq(Contents) /\ Len(digest') <= Tables
    BY EmptyOK, BackupAssumption DEF Stopped
  <2>2. step' \in Steps /\ step' \notin {"copy", "push", "record"}
    BY DEF Stopped, Steps
  <2> QED
    BY <2>1, <2>2, Zenon DEF Stopped, PassOK
<1>2. copy' = Nothing
  BY DEF Stopped
<1> QED
  BY <1>1, <1>2, NothingOK DEF CopyOK

\* The databases move on under a copy that is being made.
LEMMA InUseOK ==
    ASSUME BackupInv, (\E t \in 1..Tables, v \in Contents : Type(t, v)) \/ FetchSaves
                          \/ FetchRecords \/ ReadArticle \/ PeriodPasses
    PROVE  BackupInv'
<1>1. DatabaseOK' /\ taken <= taken'
  <2>1. CASE \E t \in 1..Tables, v \in Contents : Type(t, v)
    BY <2>1 DEF Type, BackupInv, DatabaseOK
  <2>2. CASE FetchSaves
    BY <2>2, BackupAssumption DEF FetchSaves, BackupInv, DatabaseOK
  <2>3. CASE FetchRecords
    BY <2>3, BackupAssumption DEF FetchRecords, BackupInv, DatabaseOK
  <2>4. CASE ReadArticle
    BY <2>4, BackupAssumption DEF ReadArticle, BackupInv, DatabaseOK
  <2>5. CASE PeriodPasses
    BY <2>5, BackupAssumption DEF PeriodPasses, BackupInv, DatabaseOK, database
  <2> QED
    BY <2>1, <2>2, <2>3, <2>4, <2>5
<1>2. UNCHANGED <<last, step, due, digest, copy, archive, faults>>
  BY DEF Type, FetchSaves, FetchRecords, ReadArticle, PeriodPasses, pass
<1>3. aged' \in BOOLEAN /\ returned' \in BOOLEAN
  BY DEF Type, FetchSaves, FetchRecords, ReadArticle, PeriodPasses, BackupInv, RecordOK,
         CalledCopied
<1>4. RecordOK' /\ PassOK' /\ ArchiveOK'
  BY <1>2, <1>3 DEF BackupInv, RecordOK, PassOK, ArchiveOK, RestoresCovered
<1>5. CopyOK'
  BY <1>1, <1>2, BackupAssumption DEF BackupInv, CopyOK, DatabaseOK
<1> QED
  BY <1>1, <1>4, <1>5 DEF BackupInv

LEMMA CopyFileOK == ASSUME BackupInv, NEW i \in DOMAIN Sources, CopyFile(i) PROVE BackupInv'
<1>1. UNCHANGED <<database, last, aged, due, digest, archive, returned, faults>>
  BY DEF CopyFile
<1>2. DatabaseOK' /\ RecordOK' /\ ArchiveOK'
  BY <1>1 DEF BackupInv, DatabaseOK, RecordOK, ArchiveOK, RestoresCovered, database
<1>3. PassOK'
  BY <1>1 DEF CopyFile, BackupInv, PassOK, Steps
<1>4. CopyOK'
  <2>1. copy \in Copies /\ taken \in 0..MaxWritten /\ etag \in 0..MaxWritten /\ etag <= taken
          /\ typed \in [1..Tables -> Contents] /\ reads \in 0..MaxWritten /\ taken' = taken
    BY <1>1 DEF BackupInv, CopyOK, DatabaseOK, database
  <2>2. CASE Sources[i] = "main"
    <3> DEFINE read == [copy EXCEPT !.typed = typed, !.etag = etag]
    <3>1. copy' = read /\ copy.typed = Absent /\ copy.taken = Absent
      BY <2>2 DEF CopyFile, Copied, BackupInv, CopyOK
    <3>2. /\ read \in Copies
          /\ read.typed = typed /\ read.etag = etag /\ read.taken = copy.taken
      BY <2>1 DEF Copies
    <3> HIDE DEF read
    <3> QED
      BY <2>1, <3>1, <3>2, BackupAssumption DEF CopyOK
  <2>3. CASE Sources[i] # "main"
    <3> DEFINE read == [copy EXCEPT !.taken = taken, !.reads = reads]
    <3>1. i = 2 /\ Sources[1] = "main"
      BY <2>3 DEF Sources
    <3>2. copy' = read /\ copy.typed # Absent
      BY <2>3, <3>1, BackupAssumption DEF CopyFile, Copied
    <3>3. /\ read \in Copies
          /\ read.typed = copy.typed /\ read.etag = copy.etag /\ read.taken = taken
      BY <2>1 DEF Copies
    <3>4. copy.etag \in Nat /\ copy.etag <= taken
      BY <3>2 DEF BackupInv, CopyOK
    <3> HIDE DEF read
    <3> QED
      BY <2>1, <3>2, <3>3, <3>4 DEF CopyOK
  <2> QED
    BY <2>2, <2>3
<1> QED
  BY <1>2, <1>3, <1>4 DEF BackupInv

LEMMA BackupSteps == BackupInv /\ [BackupNext]_backupVars => BackupInv'
<1> SUFFICES ASSUME BackupInv, [BackupNext]_backupVars PROVE BackupInv'
  OBVIOUS
<1>1. CASE (\E t \in 1..Tables, v \in Contents : Type(t, v)) \/ FetchSaves
               \/ FetchRecords \/ ReadArticle \/ PeriodPasses
  BY <1>1, InUseOK
<1>2. CASE BeginPass
  BY <1>2 DEF BeginPass, database, BackupInv, DatabaseOK, RecordOK, PassOK, CopyOK, ArchiveOK,
              RestoresCovered, Steps
<1>3. CASE ReadTable
  <2>1. typed[Len(digest) + 1] \in Contents /\ digest \in Seq(Contents)
    BY <1>3, BackupAssumption DEF ReadTable, BackupInv, PassOK, DatabaseOK
  <2>2. digest' \in Seq(Contents) /\ Len(digest') = Len(digest) + 1
    BY <1>3, <2>1 DEF ReadTable
  <2> QED
    BY <1>3, <2>2, BackupAssumption
       DEF ReadTable, database, BackupInv, DatabaseOK, RecordOK, PassOK, CopyOK, ArchiveOK,
           RestoresCovered, Steps
<1>4. CASE Decide
  <2>1. UNCHANGED <<database, last, aged, archive, returned, faults>>
    BY <1>4 DEF Decide
  <2>2. DatabaseOK' /\ RecordOK' /\ ArchiveOK'
    BY <2>1 DEF BackupInv, DatabaseOK, RecordOK, ArchiveOK, RestoresCovered, database
  <2>3. CASE Stopped
    BY <2>2, <2>3, StoppedOK DEF BackupInv
  <2>4. CASE step' = "copy" /\ UNCHANGED <<due, digest, copy>>
    BY <1>4, <2>1, <2>2, <2>4 DEF Decide, BackupInv, PassOK, CopyOK, Steps, database
  <2> QED
    BY <1>4, <2>3, <2>4 DEF Decide
<1>5. ASSUME NEW i \in DOMAIN Sources, CopyFile(i) PROVE BackupInv'
  BY <1>5, CopyFileOK
<1>6. CASE PushAccepted
  BY <1>6 DEF PushAccepted, database, BackupInv, DatabaseOK, RecordOK, PassOK, CopyOK, ArchiveOK,
              RestoresCovered, Steps
<1>7. CASE RecordBackup
  <2>1. last' \in [1..Tables -> Contents] /\ aged' = FALSE
    BY <1>7 DEF RecordBackup, BackupInv, PassOK
  <2> QED
    BY <1>7, <2>1, StoppedOK
       DEF RecordBackup, database, BackupInv, DatabaseOK, RecordOK, ArchiveOK, RestoresCovered
<1>8. CASE PassFails
  BY <1>8, StoppedOK, BackupAssumption
     DEF PassFails, GoesWrong, database, BackupInv, DatabaseOK, RecordOK, ArchiveOK,
         RestoresCovered
<1>9. CASE ReplyLost
  <2>1. ArchiveOK'
    BY <1>9 DEF ReplyLost, BackupInv, CopyOK, ArchiveOK, RestoresCovered
  <2> QED
    BY <1>9, <2>1, StoppedOK, BackupAssumption
       DEF ReplyLost, GoesWrong, database, BackupInv, DatabaseOK, RecordOK
<1>10. CASE UNCHANGED backupVars
  BY <1>10 DEF backupVars, database, pass, BackupInv, DatabaseOK, RecordOK, PassOK, CopyOK,
               ArchiveOK, RestoresCovered
<1> QED
  BY <1>1, <1>2, <1>3, <1>4, <1>5, <1>6, <1>7, <1>8, <1>9, <1>10 DEF BackupNext, OncePasses

THEOREM BackupInductive == BackupSpec => []BackupInv
  BY BackupStarts, BackupSteps, PTL DEF BackupSpec

\* The databases, the pass and the archive are well formed at every step, for
\* any number of tables and whatever can be typed into one.
THEOREM BackupTypeCorrect == BackupSpec => []BackupTypeOK
  BY BackupInductive, BackupInvGives, PTL

\* The databases are copied one after the other with fetches in between, and no
\* archive records the validators of a document whose articles it lacks.
THEOREM ArchivesRestoreCovered == BackupSpec => []RestoresCovered
  BY BackupInductive, BackupInvGives, PTL

(***************************************************************************)
(* What the record calls copied is.  While a copy is on its way, what is   *)
(* typed may come back to what is on record, or is about to be, although   *)
(* the copy is of something else: that is what returned remembers.  A copy *)
(* that is sent has main.db in it, and what is recorded is what was sent.  *)
(***************************************************************************)
HonestOK ==
    /\ RecordHonest
    /\ copy.typed # Absent /\ copy.typed # typed /\ typed \in {last, digest} => returned
    /\ step \in {"push", "record"} => copy.typed # Absent
    /\ step = "record" => archive = copy
    /\ step \in {"waiting", "digest"} => copy.typed = Absent

LEMMA HonestStarts == BackupInit => HonestOK
<1> SUFFICES ASSUME BackupInit PROVE HonestOK
  OBVIOUS
<1>1. last # typed
  BY BackupAssumption DEF BackupInit
<1> QED
  BY <1>1, NothingOK DEF BackupInit, HonestOK, RecordHonest

\* A pass that ends takes what it read and copied with it.
LEMMA StoppedHonest ==
    ASSUME HonestOK, Stopped, UNCHANGED <<typed, returned>>, RecordHonest' PROVE HonestOK'
  BY NothingOK DEF HonestOK, Stopped

LEMMA HonestSteps == BackupInv /\ HonestOK /\ [BackupNext]_backupVars => HonestOK'
<1> SUFFICES ASSUME BackupInv, HonestOK, [BackupNext]_backupVars PROVE HonestOK'
  OBVIOUS
<1>1. ASSUME NEW t \in 1..Tables, NEW v \in Contents, Type(t, v) PROVE HonestOK'
  <2>1. UNCHANGED <<last, step, digest, copy, archive>> /\ returned' = (returned \/ CalledCopied(typed'))
    BY <1>1 DEF Type, pass
  <2> QED
    BY <2>1 DEF HonestOK, RecordHonest, CalledCopied
<1>2. CASE FetchSaves \/ FetchRecords \/ ReadArticle \/ PeriodPasses
  BY <1>2 DEF FetchSaves, FetchRecords, ReadArticle, PeriodPasses, database, pass, HonestOK, RecordHonest
<1>3. CASE BeginPass \/ ReadTable
  BY <1>3 DEF BeginPass, ReadTable, database, HonestOK, RecordHonest
<1>4. CASE Decide
  <2>1. UNCHANGED <<typed, last, archive, returned>>
    BY <1>4 DEF Decide, database
  <2>2. CASE Stopped
    BY <2>1, <2>2, StoppedHonest DEF HonestOK, RecordHonest
  <2>3. CASE step' = "copy" /\ UNCHANGED <<due, digest, copy>>
    BY <2>1, <2>3 DEF HonestOK, RecordHonest
  <2> QED
    BY <1>4, <2>2, <2>3 DEF Decide
<1>5. ASSUME NEW i \in DOMAIN Sources, CopyFile(i) PROVE HonestOK'
  <2>1. /\ UNCHANGED <<typed, last, digest, archive, returned>>
        /\ step = "copy" /\ step' \in {"copy", "push"}
    BY <1>5 DEF CopyFile, database
  <2>2. copy \in Copies /\ typed # Absent
    BY BackupAssumption DEF BackupInv, CopyOK, DatabaseOK
  <2>3. CASE Sources[i] = "main"
    <3>1. copy'.typed = typed
      BY <1>5, <2>2, <2>3 DEF CopyFile, Copies
    <3> QED
      BY <2>1, <2>2, <3>1 DEF HonestOK, RecordHonest
  <2>4. CASE Sources[i] # "main"
    <3>1. i = 2 /\ Sources[1] = "main"
      BY <2>4 DEF Sources
    <3>2. copy'.typed = copy.typed /\ copy.typed # Absent
      BY <1>5, <2>2, <2>4, <3>1 DEF CopyFile, Copies, Copied
    <3> QED
      BY <2>1, <3>2 DEF HonestOK, RecordHonest
  <2> QED
    BY <2>3, <2>4
<1>6. CASE PushAccepted
  BY <1>6 DEF PushAccepted, database, HonestOK, RecordHonest
<1>7. CASE RecordBackup
  <2>1. UNCHANGED <<typed, archive, returned>> /\ last' = digest /\ Stopped /\ step = "record"
    BY <1>7 DEF RecordBackup, database
  <2>2. RecordHonest'
    BY <2>1 DEF HonestOK, RecordHonest
  <2> QED
    BY <2>1, <2>2, StoppedHonest
<1>8. CASE PassFails
  BY <1>8, StoppedHonest DEF PassFails, database, HonestOK, RecordHonest
<1>9. CASE ReplyLost
  <2>1. UNCHANGED <<typed, last, returned>> /\ archive' = copy /\ Stopped /\ step = "push"
    BY <1>9 DEF ReplyLost, database
  <2>2. RecordHonest'
    BY <2>1 DEF HonestOK, RecordHonest
  <2> QED
    BY <2>1, <2>2, StoppedHonest
<1>10. CASE UNCHANGED backupVars
  BY <1>10 DEF backupVars, database, pass, HonestOK, RecordHonest
<1> QED
  BY <1>1, <1>2, <1>3, <1>4, <1>5, <1>6, <1>7, <1>8, <1>9, <1>10 DEF BackupNext, OncePasses

\* What a pass is spared for is in the newest copy, for any number of tables
\* and of what can be typed: the safety half of TypedIsKept.
THEOREM RecordsAreHonest == BackupSpec => []RecordHonest
<1>1. HonestOK => RecordHonest
  BY DEF HonestOK
<1> QED
  BY <1>1, HonestStarts, HonestSteps, BackupInductive, PTL DEF BackupSpec
=============================================================================
