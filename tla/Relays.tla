------------------------------- MODULE Relays -------------------------------
(***************************************************************************)
(* feeds.relay: the ladder every outgoing request climbs - the relay that  *)
(* reached its publisher last time, then nobody, then each relay that is   *)
(* switched on - while other requests climb theirs and an administrator    *)
(* edits the relays.  Relays are rows of main.db; what was learned of them *)
(* is kept in derived.db, and no transaction spans the two.                *)
(***************************************************************************)
EXTENDS FiniteSets

CONSTANTS
    Relays,     \* the relays there may ever be
    Domains,    \* publishers, by registrable domain
    Requests,   \* requests in flight at once
    None

ASSUME RelaysAssumption == None \notin Relays \cup Domains

VARIABLES
    proxies,    \* the proxies table: "on", "off", or "none"; "new" is not added yet
    route,      \* proxy_routes: the relay remembered for a domain, or None
    erasing,    \* DeleteProxy has deleted the row of these and not yet their routes
    ladder,     \* what each request is at
    refused     \* history: domains that turned a direct request away, and not for asking too often

relayVars == <<proxies, route, erasing, ladder, refused>>

(***************************************************************************)
(* known is what remembered() read, list what Proxies() answered, tried    *)
(* the relays of list that turned the request away, learn worthLearning.   *)
(* The rest is for the properties: whether the list could not be read      *)
(* (blind), which relays were on at some moment since the request began    *)
(* (seen) and at every moment (steady).                                    *)
(***************************************************************************)
Rung == [at : {"idle", "find", "known", "keep", "drop", "direct", "clear", "list", "climb", "learn"},
         domain : Domains \cup {None}, known : Relays \cup {None},
         list : SUBSET Relays, loaded : BOOLEAN, tried : SUBSET Relays, learn : BOOLEAN,
         blind : BOOLEAN, seen : SUBSET Relays, steady : SUBSET Relays]

NoRequest == [at |-> "idle", domain |-> None, known |-> None,
              list |-> {}, loaded |-> FALSE, tried |-> {}, learn |-> FALSE,
              blind |-> FALSE, seen |-> {}, steady |-> {}]

RelaysInit ==
    /\ proxies = [r \in Relays |-> "new"]
    /\ route = [d \in Domains |-> None]
    /\ erasing = {}
    /\ ladder = [q \in Requests |-> NoRequest]
    /\ refused = {}

\* WHERE enabled = 1.  In which order they are tried is the administrator's
\* to change, and may be any.
SwitchedOn == {r \in Relays : proxies[r] = "on"}

\* The row of d is written, or the write fails and is only logged.
Writes(d, r) == route' = [route EXCEPT ![d] = r] \/ UNCHANGED route

Moves(q, rung) == ladder' = [ladder EXCEPT ![q] = rung]

(***************************************************************************)
(* A request.                                                              *)
(***************************************************************************)
\* The remembered route is read; one that cannot be read is none.
Begin(q, d) ==
    /\ ladder[q].at = "idle"
    /\ \E id \in {route[d], None} :
           Moves(q, [NoRequest EXCEPT
               !.at = IF id = None THEN "direct" ELSE "find",
               !.domain = d, !.known = id,
               !.seen = SwitchedOn, !.steady = SwitchedOn])
    /\ UNCHANGED <<proxies, route, erasing, refused>>

\* The list, read once a request; one that cannot be read is empty.
Reads(q, at) ==
    \/ Moves(q, [ladder[q] EXCEPT !.loaded = TRUE, !.list = SwitchedOn, !.at = at])
    \/ Moves(q, [ladder[q] EXCEPT !.loaded = TRUE, !.blind = TRUE,
                                  !.at = IF at = "known" THEN "direct" ELSE at])

\* A route to a relay that is not on the list is no route, but stays.
Find(q) ==
    /\ ladder[q].at = "find"
    /\ Reads(q, IF ladder[q].known \in SwitchedOn THEN "known" ELSE "direct")
    /\ UNCHANGED <<proxies, route, erasing, refused>>

\* The relay that worked last time works, or does not.
TryKnown(q) ==
    /\ ladder[q].at = "known"
    /\ \E at \in {"keep", "drop"} : Moves(q, [ladder[q] EXCEPT !.at = at])
    /\ UNCHANGED <<proxies, route, erasing, refused>>

\* Stamped again, and that was the answer.
Keep(q) ==
    /\ ladder[q].at = "keep"
    /\ Writes(ladder[q].domain, ladder[q].known)
    /\ Moves(q, NoRequest)
    /\ UNCHANGED <<proxies, erasing, refused>>

DropKnown(q) ==
    /\ ladder[q].at = "drop"
    /\ Writes(ladder[q].domain, None)
    /\ Moves(q, [ladder[q] EXCEPT !.at = "direct"])
    /\ UNCHANGED <<proxies, erasing, refused>>

\* Mutant of Turned: being asked too often is a refusal like another.
TurnedAlike(q) ==
    \E often \in BOOLEAN :
        /\ Moves(q, [ladder[q] EXCEPT !.learn = TRUE,
                                      !.at = IF ladder[q].loaded THEN "climb" ELSE "list"])
        /\ refused' = IF often THEN refused ELSE refused \cup {ladder[q].domain}

\* 429, which is counted per caller, or 403, 451 or no answer at all.
Turned(q) ==
    \E often \in BOOLEAN :
        /\ Moves(q, [ladder[q] EXCEPT !.learn = ~often,
                                      !.at = IF ladder[q].loaded THEN "climb" ELSE "list"])
        /\ refused' = IF often THEN refused ELSE refused \cup {ladder[q].domain}

\* Any answer about the address itself is the answer.
AskDirectly(q) ==
    /\ ladder[q].at = "direct"
    /\ \/ Moves(q, [ladder[q] EXCEPT !.at = "clear"]) /\ UNCHANGED refused
       \/ Turned(q)
    /\ UNCHANGED <<proxies, route, erasing>>

\* Nobody is needed to reach d: what was learned to the contrary is wrong.
Clear(q) ==
    /\ ladder[q].at = "clear"
    /\ Writes(ladder[q].domain, None)
    /\ Moves(q, NoRequest)
    /\ UNCHANGED <<proxies, erasing, refused>>

LoadList(q) ==
    /\ ladder[q].at = "list"
    /\ Reads(q, "climb")
    /\ UNCHANGED <<proxies, route, erasing, refused>>

\* The next relay gets through, or turns the request away or faults.
Climb(q) ==
    /\ ladder[q].at = "climb"
    /\ \E r \in ladder[q].list \ ladder[q].tried :
           \/ Moves(q, IF ladder[q].learn THEN [ladder[q] EXCEPT !.known = r, !.at = "learn"]
                       ELSE NoRequest)
           \/ Moves(q, [ladder[q] EXCEPT !.tried = @ \cup {r}])
    /\ UNCHANGED <<proxies, route, erasing, refused>>

Learn(q) ==
    /\ ladder[q].at = "learn"
    /\ Writes(ladder[q].domain, ladder[q].known)
    /\ Moves(q, NoRequest)
    /\ UNCHANGED <<proxies, erasing, refused>>

\* Mutant of GiveUp: the relay that was remembered has had its turn.
GiveUpEarly(q) ==
    /\ ladder[q].at = "climb" /\ ladder[q].list \subseteq ladder[q].tried \cup {ladder[q].known}
    /\ Moves(q, NoRequest)
    /\ UNCHANGED <<proxies, route, erasing, refused>>

\* Nobody got through: the publisher's own refusal is the answer.
GiveUp(q) ==
    /\ ladder[q].at = "climb" /\ ladder[q].list \subseteq ladder[q].tried
    /\ Moves(q, NoRequest)
    /\ UNCHANGED <<proxies, route, erasing, refused>>

(***************************************************************************)
(* The administrator.                                                      *)
(***************************************************************************)
\* The row of r becomes s, and the histories follow it.
Sets(r, s) ==
    /\ proxies' = [proxies EXCEPT ![r] = s]
    /\ ladder' = [q \in Requests |->
           IF ladder[q].at = "idle" THEN ladder[q]
           ELSE IF s = "on" THEN [ladder[q] EXCEPT !.seen = @ \cup {r}]
           ELSE [ladder[q] EXCEPT !.steady = @ \ {r}]]

\* addProxy, enabled unless the form says otherwise.  An id is new.
AddProxy(r) ==
    /\ proxies[r] = "new"
    /\ \E s \in {"on", "off"} : Sets(r, s)
    /\ UNCHANGED <<route, erasing, refused>>

\* putProxy: what the form leaves out is what was read before it, so that of
\* two forms saved at once either may be what stays.
UpdateProxy(r) ==
    /\ proxies[r] \in {"on", "off"}
    /\ \E s \in {"on", "off"} : Sets(r, s)
    /\ UNCHANGED <<route, erasing, refused>>

\* Its row goes first.
DeleteProxy(r) ==
    /\ proxies[r] \in {"on", "off"}
    /\ Sets(r, "none")
    /\ erasing' = erasing \cup {r}
    /\ UNCHANGED <<route, refused>>

ForgetProxyRoutes(r) ==
    /\ route' = [d \in Domains |-> IF route[d] = r THEN None ELSE route[d]]
    /\ UNCHANGED <<proxies, ladder, refused>>

\* Then what was learned of it.
FinishDelete(r) == r \in erasing /\ erasing' = erasing \ {r} /\ ForgetProxyRoutes(r)

\* Its row is looked for and left alone.
ResetProxy(r) ==
    proxies[r] \in {"on", "off"} /\ ForgetProxyRoutes(r) /\ UNCHANGED erasing

\* The process stops: nothing in flight is left, nor a deletion half done.
StopRelaying ==
    /\ ladder' = [q \in Requests |-> NoRequest] /\ erasing' = {}
    /\ UNCHANGED <<proxies, route, refused>>

Climbs(q) ==
    \/ Find(q) \/ TryKnown(q) \/ Keep(q) \/ DropKnown(q) \/ AskDirectly(q) \/ Clear(q)
    \/ LoadList(q) \/ Climb(q) \/ Learn(q) \/ GiveUp(q)

RelaysNext ==
    \/ \E q \in Requests : Climbs(q) \/ \E d \in Domains : Begin(q, d)
    \/ \E r \in Relays : AddProxy(r) \/ UpdateProxy(r) \/ DeleteProxy(r) \/ FinishDelete(r)
                             \/ ResetProxy(r)
    \/ StopRelaying

RelaysSpec == RelaysInit /\ [][RelaysNext]_relayVars

(***************************************************************************)
(* Properties.                                                             *)
(***************************************************************************)
\* The tables and what each request holds: a relay wherever one is dialled,
\* stamped or dropped, and none tried that is not on its list.
RelaysTypeOK ==
    /\ proxies \in [Relays -> {"new", "on", "off", "none"}]
    /\ route \in [Domains -> Relays \cup {None}]
    /\ erasing \subseteq Relays
    /\ ladder \in [Requests -> Rung]
    /\ refused \subseteq Domains
    /\ \A q \in Requests :
           /\ ladder[q].at # "idle" => ladder[q].domain # None
           /\ ladder[q].at \in {"find", "known", "keep", "drop", "learn"} => ladder[q].known # None
           /\ ladder[q].tried \subseteq ladder[q].list

\* A permanent route is never made of a temporary refusal (feeds.transient):
\* a publisher that is reached through a relay has turned a direct request
\* away, and not for asking too often, whatever requests, resets and
\* deletions raced on the way.
RoutesFromRefusals == \A d \in Domains : route[d] # None => d \in refused

\* A relay switched off or deleted before a request began is not dialled by
\* it, be it remembered or not.
OffIsNotDialled ==
    \A q \in Requests :
        /\ ladder[q].at = "known" => ladder[q].known \in ladder[q].seen
        /\ ladder[q].at = "climb" => ladder[q].list \subseteq ladder[q].seen

\* A request that comes back turned away has been turned away by every relay
\* that was on from its first step to its last, unless the list could not be
\* read, whatever was remembered and whatever was edited meanwhile.
RefusedEverywhere ==
    [][\A q \in Requests :
           GiveUp(q) => ladder[q].blind \/ ladder[q].steady \subseteq ladder[q].tried]_relayVars
=============================================================================
