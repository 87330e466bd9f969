------------------------------ MODULE Accounts ------------------------------
(***************************************************************************)
(* Accounts, the sessions opened on them, and their deletion, as far as    *)
(* main.db goes: requests share it a statement at a time, and the hourly   *)
(* sweep erases accounts there.  What they leave in derived.db, which      *)
(* knows no accounts, is for Erasure to add.                               *)
(***************************************************************************)
EXTENDS FiniteSets, Integers

CONSTANTS
    Accounts,      \* principals there are, were or may yet be
    Founders,      \* those there are at the start
    Admins,        \* the ones made administrators: a role never changes
    Passwords,
    Tokens,        \* session cookies, each issued at most once
    Handlers,      \* requests the server answers at once
    None

\* deleted_at: not set, set within DeletionGrace, set longer ago than that.
Row == [password : Passwords, disabled : BOOLEAN, deleted : {"no", "asked", "due"}]

\* live is expires_at > now; with, for the properties only, the password the
\* account had when the session was recorded.
Session == [of : Accounts, live : BOOLEAN, with : Passwords]

ASSUME AccountsAssumption ==
    /\ Founders \subseteq Accounts /\ Admins \subseteq Accounts
    /\ IsFiniteSet(Accounts)
    /\ None \notin Accounts \cup Tokens \cup Passwords \cup Row \cup Session

VARIABLES
    account,       \* principals: the row, or None
    gone,          \* those whose row has been deleted: an id is not used again
    session,       \* sessions: the row of a token, or None
    issued,        \* tokens given out so far
    request,       \* what each handler is at
    erasing        \* accounts the sweep has listed and not erased yet

vars == <<account, gone, session, issued, request, erasing>>

Request ==
    [at     : {"idle", "withdraw", "issue", "slide", "in", "change", "look", "count",
               "apply", "mark", "revoke"},
     op     : {"none", "disable", "delete", "schedule"},
     by     : Accounts \cup {None},
     token  : Tokens \cup {None},
     target : Accounts \cup {None},
     next   : Passwords \cup {None}]

Idle == [at |-> "idle", op |-> "none", by |-> None, token |-> None, target |-> None, next |-> None]

NewRow(w) == [password |-> w, disabled |-> FALSE, deleted |-> "no"]

Exists(a) == a \in Accounts /\ account[a] # None

Init ==
    /\ account \in [Accounts -> {NewRow(w) : w \in Passwords} \cup {None}]
    /\ \A a \in Accounts : Exists(a) <=> a \in Founders
    /\ gone = {} /\ issued = {} /\ erasing = {}
    /\ session = [t \in Tokens |-> None]
    /\ request = [h \in Handlers |-> Idle]

(***************************************************************************)
(* Statements.                                                             *)
(***************************************************************************)
SessionsOf(a) == {t \in Tokens : session[t] # None /\ session[t].of = a}

\* DELETE FROM sessions.
EndSessions(S) == session' = [t \in Tokens |-> IF t \in S THEN None ELSE session[t]]

\* DELETE FROM principals: sessions go with it by cascade.
DeletePrincipal(a) ==
    /\ account' = [account EXCEPT ![a] = None]
    /\ gone' = gone \cup {a}
    /\ EndSessions(SessionsOf(a))

\* The enabled administrators, those waiting to be erased among them.
CountAdmins == Cardinality({a \in Admins : Exists(a) /\ ~account[a].disabled})

Goes(h, from, to) ==
    /\ request[h].at = from
    /\ request' = [request EXCEPT ![h].at = to]

Ends(h, from) ==
    /\ request[h].at = from
    /\ request' = [request EXCEPT ![h] = Idle]

mainVars == <<account, gone, session, issued>>

(***************************************************************************)
(* Signing in: the password is checked, a request to be erased withdrawn,  *)
(* a session opened, with other requests in between.                       *)
(***************************************************************************)
Authenticate(h, a, w) ==
    /\ request[h].at = "idle"
    /\ Exists(a) /\ account[a].password = w /\ ~account[a].disabled
    /\ request' = [request EXCEPT ![h] = [Idle EXCEPT !.at = "withdraw", !.by = a]]
    /\ UNCHANGED <<mainVars, erasing>>

CancelDeletion(h) ==
    LET a == request[h].by
    IN /\ Goes(h, "withdraw", "issue")
       /\ account' = IF Exists(a) THEN [account EXCEPT ![a].deleted = "no"] ELSE account
       /\ UNCHANGED <<gone, session, issued, erasing>>

\* Mutant of Issue: the sessions table does not refer to the accounts.
IssueRegardless(h, t) ==
    /\ Ends(h, "issue") /\ t \notin issued
    /\ issued' = issued \cup {t}
    /\ \E w \in Passwords :
           session' = [session EXCEPT ![t] = [of |-> request[h].by, live |-> TRUE, with |-> w]]
    /\ UNCHANGED <<account, gone, erasing>>

\* The foreign key refuses a session on an account that has gone.
Issue(h, t) ==
    LET a == request[h].by
    IN /\ Ends(h, "issue") /\ t \notin issued
       /\ issued' = issued \cup {t}
       /\ session' = IF Exists(a)
                     THEN [session EXCEPT ![t] =
                               [of |-> a, live |-> TRUE, with |-> account[a].password]]
                     ELSE session
       /\ UNCHANGED <<account, gone, erasing>>

\* Mutant of AcceptInvite: an id can come up a second time.
AcceptInviteAgain(h, a, w) ==
    /\ request[h].at = "idle" /\ ~Exists(a)
    /\ account' = [account EXCEPT ![a] = NewRow(w)]
    /\ request' = [request EXCEPT ![h] = [Idle EXCEPT !.at = "issue", !.by = a]]
    /\ UNCHANGED <<gone, session, issued, erasing>>

\* An invitation becomes an account, which is signed in with no more asked.
AcceptInvite(h, a, w) ==
    /\ request[h].at = "idle" /\ ~Exists(a) /\ a \notin gone
    /\ account' = [account EXCEPT ![a] = NewRow(w)]
    /\ request' = [request EXCEPT ![h] = [Idle EXCEPT !.at = "issue", !.by = a]]
    /\ UNCHANGED <<gone, session, issued, erasing>>

(***************************************************************************)
(* A request with a session: whose it is is read once, at the start.       *)
(***************************************************************************)
Resolve(h, t) ==
    /\ request[h].at = "idle"
    /\ session[t] # None /\ session[t].live /\ ~account[session[t].of].disabled
    /\ \E at \in {"slide", "in"} :
           request' = [request EXCEPT ![h] =
               [Idle EXCEPT !.at = at, !.by = session[t].of, !.token = t]]
    /\ UNCHANGED <<mainVars, erasing>>

\* Mutant of TouchSession: INSERT OR REPLACE of what was read at the start.
TouchAnew(h) ==
    LET a == request[h].by
    IN /\ Goes(h, "slide", "in") /\ Exists(a)
       /\ session' = [session EXCEPT ![request[h].token] =
                          [of |-> a, live |-> TRUE, with |-> account[a].password]]
       /\ UNCHANGED <<account, gone, issued, erasing>>

\* UPDATE sessions: touches nothing if the row has gone in the meantime.
TouchSession(h) ==
    LET t == request[h].token
    IN /\ Goes(h, "slide", "in")
       /\ session' = IF session[t] # None THEN [session EXCEPT ![t].live = TRUE] ELSE session
       /\ UNCHANGED <<account, gone, issued, erasing>>

\* Anything else, of which the accounts keep no trace.
Use(h) ==
    /\ Ends(h, "in")
    /\ UNCHANGED <<mainVars, erasing>>

\* Logging out, signing one session out, signing every other one out.
SignOut(h, S) ==
    /\ Ends(h, "in")
    /\ S \in {{request[h].token}, SessionsOf(request[h].by) \ {request[h].token}}
             \cup {{t} : t \in SessionsOf(request[h].by)}
    /\ EndSessions(S)
    /\ UNCHANGED <<account, gone, issued, erasing>>

CheckPassword(h, w) ==
    /\ request[h].at = "in"
    /\ Exists(request[h].by) /\ account[request[h].by].password # w
    /\ request' = [request EXCEPT ![h].at = "change", ![h].next = w]
    /\ UNCHANGED <<mainVars, erasing>>

\* Mutant of ChangePassword: the other sessions are those it may still use.
ChangeEndingLapsed(h) ==
    LET a == request[h].by
    IN /\ Ends(h, "change")
       /\ account' = IF Exists(a) THEN [account EXCEPT ![a].password = request[h].next]
                     ELSE account
       /\ EndSessions({t \in SessionsOf(a) \ {request[h].token} : ~session[t].live})
       /\ UNCHANGED <<gone, issued, erasing>>

\* The transaction that follows does not look at the old password again.
ChangePassword(h) ==
    LET a == request[h].by
    IN /\ Ends(h, "change")
       /\ account' = IF Exists(a) THEN [account EXCEPT ![a].password = request[h].next]
                     ELSE account
       /\ EndSessions(SessionsOf(a) \ {request[h].token})
       /\ UNCHANGED <<gone, issued, erasing>>

\* A link spent on a new password: one transaction, no session to keep.
UseRecoveryLink(a, w) ==
    /\ Exists(a) /\ ~account[a].disabled
    /\ account' = [account EXCEPT ![a].password = w]
    /\ EndSessions(SessionsOf(a))
    /\ UNCHANGED <<gone, issued, request, erasing>>

(***************************************************************************)
(* Switching an account off, deleting it, asking for one's own to be       *)
(* erased: each first makes sure that it is not the last administrator's.  *)
(***************************************************************************)
Ask(h, op, a) ==
    LET b == request[h].by
    IN /\ request[h].at = "in"
       /\ IF op = "schedule" THEN a = b ELSE b \in Admins /\ a # b
       /\ request' = [request EXCEPT ![h].at = "look", ![h].op = op, ![h].target = a]
       /\ UNCHANGED <<mainVars, erasing>>

\* refuseIfLastAdmin: the account is looked at, and then the others counted.
Look(h) ==
    LET a == request[h].target
    IN /\ \/ ~Exists(a) /\ Ends(h, "look")
          \/ /\ Exists(a) /\ a \in Admins /\ ~account[a].disabled
             /\ Goes(h, "look", "count")
          \/ /\ Exists(a) /\ (a \notin Admins \/ account[a].disabled)
             /\ Goes(h, "look", "apply")
       /\ UNCHANGED <<mainVars, erasing>>

Count(h) ==
    /\ IF CountAdmins <= 1 THEN Ends(h, "count") ELSE Goes(h, "count", "apply")
    /\ UNCHANGED <<mainVars, erasing>>

Disable(h) ==
    LET a == request[h].target
    IN /\ request[h].op = "disable" /\ Ends(h, "apply")
       /\ IF Exists(a)
          THEN /\ account' = [account EXCEPT ![a].disabled = TRUE]
               /\ EndSessions(SessionsOf(a))
          ELSE UNCHANGED <<account, session>>
       /\ UNCHANGED <<gone, issued, erasing>>

Enable(h, a) ==
    /\ Ends(h, "in") /\ request[h].by \in Admins
    /\ account' = IF Exists(a) THEN [account EXCEPT ![a].disabled = FALSE] ELSE account
    /\ UNCHANGED <<gone, session, issued, erasing>>

Delete(h) ==
    LET a == request[h].target
    IN /\ request[h].op = "delete" /\ Ends(h, "apply")
       /\ IF Exists(a) THEN DeletePrincipal(a) ELSE UNCHANGED <<account, gone, session>>
       /\ UNCHANGED <<issued, erasing>>

\* ScheduleDeletion reads the account and its password once more; asking
\* again changes nothing.
ReadScheduled(h) ==
    LET a == request[h].target
    IN /\ request[h].op = "schedule"
       /\ \/ ~Exists(a) /\ Ends(h, "apply")
          \/ Exists(a) /\ account[a].deleted = "no" /\ Goes(h, "apply", "mark")
          \/ Exists(a) /\ account[a].deleted # "no" /\ Goes(h, "apply", "revoke")
       /\ UNCHANGED <<mainVars, erasing>>

\* UPDATE ... AND deleted_at IS NULL, and every session ends.
ScheduleDeletion(h) ==
    LET a == request[h].target
    IN /\ IF Exists(a) /\ account[a].deleted = "no"
          THEN /\ Goes(h, "mark", "revoke")
               /\ account' = [account EXCEPT ![a].deleted = "asked"]
               /\ EndSessions(SessionsOf(a))
          ELSE Ends(h, "mark") /\ UNCHANGED <<account, session>>
       /\ UNCHANGED <<gone, issued, erasing>>

Revoke(h) ==
    /\ Ends(h, "revoke")
    /\ EndSessions({request[h].token})
    /\ UNCHANGED <<account, gone, issued, erasing>>

(***************************************************************************)
(* The sweep lists the accounts that are due once and erases them one by   *)
(* one.  An error ends the erasing, and the rest of the sweep goes on.     *)
(***************************************************************************)
ListDue ==
    /\ erasing = {}
    /\ erasing' = {a \in Accounts : Exists(a) /\ account[a].deleted = "due"}
    /\ UNCHANGED <<mainVars, request>>

\* DELETE FROM principals WHERE id = ?, whatever has become of the request.
Erase(a) ==
    /\ a \in erasing /\ erasing' = erasing \ {a}
    /\ IF Exists(a) THEN DeletePrincipal(a) ELSE UNCHANGED <<account, gone, session>>
    /\ UNCHANGED <<issued, request>>

ErasingFails ==
    /\ erasing' = {}
    /\ UNCHANGED <<mainVars, request>>

(***************************************************************************)
(* Time, and the process stopping.                                         *)
(***************************************************************************)
FallsDue(a) ==
    /\ Exists(a) /\ account[a].deleted = "asked"
    /\ account' = [account EXCEPT ![a].deleted = "due"]
    /\ UNCHANGED <<gone, session, issued, request, erasing>>

Lapse(t) ==
    /\ session[t] # None
    /\ session' = [session EXCEPT ![t].live = FALSE]
    /\ UNCHANGED <<account, gone, issued, request, erasing>>

SweepSessions ==
    /\ EndSessions({t \in Tokens : session[t] # None /\ ~session[t].live})
    /\ UNCHANGED <<account, gone, issued, request, erasing>>

Restart ==
    /\ request' = [h \in Handlers |-> Idle]
    /\ erasing' = {}
    /\ UNCHANGED mainVars

\* A wrong password, an error of the database, a client that has hung up.
GivesUp(h) ==
    /\ request[h].at # "idle"
    /\ request' = [request EXCEPT ![h] = Idle]
    /\ UNCHANGED <<mainVars, erasing>>

Handler(h) ==
    \/ \E a \in Accounts : \/ Enable(h, a) \/ \E op \in {"disable", "delete", "schedule"} : Ask(h, op, a)
                           \/ \E w \in Passwords : Authenticate(h, a, w) \/ AcceptInvite(h, a, w)
    \/ \E t \in Tokens : Resolve(h, t) \/ Issue(h, t)
    \/ \E S \in SUBSET Tokens : SignOut(h, S)
    \/ \E w \in Passwords : CheckPassword(h, w)
    \/ CancelDeletion(h) \/ TouchSession(h) \/ Use(h) \/ ChangePassword(h)
    \/ Look(h) \/ Count(h) \/ Disable(h) \/ Delete(h)
    \/ ReadScheduled(h) \/ ScheduleDeletion(h) \/ Revoke(h) \/ GivesUp(h)

Scheduler == ListDue \/ ErasingFails \/ \E a \in Accounts : Erase(a)

Next ==
    \/ \E h \in Handlers : Handler(h)
    \/ \E a \in Accounts : FallsDue(a) \/ \E w \in Passwords : UseRecoveryLink(a, w)
    \/ \E t \in Tokens : Lapse(t)
    \/ Scheduler \/ SweepSessions \/ Restart

Spec == Init /\ [][Next]_vars

(***************************************************************************)
(* Properties.                                                             *)
(***************************************************************************)
\* The tables, the requests and the list of the sweep; and no id is used again.
TypeOK ==
    /\ account \in [Accounts -> Row \cup {None}]
    /\ gone \subseteq {a \in Accounts : ~Exists(a)}
    /\ session \in [Tokens -> Session \cup {None}]
    /\ issued \subseteq Tokens /\ erasing \subseteq Accounts
    /\ request \in [Handlers -> Request]

\* A session is on an account that exists and carries a token that was given
\* out, however a deletion falls between a password checked and its cookie.
SessionsHaveAccounts ==
    \A t \in Tokens : session[t] # None => t \in issued /\ Exists(session[t].of)

\* Of the sessions on an account at most one was opened before its password
\* was last set: whichever requests changed it, each ended all but its own.
OneOutlivesPassword ==
    \A t, u \in Tokens :
        /\ session[t] # None /\ session[u] # None /\ session[t].of = session[u].of
        /\ session[t].with # account[session[t].of].password
        /\ session[u].with # account[session[u].of].password
        => t = u

\* A session that was ended stays ended: no request resolved before that, no
\* window slid forward after it, brings its token back.
EndedStaysEnded ==
    [][\A t \in issued : session[t] = None => session'[t] = None]_vars

\* "The one account that cannot go. There is no recovery path from an instance
\* with no administrator" (api/deletion.go:62): some administrator can sign in
\* and has not asked to be erased.
AnAdminStays ==
    Founders \cap Admins # {} =>
        \E a \in Admins : Exists(a) /\ ~account[a].disabled /\ account[a].deleted = "no"
=============================================================================
