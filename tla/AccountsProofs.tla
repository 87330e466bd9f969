--------------------------- MODULE AccountsProofs ---------------------------
(***************************************************************************)
(* Accounts and Erasure, for any accounts, passwords, cookies, requests    *)
(* and pages.  Whatever a request or the sweep is at, its step changes     *)
(* main.db in one of seven ways; what the properties need of each is       *)
(* proved once.  Erasure's steps are steps of Accounts, and its invariant  *)
(* is of what the sweep has listed and of who may be there since.          *)
(***************************************************************************)
EXTENDS Erasure, FiniteSetTheorems, TLAPS

Without(S) == [t \in Tokens |-> IF t \in S THEN None ELSE session[t]]

\* Some sessions end, perhaps none, and nothing else happens.
OnlyEnds(S) == session' = Without(S) /\ UNCHANGED <<account, gone, issued>>

\* An account's row changes in anything but the password.
Keeps(a, r, S) ==
    /\ Exists(a) /\ r.password = account[a].password
    /\ account' = [account EXCEPT ![a] = r]
    /\ session' = Without(S) /\ UNCHANGED <<gone, issued>>

\* Its password changes, and with it all its sessions end but one at the most.
Renews(a, r, k) ==
    /\ Exists(a)
    /\ account' = [account EXCEPT ![a] = r]
    /\ session' = Without(SessionsOf(a) \ {k}) /\ UNCHANGED <<gone, issued>>

\* It goes, or comes into being.
Leaves(a) == Exists(a) /\ DeletePrincipal(a) /\ UNCHANGED issued

Joins(a, r) ==
    /\ ~Exists(a) /\ a \notin gone
    /\ account' = [account EXCEPT ![a] = r]
    /\ UNCHANGED <<gone, session, issued>>

\* A session's row is written: a new one's, or one there is with another window.
Opens(t, s) ==
    /\ t \notin issued /\ issued' = issued \cup {t}
    /\ session' = [session EXCEPT ![t] = s]
    /\ s # None => Exists(s.of) /\ s.with = account[s.of].password
    /\ UNCHANGED <<account, gone>>

Slides(t, s) ==
    /\ session[t] # None /\ s # None /\ s.of = session[t].of /\ s.with = session[t].with
    /\ session' = [session EXCEPT ![t] = s]
    /\ UNCHANGED <<account, gone, issued>>

TableStep ==
    \/ \E S \in SUBSET Tokens : OnlyEnds(S) \/ \E a \in Accounts, r \in Row : Keeps(a, r, S)
    \/ \E a \in Accounts : \/ Leaves(a)
                           \/ \E r \in Row : Joins(a, r) \/ \E k : Renews(a, r, k)
    \/ \E t \in Tokens : \/ \E s \in Session \cup {None} : Opens(t, s)
                         \/ \E s \in Session : Slides(t, s)

TablesOK ==
    /\ account \in [Accounts -> Row \cup {None}]
    /\ gone \subseteq {a \in Accounts : ~Exists(a)}
    /\ session \in [Tokens -> Session \cup {None}]
    /\ issued \subseteq Tokens

\* What a request or the sweep goes on to write is there to be written.
RequestsOK ==
    /\ request \in [Handlers -> Request]
    /\ \A h \in Handlers :
           /\ request[h].at # "idle" => request[h].by \in Accounts
           /\ request[h].at = "change" => request[h].next \in Passwords

TableInv == TablesOK /\ SessionsHaveAccounts /\ OneOutlivesPassword

AccountsInv == TableInv /\ RequestsOK /\ erasing \subseteq Accounts

\* Each kind of change keeps the tables in order.
LEMMA TableStepInv == TableInv /\ TableStep => TableInv'
<1> SUFFICES ASSUME TableInv, TableStep PROVE TableInv'
  OBVIOUS
<1> USE AccountsAssumption
<1>1. ASSUME NEW S \in SUBSET Tokens, OnlyEnds(S) PROVE TableInv'
  <2>1. TablesOK'
    BY <1>1 DEF OnlyEnds, Without, TableInv, TablesOK, Exists
  <2>2. SessionsHaveAccounts'
    BY <1>1 DEF OnlyEnds, Without, TableInv, TablesOK, SessionsHaveAccounts, Exists
  <2>3. OneOutlivesPassword'
    BY <1>1 DEF OnlyEnds, Without, TableInv, TablesOK, OneOutlivesPassword
  <2> QED
    BY <2>1, <2>2, <2>3 DEF TableInv
<1>2. ASSUME NEW S \in SUBSET Tokens, NEW a \in Accounts, NEW r \in Row, Keeps(a, r, S)
      PROVE  TableInv'
  <2>1. /\ account' = [account EXCEPT ![a] = r] /\ r # None /\ account[a] # None
        /\ r.password = account[a].password /\ UNCHANGED <<gone, issued>>
        /\ session' = Without(S)
    BY <1>2 DEF Keeps, Exists
  <2>2. \A b \in Accounts : Exists(b)' = Exists(b)
    BY <2>1 DEF TableInv, TablesOK, Exists
  <2>3. \A b \in Accounts : Exists(b) => account'[b].password = account[b].password
    BY <2>1 DEF TableInv, TablesOK, Exists
  <2>4. TablesOK'
    BY <2>1, <2>2 DEF Without, TableInv, TablesOK
  <2>5. \A t \in Tokens : session'[t] # None =>
            session'[t] = session[t] /\ session[t].of \in Accounts /\ Exists(session[t].of)
    BY <2>1 DEF Without, TableInv, TablesOK, SessionsHaveAccounts, Exists
  <2>6. SessionsHaveAccounts'
    BY <2>1, <2>2, <2>5 DEF TableInv, SessionsHaveAccounts
  <2>7. OneOutlivesPassword'
    BY <2>3, <2>5 DEF TableInv, OneOutlivesPassword
  <2> QED
    BY <2>4, <2>6, <2>7 DEF TableInv
<1>3. ASSUME NEW a \in Accounts, NEW r \in Row, NEW k, Renews(a, r, k) PROVE TableInv'
  <2>1. /\ account' = [account EXCEPT ![a] = r] /\ r # None /\ account[a] # None
        /\ UNCHANGED <<gone, issued>> /\ session' = Without(SessionsOf(a) \ {k})
    BY <1>3 DEF Renews, Exists
  <2>2. \A b \in Accounts : Exists(b)' = Exists(b) /\ (b # a => account'[b] = account[b])
    BY <2>1 DEF TableInv, TablesOK, Exists
  <2>3. TablesOK'
    BY <2>1, <2>2 DEF Without, TableInv, TablesOK
  <2>4. \A t \in Tokens : session'[t] # None =>
            session'[t] = session[t] /\ session[t].of \in Accounts /\ Exists(session[t].of)
    BY <2>1 DEF Without, TableInv, TablesOK, SessionsHaveAccounts, Exists
  <2>5. SessionsHaveAccounts'
    BY <2>1, <2>2, <2>4 DEF TableInv, SessionsHaveAccounts
  <2>6. \A t \in Tokens : session'[t] # None /\ session'[t].of = a => t = k
    BY <2>1, <2>4 DEF Without, SessionsOf
  <2>7. OneOutlivesPassword'
    BY <2>2, <2>4, <2>6 DEF TableInv, OneOutlivesPassword
  <2> QED
    BY <2>3, <2>5, <2>7 DEF TableInv
<1>4. ASSUME NEW a \in Accounts, Leaves(a) PROVE TableInv'
  <2>1. /\ account' = [account EXCEPT ![a] = None] /\ gone' = gone \cup {a}
        /\ UNCHANGED issued /\ session' = Without(SessionsOf(a))
    BY <1>4 DEF Leaves, DeletePrincipal, EndSessions, Without
  <2>2. \A b \in Accounts : b # a => Exists(b)' = Exists(b) /\ account'[b] = account[b]
    BY <2>1 DEF TableInv, TablesOK, Exists
  <2>3. ~Exists(a)'
    BY <2>1 DEF TableInv, TablesOK, Exists
  <2>4. TablesOK'
    BY <2>1, <2>2, <2>3 DEF Without, TableInv, TablesOK
  <2>5. \A t \in Tokens : session'[t] # None =>
            /\ session'[t] = session[t] /\ session[t].of \in Accounts
            /\ session[t].of # a /\ Exists(session[t].of) /\ t \in issued
    BY <2>1 DEF Without, SessionsOf, TableInv, TablesOK, SessionsHaveAccounts, Exists
  <2>6. SessionsHaveAccounts'
    BY <2>1, <2>2, <2>5 DEF SessionsHaveAccounts
  <2>7. OneOutlivesPassword'
    BY <2>2, <2>5 DEF TableInv, OneOutlivesPassword
  <2> QED
    BY <2>4, <2>6, <2>7 DEF TableInv
<1>5. ASSUME NEW a \in Accounts, NEW r \in Row, Joins(a, r) PROVE TableInv'
  <2>1. /\ account' = [account EXCEPT ![a] = r] /\ r # None /\ ~Exists(a) /\ a \notin gone
        /\ UNCHANGED <<gone, session, issued>>
    BY <1>5 DEF Joins
  <2>2. \A b \in Accounts : b # a => Exists(b)' = Exists(b) /\ account'[b] = account[b]
    BY <2>1 DEF TableInv, TablesOK, Exists
  <2>3. TablesOK'
    BY <2>1, <2>2 DEF TableInv, TablesOK
  <2>4. \A t \in Tokens : session[t] # None =>
            session[t].of \in Accounts /\ session[t].of # a /\ Exists(session[t].of)
    BY <2>1 DEF TableInv, TablesOK, SessionsHaveAccounts, Exists
  <2>5. SessionsHaveAccounts'
    BY <2>1, <2>2, <2>4 DEF TableInv, SessionsHaveAccounts
  <2>6. OneOutlivesPassword'
    BY <2>1, <2>2, <2>4 DEF TableInv, OneOutlivesPassword
  <2> QED
    BY <2>3, <2>5, <2>6 DEF TableInv
<1>6. ASSUME NEW t \in Tokens, NEW s \in Session \cup {None}, Opens(t, s) PROVE TableInv'
  <2>1. /\ t \notin issued /\ issued' = issued \cup {t} /\ session' = [session EXCEPT ![t] = s]
        /\ UNCHANGED <<account, gone>>
        /\ s # None => Exists(s.of) /\ s.with = account[s.of].password
    BY <1>6 DEF Opens
  <2>2. TablesOK'
    BY <2>1 DEF TableInv, TablesOK, Exists
  <2>3. session'[t] = s /\ \A u \in Tokens : u # t => session'[u] = session[u]
    BY <2>1 DEF TableInv, TablesOK
  <2>4. SessionsHaveAccounts'
    BY <2>1, <2>3 DEF TableInv, SessionsHaveAccounts, Exists
  <2>5. OneOutlivesPassword'
    BY <2>1, <2>3 DEF TableInv, OneOutlivesPassword
  <2> QED
    BY <2>2, <2>4, <2>5 DEF TableInv
<1>7. ASSUME NEW t \in Tokens, NEW s \in Session, Slides(t, s) PROVE TableInv'
  <2>1. /\ session[t] # None /\ s.of = session[t].of /\ s.with = session[t].with
        /\ session' = [session EXCEPT ![t] = s] /\ UNCHANGED <<account, gone, issued>>
    BY <1>7 DEF Slides
  <2>2. TablesOK'
    BY <2>1 DEF TableInv, TablesOK, Exists
  <2>3. session'[t] = s /\ \A u \in Tokens : u # t => session'[u] = session[u]
    BY <2>1 DEF TableInv, TablesOK
  <2>4. SessionsHaveAccounts'
    BY <2>1, <2>3 DEF TableInv, SessionsHaveAccounts, Exists
  <2>5. OneOutlivesPassword'
    BY <2>1, <2>3 DEF TableInv, OneOutlivesPassword
  <2> QED
    BY <2>2, <2>4, <2>5 DEF TableInv
<1> QED
  BY <1>1, <1>2, <1>3, <1>4, <1>5, <1>6, <1>7 DEF TableStep

LEMMA EndsSome == ASSUME NEW S, EndSessions(S)
                  PROVE  S \cap Tokens \in SUBSET Tokens /\ session' = Without(S \cap Tokens)
  BY DEF EndSessions, Without

LEMMA NothingEnds == ASSUME TablesOK, UNCHANGED session PROVE session' = Without({})
  BY DEF TablesOK, Without

\* A write to a field of a row is the writing of a row.
LEMMA WritesDeleted ==
  ASSUME TablesOK, NEW a \in Accounts, Exists(a), NEW d \in {"no", "asked", "due"},
         account' = [account EXCEPT ![a].deleted = d]
  PROVE  \E r \in Row : account' = [account EXCEPT ![a] = r] /\ r.password = account[a].password
  <1> DEFINE r == [account[a] EXCEPT !.deleted = d]
  <1>1. account[a] \in Row
    BY DEF TablesOK, Exists
  <1>2. r \in Row /\ r.password = account[a].password
    BY <1>1 DEF Row
  <1>3. account' = [account EXCEPT ![a] = r]
    OBVIOUS
  <1> QED
    BY <1>2, <1>3

LEMMA WritesDisabled ==
  ASSUME TablesOK, NEW a \in Accounts, Exists(a), NEW b \in BOOLEAN,
         account' = [account EXCEPT ![a].disabled = b]
  PROVE  \E r \in Row : account' = [account EXCEPT ![a] = r] /\ r.password = account[a].password
  <1> DEFINE r == [account[a] EXCEPT !.disabled = b]
  <1>1. account[a] \in Row
    BY DEF TablesOK, Exists
  <1>2. r \in Row /\ r.password = account[a].password
    BY <1>1 DEF Row
  <1>3. account' = [account EXCEPT ![a] = r]
    OBVIOUS
  <1> QED
    BY <1>2, <1>3

LEMMA WritesPassword ==
  ASSUME TablesOK, NEW a \in Accounts, Exists(a), NEW w \in Passwords,
         account' = [account EXCEPT ![a].password = w]
  PROVE  \E r \in Row : account' = [account EXCEPT ![a] = r]
  <1> DEFINE r == [account[a] EXCEPT !.password = w]
  <1>1. account[a] \in Row
    BY DEF TablesOK, Exists
  <1>2. r \in Row
    BY <1>1 DEF Row
  <1>3. account' = [account EXCEPT ![a] = r]
    OBVIOUS
  <1> QED
    BY <1>2, <1>3

LEMMA HandlerTables ==
  ASSUME AccountsInv, NEW h \in Handlers, Handler(h)
  PROVE  TableStep \/ UNCHANGED mainVars
  <1>0. /\ TablesOK
        /\ request[h].at # "idle" => request[h].by \in Accounts
        /\ request[h].at = "change" => request[h].next \in Passwords
        /\ \A t \in Tokens : session[t] # None => session[t] \in Session
    BY DEF AccountsInv, TableInv, RequestsOK, TablesOK
  <1> DEFINE Done == TableStep \/ UNCHANGED mainVars
  <1>1. ASSUME NEW a \in Accounts, Enable(h, a) PROVE Done
    <2>1. CASE Exists(a)
      <3>1. PICK r \in Row : account' = [account EXCEPT ![a] = r] /\ r.password = account[a].password
        BY <1>0, <1>1, <2>1, WritesDisabled DEF Enable
      <3>2. Keeps(a, r, {})
        BY <1>0, <1>1, <2>1, <3>1, NothingEnds DEF Enable, Keeps
      <3> QED
        BY <3>2 DEF TableStep
    <2>2. CASE ~Exists(a)
      BY <1>1, <2>2 DEF Enable, mainVars
    <2> QED
      BY <2>1, <2>2
  <1>2. ASSUME NEW a \in Accounts, NEW w \in Passwords, AcceptInvite(h, a, w) PROVE Done
    <2>1. NewRow(w) \in Row
      BY DEF NewRow, Row
    <2>2. Joins(a, NewRow(w))
      BY <1>2 DEF AcceptInvite, Joins
    <2> QED
      BY <2>1, <2>2 DEF TableStep
  <1>3. ASSUME NEW t \in Tokens, Issue(h, t) PROVE Done
    <2> DEFINE a == request[h].by
               s == [of |-> a, live |-> TRUE, with |-> account[a].password]
    <2>0. a \in Accounts
      BY <1>0, <1>3 DEF Issue, Ends
    <2>1. CASE Exists(a)
      <3>1. account[a] \in Row
        BY <1>0, <2>1 DEF TablesOK, Exists
      <3>2. s \in Session /\ s.of = a /\ s.with = account[a].password
        BY <3>1, <2>0 DEF Row, Session
      <3>3. /\ t \notin issued /\ issued' = issued \cup {t} /\ UNCHANGED <<account, gone>>
            /\ session' = [session EXCEPT ![t] = s]
        BY <1>3, <2>1 DEF Issue
      <3> HIDE DEF s
      <3>4. Opens(t, s)
        BY <2>1, <3>2, <3>3 DEF Opens
      <3> QED
        BY <3>2, <3>4 DEF TableStep
    <2>2. CASE ~Exists(a)
      <3>1. /\ t \notin issued /\ issued' = issued \cup {t} /\ UNCHANGED <<account, gone, session>>
        BY <1>3, <2>2 DEF Issue
      <3>2. session[t] = None
        BY <3>1 DEF AccountsInv, TableInv, SessionsHaveAccounts
      <3>3. session' = [session EXCEPT ![t] = None]
        BY <1>0, <3>1, <3>2 DEF TablesOK
      <3>4. Opens(t, None)
        BY <3>1, <3>3 DEF Opens
      <3> QED
        BY <3>4 DEF TableStep
    <2> QED
      BY <2>1, <2>2
  <1>4. ASSUME NEW S \in SUBSET Tokens, SignOut(h, S) PROVE Done
    <2>1. OnlyEnds(S)
      BY <1>4 DEF SignOut, EndSessions, OnlyEnds, Without
    <2> QED
      BY <2>1 DEF TableStep
  <1>5. ASSUME CancelDeletion(h) PROVE Done
    <2> DEFINE a == request[h].by
    <2>0. a \in Accounts
      BY <1>0, <1>5 DEF CancelDeletion, Goes
    <2>1. CASE Exists(a)
      <3>1. PICK r \in Row : account' = [account EXCEPT ![a] = r] /\ r.password = account[a].password
        BY <1>0, <1>5, <2>0, <2>1, WritesDeleted DEF CancelDeletion
      <3>2. Keeps(a, r, {})
        BY <1>0, <1>5, <2>1, <3>1, NothingEnds DEF CancelDeletion, Keeps
      <3> QED
        BY <2>0, <3>2 DEF TableStep
    <2>2. CASE ~Exists(a)
      BY <1>5, <2>2 DEF CancelDeletion, mainVars
    <2> QED
      BY <2>1, <2>2
  <1>6. ASSUME TouchSession(h) PROVE Done
    <2> DEFINE t == request[h].token
               s == [session[t] EXCEPT !.live = TRUE]
    <2>1. CASE session[t] # None /\ t \in Tokens
      <3>1. s \in Session /\ s.of = session[t].of /\ s.with = session[t].with
        BY <1>0, <2>1 DEF Session
      <3>2. session' = [session EXCEPT ![t] = s] /\ UNCHANGED <<account, gone, issued>>
        BY <1>6, <2>1 DEF TouchSession
      <3> HIDE DEF s
      <3>3. s # None
        BY <3>1, AccountsAssumption
      <3>4. Slides(t, s)
        BY <2>1, <3>1, <3>2, <3>3 DEF Slides
      <3> QED
        BY <2>1, <3>1, <3>4 DEF TableStep
    <2>2. CASE ~(session[t] # None /\ t \in Tokens)
      <3>1. UNCHANGED <<account, gone, issued>>
        BY <1>6 DEF TouchSession
      <3>2. session' = session
        BY <1>0, <1>6, <2>2 DEF TouchSession, TablesOK
      <3> QED
        BY <3>1, <3>2 DEF mainVars
    <2> QED
      BY <2>1, <2>2
  <1>7. ASSUME ChangePassword(h) PROVE Done
    <2> DEFINE a == request[h].by
    <2>0. a \in Accounts /\ request[h].next \in Passwords
      BY <1>0, <1>7 DEF ChangePassword, Ends
    <2>1. CASE Exists(a)
      <3>1. PICK r \in Row : account' = [account EXCEPT ![a] = r]
        BY <1>0, <1>7, <2>0, <2>1, WritesPassword DEF ChangePassword
      <3>2. Renews(a, r, request[h].token)
        BY <1>7, <2>1, <3>1 DEF ChangePassword, Renews, EndSessions, Without
      <3> QED
        BY <2>0, <3>2 DEF TableStep
    <2>2. CASE ~Exists(a)
      <3> DEFINE S == SessionsOf(a) \ {request[h].token}
      <3>1. S \in SUBSET Tokens
        BY DEF SessionsOf
      <3>2. OnlyEnds(S)
        BY <1>7, <2>2 DEF ChangePassword, OnlyEnds, EndSessions, Without
      <3> QED
        BY <3>1, <3>2 DEF TableStep
    <2> QED
      BY <2>1, <2>2
  <1>8. ASSUME Disable(h) PROVE Done
    <2> DEFINE a == request[h].target
    <2>1. CASE Exists(a)
      <3>0. a \in Accounts
        BY <2>1 DEF Exists
      <3>1. PICK r \in Row : account' = [account EXCEPT ![a] = r] /\ r.password = account[a].password
        BY <1>0, <1>8, <2>1, <3>0, WritesDisabled DEF Disable
      <3>2. SessionsOf(a) \in SUBSET Tokens /\ Keeps(a, r, SessionsOf(a))
        BY <1>8, <2>1, <3>1 DEF Disable, Keeps, EndSessions, Without, SessionsOf
      <3> QED
        BY <3>0, <3>2 DEF TableStep
    <2>2. CASE ~Exists(a)
      BY <1>8, <2>2 DEF Disable, mainVars
    <2> QED
      BY <2>1, <2>2
  <1>9. ASSUME Delete(h) PROVE Done
    <2> DEFINE a == request[h].target
    <2>1. CASE Exists(a)
      <3>1. a \in Accounts /\ Leaves(a)
        BY <1>9, <2>1 DEF Delete, Leaves, Exists
      <3> QED
        BY <3>1 DEF TableStep
    <2>2. CASE ~Exists(a)
      BY <1>9, <2>2 DEF Delete, mainVars
    <2> QED
      BY <2>1, <2>2
  <1>10. ASSUME ScheduleDeletion(h) PROVE Done
    <2> DEFINE a == request[h].target
    <2>1. CASE Exists(a) /\ account[a].deleted = "no"
      <3>0. a \in Accounts
        BY <2>1 DEF Exists
      <3>1. PICK r \in Row : account' = [account EXCEPT ![a] = r] /\ r.password = account[a].password
        BY <1>0, <1>10, <2>1, <3>0, WritesDeleted DEF ScheduleDeletion
      <3>2. SessionsOf(a) \in SUBSET Tokens /\ Keeps(a, r, SessionsOf(a))
        BY <1>10, <2>1, <3>1 DEF ScheduleDeletion, Keeps, EndSessions, Without, SessionsOf
      <3> QED
        BY <3>0, <3>2 DEF TableStep
    <2>2. CASE ~(Exists(a) /\ account[a].deleted = "no")
      BY <1>10, <2>2 DEF ScheduleDeletion, mainVars
    <2> QED
      BY <2>1, <2>2
  <1>11. ASSUME Revoke(h) PROVE Done
    <2> DEFINE S == {request[h].token} \cap Tokens
    <2>1. OnlyEnds(S)
      BY <1>11, EndsSome DEF Revoke, OnlyEnds
    <2> QED
      BY <2>1 DEF TableStep
  <1>12. ASSUME NEW a \in Accounts, NEW w \in Passwords, Authenticate(h, a, w) PROVE Done
    BY <1>12 DEF Authenticate, mainVars
  <1>14. ASSUME NEW t \in Tokens, Resolve(h, t) PROVE Done
    BY <1>14 DEF Resolve, mainVars
  <1>15. ASSUME NEW a \in Accounts, NEW op \in {"disable", "delete", "schedule"}, Ask(h, op, a)
         PROVE  Done
    BY <1>15 DEF Ask, mainVars
  <1>16. ASSUME NEW w \in Passwords, CheckPassword(h, w) PROVE Done
    BY <1>16 DEF CheckPassword, mainVars
  <1>13. ASSUME Use(h) \/ Look(h) \/ Count(h) \/ ReadScheduled(h) \/ GivesUp(h) PROVE Done
    BY <1>13 DEF Use, Look, Count, ReadScheduled, GivesUp, mainVars
  <1> HIDE DEF Done
  <1>17. Done
    BY <1>1, <1>2, <1>3, <1>4, <1>5, <1>6, <1>7, <1>8, <1>9, <1>10, <1>11, <1>12, <1>13, <1>14, <1>15,
       <1>16 DEF Handler
  <1> QED
    BY <1>17 DEF Done

\* Every step but a handler's, and with it every step there is.
LEMMA StepTables == AccountsInv /\ [Next]_vars => TableStep \/ UNCHANGED mainVars
  <1> DEFINE Done == TableStep \/ UNCHANGED mainVars
  <1> SUFFICES ASSUME AccountsInv, [Next]_vars PROVE Done
    OBVIOUS
  <1>0. TablesOK /\ \A t \in Tokens : session[t] # None => session[t] \in Session
    BY DEF AccountsInv, TableInv, TablesOK
  <1>1. ASSUME NEW h \in Handlers, Handler(h) PROVE Done
    BY <1>1, HandlerTables
  <1>2. ASSUME NEW a \in Accounts, FallsDue(a) PROVE Done
    <2>1. PICK r \in Row : account' = [account EXCEPT ![a] = r] /\ r.password = account[a].password
      BY <1>0, <1>2, WritesDeleted DEF FallsDue
    <2>2. Keeps(a, r, {})
      BY <1>0, <1>2, <2>1, NothingEnds DEF FallsDue, Keeps
    <2> QED
      BY <2>2 DEF TableStep
  <1>3. ASSUME NEW a \in Accounts, NEW w \in Passwords, UseRecoveryLink(a, w) PROVE Done
    <2>1. PICK r \in Row : account' = [account EXCEPT ![a] = r]
      BY <1>0, <1>3, WritesPassword DEF UseRecoveryLink
    <2>2. SessionsOf(a) \ {None} = SessionsOf(a)
      BY AccountsAssumption DEF SessionsOf
    <2>3. Renews(a, r, None)
      BY <1>3, <2>1, <2>2 DEF UseRecoveryLink, Renews, EndSessions, Without
    <2> QED
      BY <2>3 DEF TableStep
  <1>4. ASSUME NEW t \in Tokens, Lapse(t) PROVE Done
    <2> DEFINE s == [session[t] EXCEPT !.live = FALSE]
    <2>1. s \in Session /\ s.of = session[t].of /\ s.with = session[t].with
      BY <1>0, <1>4 DEF Session, Lapse
    <2>2. session' = [session EXCEPT ![t] = s] /\ UNCHANGED <<account, gone, issued>>
      BY <1>4 DEF Lapse
    <2> HIDE DEF s
    <2>3. Slides(t, s)
      BY <1>4, <2>1, <2>2, AccountsAssumption DEF Slides, Lapse
    <2> QED
      BY <2>1, <2>3 DEF TableStep
  <1>5. ASSUME SweepSessions PROVE Done
    <2> DEFINE S == {t \in Tokens : session[t] # None /\ ~session[t].live}
    <2>1. S \in SUBSET Tokens /\ OnlyEnds(S)
      BY <1>5 DEF SweepSessions, EndSessions, OnlyEnds, Without
    <2> QED
      BY <2>1 DEF TableStep
  <1>6. ASSUME NEW a \in Accounts, Erase(a) PROVE Done
    <2>1. CASE Exists(a)
      <3>1. Leaves(a)
        BY <1>6, <2>1 DEF Erase, Leaves
      <3> QED
        BY <3>1 DEF TableStep
    <2>2. CASE ~Exists(a)
      BY <1>6, <2>2 DEF Erase, mainVars
    <2> QED
      BY <2>1, <2>2
  <1>8. ASSUME ListDue \/ ErasingFails \/ Restart PROVE Done
    BY <1>8 DEF ListDue, ErasingFails, Restart, mainVars
  <1>9. CASE UNCHANGED vars
    BY <1>9 DEF vars, mainVars
  <1> HIDE DEF Done
  <1> QED
    BY <1>1, <1>2, <1>3, <1>4, <1>5, <1>6, <1>8, <1>9 DEF Next, Scheduler

\* What the requests hold: their account and, while changing it, a password.
LEMMA StepRequests == AccountsInv /\ [Next]_vars => RequestsOK'
  <1> SUFFICES ASSUME AccountsInv, [Next]_vars PROVE RequestsOK'
    OBVIOUS
  <1> USE AccountsAssumption DEF RequestsOK
  <1>0. RequestsOK /\ TablesOK /\ SessionsHaveAccounts /\ Idle \in Request
    BY DEF AccountsInv, TableInv, Idle, Request
  <1>1. ASSUME NEW h \in Handlers, NEW q \in Request, request' = [request EXCEPT ![h] = q],
               q.at # "idle" => q.by \in Accounts,
               q.at = "change" => q.next \in Passwords
        PROVE  RequestsOK'
    BY <1>0, <1>1
  <1>2. ASSUME NEW h \in Handlers, NEW from, Ends(h, from) PROVE RequestsOK'
    <2>1. request' = [request EXCEPT ![h] = Idle] /\ Idle.at = "idle"
      BY <1>2 DEF Ends, Idle
    <2> QED
      BY <1>0, <1>1, <2>1
  <1>3. ASSUME NEW h \in Handlers, NEW from, NEW to, from # "idle", Goes(h, from, to),
               to \in {"issue", "in", "count", "apply", "mark", "revoke"}
        PROVE  RequestsOK'
    <2> DEFINE q == [request[h] EXCEPT !.at = to]
    <2>1. /\ q \in Request /\ q.at = to /\ q.by = request[h].by
      BY <1>0, <1>3 DEF Request
    <2>2. request' = [request EXCEPT ![h] = q] /\ request[h].by \in Accounts
      BY <1>0, <1>3 DEF Goes
    <2> HIDE DEF q
    <2> QED
      BY <1>1, <1>3, <2>1, <2>2
  <1>4. ASSUME UNCHANGED request PROVE RequestsOK'
    BY <1>0, <1>4
  <1>5. ASSUME NEW h \in Handlers, Handler(h) PROVE RequestsOK'
    <2>1. ASSUME NEW a \in Accounts, NEW w \in Passwords,
                 Authenticate(h, a, w) \/ AcceptInvite(h, a, w)
          PROVE  RequestsOK'
      <3>1. PICK at \in {"withdraw", "issue"} :
                request' = [request EXCEPT ![h] = [Idle EXCEPT !.at = at, !.by = a]]
        BY <2>1 DEF Authenticate, AcceptInvite
      <3> DEFINE q == [Idle EXCEPT !.at = at, !.by = a]
      <3>2. q \in Request /\ q.at = at /\ q.by = a
        BY DEF Idle, Request
      <3>3. request' = [request EXCEPT ![h] = q]
        BY <3>1
      <3> HIDE DEF q
      <3> QED
        BY <1>1, <3>2, <3>3
    <2>2. ASSUME NEW t \in Tokens, Resolve(h, t) PROVE RequestsOK'
      <3>1. PICK at \in {"slide", "in"} : request' = [request EXCEPT ![h] =
                [Idle EXCEPT !.at = at, !.by = session[t].of, !.token = t]]
        BY <2>2 DEF Resolve
      <3> DEFINE q == [Idle EXCEPT !.at = at, !.by = session[t].of, !.token = t]
      <3>2. session[t].of \in Accounts
        BY <1>0, <2>2 DEF Resolve, SessionsHaveAccounts, Exists
      <3>3. q \in Request /\ q.at = at /\ q.by = session[t].of
        BY <3>2 DEF Idle, Request
      <3>4. request' = [request EXCEPT ![h] = q]
        BY <3>1
      <3> HIDE DEF q
      <3> QED
        BY <1>1, <3>2, <3>3, <3>4
    <2>3. ASSUME NEW w \in Passwords, CheckPassword(h, w) PROVE RequestsOK'
      <3> DEFINE q == [request[h] EXCEPT !.at = "change", !.next = w]
      <3>1. q \in Request /\ q.at = "change" /\ q.next = w /\ q.by = request[h].by
        BY <1>0 DEF Request
      <3>2. request' = [request EXCEPT ![h] = q] /\ request[h].by \in Accounts
        BY <1>0, <2>3 DEF CheckPassword
      <3> HIDE DEF q
      <3> QED
        BY <1>1, <3>1, <3>2
    <2>4. ASSUME NEW a \in Accounts, NEW op \in {"disable", "delete", "schedule"}, Ask(h, op, a)
          PROVE  RequestsOK'
      <3> DEFINE q == [request[h] EXCEPT !.at = "look", !.op = op, !.target = a]
      <3>1. q \in Request /\ q.at = "look" /\ q.by = request[h].by
        BY <1>0 DEF Request
      <3>2. request' = [request EXCEPT ![h] = q] /\ request[h].by \in Accounts
        BY <1>0, <2>4 DEF Ask
      <3> HIDE DEF q
      <3> QED
        BY <1>1, <3>1, <3>2
    <2>5. ASSUME NEW a \in Accounts, Enable(h, a) PROVE RequestsOK'
      BY <1>2, <2>5 DEF Enable
    <2>6. ASSUME NEW t \in Tokens, Issue(h, t) PROVE RequestsOK'
      BY <1>2, <2>6 DEF Issue
    <2>7. ASSUME NEW S \in SUBSET Tokens, SignOut(h, S) PROVE RequestsOK'
      BY <1>2, <2>7 DEF SignOut
    <2>8. ASSUME Use(h) \/ ChangePassword(h) \/ Disable(h) \/ Delete(h) \/ Revoke(h)
          PROVE  RequestsOK'
      BY <1>2, <2>8 DEF Use, ChangePassword, Disable, Delete, Revoke
    <2>9. ASSUME CancelDeletion(h) \/ TouchSession(h) PROVE RequestsOK'
      BY <1>3, <2>9 DEF CancelDeletion, TouchSession
    <2>10. ASSUME Look(h) \/ Count(h) \/ ReadScheduled(h) \/ ScheduleDeletion(h) PROVE RequestsOK'
      BY <1>2, <1>3, <2>10 DEF Look, Count, ReadScheduled, ScheduleDeletion
    <2>11. ASSUME GivesUp(h) PROVE RequestsOK'
      <3>1. request' = [request EXCEPT ![h] = Idle] /\ Idle.at = "idle"
        BY <2>11 DEF GivesUp, Idle
      <3> QED
        BY <1>0, <1>1, <3>1
    <2> HIDE DEF RequestsOK
    <2> QED
      BY <1>5, <2>1, <2>2, <2>3, <2>4, <2>5, <2>6, <2>7, <2>8, <2>9, <2>10, <2>11 DEF Handler
  <1>6. ASSUME Restart PROVE RequestsOK'
    BY <1>0, <1>6 DEF Restart, Idle
  <1>7. ASSUME \/ \E a \in Accounts : FallsDue(a) \/ \E w \in Passwords : UseRecoveryLink(a, w)
               \/ \E t \in Tokens : Lapse(t)
        PROVE  UNCHANGED request
    BY <1>7 DEF FallsDue, UseRecoveryLink, Lapse
  <1>8. ASSUME Scheduler \/ SweepSessions PROVE UNCHANGED request
    BY <1>8 DEF Scheduler, SweepSessions, ListDue, ErasingFails, Erase
  <1> HIDE DEF RequestsOK
  <1> QED
    BY <1>4, <1>5, <1>6, <1>7, <1>8 DEF Next, vars

\* A request leaves the list of the sweep alone.
LEMMA HandlerKeepsErasing ==
  ASSUME NEW h \in Handlers, Handler(h)
  PROVE  UNCHANGED erasing
  <1>1. ASSUME Use(h) PROVE UNCHANGED erasing
    BY <1>1 DEF Use
  <1>2. ASSUME NEW a \in Accounts, NEW w \in Passwords, Authenticate(h, a, w) \/ AcceptInvite(h, a, w)
        PROVE  UNCHANGED erasing
    BY <1>2 DEF Authenticate, AcceptInvite
  <1>3. ASSUME NEW t \in Tokens, Resolve(h, t) \/ Issue(h, t) PROVE UNCHANGED erasing
    BY <1>3 DEF Resolve, Issue
  <1>4. ASSUME NEW S \in SUBSET Tokens, SignOut(h, S) PROVE UNCHANGED erasing
    BY <1>4 DEF SignOut
  <1>5. ASSUME NEW w \in Passwords, CheckPassword(h, w) PROVE UNCHANGED erasing
    BY <1>5 DEF CheckPassword
  <1>6. ASSUME NEW a \in Accounts, Enable(h, a) PROVE UNCHANGED erasing
    BY <1>6 DEF Enable
  <1>7. ASSUME NEW a \in Accounts, NEW op \in {"disable", "delete", "schedule"}, Ask(h, op, a)
        PROVE  UNCHANGED erasing
    BY <1>7 DEF Ask
  <1>8. ASSUME \/ CancelDeletion(h) \/ TouchSession(h) \/ ChangePassword(h) \/ Look(h) \/ Count(h)
               \/ Disable(h) \/ Delete(h) \/ ReadScheduled(h) \/ ScheduleDeletion(h)
               \/ Revoke(h) \/ GivesUp(h)
        PROVE  UNCHANGED erasing
    BY <1>8 DEF CancelDeletion, TouchSession, ChangePassword, Look, Count, Disable, Delete,
                ReadScheduled, ScheduleDeletion, Revoke, GivesUp
  <1> QED
    BY <1>1, <1>2, <1>3, <1>4, <1>5, <1>6, <1>7, <1>8 DEF Handler

LEMMA StepErasing == AccountsInv /\ [Next]_vars => erasing' \subseteq Accounts
  <1> SUFFICES ASSUME AccountsInv, [Next]_vars PROVE erasing' \subseteq Accounts
    OBVIOUS
  <1>0. erasing \subseteq Accounts
    BY DEF AccountsInv
  <1>1. ASSUME NEW h \in Handlers, Handler(h) PROVE UNCHANGED erasing
    BY <1>1, HandlerKeepsErasing
  <1>2. ASSUME Scheduler \/ Restart PROVE erasing' \subseteq Accounts
    BY <1>0, <1>2 DEF Scheduler, ListDue, ErasingFails, Erase, Restart
  <1>3. ASSUME \/ \E a \in Accounts : FallsDue(a) \/ \E w \in Passwords : UseRecoveryLink(a, w)
               \/ \E t \in Tokens : Lapse(t)
               \/ SweepSessions \/ UNCHANGED vars
        PROVE  UNCHANGED erasing
    BY <1>3 DEF FallsDue, UseRecoveryLink, Lapse, SweepSessions, vars
  <1> QED
    BY <1>0, <1>1, <1>2, <1>3 DEF Next

LEMMA InitInv == Init => AccountsInv
  <1> SUFFICES ASSUME Init PROVE AccountsInv
    OBVIOUS
  <1>1. TablesOK
    <2>1. \A w \in Passwords : NewRow(w) \in Row
      BY DEF NewRow, Row
    <2> QED
      BY <2>1 DEF Init, TablesOK
  <1>2. SessionsHaveAccounts /\ OneOutlivesPassword
    BY DEF Init, SessionsHaveAccounts, OneOutlivesPassword
  <1>3. RequestsOK
    BY DEF Init, RequestsOK, Idle, Request
  <1>4. erasing \subseteq Accounts
    BY DEF Init
  <1> QED
    BY <1>1, <1>2, <1>3, <1>4 DEF AccountsInv, TableInv

LEMMA StepInv == AccountsInv /\ [Next]_vars => AccountsInv'
  <1> SUFFICES ASSUME AccountsInv, [Next]_vars PROVE AccountsInv'
    OBVIOUS
  <1>1. CASE TableStep
    BY <1>1, TableStepInv, StepRequests, StepErasing DEF AccountsInv
  <1>2. CASE UNCHANGED mainVars
    <2>1. TableInv'
      BY <1>2 DEF AccountsInv, TableInv, TablesOK, SessionsHaveAccounts, OneOutlivesPassword, Exists,
                  mainVars
    <2> QED
      BY <2>1, StepRequests, StepErasing DEF AccountsInv
  <1> QED
    BY <1>1, <1>2, StepTables

THEOREM AccountsInvariant == Spec => []AccountsInv
  BY InitInv, StepInv, PTL DEF Spec

\* The tables, what the requests and the sweep hold, and that an id that has
\* been deleted (store/principals.go, DeletePrincipal) names nobody again.
THEOREM AccountsTypes == Spec => []TypeOK
  <1>1. AccountsInv => TypeOK
    BY DEF AccountsInv, TableInv, TablesOK, RequestsOK, TypeOK
  <1> QED
    BY <1>1, AccountsInvariant, PTL

\* However a deletion falls between a password checked and the cookie given
\* for it, every session there is is on an account there is.
THEOREM SessionsOnAccounts == Spec => []SessionsHaveAccounts
  <1>1. AccountsInv => SessionsHaveAccounts
    BY DEF AccountsInv, TableInv
  <1> QED
    BY <1>1, AccountsInvariant, PTL

\* However many requests change a password at once, one session at most on
\* an account is older than the password it has now.
THEOREM OneSessionOutlives == Spec => []OneOutlivesPassword
  <1>1. AccountsInv => OneOutlivesPassword
    BY DEF AccountsInv, TableInv
  <1> QED
    BY <1>1, AccountsInvariant, PTL

\* Nothing a request writes late brings back a session that has ended: only
\* Opens writes the row of a token without one, and its token is a new one.
THEOREM EndedForGood == Spec => EndedStaysEnded
  <1> DEFINE StaysEnded == \A t \in issued : session[t] = None => session'[t] = None
  <1>1. AccountsInv /\ [Next]_vars => StaysEnded
    <2> SUFFICES ASSUME AccountsInv, [Next]_vars, NEW t \in issued, session[t] = None
                 PROVE  session'[t] = None
      OBVIOUS
    <2>0. TablesOK /\ t \in Tokens
      BY DEF AccountsInv, TableInv, TablesOK
    <2>1. ASSUME NEW S, session' = Without(S) PROVE session'[t] = None
      BY <2>0, <2>1 DEF Without
    <2>2. ASSUME NEW u \in Tokens, NEW s, Opens(u, s) \/ Slides(u, s) PROVE session'[t] = None
      BY <2>0, <2>2 DEF Opens, Slides, TablesOK
    <2>3. ASSUME NEW a \in Accounts, Leaves(a) PROVE session' = Without(SessionsOf(a))
      BY <2>3 DEF Leaves, DeletePrincipal, EndSessions, Without
    <2>4. ASSUME UNCHANGED session PROVE session'[t] = None
      BY <2>4
    <2>5. CASE TableStep
      BY <2>1, <2>2, <2>3, <2>4, <2>5 DEF TableStep, OnlyEnds, Keeps, Renews, Joins
    <2>6. CASE UNCHANGED mainVars
      BY <2>4, <2>6 DEF mainVars
    <2> QED
      BY <2>5, <2>6, StepTables
  <1> QED
    BY <1>1, AccountsInvariant, PTL DEF Spec, EndedStaysEnded

(***************************************************************************)
(* The last administrator, where no administrator has asked to be erased   *)
(* and one request at a time is between counting them and taking one away. *)
(***************************************************************************)
Acting == {a \in Admins : Exists(a) /\ ~account[a].disabled}

OneRemoval ==
    \A g, h \in Handlers : request[g].at \in {"count", "apply"} /\ request[h].at \in {"count", "apply"} => g = h

NoneAsked == \A a \in Admins : Exists(a) => account[a].deleted = "no"

\* Whoever is about to be taken away is not the only one; none is to be erased.
AdminInv ==
    /\ erasing \cap Admins = {}
    /\ Founders \cap Admins # {} =>
           /\ Acting # {}
           /\ \A h \in Handlers : request[h].at = "apply" => Acting \ {request[h].target} # {}

LEMMA CountIsOfTwo == ASSUME ~(CountAdmins <= 1), NEW a PROVE Acting \ {a} # {}
  <1>1. IsFiniteSet({a}) /\ Cardinality({a}) = 1
    BY FS_Singleton
  <1>2. Acting \subseteq {a} => Cardinality(Acting) <= 1
    BY <1>1, FS_Subset
  <1> QED
    BY <1>2 DEF CountAdmins, Acting

\* A step that takes no administrator away, and brings no request to where one
\* is.
LEMMA ActingKept ==
  ASSUME AdminInv, Acting \subseteq Acting', erasing' \cap Admins = {},
         \A h \in Handlers : request'[h].at = "apply" =>
             request[h].at = "apply" /\ request'[h].target = request[h].target
  PROVE  AdminInv'
  <1>1. Founders \cap Admins # {} => Acting' # {}
    BY DEF AdminInv
  <1>2. ASSUME Founders \cap Admins # {}, NEW h \in Handlers, request'[h].at = "apply"
        PROVE  Acting' \ {request'[h].target} # {}
    BY <1>2 DEF AdminInv
  <1> QED
    BY <1>1, <1>2 DEF AdminInv

\* A request goes on to anything but taking an account away.
LEMMA ActingGoesOn ==
  ASSUME AccountsInv, AdminInv, Acting \subseteq Acting', UNCHANGED erasing,
         NEW h \in Handlers, NEW r, request' = [request EXCEPT ![h] = r], r.at # "apply"
  PROVE  AdminInv'
  <1>1. \A g \in Handlers : request'[g] = IF g = h THEN r ELSE request[g]
    BY DEF AccountsInv, RequestsOK
  <1> QED
    BY <1>1, ActingKept DEF AdminInv

LEMMA AdminsThroughRequests ==
  ASSUME AccountsInv, AdminInv, OneRemoval, NEW h \in Handlers, Handler(h)
  PROVE  AdminInv'
  <1>0. /\ UNCHANGED erasing /\ Idle.at # "apply" /\ request \in [Handlers -> Request]
        /\ account \in [Accounts -> Row \cup {None}]
    BY HandlerKeepsErasing DEF Idle, AccountsInv, RequestsOK, TableInv, TablesOK
  <1>1. ASSUME NEW r, request' = [request EXCEPT ![h] = r], r.at # "apply", Acting \subseteq Acting'
        PROVE  AdminInv'
    BY <1>0, <1>1, ActingGoesOn
  <1>2. UNCHANGED account => Acting' = Acting
    BY DEF Acting, Exists
  <1>3. ASSUME NEW from, Ends(h, from), Acting \subseteq Acting' PROVE AdminInv'
    BY <1>0, <1>1, <1>3 DEF Ends
  <1>4. ASSUME NEW from, NEW to, to # "apply", Goes(h, from, to), Acting \subseteq Acting' PROVE AdminInv'
    <2> DEFINE r == [request[h] EXCEPT !.at = to]
    <2>1. r.at = to
      BY <1>0 DEF Request
    <2>2. request' = [request EXCEPT ![h] = r]
      BY <1>4 DEF Goes
    <2> HIDE DEF r
    <2> QED
      BY <1>1, <1>4, <2>1, <2>2
  <1>5. ASSUME NEW from, Goes(h, from, "apply"), UNCHANGED account,
               Founders \cap Admins # {} => Acting \ {request[h].target} # {}
        PROVE  AdminInv'
    <2>1. \A g \in Handlers : /\ request'[g].target = request[g].target
                              /\ g # h => request'[g] = request[g]
      BY <1>0, <1>5 DEF Goes, Request
    <2> QED
      BY <1>0, <1>2, <1>5, <2>1 DEF AdminInv
  <1>6. ASSUME NEW a \in Accounts, NEW r, account' = [account EXCEPT ![a] = r],
               Exists(a) => r # None /\ r.disabled = account[a].disabled,
               ~Exists(a) => r # None
        PROVE  Acting \subseteq Acting'
    BY <1>0, <1>6 DEF Acting, Exists
  <1>7. ASSUME NEW a \in Accounts, NEW w \in Passwords, Authenticate(h, a, w) \/ AcceptInvite(h, a, w)
        PROVE  AdminInv'
    <2>1. PICK at \in {"withdraw", "issue"} :
              request' = [request EXCEPT ![h] = [Idle EXCEPT !.at = at, !.by = a]]
      BY <1>7 DEF Authenticate, AcceptInvite
    <2> DEFINE r == [Idle EXCEPT !.at = at, !.by = a]
    <2>2. r.at = at
      BY DEF Idle
    <2>3. request' = [request EXCEPT ![h] = r]
      BY <2>1
    <2>4. NewRow(w) # None
      <3>1. NewRow(w) \in Row
        BY <1>7 DEF NewRow, Row
      <3> QED
        BY <3>1, AccountsAssumption
    <2>5. Acting \subseteq Acting'
      BY <1>2, <1>6, <1>7, <2>4 DEF Authenticate, AcceptInvite, mainVars
    <2> HIDE DEF r
    <2> QED
      BY <1>1, <2>2, <2>3, <2>5
  <1>8. ASSUME NEW t \in Tokens, Resolve(h, t) PROVE AdminInv'
    <2>1. PICK at \in {"slide", "in"} : request' = [request EXCEPT ![h] =
              [Idle EXCEPT !.at = at, !.by = session[t].of, !.token = t]]
      BY <1>8 DEF Resolve
    <2> DEFINE r == [Idle EXCEPT !.at = at, !.by = session[t].of, !.token = t]
    <2>2. r.at = at /\ UNCHANGED account
      BY <1>8 DEF Idle, Resolve, mainVars
    <2>3. request' = [request EXCEPT ![h] = r]
      BY <2>1
    <2> HIDE DEF r
    <2> QED
      BY <1>1, <1>2, <2>2, <2>3
  <1>9. ASSUME NEW w \in Passwords, CheckPassword(h, w) PROVE AdminInv'
    <2> DEFINE r == [request[h] EXCEPT !.at = "change", !.next = w]
    <2>1. r.at = "change" /\ UNCHANGED account
      BY <1>0, <1>9 DEF Request, CheckPassword, mainVars
    <2>2. request' = [request EXCEPT ![h] = r]
      BY <1>9 DEF CheckPassword
    <2> HIDE DEF r
    <2> QED
      BY <1>1, <1>2, <2>1, <2>2
  <1>10. ASSUME NEW a \in Accounts, NEW op \in {"disable", "delete", "schedule"}, Ask(h, op, a)
         PROVE  AdminInv'
    <2> DEFINE r == [request[h] EXCEPT !.at = "look", !.op = op, !.target = a]
    <2>1. r.at = "look" /\ UNCHANGED account
      BY <1>0, <1>10 DEF Request, Ask, mainVars
    <2>2. request' = [request EXCEPT ![h] = r]
      BY <1>10 DEF Ask
    <2> HIDE DEF r
    <2> QED
      BY <1>1, <1>2, <2>1, <2>2
  <1>11. ASSUME NEW a \in Accounts, Enable(h, a) PROVE AdminInv'
    <2>1. Acting \subseteq Acting'
      BY <1>0, <1>11, AccountsAssumption DEF Enable, Acting, Exists, Row
    <2> QED
      BY <1>3, <1>11, <2>1 DEF Enable
  <1>12. ASSUME Use(h) \/ Revoke(h) \/ (\E t \in Tokens : Issue(h, t))
                \/ \E S \in SUBSET Tokens : SignOut(h, S)
         PROVE  AdminInv'
    BY <1>2, <1>3, <1>12 DEF Use, Revoke, Issue, SignOut, mainVars
  <1>13. ASSUME CancelDeletion(h) \/ TouchSession(h) PROVE AdminInv'
    <2>1. Acting \subseteq Acting'
      BY <1>0, <1>2, <1>13, AccountsAssumption DEF CancelDeletion, TouchSession, Acting, Exists, Row
    <2> QED
      BY <1>4, <1>13, <2>1 DEF CancelDeletion, TouchSession
  <1>14. ASSUME ChangePassword(h) PROVE AdminInv'
    <2> DEFINE a == request[h].by
               r == [account[a] EXCEPT !.password = request[h].next]
    <2>1. ASSUME Exists(a) PROVE Acting \subseteq Acting'
      <3>1. account[a] \in Row /\ account' = [account EXCEPT ![a] = r] /\ a \in Accounts
        BY <1>0, <1>14, <2>1 DEF ChangePassword, Exists
      <3>2. request[h].next \in Passwords
        BY <1>14 DEF ChangePassword, Ends, AccountsInv, RequestsOK
      <3>3. r \in Row /\ r.disabled = account[a].disabled
        BY <3>1, <3>2 DEF Row
      <3>4. r # None
        BY <3>3, AccountsAssumption
      <3> HIDE DEF r
      <3> QED
        BY <1>6, <2>1, <3>1, <3>3, <3>4
    <2>2. ASSUME ~Exists(a) PROVE Acting \subseteq Acting'
      BY <1>2, <1>14, <2>2 DEF ChangePassword
    <2>3. Acting \subseteq Acting'
      BY <2>1, <2>2
    <2> QED
      BY <1>3, <1>14, <2>3 DEF ChangePassword
  <1>15. ASSUME Look(h) PROVE AdminInv'
    <2> DEFINE a == request[h].target
    <2>1. UNCHANGED account
      BY <1>15 DEF Look, mainVars
    <2>2. CASE Ends(h, "look") \/ Goes(h, "look", "count")
      BY <1>2, <1>3, <1>4, <2>1, <2>2
    <2>3. CASE (a \notin Admins \/ account[a].disabled) /\ Goes(h, "look", "apply")
      <3>1. a \notin Acting
        BY <2>3 DEF Acting
      <3>2. Founders \cap Admins # {} => Acting \ {a} # {}
        BY <3>1 DEF AdminInv
      <3> QED
        BY <1>5, <2>1, <2>3, <3>2
    <2> QED
      BY <1>15, <2>2, <2>3 DEF Look
  <1>16. ASSUME Count(h) PROVE AdminInv'
    <2>1. UNCHANGED account
      BY <1>16 DEF Count, mainVars
    <2>2. CASE CountAdmins <= 1
      BY <1>2, <1>3, <1>16, <2>1, <2>2 DEF Count
    <2>3. CASE ~(CountAdmins <= 1)
      BY <1>5, <1>16, <2>1, <2>3, CountIsOfTwo DEF Count
    <2> QED
      BY <2>2, <2>3
  <1>17. ASSUME Disable(h) \/ Delete(h) PROVE AdminInv'
    <2> DEFINE a == request[h].target
    <2>1. request[h].at = "apply" /\ request' = [request EXCEPT ![h] = Idle]
      BY <1>17 DEF Disable, Delete, Ends
    <2>2. \A g \in Handlers : request'[g].at # "apply"
      BY <1>0, <2>1 DEF OneRemoval
    <2>3. Acting \ {a} \subseteq Acting'
      BY <1>0, <1>17, AccountsAssumption DEF Disable, Delete, DeletePrincipal, Acting, Exists
    <2> QED
      BY <1>0, <2>1, <2>2, <2>3 DEF AdminInv
  <1>18. ASSUME ReadScheduled(h) PROVE AdminInv'
    BY <1>2, <1>3, <1>4, <1>18 DEF ReadScheduled, mainVars
  <1>19. ASSUME ScheduleDeletion(h) PROVE AdminInv'
    <2>1. Acting \subseteq Acting'
      BY <1>0, <1>2, <1>19, AccountsAssumption DEF ScheduleDeletion, Acting, Exists, Row
    <2> QED
      BY <1>3, <1>4, <1>19, <2>1 DEF ScheduleDeletion
  <1>20. ASSUME GivesUp(h) PROVE AdminInv'
    BY <1>0, <1>1, <1>2, <1>20 DEF GivesUp, mainVars
  <1> HIDE DEF AdminInv
  <1> QED
    BY <1>7, <1>8, <1>9, <1>10, <1>11, <1>12, <1>13, <1>14, <1>15, <1>16, <1>17, <1>18, <1>19, <1>20
    DEF Handler

LEMMA StepAdmins ==
  AccountsInv /\ AdminInv /\ OneRemoval /\ NoneAsked /\ [Next]_vars => AdminInv'
  <1> SUFFICES ASSUME AccountsInv, AdminInv, OneRemoval, NoneAsked, [Next]_vars PROVE AdminInv'
    OBVIOUS
  <1>0. /\ account \in [Accounts -> Row \cup {None}] /\ erasing \cap Admins = {}
        /\ UNCHANGED account => Acting' = Acting
    BY DEF AccountsInv, TableInv, TablesOK, AdminInv, Acting, Exists
  <1>1. ASSUME UNCHANGED request, erasing' \cap Admins = {}, Acting \subseteq Acting' PROVE AdminInv'
    BY <1>1, ActingKept
  <1>2. ASSUME NEW h \in Handlers, Handler(h) PROVE AdminInv'
    BY <1>2, AdminsThroughRequests
  <1>3. ASSUME NEW a \in Accounts, FallsDue(a) \/ \E w \in Passwords : UseRecoveryLink(a, w) PROVE AdminInv'
    <2>1. Acting \subseteq Acting'
      BY <1>0, <1>3, AccountsAssumption DEF FallsDue, UseRecoveryLink, Acting, Exists, Row
    <2> QED
      BY <1>0, <1>1, <1>3, <2>1 DEF FallsDue, UseRecoveryLink
  <1>4. ASSUME SweepSessions \/ (\E t \in Tokens : Lapse(t)) \/ UNCHANGED vars PROVE AdminInv'
    BY <1>0, <1>1, <1>4 DEF SweepSessions, Lapse, vars
  <1>5. ASSUME NEW a \in Accounts, Erase(a) PROVE AdminInv'
    <2>1. a \notin Admins
      BY <1>0, <1>5 DEF Erase
    <2>2. Acting \subseteq Acting'
      BY <1>0, <1>5, <2>1 DEF Erase, DeletePrincipal, Acting, Exists
    <2>3. erasing' \cap Admins = {}
      BY <1>0, <1>5 DEF Erase
    <2> QED
      BY <1>1, <1>5, <2>2, <2>3 DEF Erase
  <1>6. ASSUME ListDue PROVE AdminInv'
    <2>1. erasing' \cap Admins = {}
      BY <1>6 DEF ListDue, NoneAsked
    <2> QED
      BY <1>0, <1>1, <1>6, <2>1 DEF ListDue, mainVars
  <1>7. ASSUME ErasingFails PROVE AdminInv'
    BY <1>0, <1>1, <1>7 DEF ErasingFails, mainVars
  <1>8. ASSUME Restart PROVE AdminInv'
    <2>1. /\ \A h \in Handlers : request'[h].at # "apply"
          /\ erasing' \cap Admins = {} /\ Acting' = Acting
      BY <1>0, <1>8 DEF Restart, Idle, mainVars
    <2> QED
      BY <2>1, ActingKept
  <1> HIDE DEF AdminInv
  <1> QED
    BY <1>2, <1>3, <1>4, <1>5, <1>6, <1>7, <1>8 DEF Next, Scheduler

\* "The one account that cannot go" (api/deletion.go:62) does not, where no
\* administrator has asked to be erased, which the count of refuseIfLastAdmin
\* does not see, and no two requests are between that count and their write.
THEOREM AnAdminStaysOneByOne == Spec /\ [](OneRemoval /\ NoneAsked) => []AnAdminStays
  <1>1. Init => AdminInv
    <2> SUFFICES ASSUME Init PROVE AdminInv
      OBVIOUS
    <2>1. Founders \cap Admins \subseteq Acting
      <3> SUFFICES ASSUME NEW a \in Founders, a \in Admins PROVE a \in Acting
        OBVIOUS
      <3>1. a \in Accounts /\ Exists(a) /\ account[a] \in {NewRow(w) : w \in Passwords} \cup {None}
        BY AccountsAssumption DEF Init
      <3> QED
        BY <3>1 DEF Acting, Exists, NewRow
    <2> QED
      BY <2>1 DEF Init, AdminInv, Idle
  <1>2. AdminInv /\ NoneAsked => AnAdminStays
    BY DEF AdminInv, Acting, NoneAsked, AnAdminStays
  <1> QED
    BY <1>1, <1>2, StepAdmins, AccountsInvariant, PTL DEF Spec

(***************************************************************************)
(* Erasure.  Every step of it is one of Accounts', or changes nothing      *)
(* there, and what holds of the accounts holds of it too.                  *)
(***************************************************************************)
LEMMA StepIsAccounts == [ErasureNext]_erasureVars => [Next]_vars
  <1> SUFFICES ASSUME [ErasureNext]_erasureVars PROVE [Next]_vars
    OBVIOUS
  <1>1. ASSUME NEW h \in Handlers, Handler(h) PROVE Next
    BY <1>1 DEF Next
  <1>2. ASSUME NEW h \in Handlers, Requests(h) PROVE [Next]_vars
    <2>1. CASE Read(h) \/ AddEdition(h) \/ \E p \in Pages : CreatePage(h, p) \/ DeletePage(h, p)
      <3>1. Use(h)
        BY <2>1 DEF Read, AddEdition, CreatePage, DeletePage
      <3> QED
        BY <1>1, <3>1 DEF Handler
    <2>2. CASE Fails(h)
      BY <1>1, <2>2 DEF Fails, Handler
    <2>3. CASE InMain(h)
      BY <1>1, <2>3 DEF InMain
    <2>4. CASE \E x \in Ids : BeginCompose(h, x)
      BY <2>4 DEF BeginCompose
    <2> QED
      BY <1>2, <2>1, <2>2, <2>3, <2>4 DEF Requests
  <1>3. ASSUME Sweeping PROVE [Next]_vars
    <2>1. ASSUME BeginSweep \/ PurgeFails \/ \E a \in Accounts : EraseAccount(a) PROVE Scheduler
      BY <2>1 DEF BeginSweep, PurgeFails, EraseAccount, Scheduler
    <2>2. ASSUME \/ PurgeDerived \/ (\E a \in Accounts : PagesOf(a)) \/ LivePageIDs \/ ListPrincipals
                 \/ DeleteEditionsExcept \/ SweepFails \/ SaveEdition \/ DueFails
                 \/ \E x \in Ids : DuePage(x)
          PROVE  UNCHANGED vars
      BY <2>2 DEF PurgeDerived, Deletes, PagesOf, LivePageIDs, ListPrincipals, DeleteEditionsExcept,
                  SweepFails, SaveEdition, DueFails, DuePage
    <2> QED
      BY <1>3, <2>1, <2>2 DEF Sweeping, Next
  <1>4. ASSUME Stops \/ Elsewhere PROVE Next
    BY <1>4 DEF Stops, Elsewhere, Next
  <1>5. ASSUME UNCHANGED erasureVars PROVE UNCHANGED vars
    BY <1>5 DEF erasureVars
  <1> QED
    BY <1>2, <1>3, <1>4, <1>5 DEF ErasureNext, Noted, ErasureStep

\* What is true of the accounts stays true with the pages and derived.db there:
\* the detailed specification implements the one of main.db alone.
THEOREM ErasureImplementsAccounts == ErasureSpec => Spec
  <1>1. ErasureInit => Init
    BY DEF ErasureInit
  <1> QED
    BY <1>1, StepIsAccounts, PTL DEF ErasureSpec, Spec

(***************************************************************************)
(* Three kinds of step: a request's, which leaves the sweep alone; the     *)
(* scheduler's, which leaves the pages alone; and the process stopping.    *)
(***************************************************************************)
LEMMA RequestStep ==
  ASSUME NEW h \in Handlers, Requests(h)
  PROVE  UNCHANGED <<sweep, erasing>> /\ derived \subseteq derived'
  <1>1. Use(h) \/ GivesUp(h) => UNCHANGED erasing
    BY DEF Use, GivesUp
  <1>2. InMain(h) => UNCHANGED <<sweep, erasing, derived>>
    BY HandlerKeepsErasing DEF InMain, derivedVars
  <1>3. \A x \in Ids : BeginCompose(h, x) => UNCHANGED <<sweep, erasing, derived>>
    BY DEF BeginCompose, vars
  <1>4. \A p \in Pages : CreatePage(h, p) \/ DeletePage(h, p) => UNCHANGED <<sweep, erasing, derived>>
    BY <1>1 DEF CreatePage, DeletePage, derivedVars
  <1> QED
    BY <1>1, <1>2, <1>3, <1>4 DEF Requests, Read, AddEdition, Fails

LEMMA ElsewhereStep == Elsewhere => UNCHANGED <<page, derived, composing, sweep, erasing>>
  BY DEF Elsewhere, derivedVars, FallsDue, UseRecoveryLink, SweepSessions, Lapse

LEMMA SweepingStep == Sweeping => UNCHANGED <<page, composing>>
  <1>1. \A rows, then : Deletes(rows, then) => UNCHANGED <<page, composing>>
    BY DEF Deletes
  <1> QED
    BY <1>1 DEF Sweeping, BeginSweep, PurgeDerived, PurgeFails, PagesOf, EraseAccount, LivePageIDs,
                ListPrincipals, DeleteEditionsExcept, SweepFails, SaveEdition, DueFails, DuePage

(***************************************************************************)
(* What becomes of an account and of a page.                               *)
(***************************************************************************)
\* An account that goes is gone for good.
LEMMA AccountGoes ==
  ASSUME AccountsInv, [Next]_vars, NEW a \in Accounts
  PROVE  (a \in gone => a \in gone') /\ (Exists(a) => (Exists(a) \/ a \in gone)')
  <1> DEFINE Going == (a \in gone => a \in gone') /\ (Exists(a) => (Exists(a) \/ a \in gone)')
  <1>0. TablesOK
    BY DEF AccountsInv, TableInv
  <1>1. ASSUME UNCHANGED <<account, gone>> PROVE Going
    BY <1>1 DEF Exists
  <1>2. ASSUME NEW b \in Accounts, NEW r, account' = [account EXCEPT ![b] = r], UNCHANGED gone, r # None
        PROVE  Going
    BY <1>0, <1>2 DEF Exists, TablesOK
  <1>3. ASSUME NEW b \in Accounts, Leaves(b) PROVE Going
    BY <1>0, <1>3 DEF Leaves, DeletePrincipal, Exists, TablesOK
  <1>4. \A r \in Row : r # None
    BY AccountsAssumption
  <1> HIDE DEF Going
  <1>5. Going
    <2>1. CASE TableStep
      BY <1>1, <1>2, <1>3, <1>4, <2>1 DEF TableStep, OnlyEnds, Keeps, Renews, Joins, Opens, Slides
    <2>2. CASE UNCHANGED mainVars
      BY <1>1, <2>2 DEF mainVars
    <2> QED
      BY <2>1, <2>2, StepTables
  <1> QED
    BY <1>5 DEF Going

\* A page of somebody's is of an account there is, or was.
PagesOK ==
    /\ page \in [Pages -> Accounts \cup {New, Gone}]
    /\ \A p \in Pages : page[p] \in Accounts => Exists(page[p]) \/ page[p] \in gone

\* A page is made once, for somebody who is there, and does not change hands.
LEMMA PageStep ==
  ASSUME AccountsInv, [ErasureNext]_erasureVars, NEW p \in Pages,
         page \in [Pages -> Accounts \cup {New, Gone}]
  PROVE  /\ page' \in [Pages -> Accounts \cup {New, Gone}]
         /\ \/ page'[p] = page[p]
            \/ page'[p] = Gone /\ UNCHANGED <<account, gone>>
            \/ page[p] = New /\ Exists(page'[p]) /\ UNCHANGED <<account, gone>>
  <1> DEFINE Once == /\ page' \in [Pages -> Accounts \cup {New, Gone}]
                     /\ \/ page'[p] = page[p]
                        \/ page'[p] = Gone /\ UNCHANGED <<account, gone>>
                        \/ page[p] = New /\ Exists(page'[p]) /\ UNCHANGED <<account, gone>>
  <1>1. ASSUME UNCHANGED page PROVE Once
    BY <1>1
  <1>2. ASSUME NEW h \in Handlers, NEW q \in Pages, CreatePage(h, q) PROVE Once
    BY <1>2 DEF CreatePage, Use, mainVars, Exists
  <1>3. ASSUME NEW h \in Handlers, NEW q \in Pages, DeletePage(h, q) PROVE Once
    BY <1>3 DEF DeletePage, Use, mainVars
  <1>4. ASSUME NEW h \in Handlers, Read(h) \/ AddEdition(h) \/ Fails(h) \/ InMain(h)
                                   \/ \E x \in Ids : BeginCompose(h, x)
        PROVE  UNCHANGED page
    BY <1>4 DEF Read, AddEdition, Fails, InMain, BeginCompose
  <1>5. ASSUME Stops \/ Elsewhere \/ Sweeping \/ UNCHANGED erasureVars PROVE UNCHANGED page
    BY <1>5, SweepingStep, ElsewhereStep DEF Stops, erasureVars
  <1> HIDE DEF Once
  <1>6. Once
    BY <1>1, <1>2, <1>3, <1>4, <1>5 DEF ErasureNext, Noted, ErasureStep, Requests
  <1> QED
    BY <1>6 DEF Once

LEMMA StepPages == AccountsInv /\ PagesOK /\ [ErasureNext]_erasureVars => PagesOK'
  <1> SUFFICES ASSUME AccountsInv, PagesOK, [ErasureNext]_erasureVars PROVE PagesOK'
    OBVIOUS
  <1>1. [Next]_vars
    BY StepIsAccounts
  <1>2. page' \in [Pages -> Accounts \cup {New, Gone}]
    <2>1. CASE Pages = {}
      <3>1. UNCHANGED page
        BY <2>1, SweepingStep, ElsewhereStep
           DEF ErasureNext, Noted, ErasureStep, Requests, Read, AddEdition, Fails, InMain, BeginCompose,
               Stops, erasureVars
      <3> QED
        BY <3>1 DEF PagesOK
    <2>2. CASE Pages # {}
      BY <2>2, PageStep DEF PagesOK
    <2> QED
      BY <2>1, <2>2
  <1>3. ASSUME NEW p \in Pages, page'[p] \in Accounts PROVE (Exists(page[p]) \/ page[p] \in gone)'
    <2>1. CASE page'[p] = page[p]
      BY <1>1, <1>3, <2>1, AccountGoes DEF PagesOK, Exists
    <2>2. CASE page'[p] # page[p]
      BY <1>3, <2>2, PageStep, ErasureAssumption DEF PagesOK, Exists
    <2> QED
      BY <2>1, <2>2
  <1> QED
    BY <1>2, <1>3 DEF PagesOK

(***************************************************************************)
(* Who is there.  A page that has gone, or whose owner has, is dead: it    *)
(* will not be there again.                                                *)
(***************************************************************************)
Dead(x) == Owner(x) = Gone \/ Owner(x) \in gone

LEMMA Owners ==
  ASSUME PagesOK, NEW x \in Ids
  PROVE  /\ Owner(x) \in Accounts \cup {New, Gone}
         /\ There(x) => Owner(x) \in Accounts /\ Owner(Owner(x)) = Owner(x) /\ There(Owner(x))
         /\ Owner(x) \in Accounts \ {x} => There(x) \/ Dead(x)
  BY ErasureAssumption DEF PagesOK, Ids, Owner, There, Dead, Exists

\* A step makes a page there, or leaves it with its owner, or kills it.
LEMMA Fates ==
  ASSUME AccountsInv, PagesOK, [ErasureNext]_erasureVars, NEW x \in Ids
  PROVE  /\ Dead(x) => Dead(x)' /\ ~There(x)'
         /\ There(x) /\ There(x)' => Owner(x)' = Owner(x)
         /\ There(x) => There(x)' \/ Dead(x)'
         /\ \A y : Owner(x) \in {y, Gone} /\ Owner(x) \in Accounts \cup {Gone} => Owner(x)' \in {y, Gone}
  <1> USE ErasureAssumption
  <1>1. [Next]_vars /\ AccountsInv' /\ PagesOK'
    BY StepIsAccounts, StepInv, StepPages
  <1>2. \A a \in Accounts : (a \in gone => a \in gone') /\ (Exists(a) => (Exists(a) \/ a \in gone)')
    BY <1>1, AccountGoes
  <1>3. \A a \in gone' : ~Exists(a)'
    BY <1>1 DEF AccountsInv, TableInv, TablesOK
  <1>4. gone \subseteq Accounts /\ ~(Gone \in Accounts) /\ ~(New \in Accounts)
    BY DEF AccountsInv, TableInv, TablesOK
  <1>5. CASE x \in Accounts
    BY <1>2, <1>3, <1>4, <1>5 DEF Dead, There, Owner, Exists
  <1>6. CASE x \notin Accounts
    <2>1. x \in Pages /\ Owner(x) = page[x] /\ Owner(x)' = page'[x]
      BY <1>6 DEF Ids, Owner
    <2>2. page[x] \in Accounts \cup {New, Gone} /\ page'[x] \in Accounts \cup {New, Gone}
      BY <1>1, <2>1 DEF PagesOK
    <2>3. CASE page'[x] = page[x]
      BY <1>2, <1>3, <1>4, <2>1, <2>2, <2>3 DEF Dead, There, Exists
    <2>4. CASE page'[x] = Gone
      BY <1>4, <2>1, <2>4 DEF Dead, There, Exists
    <2>5. CASE page[x] = New /\ Exists(page'[x])
      BY <1>4, <2>1, <2>2, <2>5, AccountsAssumption DEF Dead, There, Exists
    <2> QED
      BY <2>1, <2>3, <2>4, <2>5, PageStep DEF PagesOK
  <1> QED
    BY <1>5, <1>6

(***************************************************************************)
(* What the scheduler holds.                                               *)
(***************************************************************************)
Phases == {"idle", "erase", "delete", "purge", "list", "people", "collect", "compose"}

Tables == PageTables \cup {"read"}

SweepOK ==
    /\ sweep \in [at : Phases, target : Ids \cup {None}, pages : SUBSET Ids,
                  people : SUBSET Accounts, left : Seq(Tables)]
    /\ sweep.at \in {"purge", "collect"} <=> sweep.left # <<>>
    /\ sweep.at \in {"delete", "purge"} => sweep.target \in Accounts
    /\ sweep.at = "compose" => sweep.target \in Ids
    /\ sweep.at \notin {"erase", "delete", "purge"} => erasing = {}

\* The phase changes, with what goes with it, and no list is kept.
Turns(at) == sweep' = [at |-> at, target |-> None, pages |-> {}, people |-> {}, left |-> <<>>]

\* The sweep goes on with the next table.
Continues ==
    /\ sweep.at \in {"purge", "collect"} /\ Len(sweep.left) > 1
    /\ sweep' = [sweep EXCEPT !.left = Tail(@)]

LEMMA Kept ==
  ASSUME SweepOK, Continues
  PROVE  /\ sweep'.at = sweep.at /\ sweep'.target = sweep.target /\ sweep'.pages = sweep.pages
         /\ sweep'.people = sweep.people
         /\ sweep' \in [at : Phases, target : Ids \cup {None}, pages : SUBSET Ids,
                        people : SUBSET Accounts, left : Seq(Tables)]
         /\ sweep'.left # <<>>
  <1>1. sweep.left \in Seq(Tables) /\ Len(sweep.left) > 1
    BY DEF SweepOK, Continues
  <1>2. Tail(sweep.left) \in Seq(Tables) /\ Tail(sweep.left) # <<>>
    <2>1. Tail(sweep.left) \in Seq(Tables)
      BY <1>1
    <2>2. Len(Tail(sweep.left)) = Len(sweep.left) - 1 /\ Len(sweep.left) \in Nat
      BY <1>1
    <2>3. Len(<<>>) = 0
      OBVIOUS
    <2> QED
      BY <1>1, <2>1, <2>2, <2>3
  <1> QED
    BY <1>2 DEF SweepOK, Continues

\* What the scheduler's steps do to what it holds.
LEMMA SweepMoves ==
  ASSUME AccountsInv, SweepOK, [ErasureNext]_erasureVars
  PROVE  \/ UNCHANGED sweep /\ erasing' = erasing
         \/ Continues /\ erasing' = erasing
         \/ Turns("idle") /\ erasing' = {}
         \/ Turns("list") /\ erasing' = {}
         \/ Turns("erase") /\ sweep.at = "purge"
         \/ BeginSweep
         \/ \E a \in Accounts : PagesOf(a) \/ EraseAccount(a)
         \/ LivePageIDs /\ erasing' = {} /\ UNCHANGED vars
         \/ ListPrincipals /\ erasing' = {} /\ UNCHANGED vars
         \/ \E x \in Ids : DuePage(x) /\ erasing' = {}
  <1> DEFINE Move == \/ UNCHANGED sweep /\ erasing' = erasing
                     \/ Continues /\ erasing' = erasing
                     \/ Turns("idle") /\ erasing' = {}
                     \/ Turns("list") /\ erasing' = {}
                     \/ Turns("erase") /\ sweep.at = "purge"
                     \/ BeginSweep
                     \/ \E a \in Accounts : PagesOf(a) \/ EraseAccount(a)
                     \/ LivePageIDs /\ erasing' = {} /\ UNCHANGED vars
                     \/ ListPrincipals /\ erasing' = {} /\ UNCHANGED vars
                     \/ \E x \in Ids : DuePage(x) /\ erasing' = {}
  <1>0. /\ sweep.at \in {"idle", "list", "people", "collect", "compose"} => erasing = {}
        /\ sweep.at \in {"purge", "collect"} => Len(sweep.left) \in Nat
        /\ sweep' = NoSweep => Turns("idle")
        /\ \A at \in Phases : sweep' = [NoSweep EXCEPT !.at = at] => Turns(at)
    <2>1. sweep' = NoSweep => Turns("idle")
      BY DEF NoSweep, Turns
    <2>2. ASSUME NEW at \in Phases, sweep' = [NoSweep EXCEPT !.at = at] PROVE Turns(at)
      BY <2>2 DEF NoSweep, Turns
    <2>3. sweep.left \in Seq(Tables)
      BY DEF SweepOK
    <2> QED
      BY <2>1, <2>2, <2>3 DEF SweepOK
  <1>1. ASSUME NEW h \in Handlers, Requests(h) PROVE Move
    BY <1>1, RequestStep
  <1>2. ASSUME Elsewhere \/ UNCHANGED erasureVars PROVE Move
    BY <1>2, ElsewhereStep DEF erasureVars, vars
  <1>3. ASSUME Stops PROVE Move
    BY <1>0, <1>3 DEF Stops, Restart
  <1>4. ASSUME PurgeDerived \/ DeleteEditionsExcept PROVE Move
    BY <1>0, <1>4 DEF PurgeDerived, DeleteEditionsExcept, Deletes, Continues, Phases, vars
  <1>5. ASSUME PurgeFails PROVE Move
    BY <1>0, <1>5 DEF PurgeFails, ErasingFails, Phases
  <1>6. ASSUME SweepFails \/ SaveEdition \/ DueFails PROVE Move
    BY <1>0, <1>6 DEF SweepFails, SaveEdition, DueFails, vars
  <1>7. ASSUME LivePageIDs PROVE erasing = {} /\ UNCHANGED vars /\ erasing' = {}
    BY <1>0, <1>7 DEF LivePageIDs, Erased, vars
  <1>8. ASSUME ListPrincipals PROVE erasing = {} /\ UNCHANGED vars /\ erasing' = {}
    BY <1>0, <1>8 DEF ListPrincipals, vars
  <1>9. ASSUME NEW x \in Ids, DuePage(x) PROVE erasing' = {}
    BY <1>0, <1>9 DEF DuePage, vars
  <1>10. ASSUME Sweeping PROVE Move
    <2> HIDE DEF Move
    <2>1. ASSUME \/ BeginSweep \/ (\E a \in Accounts : PagesOf(a) \/ EraseAccount(a))
                 \/ LivePageIDs \/ ListPrincipals \/ \E x \in Ids : DuePage(x)
          PROVE  Move
      BY <1>7, <1>8, <1>9, <2>1 DEF Move
    <2> QED
      BY <1>4, <1>5, <1>6, <1>10, <2>1 DEF Sweeping
  <1> HIDE DEF Move
  <1>11. Move
    BY <1>1, <1>2, <1>3, <1>10 DEF ErasureNext, Noted, ErasureStep
  <1> QED
    BY <1>11 DEF Move

LEMMA NoLists ==
  ASSUME NEW at, Turns(at)
  PROVE  /\ sweep'.at = at /\ sweep'.left = <<>> /\ sweep'.target = None
         /\ sweep'.pages = {} /\ sweep'.people = {}
         /\ at \in Phases => sweep' \in [at : Phases, target : Ids \cup {None}, pages : SUBSET Ids,
                                         people : SUBSET Accounts, left : Seq(Tables)]
  <1>1. <<>> \in Seq(Tables)
    OBVIOUS
  <1> QED
    BY <1>1 DEF Turns

LEMMA StepSweep == AccountsInv /\ SweepOK /\ [ErasureNext]_erasureVars => SweepOK'
  <1> SUFFICES ASSUME AccountsInv, SweepOK, [ErasureNext]_erasureVars PROVE SweepOK'
    OBVIOUS
  <1>1. CASE UNCHANGED sweep /\ erasing' = erasing
    BY <1>1 DEF SweepOK
  <1>2. CASE Continues /\ erasing' = erasing
    BY <1>2, Kept DEF SweepOK, Continues
  <1>3. ASSUME NEW at \in {"idle", "list"}, Turns(at), erasing' = {} PROVE SweepOK'
    BY <1>3, NoLists DEF SweepOK, Phases
  <1>4. CASE Turns("erase")
    BY <1>4, NoLists DEF SweepOK, Phases
  <1>5. CASE BeginSweep
    BY <1>5 DEF BeginSweep, SweepOK, Phases
  <1>6. ASSUME NEW a \in Accounts, PagesOf(a) PROVE SweepOK'
    <2> DEFINE P == {x \in Ids : There(x) /\ Owner(x) = a}
    <2>1. P \in SUBSET Ids /\ sweep.left = <<>> /\ a \in Ids
      BY <1>6 DEF PagesOf, SweepOK, Ids
    <2>2. sweep' = [sweep EXCEPT !.at = "delete", !.target = a, !.pages = P]
      BY <1>6 DEF PagesOf
    <2> HIDE DEF P
    <2> QED
      BY <2>1, <2>2 DEF SweepOK, Phases
  <1>7. ASSUME NEW a \in Accounts, EraseAccount(a) PROVE SweepOK'
    <2>1. PICK L \in Seq(Tables) : L # <<>> /\ sweep' = [sweep EXCEPT !.at = "purge", !.left = L]
      <3>1. TableOrder \in Seq(Tables) /\ TableOrder # <<>> /\ <<"read">> \in Seq(Tables) /\ <<"read">> # <<>>
        BY DEF TableOrder, Tables, PageTables
      <3> QED
        BY <1>7, <3>1 DEF EraseAccount
    <2>2. sweep.target \in Accounts
      BY <1>7 DEF EraseAccount
    <2> QED
      BY <2>1, <2>2 DEF SweepOK, Phases
  <1>8. CASE LivePageIDs /\ erasing' = {}
    <2> DEFINE P == {x \in Ids : There(x)}
    <2>1. P \in SUBSET Ids /\ <<>> \in Seq(Tables)
      OBVIOUS
    <2>2. sweep' = [NoSweep EXCEPT !.at = "people", !.pages = P]
      BY <1>8 DEF LivePageIDs
    <2> HIDE DEF P
    <2>3. sweep' = [at |-> "people", target |-> None, pages |-> P, people |-> {}, left |-> <<>>]
      BY <2>2 DEF NoSweep
    <2> QED
      BY <1>8, <2>1, <2>3 DEF SweepOK, Phases
  <1>9. CASE ListPrincipals /\ erasing' = {}
    <2> DEFINE A == {a \in Accounts : Exists(a)}
    <2>1. A \in SUBSET Accounts /\ TableOrder \in Seq(Tables) /\ TableOrder # <<>>
      BY DEF TableOrder, Tables, PageTables
    <2>2. sweep' = [sweep EXCEPT !.at = "collect", !.left = TableOrder, !.people = A]
      BY <1>9 DEF ListPrincipals
    <2> HIDE DEF A
    <2> QED
      BY <1>9, <2>1, <2>2 DEF SweepOK, Phases
  <1>10. ASSUME NEW x \in Ids, DuePage(x), erasing' = {} PROVE SweepOK'
    BY <1>10 DEF DuePage, SweepOK, Phases
  <1> HIDE DEF SweepOK
  <1> QED
    BY <1>1, <1>2, <1>3, <1>4, <1>5, <1>6, <1>7, <1>8, <1>9, <1>10, SweepMoves

(***************************************************************************)
(* The rows of derived.db, and what is to be written there.                *)
(***************************************************************************)
RowsOK ==
    /\ derived \subseteq Kinds /\ unlisted \subseteq Ids
    /\ composing \in [Handlers -> Ids \cup {None}]

LEMMA ComposedKinds == \A x \in Ids : Composed(x) \subseteq Kinds
  BY DEF Composed, Kinds

LEMMA StepRows == AccountsInv /\ SweepOK /\ RowsOK /\ [ErasureNext]_erasureVars => RowsOK'
  <1> SUFFICES ASSUME AccountsInv, SweepOK, RowsOK, [ErasureNext]_erasureVars PROVE RowsOK'
    OBVIOUS
  <1> DEFINE Rows == derived' \subseteq Kinds /\ composing' \in [Handlers -> Ids \cup {None}]
  <1>0. derived \subseteq Kinds /\ composing \in [Handlers -> Ids \cup {None}]
    BY DEF RowsOK
  <1>1. unlisted' \subseteq Ids
    BY DEF RowsOK, ErasureNext, Noted, erasureVars
  <1>2. ASSUME derived' \subseteq derived, UNCHANGED composing PROVE Rows
    BY <1>0, <1>2
  <1>3. ASSUME NEW h \in Handlers, Requests(h) PROVE Rows
    <2>1. CASE Read(h)
      <3>1. request[h].by \in Accounts
        BY <2>1 DEF Read, Use, Ends, AccountsInv, RequestsOK
      <3> QED
        BY <1>0, <2>1, <3>1 DEF Read, Kinds
    <2>2. CASE AddEdition(h)
      <3>1. composing[h] \in Ids
        BY <1>0, <2>2 DEF AddEdition
      <3> QED
        BY <1>0, <2>2, <3>1, ComposedKinds DEF AddEdition
    <2>3. CASE \E x \in Ids : BeginCompose(h, x)
      BY <1>0, <2>3 DEF BeginCompose
    <2>4. CASE Fails(h)
      BY <1>0, <2>4 DEF Fails
    <2>5. CASE InMain(h) \/ \E p \in Pages : CreatePage(h, p) \/ DeletePage(h, p)
      BY <1>0, <2>5 DEF InMain, CreatePage, DeletePage, derivedVars
    <2> QED
      BY <1>3, <2>1, <2>2, <2>3, <2>4, <2>5 DEF Requests
  <1>4. ASSUME Sweeping PROVE Rows
    <2>1. CASE SaveEdition
      <3>1. sweep.target \in Ids
        BY <2>1 DEF SaveEdition, SweepOK
      <3> QED
        BY <1>0, <2>1, <3>1, ComposedKinds DEF SaveEdition
    <2>2. ASSUME PurgeDerived \/ DeleteEditionsExcept PROVE derived' \subseteq derived
      BY <2>2 DEF PurgeDerived, DeleteEditionsExcept, Deletes
    <2>3. ASSUME \/ BeginSweep \/ PurgeFails \/ (\E a \in Accounts : PagesOf(a) \/ EraseAccount(a))
                 \/ LivePageIDs \/ ListPrincipals \/ SweepFails \/ DueFails
                 \/ \E x \in Ids : DuePage(x)
          PROVE  derived' \subseteq derived
      BY <2>3 DEF BeginSweep, PurgeFails, PagesOf, EraseAccount, LivePageIDs, ListPrincipals, SweepFails,
                  DueFails, DuePage
    <2> QED
      BY <1>2, <1>4, <2>1, <2>2, <2>3, SweepingStep DEF Sweeping
  <1>5. ASSUME Stops \/ Elsewhere \/ UNCHANGED erasureVars PROVE Rows
    BY <1>0, <1>5, ElsewhereStep DEF Stops, erasureVars
  <1> HIDE DEF Rows
  <1>6. Rows
    BY <1>3, <1>4, <1>5 DEF ErasureNext, Noted, ErasureStep
  <1> QED
    BY <1>1, <1>6 DEF Rows, RowsOK

(***************************************************************************)
(* What the sweep has listed.                                              *)
(***************************************************************************)
\* Whoever is to be erased is there, or has gone meanwhile.
ErasingOK == \A a \in erasing : Exists(a) \/ a \in gone

\* The pages whose rows are about to go are those of one account, and when it
\* comes to the rows it has gone.
TargetOK ==
    /\ sweep.at \in {"delete", "purge"} => \A x \in sweep.pages : Owner(x) \in {sweep.target, Gone}
    /\ sweep.at = "purge" => sweep.target \in gone

\* While the sweep has its lists: a page on the first one is there or dead, with
\* its owner's main page if it is there, and is nothing that has come since;
\* whatever is there is on the list, or has come since.
ListsOK ==
    sweep.at \in {"people", "collect"} =>
        /\ \A x \in sweep.pages :
               /\ There(x) \/ Dead(x)
               /\ There(x) => Owner(x) \in sweep.pages
               /\ x \notin unlisted
        /\ \A x \in Ids : There(x) => x \in sweep.pages \cup unlisted
        /\ sweep.at = "collect" => \A a \in Accounts : Exists(a) => a \in sweep.people \cup unlisted

ErasureInv ==
    AccountsInv /\ PagesOK /\ SweepOK /\ RowsOK /\ ErasingOK /\ TargetOK /\ ListsOK

LEMMA StepErasingOK == ErasureInv /\ [ErasureNext]_erasureVars => ErasingOK'
  <1> SUFFICES ASSUME ErasureInv, [ErasureNext]_erasureVars, NEW a \in erasing'
               PROVE  (Exists(a) \/ a \in gone)'
    BY DEF ErasingOK
  <1>1. [Next]_vars /\ AccountsInv
    BY StepIsAccounts DEF ErasureInv
  <1>2. a \in Accounts /\ (Exists(a) \/ a \in gone)
    <2>1. CASE a \in erasing
      BY <2>1 DEF ErasureInv, AccountsInv, ErasingOK
    <2>2. CASE a \notin erasing
      <3>1. ASSUME NEW h \in Handlers, Handler(h) PROVE UNCHANGED erasing
        BY <3>1, HandlerKeepsErasing
      <3>2. ListDue
        BY <1>1, <2>2, <3>1 DEF Next, Scheduler, ErasingFails, Erase, FallsDue, UseRecoveryLink, Lapse,
                                SweepSessions, Restart, vars
      <3> QED
        BY <3>2 DEF ListDue
    <2> QED
      BY <2>1, <2>2
  <1> QED
    BY <1>1, <1>2, AccountGoes

\* The lists kept as they are, whatever comes and goes.
LEMMA SameLists ==
  ASSUME ErasureInv, [ErasureNext]_erasureVars, sweep'.at = sweep.at, sweep'.target = sweep.target,
         sweep'.pages = sweep.pages, sweep'.people = sweep.people
  PROVE  TargetOK' /\ ListsOK'
  <1>0. AccountsInv /\ PagesOK /\ SweepOK /\ [Next]_vars /\ sweep.pages \subseteq Ids
    BY StepIsAccounts DEF ErasureInv, SweepOK
  <1>1. TargetOK'
    <2>1. ASSUME sweep.at \in {"delete", "purge"}, NEW x \in sweep.pages
          PROVE  Owner(x)' \in {sweep.target, Gone}
      <3>1. x \in Ids /\ Owner(x) \in {sweep.target, Gone} /\ sweep.target \in Accounts
        BY <1>0, <2>1 DEF ErasureInv, TargetOK, SweepOK
      <3> QED
        BY <1>0, <3>1, Fates
    <2>2. sweep.at = "purge" => sweep.target \in gone'
      BY <1>0, AccountGoes DEF ErasureInv, TargetOK, SweepOK
    <2> QED
      BY <2>1, <2>2 DEF TargetOK
  <1>2. ASSUME sweep.at \in {"people", "collect"} PROVE ListsOK'
    <2>0. unlisted' = unlisted \cup {x \in Ids : ~There(x) /\ There(x)'} \/ UNCHANGED erasureVars
      BY <1>2 DEF ErasureNext, Noted
    <2>1. /\ \A x \in Ids : ~There(x) /\ There(x)' => x \in unlisted'
          /\ \A x \in unlisted' \ unlisted : x \in Ids /\ ~There(x) /\ There(x)'
          /\ unlisted \subseteq unlisted'
      BY <2>0 DEF erasureVars, vars, There, Owner, Exists
    <2>2. ASSUME NEW x \in sweep.pages
          PROVE  /\ There(x)' \/ Dead(x)'
                 /\ There(x)' => Owner(x)' \in sweep.pages
                 /\ x \notin unlisted'
      <3>1. x \in Ids /\ (There(x) \/ Dead(x)) /\ (There(x) => Owner(x) \in sweep.pages) /\ x \notin unlisted
        BY <1>0, <1>2 DEF ErasureInv, ListsOK
      <3>2. /\ Dead(x) => Dead(x)' /\ ~There(x)'
            /\ There(x) /\ There(x)' => Owner(x)' = Owner(x)
            /\ There(x) => There(x)' \/ Dead(x)'
        BY <1>0, <3>1, Fates
      <3> QED
        BY <2>1, <3>1, <3>2
    <2>3. ASSUME NEW x \in Ids, There(x)' PROVE x \in sweep.pages \cup unlisted'
      BY <1>2, <2>1, <2>3 DEF ErasureInv, ListsOK
    <2>4. ASSUME sweep.at = "collect", NEW a \in Accounts, Exists(a)' PROVE a \in sweep.people \cup unlisted'
      <3>1. a \in Ids /\ (There(a) <=> Exists(a)) /\ (There(a)' <=> Exists(a)')
        BY DEF Ids, There, Owner
      <3> QED
        BY <2>1, <2>4, <3>1 DEF ErasureInv, ListsOK
    <2> QED
      BY <2>2, <2>3, <2>4 DEF ListsOK
  <1> QED
    BY <1>1, <1>2 DEF ListsOK

LEMMA StepLists == ErasureInv /\ [ErasureNext]_erasureVars => TargetOK' /\ ListsOK'
  <1> SUFFICES ASSUME ErasureInv, [ErasureNext]_erasureVars PROVE TargetOK' /\ ListsOK'
    OBVIOUS
  <1> DEFINE Own == TargetOK' /\ ListsOK'
  <1>0. AccountsInv /\ PagesOK /\ SweepOK
    BY DEF ErasureInv
  <1>1. ASSUME UNCHANGED sweep PROVE Own
    BY <1>1, SameLists
  <1>2. ASSUME Continues PROVE Own
    BY <1>0, <1>2, Kept, SameLists
  <1>3. ASSUME sweep'.at \notin {"delete", "purge", "people", "collect"} PROVE Own
    BY <1>3 DEF TargetOK, ListsOK
  <1>4. ASSUME NEW at \in {"idle", "list", "erase"}, Turns(at) PROVE Own
    BY <1>3, <1>4, NoLists
  <1>5. ASSUME BeginSweep \/ \E x \in Ids : DuePage(x) PROVE Own
    <2>1. sweep'.at \in {"erase", "compose"}
      BY <1>0, <1>5 DEF BeginSweep, DuePage, SweepOK
    <2> QED
      BY <1>3, <2>1
  <1>6. ASSUME NEW a \in Accounts, PagesOf(a) PROVE Own
    <2> DEFINE P == {x \in Ids : There(x) /\ Owner(x) = a}
    <2>1. sweep' = [sweep EXCEPT !.at = "delete", !.target = a, !.pages = P] /\ UNCHANGED <<vars, page>>
      BY <1>6 DEF PagesOf
    <2>2. \A x \in P : Owner(x)' = a
      BY <2>1 DEF Owner
    <2> HIDE DEF P
    <2>3. sweep'.at = "delete" /\ sweep'.target = a /\ sweep'.pages = P
      BY <1>0, <2>1 DEF SweepOK
    <2> QED
      BY <2>2, <2>3 DEF TargetOK, ListsOK
  <1>7. ASSUME NEW a \in Accounts, EraseAccount(a) PROVE Own
    <2>1. /\ sweep'.at = "purge" /\ sweep'.target = sweep.target /\ sweep'.pages = sweep.pages
          /\ sweep.at = "delete" /\ sweep.target = a /\ UNCHANGED page
      BY <1>0, <1>7 DEF EraseAccount, SweepOK
    <2>2. a \in erasing /\ (Exists(a) => a \in gone')
      BY <1>7 DEF EraseAccount, Erase, DeletePrincipal
    <2>3. ~Exists(a) => a \in gone'
      <3>1. [Next]_vars
        BY StepIsAccounts
      <3> QED
        BY <1>0, <2>2, <3>1, AccountGoes DEF ErasureInv, ErasingOK
    <2>4. \A x \in sweep.pages : Owner(x)' \in {a, Gone}
      BY <2>1 DEF ErasureInv, TargetOK, Owner
    <2> QED
      BY <2>1, <2>2, <2>3, <2>4 DEF TargetOK, ListsOK
  <1>8. ASSUME LivePageIDs, UNCHANGED vars PROVE Own
    <2> DEFINE P == {x \in Ids : There(x)}
    <2>1. sweep' = [NoSweep EXCEPT !.at = "people", !.pages = P] /\ UNCHANGED <<vars, page>>
      BY <1>8 DEF LivePageIDs
    <2>2. sweep.at \in {"list", "erase"}
      BY <1>8 DEF LivePageIDs, Erased
    <2>3. \A x \in Ids : There(x)' = There(x) /\ Owner(x)' = Owner(x)
      BY <2>1 DEF There, Owner, Exists, vars
    <2>4. \A x \in P : There(x)' /\ Owner(x)' \in P
      BY <1>0, <2>3, Owners DEF Ids
    <2>5. \A x \in Ids : There(x)' => x \in P
      BY <2>3
    <2> HIDE DEF P
    <2>6. sweep'.at = "people" /\ sweep'.pages = P
      BY <2>1 DEF NoSweep
    <2>7. unlisted' = {}
      <3>1. sweep' # sweep
        BY <2>2, <2>6
      <3> QED
        BY <2>2, <3>1 DEF ErasureNext, Noted, erasureVars
    <2> QED
      BY <2>4, <2>5, <2>6, <2>7 DEF TargetOK, ListsOK
  <1>9. ASSUME ListPrincipals, UNCHANGED vars PROVE Own
    <2> DEFINE A == {a \in Accounts : Exists(a)}
    <2>1. /\ sweep' = [sweep EXCEPT !.at = "collect", !.left = TableOrder, !.people = A]
          /\ UNCHANGED <<vars, page>> /\ sweep.at = "people"
      BY <1>9 DEF ListPrincipals
    <2>2. \A x \in Ids : There(x)' = There(x) /\ Owner(x)' = Owner(x) /\ Dead(x)' = Dead(x)
      BY <2>1 DEF There, Owner, Exists, Dead, vars
    <2>3. \A a \in Accounts : Exists(a)' => a \in A
      BY <2>1 DEF Exists, vars
    <2> HIDE DEF A
    <2>4. sweep'.at = "collect" /\ sweep'.pages = sweep.pages /\ sweep'.people = A
      BY <1>0, <2>1 DEF SweepOK
    <2>5. unlisted' = unlisted
      <3>1. sweep' # sweep
        BY <2>1, <2>4
      <3>2. unlisted' = unlisted \cup {x \in Ids : ~There(x) /\ There(x)'}
        BY <2>1, <2>4, <3>1 DEF ErasureNext, Noted, erasureVars
      <3> QED
        BY <2>2, <3>2
    <2>6. sweep.pages \subseteq Ids
      BY <1>0 DEF SweepOK
    <2> QED
      BY <2>1, <2>2, <2>3, <2>4, <2>5, <2>6 DEF ErasureInv, TargetOK, ListsOK
  <1> HIDE DEF Own
  <1>10. Own
    BY <1>0, <1>1, <1>2, <1>4, <1>5, <1>6, <1>7, <1>8, <1>9, SweepMoves
  <1> QED
    BY <1>10 DEF Own

THEOREM ErasureInvariant == ErasureSpec => []ErasureInv
  <1>1. ErasureInit => ErasureInv
    <2> SUFFICES ASSUME ErasureInit PROVE ErasureInv
      OBVIOUS
    <2>1. AccountsInv
      BY InitInv DEF ErasureInit
    <2>2. PagesOK
      BY ErasureAssumption DEF ErasureInit, PagesOK
    <2>3. <<>> \in Seq(Tables)
      OBVIOUS
    <2>4. SweepOK
      BY <2>3 DEF ErasureInit, Init, SweepOK, NoSweep, Phases
    <2>5. RowsOK /\ ErasingOK /\ TargetOK /\ ListsOK
      BY DEF ErasureInit, Init, RowsOK, ErasingOK, TargetOK, ListsOK, NoSweep
    <2> QED
      BY <2>1, <2>2, <2>4, <2>5 DEF ErasureInv
  <1>2. ErasureInv /\ [ErasureNext]_erasureVars => ErasureInv'
    BY StepIsAccounts, StepInv, StepPages, StepSweep, StepRows, StepErasingOK, StepLists DEF ErasureInv
  <1> QED
    BY <1>1, <1>2, PTL DEF ErasureSpec

\* The pages, the rows of derived.db and what the scheduler holds: the statement
\* it comes to always has its table, its account and its lists.
THEOREM ErasureTypes == ErasureSpec => []ErasureTypeOK
  <1>1. ErasureInv => ErasureTypeOK
    BY DEF ErasureInv, PagesOK, SweepOK, RowsOK, Phases, Tables, ErasureTypeOK
  <1> QED
    BY <1>1, ErasureInvariant, PTL

\* What each table loses in the collection: nothing whose page or reader is
\* there and was there when the pages were listed.
LEMMA UnlistedGoes ==
  ASSUME ErasureInv, sweep.at = "collect", NEW t \in Tables, NEW x \in Unlisted(t),
         <<t, x>> \in Kinds, There(x)
  PROVE  x \in unlisted
  <1>0. /\ \A y \in Ids : There(y) => y \in sweep.pages \cup unlisted
        /\ \A a \in Accounts : Exists(a) => a \in sweep.people \cup unlisted
        /\ \A y \in sweep.pages : (There(y) => Owner(y) \in sweep.pages) /\ y \notin unlisted
    BY DEF ErasureInv, ListsOK
  <1>1. x \in Ids
    BY DEF Kinds, Ids
  <1>2. CASE x \notin sweep.pages
    BY <1>0, <1>1, <1>2
  <1>3. CASE x \in sweep.pages /\ sweep.people = {}
    <2>1. Owner(x) \in Accounts /\ Exists(Owner(x)) /\ Owner(x) \in sweep.pages
      BY <1>0, <1>3 DEF There, Exists
    <2> QED
      BY <1>0, <1>3, <2>1
  <1>4. CASE x \in sweep.pages /\ sweep.people # {}
    <2>1. t \notin PageTables /\ x \notin sweep.people
      BY <1>4 DEF Unlisted
    <2>2. x \in Accounts /\ Exists(x)
      BY <2>1 DEF Kinds, There, Owner
    <2> QED
      BY <1>0, <2>1, <2>2
  <1> QED
    BY <1>2, <1>3, <1>4

\* The erasing of an account comes to derived.db after it has gone, and to the
\* rows of its own pages only; the collection takes what is on neither of its
\* lists, and a page or an account that is there is on them, or has come to be
\* there since the first was read.
THEOREM HistoryLast == ErasureSpec => HistoryGoesLast
  <1> DEFINE GoesLast == \A r \in derived \ derived' : There(r[2])' => r[2] \in unlisted
  <1>1. ErasureInv /\ [ErasureNext]_erasureVars => GoesLast
    <2> SUFFICES ASSUME ErasureInv, [ErasureNext]_erasureVars,
                        NEW r \in derived, r \notin derived', There(r[2])'
                 PROVE  r[2] \in unlisted
      OBVIOUS
    <2>0. /\ r \in Kinds /\ r = <<r[1], r[2]>> /\ r[1] \in Tables /\ r[2] \in Ids
          /\ AccountsInv /\ PagesOK /\ SweepOK
      BY DEF ErasureInv, RowsOK, Kinds, Tables, Ids
    <2>1. PurgeDerived \/ DeleteEditionsExcept
      <3>1. ASSUME NEW h \in Handlers, Requests(h) PROVE FALSE
        BY <3>1, RequestStep
      <3>2. ASSUME Elsewhere \/ Stops \/ UNCHANGED erasureVars PROVE FALSE
        BY <3>2, ElsewhereStep DEF Stops, erasureVars
      <3>3. ASSUME \/ BeginSweep \/ PurgeFails \/ (\E a \in Accounts : PagesOf(a) \/ EraseAccount(a))
                   \/ LivePageIDs \/ ListPrincipals \/ SweepFails \/ SaveEdition \/ DueFails
                   \/ \E x \in Ids : DuePage(x)
            PROVE  FALSE
        BY <3>3 DEF BeginSweep, PurgeFails, PagesOf, EraseAccount, LivePageIDs, ListPrincipals, SweepFails,
                    SaveEdition, DueFails, DuePage
      <3> QED
        BY <3>1, <3>2, <3>3 DEF ErasureNext, Noted, ErasureStep, Sweeping
    <2>2. There(r[2]) /\ ~Dead(r[2])
      <3>1. UNCHANGED <<vars, page>>
        BY <2>1 DEF PurgeDerived, DeleteEditionsExcept, Deletes
      <3> QED
        BY <2>0, <3>1, Fates DEF There, Owner, Exists, vars
    <2>3. CASE PurgeDerived
      <3>1. r[2] \in sweep.pages \cup {sweep.target} /\ sweep.at = "purge"
        BY <2>0, <2>3 DEF PurgeDerived, Deletes
      <3>2. sweep.target \in gone /\ \A x \in sweep.pages : Owner(x) \in {sweep.target, Gone}
        BY <3>1 DEF ErasureInv, TargetOK
      <3>3. sweep.target \in Accounts
        BY <3>1, <2>0 DEF SweepOK
      <3> QED
        BY <2>2, <3>1, <3>2, <3>3 DEF Dead, Owner
    <2>4. CASE DeleteEditionsExcept
      <3>1. sweep.at = "collect" /\ r[1] = Head(sweep.left) /\ r[2] \in Unlisted(r[1])
        BY <2>0, <2>4 DEF DeleteEditionsExcept, Deletes
      <3> QED
        BY <2>0, <2>2, <3>1, UnlistedGoes
    <2> QED
      BY <2>1, <2>3, <2>4
  <1> QED
    BY <1>1, ErasureInvariant, PTL DEF ErasureSpec, HistoryGoesLast
=============================================================================
