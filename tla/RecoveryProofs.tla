--------------------------- MODULE RecoveryProofs ---------------------------
(***************************************************************************)
(* Recovery, for any accounts, inboxes, secrets and requests.  Most steps  *)
(* only let rows go and requests end; those that make a secret, read back  *)
(* where it is to go or bring it there are looked at one by one.           *)
(***************************************************************************)
EXTENDS Recovery, TLAPS

\* What a request goes on to write is there to be written.
RequestsOK ==
    \A h \in Handlers :
        /\ request[h].at = "read" => request[h].kind = "code"
        /\ request[h].at \in {"mint", "send", "undo"} => request[h].kind \in {"code", "link", "invite"}
        /\ request[h].at \in {"read", "mint"} => request[h].by \in Accounts
        /\ request[h].kind = "code" => request[h].by \in Accounts
        /\ request[h].at \in {"read", "send", "undo", "drop"} => request[h].secret \in Secrets

TypesInv == RecoveryTypeOK /\ RequestsOK

TablesOK ==
    /\ account \in [Accounts -> {"none", "on", "off", "gone"}]
    /\ onRecord \in [Accounts -> Addresses \cup {Null}]
    /\ pending \in [Accounts -> Attempt \cup {Null}]
    /\ link \in [Secrets -> RecoveryLink \cup {Null}] /\ invite \in [Secrets -> Invite \cup {Null}]
    /\ made \subseteq Secrets /\ reached \in [Addresses \cup {Null} -> SUBSET Secrets]

\* Everything there is of a secret is of one that has been made.
MadeOK ==
    /\ \A a \in Accounts : pending[a] # Null => pending[a].secret \in made
    /\ \A s \in Secrets : link[s] # Null \/ invite[s] # Null => s \in made
    /\ \A e \in Addresses \cup {Null} : reached[e] \subseteq made
    /\ \A h \in Handlers : request[h].secret \in made \cup {Null}

\* A code that still works and is on its way is its own account's, and where
\* it is going is where it has to be read; so is an invitation.
OnItsWay ==
    \A h \in Handlers :
        /\ request[h].at \in {"read", "send"} =>
              \A a \in Accounts : pending[a] # Null /\ pending[a].secret = request[h].secret =>
                  /\ request[h].at = "read" => request[h].by = a
                  /\ request[h].at = "send" => request[h].address \in {Null, pending[a].email}
        /\ request[h].at = "read" => invite[request[h].secret] = Null
        /\ request[h].at = "send" /\ invite[request[h].secret] # Null
              => request[h].address = invite[request[h].secret].email

SecretsInv == MadeOK /\ OnItsWay /\ ProofsGoHome

\* An address is on record for one account only.
OneHolder == \A a, b \in Accounts : onRecord[a] # Null /\ onRecord[a] = onRecord[b] => a = b

RecoveryInv == TypesInv /\ SecretsInv /\ OneHolder

(***************************************************************************)
(* Types.                                                                  *)
(***************************************************************************)
\* A request that waits on, ends or begins keeps the requests in order.
LEMMA RequestTypes ==
    ASSUME NEW h \in Handlers, NEW r \in Request, TypesInv,
           request' = [request EXCEPT ![h] = r],
           r.at = "read" => r.kind = "code",
           r.at \in {"mint", "send", "undo"} => r.kind \in {"code", "link", "invite"},
           r.at \in {"read", "mint"} => r.by \in Accounts,
           r.kind = "code" => r.by \in Accounts,
           r.at \in {"read", "send", "undo", "drop"} => r.secret \in Secrets
    PROVE  request' \in [Handlers -> Request] /\ RequestsOK'
  BY DEF TypesInv, RecoveryTypeOK, RequestsOK

LEMMA IdleTypes == Idle \in Request /\ Idle.at = "idle" /\ Idle.kind = "none" /\ Idle.secret = Null
  BY DEF Idle, Request

LEMMA EndsTypes ==
    ASSUME NEW h \in Handlers, NEW from, Ends(h, from), TypesInv
    PROVE  request' \in [Handlers -> Request] /\ RequestsOK'
  <1>1. request' = [request EXCEPT ![h] = Idle]
    BY DEF Ends
  <1> QED
    BY <1>1, IdleTypes, RequestTypes

LEMMA GoesTypes ==
    ASSUME NEW h \in Handlers, NEW from, NEW to \in {"undo", "drop"}, from \in {"send", "undo"},
           Goes(h, from, to), TypesInv
    PROVE  request' \in [Handlers -> Request] /\ RequestsOK'
  <1> DEFINE r == [request[h] EXCEPT !.at = to]
  <1>1. /\ request' = [request EXCEPT ![h] = r] /\ request[h] \in Request /\ request[h].at = from
        /\ r \in Request /\ r.at = to /\ r.kind = request[h].kind /\ r.by = request[h].by
        /\ r.secret = request[h].secret
    BY DEF Goes, TypesInv, RecoveryTypeOK, Request
  <1>2. /\ request[h].kind \in {"code", "link", "invite"} /\ request[h].secret \in Secrets
        /\ request[h].kind = "code" => request[h].by \in Accounts
    BY <1>1 DEF TypesInv, RequestsOK
  <1> HIDE DEF r
  <1> QED
    BY <1>1, <1>2, RequestTypes

\* A row of each table.
LEMMA TableRows ==
    ASSUME TypesInv
    PROVE  /\ \A a \in Accounts : pending[a] # Null =>
                  /\ pending[a].email \in Addresses /\ pending[a].secret \in Secrets
                  /\ pending[a].attempts \in 0..MaxAttempts /\ pending[a].live \in BOOLEAN
           /\ \A a \in Accounts : onRecord[a] \in Addresses \cup {Null}
           /\ \A s \in Secrets : link[s] # Null =>
                  link[s].of \in Accounts /\ link[s].state \in {"out", "used", "voided"}
           /\ \A s \in Secrets : invite[s] # Null => invite[s].email \in Addresses \cup {Null}
           /\ \A e \in Addresses \cup {Null} : reached[e] \subseteq Secrets
           /\ Null \notin Accounts /\ Null \notin Addresses /\ Null \notin Secrets
  BY RecoveryAssumption DEF TypesInv, RecoveryTypeOK, Attempt, RecoveryLink, Invite

LEMMA TakeOverTypes ==
    ASSUME NEW a \in Accounts, NEW e \in Addresses, TypesInv, TakeOver(a, e)
    PROVE  onRecord' \in [Accounts -> Addresses \cup {Null}]
  BY DEF TakeOver, TypesInv, RecoveryTypeOK

LEMMA ReachTypes ==
    ASSUME NEW e \in Addresses \cup {Null}, NEW s \in Secrets, TypesInv, Reach(e, s)
    PROVE  reached' \in [Addresses \cup {Null} -> SUBSET Secrets]
  BY DEF Reach, TypesInv, RecoveryTypeOK

\* What each action of a request does to the tables.
LEMMA HandlerTables == ASSUME NEW h \in Handlers, TypesInv, Handler(h) PROVE TablesOK'
<1> USE DEF TypesInv, RecoveryTypeOK, TablesOK, tables
<1>1. ASSUME NEW a \in Accounts, NEW e \in Addresses, NEW s \in Secrets, BeginRecovery(h, a, e, s)
      PROVE  TablesOK'
  <2> DEFINE p == [email |-> e, secret |-> s, attempts |-> 0, live |-> TRUE]
  <2>1. p \in Attempt
    BY RecoveryAssumption DEF Attempt
  <2>2. pending' = [pending EXCEPT ![a] = p] /\ made' = made \cup {s}
    BY <1>1 DEF BeginRecovery, Replace, Make
  <2> HIDE DEF p
  <2> QED
    BY <1>1, <2>1, <2>2 DEF BeginRecovery
<1>2. ASSUME PendingRecovery(h) PROVE TablesOK'
  BY <1>2 DEF PendingRecovery
<1>3. ASSUME Sent(h) \/ SendFails(h) PROVE TablesOK'
  <2>1. request[h].at = "send" /\ request[h].secret \in Secrets /\ request[h].address \in Addresses \cup {Null}
    BY <1>3 DEF Sent, SendFails, Ends, Goes, RequestsOK, Request
  <2>2. reached' \in [Addresses \cup {Null} -> SUBSET Secrets]
    BY <1>3, <2>1, ReachTypes DEF Sent, SendFails
  <2> QED
    BY <1>3, <2>2 DEF Sent, SendFails
<1>4. ASSUME Drop(h) \/ WithdrawInvite(h) PROVE TablesOK'
  BY <1>4 DEF Drop, WithdrawInvite
<1>5. ASSUME GivesUp(h) PROVE TablesOK'
  BY <1>5 DEF GivesUp
<1>6. ASSUME ClearPendingRecovery(h) PROVE TablesOK'
  BY <1>6 DEF ClearPendingRecovery
<1>7. ASSUME VoidRecoveryLink(h) PROVE TablesOK'
  BY <1>7 DEF VoidRecoveryLink, RecoveryLink
<1>8. ASSUME NEW e \in Addresses, RequestRecovery(h, e) PROVE TablesOK'
  BY <1>8 DEF RequestRecovery
<1>9. ASSUME NEW e \in Addresses, NEW s \in Secrets, CreateInvite(h, e, s) PROVE TablesOK'
  BY <1>9 DEF CreateInvite, NewInvite, Invite, Make
<1>10. ASSUME NEW s \in Secrets, CreateRecoveryLink(h, s) PROVE TablesOK'
  <2>1. request[h].at = "mint" /\ request[h].by \in Accounts
    BY <1>10 DEF CreateRecoveryLink, Ends, RequestsOK
  <2>2. Outstanding(request[h].by) \in RecoveryLink
    BY <2>1 DEF Outstanding, RecoveryLink
  <2> HIDE DEF Outstanding
  <2> QED
    BY <1>10, <2>2 DEF CreateRecoveryLink, Make
<1>11. ASSUME NEW s \in Secrets, DeleteInvite(h, s) PROVE TablesOK'
  BY <1>11 DEF DeleteInvite
<1> QED
  BY <1>1, <1>2, <1>3, <1>4, <1>5, <1>6, <1>7, <1>8, <1>9, <1>10, <1>11 DEF Handler

\* And to the requests.
LEMMA HandlerRequests ==
    ASSUME NEW h \in Handlers, TypesInv, Handler(h)
    PROVE  request' \in [Handlers -> Request] /\ RequestsOK'
<1> DEFINE Done == request' \in [Handlers -> Request] /\ RequestsOK'
<1>0. request[h] \in Request
  BY DEF TypesInv, RecoveryTypeOK
<1>1. ASSUME NEW a \in Accounts, NEW e \in Addresses, NEW s \in Secrets, BeginRecovery(h, a, e, s)
      PROVE  Done
  <2> DEFINE r == [at |-> "read", kind |-> "code", by |-> a, address |-> Null, secret |-> s]
  <2>1. r \in Request /\ r.at = "read" /\ r.kind = "code" /\ r.by = a /\ r.secret = s
    BY DEF Request
  <2>2. request' = [request EXCEPT ![h] = r]
    BY <1>1 DEF BeginRecovery
  <2> HIDE DEF r
  <2> QED
    BY <2>1, <2>2, RequestTypes
<1>2. ASSUME PendingRecovery(h) PROVE Done
  <2> DEFINE p == pending[request[h].by]
             e == IF p # Null /\ p.live THEN p.email ELSE Null
             r == [request[h] EXCEPT !.at = "send", !.address = e]
  <2>1. request[h].at = "read" /\ request[h].by \in Accounts /\ request[h].kind = "code"
        /\ request[h].secret \in Secrets
    BY <1>2 DEF PendingRecovery, TypesInv, RequestsOK
  <2>2. e \in Addresses \cup {Null}
    BY <2>1, TableRows
  <2> HIDE DEF e
  <2>3. /\ r \in Request /\ r.at = "send" /\ r.by \in Accounts /\ r.kind = "code"
        /\ r.secret \in Secrets
    BY <1>0, <2>1, <2>2 DEF Request
  <2>4. request' = [request EXCEPT ![h] = r]
    BY <1>2 DEF PendingRecovery, e, TypesInv, RecoveryTypeOK
  <2> HIDE DEF r
  <2> QED
    BY <2>3, <2>4, RequestTypes
<1>3. ASSUME SendFails(h) PROVE Done
  BY <1>3, GoesTypes DEF SendFails
<1>4. ASSUME WithdrawInvite(h) PROVE Done
  BY <1>4, GoesTypes, EndsTypes DEF WithdrawInvite
<1>5. ASSUME Sent(h) \/ Drop(h) \/ ClearPendingRecovery(h) \/ VoidRecoveryLink(h) PROVE Done
  BY <1>5, EndsTypes DEF Sent, Drop, ClearPendingRecovery, VoidRecoveryLink
<1>6. ASSUME GivesUp(h) PROVE Done
  BY <1>6, IdleTypes, RequestTypes DEF GivesUp
<1>7. ASSUME NEW e \in Addresses, RequestRecovery(h, e) PROVE Done
  <2>1. CASE UNCHANGED request
    BY <2>1 DEF TypesInv, RecoveryTypeOK, RequestsOK
  <2>2. ASSUME NEW a \in Accounts,
               request' = [request EXCEPT ![h] = [at |-> "mint", kind |-> "link", by |-> a,
                                                  address |-> e, secret |-> Null]]
        PROVE  Done
    <3> DEFINE r == [at |-> "mint", kind |-> "link", by |-> a, address |-> e, secret |-> Null]
    <3>1. r \in Request /\ r.at = "mint" /\ r.kind = "link" /\ r.by = a
      BY DEF Request
    <3>2. request' = [request EXCEPT ![h] = r]
      BY <2>2
    <3> HIDE DEF r
    <3> QED
      BY <3>1, <3>2, RequestTypes
  <2> QED
    BY <1>7, <2>1, <2>2 DEF RequestRecovery
<1>8. ASSUME NEW e \in Addresses, NEW s \in Secrets, CreateInvite(h, e, s) PROVE Done
  <2> DEFINE r == [at |-> "send", kind |-> "invite", by |-> Null, address |-> e, secret |-> s]
  <2>1. r \in Request /\ r.at = "send" /\ r.kind = "invite" /\ r.secret = s
    BY DEF Request
  <2>2. request' = [request EXCEPT ![h] = r]
    BY <1>8 DEF CreateInvite
  <2> HIDE DEF r
  <2> QED
    BY <2>1, <2>2, RequestTypes
<1>9. ASSUME NEW s \in Secrets, CreateRecoveryLink(h, s) PROVE Done
  <2>1. CASE Ends(h, "mint")
    BY <2>1, EndsTypes
  <2>2. CASE request' = [request EXCEPT ![h].at = "send", ![h].secret = s]
    <3> DEFINE r == [request[h] EXCEPT !.at = "send", !.secret = s]
    <3>1. request[h].at = "mint" /\ request[h].by \in Accounts
      BY <1>9 DEF CreateRecoveryLink, Ends, TypesInv, RequestsOK
    <3>2. /\ r \in Request /\ r.at = "send" /\ r.secret = s /\ r.kind = request[h].kind
          /\ r.by \in Accounts
      BY <1>0, <3>1 DEF Request
    <3>3. request' = [request EXCEPT ![h] = r]
      BY <2>2 DEF TypesInv, RecoveryTypeOK
    <3>4. request[h].kind \in {"code", "link", "invite"}
      BY <3>1 DEF TypesInv, RequestsOK
    <3> HIDE DEF r
    <3> QED
      BY <3>2, <3>3, <3>4, RequestTypes
  <2> QED
    BY <1>9, <2>1, <2>2 DEF CreateRecoveryLink
<1>10. ASSUME NEW s \in Secrets, DeleteInvite(h, s) PROVE Done
  <2> DEFINE r == [Idle EXCEPT !.at = "drop", !.kind = "invite", !.secret = s]
  <2>1. r \in Request /\ r.at = "drop" /\ r.kind = "invite" /\ r.secret = s
    BY DEF Idle, Request
  <2>2. request' = [request EXCEPT ![h] = r]
    BY <1>10 DEF DeleteInvite
  <2> HIDE DEF r
  <2> QED
    BY <2>1, <2>2, RequestTypes
<1> HIDE DEF Done
<1>11. Done
  BY <1>1, <1>2, <1>3, <1>4, <1>5, <1>6, <1>7, <1>8, <1>9, <1>10 DEF Handler
<1> QED
  BY <1>11 DEF Done

\* The steps that no request of several statements takes.
AtOnce ==
    \/ \E a \in Accounts : \/ \E s \in Secrets \cup {Null} : ConfirmRecovery(a, s)
                           \/ \E s \in Secrets : HandLink(a, s) \/ AcceptInvite(s, a)
                           \/ ClearRecovery(a) \/ SetDisabled(a) \/ DeletePrincipal(a) \/ LapseAttempt(a)
    \/ \E s \in Secrets : HandInvite(s) \/ UseRecoveryLink(s) \/ LapseLink(s) \/ LapseInvite(s)

LEMMA AtOnceTypes == ASSUME TypesInv, AtOnce PROVE TablesOK' /\ UNCHANGED request
<1> USE DEF TypesInv, RecoveryTypeOK, TablesOK
<1>1. ASSUME NEW a \in Accounts, NEW s \in Secrets \cup {Null}, ConfirmRecovery(a, s) PROVE TablesOK'
  <2> DEFINE p == pending[a]
  <2>1. /\ p \in Attempt /\ p.email \in Addresses
        /\ UNCHANGED <<account, link, invite, made, reached>>
    BY <1>1 DEF ConfirmRecovery, Attempt
  <2>2. CASE pending' = [pending EXCEPT ![a] = Null] /\ UNCHANGED onRecord
    BY <2>1, <2>2
  <2>3. CASE /\ pending' = [pending EXCEPT ![a].attempts = @ + 1] /\ UNCHANGED onRecord
             /\ p.attempts < MaxAttempts
    <3>1. [p EXCEPT !.attempts = @ + 1] \in Attempt
      BY <2>1, <2>3, RecoveryAssumption DEF Attempt
    <3>2. pending' = [pending EXCEPT ![a] = [p EXCEPT !.attempts = @ + 1]]
      BY <2>3
    <3> QED
      BY <2>1, <2>3, <3>1, <3>2
  <2>4. CASE pending' = [pending EXCEPT ![a] = Null] /\ TakeOver(a, p.email)
    BY <2>1, <2>4, TakeOverTypes
  <2> QED
    BY <1>1, <2>2, <2>3, <2>4 DEF ConfirmRecovery
<1>2. ASSUME NEW a \in Accounts, NEW s \in Secrets, HandLink(a, s) PROVE TablesOK'
  <2>1. Outstanding(a) \in RecoveryLink
    BY DEF Outstanding, RecoveryLink
  <2>2. reached' \in [Addresses \cup {Null} -> SUBSET Secrets]
    BY <1>2, ReachTypes DEF HandLink
  <2> QED
    BY <1>2, <2>1, <2>2 DEF HandLink, Make
<1>3. ASSUME NEW a \in Accounts, NEW s \in Secrets, AcceptInvite(s, a) PROVE TablesOK'
  <2>1. invite[s].email # Null => invite[s].email \in Addresses
    BY <1>3, TableRows DEF AcceptInvite
  <2>2. onRecord' \in [Accounts -> Addresses \cup {Null}]
    BY <1>3, <2>1, TakeOverTypes DEF AcceptInvite
  <2> QED
    BY <1>3, <2>2 DEF AcceptInvite, Invite
<1>4. ASSUME NEW a \in Accounts, ClearRecovery(a) \/ SetDisabled(a) \/ LapseAttempt(a) PROVE TablesOK'
  BY <1>4 DEF ClearRecovery, SetDisabled, LapseAttempt, Attempt
<1>5. ASSUME NEW a \in Accounts, DeletePrincipal(a) PROVE TablesOK'
  BY <1>5 DEF DeletePrincipal
<1>6. ASSUME NEW s \in Secrets, HandInvite(s) PROVE TablesOK'
  <2>1. reached' \in [Addresses \cup {Null} -> SUBSET Secrets]
    BY <1>6, ReachTypes DEF HandInvite
  <2> QED
    BY <1>6, <2>1 DEF HandInvite, NewInvite, Invite, Make
<1>7. ASSUME NEW s \in Secrets, UseRecoveryLink(s) PROVE TablesOK'
  <2>1. \A t \in Secrets : link[t] # Null =>
            [link[t] EXCEPT !.state = "used"] \in RecoveryLink /\ [link[t] EXCEPT !.state = "voided"] \in RecoveryLink
    BY DEF RecoveryLink
  <2>2. \A t \in Secrets : link'[t] \in RecoveryLink \cup {Null}
    BY <1>7, <2>1 DEF UseRecoveryLink
  <2> QED
    BY <1>7, <2>2 DEF UseRecoveryLink
<1>9. ASSUME NEW s \in Secrets, LapseLink(s) PROVE TablesOK'
  <2>1. [link[s] EXCEPT !.live = FALSE] \in RecoveryLink
    BY <1>9 DEF LapseLink, RecoveryLink
  <2> QED
    BY <1>9, <2>1 DEF LapseLink
<1>10. ASSUME NEW s \in Secrets, LapseInvite(s) PROVE TablesOK'
  <2>1. [invite[s] EXCEPT !.live = FALSE] \in Invite
    BY <1>10 DEF LapseInvite, Invite
  <2> QED
    BY <1>10, <2>1 DEF LapseInvite
<1>8. UNCHANGED request
  BY DEF AtOnce, ConfirmRecovery, HandLink, AcceptInvite, ClearRecovery, SetDisabled, DeletePrincipal,
         LapseAttempt, HandInvite, UseRecoveryLink, LapseLink, LapseInvite
<1> QED
  BY <1>1, <1>2, <1>3, <1>4, <1>5, <1>6, <1>7, <1>8, <1>9, <1>10 DEF AtOnce

LEMMA TypesStep == ASSUME TypesInv, RecoveryNext PROVE TypesInv'
<1>1. CASE \E h \in Handlers : Handler(h)
  BY <1>1, HandlerTables, HandlerRequests DEF TypesInv, RecoveryTypeOK, TablesOK
<1>2. CASE AtOnce
  BY <1>2, AtOnceTypes DEF TypesInv, RecoveryTypeOK, TablesOK, RequestsOK
<1> QED
  BY <1>1, <1>2 DEF RecoveryNext, AtOnce

(***************************************************************************)
(* Where secrets go.                                                       *)
(***************************************************************************)
\* Rows go or stay the proofs they were, requests end or go on to nothing
\* that is on its way, and nothing new has been read.
Lessens ==
    /\ UNCHANGED <<made, reached>>
    /\ \A a \in Accounts : pending'[a] # Null =>
           /\ pending[a] # Null
           /\ pending'[a].secret = pending[a].secret /\ pending'[a].email = pending[a].email
    /\ \A s \in Secrets : link'[s] # Null => link[s] # Null
    /\ \A s \in Secrets : invite'[s] # Null => invite[s] # Null /\ invite'[s].email = invite[s].email
    /\ \A h \in Handlers :
           \/ request'[h] = request[h]
           \/ request'[h].at \notin {"read", "send"} /\ request'[h].secret \in made \cup {Null}

LEMMA LessensKeeps == ASSUME TypesInv, SecretsInv, Lessens PROVE SecretsInv'
<1>1. MadeOK'
  BY DEF SecretsInv, MadeOK, Lessens
<1>2. OnItsWay'
  <2> SUFFICES ASSUME NEW h \in Handlers, request'[h].at \in {"read", "send"},
                      request[h].at = request'[h].at, request'[h] = request[h]
               PROVE  /\ \A a \in Accounts : pending'[a] # Null /\ pending'[a].secret = request[h].secret =>
                            /\ request[h].at = "read" => request[h].by = a
                            /\ request[h].at = "send" => request[h].address \in {Null, pending'[a].email}
                      /\ request[h].at = "read" => invite'[request[h].secret] = Null
                      /\ request[h].at = "send" /\ invite'[request[h].secret] # Null
                            => request[h].address = invite'[request[h].secret].email
    BY DEF OnItsWay, Lessens
  <2>1. request[h].secret \in Secrets
    BY DEF TypesInv, RequestsOK
  <2> QED
    BY <2>1 DEF SecretsInv, OnItsWay, Lessens
<1>3. ProofsGoHome'
  <2>1. \A e \in Addresses \cup {Null} : reached'[e] = reached[e] /\ reached[e] \subseteq Secrets
    BY DEF Lessens, TypesInv, RecoveryTypeOK
  <2>2. \A e \in Addresses \cup {Null}, a \in Accounts :
            pending'[a] # Null /\ pending'[a].secret \in reached[e] => e = pending'[a].email
    BY DEF Lessens, SecretsInv, ProofsGoHome
  <2>3. \A e \in Addresses \cup {Null}, s \in Secrets :
            s \in reached[e] /\ invite'[s] # Null /\ invite'[s].email # Null => e = invite'[s].email
    BY DEF Lessens, SecretsInv, ProofsGoHome
  <2> QED
    BY <2>1, <2>2, <2>3 DEF ProofsGoHome
<1> QED
  BY <1>1, <1>2, <1>3 DEF SecretsInv

\* A request that ends, or waits on for no mail.
LEMMA QuietRequest ==
    ASSUME NEW h \in Handlers, NEW r, TypesInv, r.at \notin {"read", "send"},
           r.secret \in made \cup {Null}, request' = [request EXCEPT ![h] = r]
    PROVE  \A g \in Handlers :
               \/ request'[g] = request[g]
               \/ request'[g].at \notin {"read", "send"} /\ request'[g].secret \in made \cup {Null}
  BY DEF TypesInv, RecoveryTypeOK

LEMMA QuietEnd ==
    ASSUME NEW h \in Handlers, NEW from, TypesInv, Ends(h, from)
    PROVE  \A g \in Handlers :
               \/ request'[g] = request[g]
               \/ request'[g].at \notin {"read", "send"} /\ request'[g].secret \in made \cup {Null}
  BY IdleTypes, QuietRequest DEF Ends

LEMMA HandlerSecrets == ASSUME NEW h \in Handlers, TypesInv, SecretsInv, Handler(h) PROVE SecretsInv'
<1> USE DEF tables
<1>0. /\ request[h] \in Request /\ request \in [Handlers -> Request]
      /\ request[h].secret \in made \cup {Null} /\ made \subseteq Secrets
  BY DEF TypesInv, RecoveryTypeOK, SecretsInv, MadeOK
<1>1. ASSUME NEW a \in Accounts, NEW e \in Addresses, NEW s \in Secrets, BeginRecovery(h, a, e, s)
      PROVE  SecretsInv'
  <2> DEFINE p == [email |-> e, secret |-> s, attempts |-> 0, live |-> TRUE]
             r == [at |-> "read", kind |-> "code", by |-> a, address |-> Null, secret |-> s]
  <2>0. p \in Attempt
    BY RecoveryAssumption DEF Attempt
  <2>1. p.email = e /\ p.secret = s /\ p # Null
    BY <2>0, RecoveryAssumption
  <2>2. r.at = "read" /\ r.by = a /\ r.secret = s
    OBVIOUS
  <2>3. /\ pending' = [pending EXCEPT ![a] = p] /\ request' = [request EXCEPT ![h] = r]
        /\ s \notin made /\ made' = made \cup {s} /\ UNCHANGED <<link, invite, reached>>
    BY <1>1 DEF BeginRecovery, Replace, Make
  <2>4. /\ \A b \in Accounts : pending'[b] = IF b = a THEN p ELSE pending[b]
        /\ \A g \in Handlers : request'[g] = IF g = h THEN r ELSE request[g]
    BY <1>0, <2>3 DEF TypesInv, RecoveryTypeOK
  <2> HIDE DEF p, r
  <2>5. MadeOK'
    BY <2>1, <2>2, <2>3, <2>4 DEF SecretsInv, MadeOK
  <2>6. \A g \in Handlers : request[g].secret # s \/ request[g].at \notin {"read", "send"}
    BY <2>3, TableRows DEF SecretsInv, MadeOK, TypesInv, RequestsOK
  <2>7. OnItsWay'
    BY <2>1, <2>2, <2>3, <2>4, <2>6 DEF SecretsInv, MadeOK, OnItsWay
  <2>8. ProofsGoHome'
    BY <2>1, <2>3, <2>4 DEF SecretsInv, MadeOK, ProofsGoHome
  <2> QED
    BY <2>5, <2>7, <2>8 DEF SecretsInv
<1>2. ASSUME PendingRecovery(h) PROVE SecretsInv'
  <2> DEFINE p == pending[request[h].by]
             e == IF p # Null /\ p.live THEN p.email ELSE Null
             r == [request[h] EXCEPT !.at = "send", !.address = e]
  <2>1. /\ request[h].at = "read" /\ request' = [request EXCEPT ![h] = r]
        /\ UNCHANGED <<pending, link, invite, made, reached>>
    BY <1>0, <1>2 DEF PendingRecovery
  <2>2. r.at = "send" /\ r.secret = request[h].secret /\ r.address = e
    BY <1>0 DEF Request
  <2>3. \A a \in Accounts : pending[a] # Null /\ pending[a].secret = request[h].secret
            => e \in {Null, pending[a].email}
    BY <2>1 DEF SecretsInv, OnItsWay
  <2>4. invite[request[h].secret] = Null
    BY <2>1 DEF SecretsInv, OnItsWay
  <2> HIDE DEF e, r
  <2>5. \A g \in Handlers : request'[g] = IF g = h THEN r ELSE request[g]
    BY <1>0, <2>1
  <2>6. MadeOK'
    BY <1>0, <2>1, <2>2, <2>5 DEF SecretsInv, MadeOK
  <2>7. OnItsWay'
    BY <2>1, <2>2, <2>3, <2>4, <2>5 DEF SecretsInv, OnItsWay
  <2>8. ProofsGoHome'
    BY <2>1 DEF SecretsInv, ProofsGoHome
  <2> QED
    BY <2>6, <2>7, <2>8 DEF SecretsInv
<1>3. ASSUME Sent(h) \/ SendFails(h) PROVE SecretsInv'
  <2> DEFINE e == request[h].address
             s == request[h].secret
  <2>1. request[h].at = "send" /\ s \in Secrets /\ s \in made /\ e \in Addresses \cup {Null}
    BY <1>0, <1>3, TableRows DEF Sent, SendFails, Ends, Goes, TypesInv, RequestsOK, Request
  <2>2. \A g \in Handlers :
            \/ request'[g] = request[g]
            \/ request'[g].at \notin {"read", "send"} /\ request'[g].secret \in made \cup {Null}
    <3>1. CASE Sent(h)
      BY <3>1, QuietEnd DEF Sent
    <3>2. CASE SendFails(h)
      <4> DEFINE r == [request[h] EXCEPT !.at = "undo"]
      <4>1. r.at = "undo" /\ r.secret = s /\ request' = [request EXCEPT ![h] = r]
        BY <1>0, <3>2 DEF SendFails, Goes, Request
      <4> HIDE DEF r
      <4> QED
        BY <1>0, <4>1, QuietRequest
    <3> QED
      BY <1>3, <3>1, <3>2
  <2>3. UNCHANGED <<pending, link, invite, made>>
    BY <1>3 DEF Sent, SendFails
  <2>4. CASE UNCHANGED reached
    BY <2>2, <2>3, <2>4, LessensKeeps DEF Lessens
  <2>5. CASE e # Null /\ Reach(e, s)
    <3>1. \A d \in Addresses \cup {Null} : reached'[d] = IF d = e THEN reached[d] \cup {s} ELSE reached[d]
      BY <2>1, <2>5 DEF Reach, TypesInv, RecoveryTypeOK
    <3>4. /\ \A a \in Accounts : pending[a] # Null /\ pending[a].secret = s => e = pending[a].email
          /\ invite[s] # Null => e = invite[s].email
      BY <2>1, <2>5 DEF SecretsInv, OnItsWay
    <3> HIDE DEF e, s
    <3>2. MadeOK'
      <4>1. \A d \in Addresses \cup {Null} : reached'[d] \subseteq made'
        BY <2>1, <2>3, <3>1 DEF SecretsInv, MadeOK
      <4> QED
        BY <2>2, <2>3, <4>1 DEF SecretsInv, MadeOK
    <3>3. OnItsWay'
      BY <2>2, <2>3 DEF SecretsInv, OnItsWay
    <3>5. ProofsGoHome'
      <4>0. \A d \in Addresses \cup {Null} : \A t \in reached'[d] : t \in reached[d] \/ (d = e /\ t = s)
        BY <3>1
      <4>1. \A d \in Addresses \cup {Null}, a \in Accounts :
                pending[a] # Null /\ pending[a].secret \in reached'[d] => d = pending[a].email
        BY <3>4, <4>0 DEF SecretsInv, ProofsGoHome
      <4>2. \A d \in Addresses \cup {Null} : \A t \in reached'[d] :
                invite[t] # Null /\ invite[t].email # Null => d = invite[t].email
        BY <3>4, <4>0 DEF SecretsInv, ProofsGoHome
      <4> QED
        BY <2>3, <4>1, <4>2 DEF ProofsGoHome
    <3> QED
      BY <3>2, <3>3, <3>5 DEF SecretsInv
  <2> QED
    BY <1>3, <2>4, <2>5 DEF Sent, SendFails
<1>4. ASSUME Drop(h) \/ ClearPendingRecovery(h) \/ VoidRecoveryLink(h) \/ GivesUp(h) PROVE SecretsInv'
  <2>1. \A g \in Handlers :
            \/ request'[g] = request[g]
            \/ request'[g].at \notin {"read", "send"} /\ request'[g].secret \in made \cup {Null}
    BY <1>4, QuietEnd, IdleTypes, QuietRequest
       DEF Drop, ClearPendingRecovery, VoidRecoveryLink, GivesUp
  <2>2. UNCHANGED <<made, reached>>
    BY <1>4 DEF Drop, ClearPendingRecovery, VoidRecoveryLink, GivesUp
  <2>3. \A a \in Accounts : pending'[a] # Null => pending'[a] = pending[a]
    BY <1>4 DEF Drop, ClearPendingRecovery, VoidRecoveryLink, GivesUp, TypesInv, RecoveryTypeOK
  <2>4. \A s \in Secrets : link'[s] # Null => link[s] # Null
    BY <1>4 DEF Drop, ClearPendingRecovery, VoidRecoveryLink, GivesUp, TypesInv, RecoveryTypeOK
  <2>5. \A s \in Secrets : invite'[s] # Null => invite'[s] = invite[s]
    BY <1>4 DEF Drop, ClearPendingRecovery, VoidRecoveryLink, GivesUp, TypesInv, RecoveryTypeOK
  <2> QED
    BY <2>1, <2>2, <2>3, <2>4, <2>5, LessensKeeps DEF Lessens
<1>5. ASSUME WithdrawInvite(h) PROVE SecretsInv'
  <2> DEFINE r == [request[h] EXCEPT !.at = "drop"]
  <2>1. r.at = "drop" /\ r.secret = request[h].secret
    BY <1>0 DEF Request
  <2>2. Ends(h, "undo") \/ request' = [request EXCEPT ![h] = r]
    BY <1>0, <1>5 DEF WithdrawInvite, Goes
  <2> HIDE DEF r
  <2>3. \A g \in Handlers :
            \/ request'[g] = request[g]
            \/ request'[g].at \notin {"read", "send"} /\ request'[g].secret \in made \cup {Null}
    BY <1>0, <2>1, <2>2, QuietEnd, QuietRequest
  <2> QED
    BY <1>5, <2>3, LessensKeeps DEF WithdrawInvite, Lessens
<1>6. ASSUME NEW e \in Addresses, RequestRecovery(h, e) PROVE SecretsInv'
  <2>1. \A g \in Handlers :
            \/ request'[g] = request[g]
            \/ request'[g].at \notin {"read", "send"} /\ request'[g].secret \in made \cup {Null}
    BY <1>0, <1>6 DEF RequestRecovery
  <2> QED
    BY <1>6, <2>1, LessensKeeps DEF RequestRecovery, Lessens
<1>7. ASSUME NEW e \in Addresses, NEW s \in Secrets, CreateInvite(h, e, s) PROVE SecretsInv'
  <2> DEFINE i == NewInvite(e)
             r == [at |-> "send", kind |-> "invite", by |-> Null, address |-> e, secret |-> s]
  <2>1. i.email = e /\ r.at = "send" /\ r.secret = s /\ r.address = e
    BY DEF NewInvite
  <2>2. /\ invite' = [invite EXCEPT ![s] = i] /\ request' = [request EXCEPT ![h] = r]
        /\ s \notin made /\ made' = made \cup {s} /\ UNCHANGED <<link, pending, reached>>
    BY <1>7 DEF CreateInvite, Make
  <2>3. /\ \A t \in Secrets : invite'[t] = IF t = s THEN i ELSE invite[t]
        /\ \A g \in Handlers : request'[g] = IF g = h THEN r ELSE request[g]
    BY <1>0, <2>2 DEF TypesInv, RecoveryTypeOK
  <2> HIDE DEF i, r
  <2>4. MadeOK'
    BY <2>1, <2>2, <2>3 DEF SecretsInv, MadeOK
  <2>5. \A g \in Handlers : request[g].at \in {"read", "send"} => request[g].secret \in Secrets \ {s}
    BY <2>2, TableRows DEF SecretsInv, MadeOK, TypesInv, RequestsOK
  <2>6. OnItsWay'
    BY <2>1, <2>2, <2>3, <2>5 DEF SecretsInv, MadeOK, OnItsWay
  <2>7. ProofsGoHome'
    BY <2>1, <2>2, <2>3, TableRows DEF SecretsInv, MadeOK, ProofsGoHome
  <2> QED
    BY <2>4, <2>6, <2>7 DEF SecretsInv
<1>8. ASSUME NEW s \in Secrets, CreateRecoveryLink(h, s) PROVE SecretsInv'
  <2>1. CASE Ends(h, "mint") /\ UNCHANGED <<link, made>>
    BY <1>8, <2>1, QuietEnd, LessensKeeps DEF CreateRecoveryLink, Lessens
  <2>2. CASE /\ s \notin made /\ made' = made \cup {s}
             /\ link' = [link EXCEPT ![s] = Outstanding(request[h].by)]
             /\ request' = [request EXCEPT ![h].at = "send", ![h].secret = s]
    <3> DEFINE r == [request[h] EXCEPT !.at = "send", !.secret = s]
    <3>1. r.at = "send" /\ r.secret = s
      BY <1>0 DEF Request
    <3>2. request' = [request EXCEPT ![h] = r]
      BY <1>0, <2>2
    <3> HIDE DEF r
    <3>3. /\ \A g \in Handlers : request'[g] = IF g = h THEN r ELSE request[g]
          /\ \A t \in Secrets : t # s => link'[t] = link[t]
          /\ UNCHANGED <<pending, invite, reached>>
      BY <1>0, <1>8, <2>2, <3>2 DEF CreateRecoveryLink, TypesInv, RecoveryTypeOK
    <3>7. s \notin made /\ made' = made \cup {s}
      BY <2>2
    <3>4. MadeOK'
      BY <3>1, <3>3, <3>7 DEF SecretsInv, MadeOK
    <3>5. OnItsWay'
      BY <3>1, <3>3, <3>7 DEF SecretsInv, MadeOK, OnItsWay
    <3>6. ProofsGoHome'
      BY <3>3 DEF SecretsInv, ProofsGoHome
    <3> QED
      BY <3>4, <3>5, <3>6 DEF SecretsInv
  <2> QED
    BY <1>8, <2>1, <2>2 DEF CreateRecoveryLink, Make
<1>9. ASSUME NEW s \in Secrets, DeleteInvite(h, s) PROVE SecretsInv'
  <2> DEFINE r == [Idle EXCEPT !.at = "drop", !.kind = "invite", !.secret = s]
  <2>1. r.at = "drop" /\ r.secret = s /\ request' = [request EXCEPT ![h] = r]
    BY <1>9 DEF DeleteInvite, Idle
  <2>2. s \in made
    BY <1>9 DEF DeleteInvite, SecretsInv, MadeOK
  <2> HIDE DEF r
  <2> QED
    BY <1>9, <2>1, <2>2, QuietRequest, LessensKeeps DEF DeleteInvite, Lessens
<1> QED
  BY <1>1, <1>2, <1>3, <1>4, <1>5, <1>6, <1>7, <1>8, <1>9 DEF Handler

LEMMA AtOnceSecrets == ASSUME TypesInv, SecretsInv, AtOnce PROVE SecretsInv'
<1> USE DEF TypesInv, RecoveryTypeOK
<1>0. UNCHANGED request
  BY AtOnceTypes
<1>1. ASSUME NEW a \in Accounts, NEW s \in Secrets \cup {Null}, ConfirmRecovery(a, s) PROVE SecretsInv'
  <2>1. \A b \in Accounts : pending'[b] # Null =>
            pending[b] # Null /\ pending'[b].secret = pending[b].secret /\ pending'[b].email = pending[b].email
    <3>1. CASE pending' = [pending EXCEPT ![a] = Null]
      BY <3>1
    <3>2. CASE pending' = [pending EXCEPT ![a].attempts = @ + 1] /\ pending[a] # Null
      BY <3>2 DEF Attempt
    <3> QED
      BY <1>1, <3>1, <3>2 DEF ConfirmRecovery
  <2> QED
    BY <1>1, <2>1, LessensKeeps DEF ConfirmRecovery, Lessens
<1>2. ASSUME NEW a \in Accounts, ClearRecovery(a) \/ SetDisabled(a) \/ DeletePrincipal(a) PROVE SecretsInv'
  <2>1. \A b \in Accounts : pending'[b] # Null => pending'[b] = pending[b]
    BY <1>2 DEF ClearRecovery, SetDisabled, DeletePrincipal
  <2>2. \A s \in Secrets : link'[s] # Null => link[s] # Null
    BY <1>2 DEF ClearRecovery, SetDisabled, DeletePrincipal
  <2> QED
    BY <1>0, <1>2, <2>1, <2>2, LessensKeeps DEF ClearRecovery, SetDisabled, DeletePrincipal, Lessens
<1>3. ASSUME NEW a \in Accounts, LapseAttempt(a) PROVE SecretsInv'
  <2>1. \A b \in Accounts : pending'[b] # Null =>
            pending[b] # Null /\ pending'[b].secret = pending[b].secret /\ pending'[b].email = pending[b].email
    BY <1>3 DEF LapseAttempt, Attempt
  <2> QED
    BY <1>3, <2>1, LessensKeeps DEF LapseAttempt, Lessens
<1>4. ASSUME NEW s \in Secrets, UseRecoveryLink(s) \/ LapseLink(s) PROVE SecretsInv'
  <2>1. \A t \in Secrets : link'[t] # Null => link[t] # Null
    BY <1>4 DEF UseRecoveryLink, LapseLink
  <2> QED
    BY <1>0, <1>4, <2>1, LessensKeeps DEF UseRecoveryLink, LapseLink, Lessens
<1>5. ASSUME NEW a \in Accounts, NEW s \in Secrets, AcceptInvite(s, a) PROVE SecretsInv'
  <2>1. \A t \in Secrets : invite'[t] # Null => invite[t] # Null /\ invite'[t].email = invite[t].email
    BY <1>5 DEF AcceptInvite, Invite
  <2> QED
    BY <1>5, <2>1, LessensKeeps DEF AcceptInvite, Lessens
<1>6. ASSUME NEW s \in Secrets, LapseInvite(s) PROVE SecretsInv'
  <2>1. \A t \in Secrets : invite'[t] # Null => invite[t] # Null /\ invite'[t].email = invite[t].email
    BY <1>6 DEF LapseInvite, Invite
  <2> QED
    BY <1>6, <2>1, LessensKeeps DEF LapseInvite, Lessens
<1>7. ASSUME NEW s \in Secrets, HandInvite(s) \/ \E a \in Accounts : HandLink(a, s) PROVE SecretsInv'
  <2>1. /\ s \notin made /\ made' = made \cup {s} /\ UNCHANGED pending
        /\ \A t \in Secrets \ {s} : link'[t] = link[t] /\ invite'[t] = invite[t]
        /\ invite'[s] # Null => invite'[s].email = Null \/ invite'[s] = invite[s]
        /\ reached' = [reached EXCEPT ![Null] = @ \cup {s}]
    BY <1>7 DEF HandLink, HandInvite, Make, Reach, NewInvite
  <2>2. \A e \in Addresses \cup {Null} : \A t \in reached'[e] : t \in reached[e] \/ t = s
    BY <2>1
  <2>3. /\ \A b \in Accounts : pending[b] # Null => pending[b].secret # s
        /\ invite[s] = Null /\ \A h \in Handlers : request[h].secret # s
    BY <2>1, TableRows DEF SecretsInv, MadeOK
  <2>4. MadeOK'
    BY <1>0, <2>1, <2>2 DEF SecretsInv, MadeOK
  <2>5. OnItsWay'
    <3>1. \A h \in Handlers : request[h].at \in {"read", "send"} => request[h].secret \in Secrets \ {s}
      BY <2>3 DEF RequestsOK
    <3> QED
      BY <1>0, <2>1, <3>1 DEF SecretsInv, OnItsWay
  <2>6. ProofsGoHome'
    <3>1. \A e \in Addresses \cup {Null}, b \in Accounts :
              pending'[b] # Null /\ pending'[b].secret \in reached'[e] => e = pending'[b].email
      BY <2>1, <2>2, <2>3 DEF SecretsInv, ProofsGoHome
    <3>2. \A e \in Addresses \cup {Null} : \A t \in reached'[e] :
              invite'[t] # Null /\ invite'[t].email # Null => e = invite'[t].email
      <4> SUFFICES ASSUME NEW e \in Addresses \cup {Null}, NEW t \in reached'[e],
                          invite'[t] # Null, invite'[t].email # Null
                   PROVE  e = invite'[t].email
        OBVIOUS
      <4>1. t # s
        BY <2>1, <2>3
      <4>2. t \in reached[e] /\ t \in Secrets
        BY <2>2, <4>1
      <4> QED
        BY <2>1, <4>1, <4>2 DEF SecretsInv, ProofsGoHome
    <3> QED
      BY <3>1, <3>2 DEF ProofsGoHome
  <2> QED
    BY <2>4, <2>5, <2>6 DEF SecretsInv
<1> QED
  BY <1>1, <1>2, <1>3, <1>4, <1>5, <1>6, <1>7 DEF AtOnce

(***************************************************************************)
(* Who holds an address, and what has been spent.                          *)
(***************************************************************************)
LEMMA TakeOverHolds ==
    ASSUME NEW a \in Accounts, NEW e \in Addresses, TypesInv, OneHolder, TakeOver(a, e)
    PROVE  /\ OneHolder' /\ onRecord'[a] = e
           /\ \A b \in Accounts : onRecord'[b] = onRecord[b] \/ onRecord[b] = e \/ b = a
  BY RecoveryAssumption DEF TakeOver, OneHolder, TypesInv, RecoveryTypeOK

\* All that becomes of the addresses on record.
LEMMA RecordStep ==
    ASSUME TypesInv, RecoveryNext
    PROVE  \/ UNCHANGED onRecord
           \/ \E a \in Accounts :
                  \/ onRecord' = [onRecord EXCEPT ![a] = Null] /\ (ClearRecovery(a) \/ account'[a] = "gone")
                  \/ \E e \in Addresses : TakeOver(a, e)
<1> DEFINE Done == \/ UNCHANGED onRecord
                   \/ \E a \in Accounts :
                          \/ /\ onRecord' = [onRecord EXCEPT ![a] = Null]
                             /\ ClearRecovery(a) \/ account'[a] = "gone"
                          \/ \E e \in Addresses : TakeOver(a, e)
<1>1. ASSUME NEW h \in Handlers, Handler(h) PROVE Done
  BY <1>1 DEF Handler, BeginRecovery, PendingRecovery, Sent, SendFails, Drop, GivesUp, ClearPendingRecovery,
              VoidRecoveryLink, WithdrawInvite, RequestRecovery, CreateInvite, CreateRecoveryLink,
              DeleteInvite, tables
<1>2. ASSUME NEW a \in Accounts, NEW s \in Secrets \cup {Null}, ConfirmRecovery(a, s) PROVE Done
  <2>1. pending[a].email \in Addresses
    BY <1>2, TableRows DEF ConfirmRecovery
  <2> QED
    BY <1>2, <2>1 DEF ConfirmRecovery
<1>3. ASSUME NEW a \in Accounts, NEW s \in Secrets, AcceptInvite(s, a) PROVE Done
  <2>1. invite[s].email # Null => invite[s].email \in Addresses
    BY <1>3, TableRows DEF AcceptInvite
  <2> QED
    BY <1>3, <2>1 DEF AcceptInvite
<1>4. ASSUME NEW a \in Accounts, ClearRecovery(a) PROVE Done
  BY <1>4 DEF ClearRecovery
<1>5. ASSUME NEW a \in Accounts, DeletePrincipal(a) PROVE Done
  BY <1>5 DEF DeletePrincipal, TypesInv, RecoveryTypeOK
<1>6. ASSUME NEW a \in Accounts, \/ SetDisabled(a) \/ LapseAttempt(a)
                                 \/ \E s \in Secrets : HandLink(a, s)
      PROVE  Done
  BY <1>6 DEF SetDisabled, LapseAttempt, HandLink
<1>7. ASSUME NEW s \in Secrets, HandInvite(s) \/ UseRecoveryLink(s) \/ LapseLink(s) \/ LapseInvite(s)
      PROVE  Done
  BY <1>7 DEF HandInvite, UseRecoveryLink, LapseLink, LapseInvite
<1> HIDE DEF Done
<1>8. Done
  BY <1>1, <1>2, <1>3, <1>4, <1>5, <1>6, <1>7 DEF RecoveryNext
<1> QED
  BY <1>8 DEF Done

LEMMA HolderStep == ASSUME TypesInv, OneHolder, RecoveryNext PROVE OneHolder'
<1>1. CASE UNCHANGED onRecord
  BY <1>1 DEF OneHolder
<1>2. ASSUME NEW a \in Accounts, onRecord' = [onRecord EXCEPT ![a] = Null] PROVE OneHolder'
  BY <1>2 DEF OneHolder, TypesInv, RecoveryTypeOK
<1>3. ASSUME NEW a \in Accounts, NEW e \in Addresses, TakeOver(a, e) PROVE OneHolder'
  BY <1>3, TakeOverHolds
<1> QED
  BY <1>1, <1>2, <1>3, RecordStep

(***************************************************************************)
(* The invariant and what follows from it.                                 *)
(***************************************************************************)
LEMMA RecoveryStarts == RecoveryInit => RecoveryInv
<1> SUFFICES ASSUME RecoveryInit PROVE RecoveryInv
  OBVIOUS
<1>1. \A h \in Handlers : request[h] = Idle
  BY DEF RecoveryInit
<1>2. TypesInv
  BY <1>1, IdleTypes DEF RecoveryInit, TypesInv, RecoveryTypeOK, RequestsOK
<1>3. SecretsInv
  BY <1>1, IdleTypes DEF RecoveryInit, SecretsInv, MadeOK, OnItsWay, ProofsGoHome
<1>4. OneHolder
  BY DEF RecoveryInit, OneHolder
<1> QED
  BY <1>2, <1>3, <1>4 DEF RecoveryInv

LEMMA StepInv == RecoveryInv /\ [RecoveryNext]_recoveryVars => RecoveryInv'
<1> SUFFICES ASSUME RecoveryInv, [RecoveryNext]_recoveryVars PROVE RecoveryInv'
  OBVIOUS
<1>1. CASE RecoveryNext
  <2>1. SecretsInv'
    <3>1. CASE \E h \in Handlers : Handler(h)
      BY <3>1, HandlerSecrets DEF RecoveryInv
    <3>2. CASE AtOnce
      BY <3>2, AtOnceSecrets DEF RecoveryInv
    <3> QED
      BY <1>1, <3>1, <3>2 DEF RecoveryNext, AtOnce
  <2> QED
    BY <1>1, <2>1, TypesStep, HolderStep DEF RecoveryInv
<1>2. CASE UNCHANGED recoveryVars
  BY <1>2 DEF recoveryVars, RecoveryInv, TypesInv, RecoveryTypeOK, RequestsOK, SecretsInv, MadeOK, OnItsWay, ProofsGoHome,
              OneHolder
<1> QED
  BY <1>1, <1>2

THEOREM RecoveryInvariant == RecoverySpec => []RecoveryInv
  BY RecoveryStarts, StepInv, PTL DEF RecoverySpec

\* The tables and the requests, for any number of each; MaxRecoveryAttempts is
\* never exceeded.
THEOREM RecoveryTypes == RecoverySpec => []RecoveryTypeOK
<1>1. RecoveryInv => RecoveryTypeOK
  BY DEF RecoveryInv, TypesInv
<1> QED
  BY <1>1, RecoveryInvariant, PTL

\* A code that works and an invitation that was sent have been read at their
\* own inbox or nowhere, however requests replace one another's attempts
\* (BeginRecovery, PendingRecovery, createInvite).
THEOREM SecretsGoHome == RecoverySpec => []ProofsGoHome
<1>1. RecoveryInv => ProofsGoHome
  BY DEF RecoveryInv, SecretsInv
<1> QED
  BY <1>1, RecoveryInvariant, PTL

\* A proved address is lost by being given up, by being proved elsewhere or
\* with its account, and is never on record twice (takeOverAddress,
\* ClearPendingRecovery).
THEOREM ProvedAddressesStay == RecoverySpec => ProvedStaysProved
<1> DEFINE Stays ==
      \A a \in Accounts :
          /\ onRecord[a] # Null /\ onRecord'[a] = Null /\ account'[a] # "gone"
             => ClearRecovery(a) \/ \E b \in Accounts : onRecord'[b] = onRecord[a]
          /\ onRecord'[a] # Null => \A b \in Accounts \ {a} : onRecord'[b] # onRecord'[a]
<1>1. ASSUME RecoveryInv, RecoveryNext PROVE Stays
  <2>1. OneHolder' /\ TypesInv /\ OneHolder
    BY <1>1, HolderStep DEF RecoveryInv
  <2>2. \A a \in Accounts : onRecord'[a] # Null => \A b \in Accounts \ {a} : onRecord'[b] # onRecord'[a]
    BY <2>1 DEF OneHolder
  <2> SUFFICES ASSUME NEW a \in Accounts, onRecord[a] # Null, onRecord'[a] = Null, account'[a] # "gone"
               PROVE  ClearRecovery(a) \/ \E b \in Accounts : onRecord'[b] = onRecord[a]
    BY <2>2
  <2>3. ASSUME NEW b \in Accounts, onRecord' = [onRecord EXCEPT ![b] = Null],
               ClearRecovery(b) \/ account'[b] = "gone"
        PROVE  ClearRecovery(a)
    BY <2>1, <2>3 DEF TypesInv, RecoveryTypeOK
  <2>4. ASSUME NEW b \in Accounts, NEW e \in Addresses, TakeOver(b, e)
        PROVE  onRecord'[b] = onRecord[a]
    BY <2>1, <2>4, TakeOverHolds, RecoveryAssumption
  <2> QED
    BY <1>1, <2>1, <2>3, <2>4, RecordStep
<1>2. RecoveryInv /\ [RecoveryNext]_recoveryVars => [Stays]_recoveryVars
  BY <1>1
<1> QED
  BY <1>2, RecoveryInvariant, PTL DEF RecoverySpec, ProvedStaysProved

\* A link that was used or closed says so for as long as its row is there
\* (UseRecoveryLink, VoidRecoveryLink).
THEOREM SpentLinksStay == RecoverySpec => SpentStaysSpent
<1> DEFINE Stays ==
      \A s \in Secrets : link[s] # Null /\ link[s].state # "out" /\ link'[s] # Null
          => link'[s].state = link[s].state
<1>1. ASSUME RecoveryInv, RecoveryNext PROVE Stays
  <2> SUFFICES ASSUME NEW s \in Secrets, link[s] # Null, link[s].state # "out", link'[s] # Null
               PROVE  link'[s].state = link[s].state
    OBVIOUS
  <2> USE DEF RecoveryInv, TypesInv, RecoveryTypeOK
  <2>1. s \in made
    BY <1>1 DEF SecretsInv, MadeOK
  <2>2. ASSUME NEW h \in Handlers, Handler(h) PROVE link'[s] = link[s]
    <3>1. CASE VoidRecoveryLink(h) \/ \E t \in Secrets : CreateRecoveryLink(h, t)
      BY <1>1, <2>1, <3>1 DEF VoidRecoveryLink, CreateRecoveryLink, Make
    <3>2. CASE UNCHANGED link
      BY <3>2
    <3> QED
      BY <2>2, <3>1, <3>2 DEF Handler, BeginRecovery, PendingRecovery, Sent, SendFails, Drop, GivesUp,
              tables, ClearPendingRecovery, WithdrawInvite, RequestRecovery, CreateInvite, DeleteInvite
  <2>3. ASSUME NEW a \in Accounts, \/ \E t \in Secrets \cup {Null} : ConfirmRecovery(a, t)
                                   \/ \E t \in Secrets : HandLink(a, t) \/ AcceptInvite(t, a)
                                   \/ ClearRecovery(a) \/ SetDisabled(a) \/ DeletePrincipal(a)
                                   \/ LapseAttempt(a)
        PROVE  link'[s] = link[s]
    BY <1>1, <2>1, <2>3 DEF ConfirmRecovery, HandLink, AcceptInvite, ClearRecovery, SetDisabled,
              DeletePrincipal, LapseAttempt, Make
  <2>4. ASSUME NEW t \in Secrets, UseRecoveryLink(t) PROVE link'[s] = link[s]
    BY <1>1, <2>4 DEF UseRecoveryLink
  <2>5. ASSUME NEW t \in Secrets, LapseLink(t) PROVE link'[s].state = link[s].state
    BY <1>1, <2>5 DEF LapseLink, RecoveryLink
  <2>6. ASSUME NEW t \in Secrets, HandInvite(t) \/ LapseInvite(t) PROVE link'[s] = link[s]
    BY <2>6 DEF HandInvite, LapseInvite
  <2> QED
    BY <1>1, <2>2, <2>3, <2>4, <2>5, <2>6 DEF RecoveryNext
<1>2. RecoveryInv /\ [RecoveryNext]_recoveryVars => [Stays]_recoveryVars
  BY <1>1
<1> QED
  BY <1>2, RecoveryInvariant, PTL DEF RecoverySpec, SpentStaysSpent
(***************************************************************************)
(* What keeps the undo of a mail from dropping an attempt that got         *)
(* through: one request at a time for each account.  Nothing in the code   *)
(* sees to that, and the run with two breaks the sentence.                 *)
(***************************************************************************)
OnePerAccount ==
    \A g, h \in Handlers :
        /\ request[g].kind = "code" /\ request[h].kind = "code"
        /\ request[g].by = request[h].by
        => g = h

\* The attempt there is, if any, is the one the request under way began.
OwnAttempt ==
    \A h \in Handlers : request[h].kind = "code" =>
        /\ request[h].at # "mint"
        /\ LET p == pending[request[h].by]
           IN  p = Null \/ p.secret = request[h].secret

\* Every step keeps it that does not set a second request to work on an account.
LEMMA OwnAttemptKept ==
    RecoveryInv /\ OwnAttempt /\ OnePerAccount' /\ [RecoveryNext]_recoveryVars => OwnAttempt'
<1> SUFFICES ASSUME RecoveryInv, OwnAttempt, OnePerAccount', [RecoveryNext]_recoveryVars,
                    NEW g \in Handlers, request'[g].kind = "code"
             PROVE  /\ request'[g].at # "mint"
                    /\ LET p == pending'[request'[g].by]
                       IN  p = Null \/ p.secret = request'[g].secret
  BY DEF OwnAttempt
<1> DEFINE Own == /\ request'[g].at # "mint"
                  /\ LET p == pending'[request'[g].by]
                     IN  p = Null \/ p.secret = request'[g].secret
<1> USE RecoveryAssumption DEF RecoveryInv, TypesInv, RecoveryTypeOK
<1>1. ASSUME request'[g] = request[g],
             \A a \in Accounts : \/ pending'[a] = Null
                                 \/ pending[a] # Null /\ pending'[a].secret = pending[a].secret
      PROVE  Own
  <2>1. request[g].by \in Accounts
    BY <1>1 DEF RequestsOK
  <2> QED
    BY <1>1, <2>1 DEF OwnAttempt
<1>2. ASSUME request'[g].kind = request[g].kind, request'[g].by = request[g].by,
             request'[g].secret = request[g].secret, request'[g].at # "mint", UNCHANGED pending
      PROVE  Own
  BY <1>2 DEF OwnAttempt
<1>3. UNCHANGED <<pending, request>> => Own
  BY <1>1
<1>4. ASSUME NEW h \in Handlers, Handler(h) PROVE Own
  <2>1. ASSUME NEW a \in Accounts, NEW e \in Addresses, NEW s \in Secrets, BeginRecovery(h, a, e, s)
        PROVE  Own
    <3> DEFINE r == [at |-> "read", kind |-> "code", by |-> a, address |-> Null, secret |-> s]
               q == [email |-> e, secret |-> s, attempts |-> 0, live |-> TRUE]
    <3>1. /\ request' = [request EXCEPT ![h] = r] /\ pending' = [pending EXCEPT ![a] = q]
      BY <2>1 DEF BeginRecovery, Replace
    <3>2. r.kind = "code" /\ r.by = a /\ r.secret = s /\ q.secret = s /\ r.at = "read"
      OBVIOUS
    <3> HIDE DEF r, q
    <3>3. CASE g = h
      BY <3>1, <3>2, <3>3
    <3>4. CASE g # h
      <4>1. request'[g] = request[g] /\ request'[h] = r
        BY <3>1, <3>4
      <4>2. request'[g].by # a
        BY <3>2, <3>4, <4>1 DEF OnePerAccount
      <4>3. request[g].by \in Accounts
        BY <4>1 DEF RequestsOK
      <4> QED
        BY <3>1, <4>1, <4>2, <4>3 DEF OwnAttempt
    <3> QED
      BY <3>3, <3>4
  <2>2. ASSUME NEW r, request' = [request EXCEPT ![h] = r], UNCHANGED pending,
               r.kind = "code" => /\ request[h].kind = "code" /\ r.by = request[h].by
                                  /\ r.secret = request[h].secret /\ r.at # "mint"
        PROVE  Own
    <3>1. CASE g = h
      BY <1>2, <2>2, <3>1
    <3>2. CASE g # h
      BY <1>1, <2>2, <3>2
    <3> QED
      BY <3>1, <3>2
  <2>3. ASSUME NEW r, request' = [request EXCEPT ![h] = r], UNCHANGED pending, r.kind # "code"
        PROVE  Own
    BY <2>2, <2>3
  <2>4. request[h] \in Request
    OBVIOUS
  <2>5. CASE PendingRecovery(h)
    <3> DEFINE p == pending[request[h].by]
               r == [request[h] EXCEPT !.at = "send",
                                       !.address = IF p # Null /\ p.live THEN p.email ELSE Null]
    <3>1. /\ r.kind = request[h].kind /\ r.by = request[h].by /\ r.secret = request[h].secret
          /\ r.at # "mint"
      BY <2>4 DEF Request
    <3>2. request' = [request EXCEPT ![h] = r] /\ UNCHANGED pending
      BY <2>5 DEF PendingRecovery, tables
    <3> HIDE DEF r
    <3> QED
      BY <2>2, <3>1, <3>2
  <2>6. ASSUME NEW from, NEW to \in {"undo", "drop"}, Goes(h, from, to), UNCHANGED pending PROVE Own
    <3> DEFINE r == [request[h] EXCEPT !.at = to]
    <3>1. /\ r.kind = request[h].kind /\ r.by = request[h].by /\ r.secret = request[h].secret
          /\ r.at # "mint"
      BY <2>4 DEF Request
    <3>2. request' = [request EXCEPT ![h] = r]
      BY <2>6 DEF Goes
    <3> HIDE DEF r
    <3> QED
      BY <2>2, <2>6, <3>1, <3>2
  <2>7. ASSUME request' = [request EXCEPT ![h] = Idle], UNCHANGED pending PROVE Own
    BY <2>3, <2>7, IdleTypes
  <2>8. CASE Sent(h) \/ SendFails(h) \/ WithdrawInvite(h) \/ VoidRecoveryLink(h) \/ Drop(h)
             \/ GivesUp(h)
    BY <2>6, <2>7, <2>8 DEF Sent, SendFails, WithdrawInvite, VoidRecoveryLink, Drop, GivesUp,
                            Ends, tables
  <2>9. CASE ClearPendingRecovery(h)
    <3>1. request' = [request EXCEPT ![h] = Idle]
          /\ pending' = [pending EXCEPT ![request[h].by] = Null]
      BY <2>9 DEF ClearPendingRecovery, Ends
    <3>2. g # h
      BY <3>1, IdleTypes
    <3> QED
      BY <1>1, <3>1, <3>2
  <2>10. ASSUME NEW e \in Addresses, RequestRecovery(h, e) PROVE Own
    BY <1>3, <2>3, <2>10 DEF RequestRecovery, tables
  <2>11. ASSUME NEW s \in Secrets, CreateRecoveryLink(h, s) PROVE Own
    <3>1. CASE Ends(h, "mint")
      BY <2>7, <2>11, <3>1 DEF CreateRecoveryLink, Ends
    <3>2. CASE request[h].at = "mint"
               /\ request' = [request EXCEPT ![h].at = "send", ![h].secret = s]
      <4> DEFINE r == [request[h] EXCEPT !.at = "send", !.secret = s]
      <4>1. r.kind = request[h].kind /\ request[h].kind # "code"
        BY <2>4, <3>2 DEF Request, OwnAttempt
      <4>2. request' = [request EXCEPT ![h] = r]
        BY <3>2
      <4> HIDE DEF r
      <4> QED
        BY <2>3, <2>11, <4>1, <4>2 DEF CreateRecoveryLink
    <3> QED
      BY <2>11, <3>1, <3>2 DEF CreateRecoveryLink
  <2>12. ASSUME NEW s \in Secrets, NEW e \in Addresses, CreateInvite(h, e, s) PROVE Own
    <3> DEFINE r == [at |-> "send", kind |-> "invite", by |-> Null, address |-> e, secret |-> s]
    <3>1. request' = [request EXCEPT ![h] = r] /\ UNCHANGED pending
      BY <2>12 DEF CreateInvite
    <3>2. r.kind # "code"
      OBVIOUS
    <3> HIDE DEF r
    <3> QED
      BY <2>3, <3>1, <3>2
  <2>13. ASSUME NEW s \in Secrets, DeleteInvite(h, s) PROVE Own
    <3> DEFINE r == [Idle EXCEPT !.at = "drop", !.kind = "invite", !.secret = s]
    <3>1. r.kind # "code"
      BY DEF Idle
    <3>2. request' = [request EXCEPT ![h] = r] /\ UNCHANGED pending
      BY <2>13 DEF DeleteInvite, tables
    <3> HIDE DEF r
    <3> QED
      BY <2>3, <3>1, <3>2
  <2> HIDE DEF Own
  <2> QED
    BY <1>4, <2>1, <2>5, <2>8, <2>9, <2>10, <2>11, <2>12, <2>13 DEF Handler
<1>5. ASSUME NEW a \in Accounts, UNCHANGED request,
             \/ pending' = [pending EXCEPT ![a] = Null]
             \/ pending[a] # Null /\ pending' = [pending EXCEPT ![a].attempts = @ + 1]
             \/ pending[a] # Null /\ pending' = [pending EXCEPT ![a].live = FALSE]
      PROVE  Own
  <2>1. pending[a] # Null => /\ [pending[a] EXCEPT !.attempts = @ + 1].secret = pending[a].secret
                             /\ [pending[a] EXCEPT !.live = FALSE].secret = pending[a].secret
    BY DEF Attempt
  <2>2. \A b \in Accounts : \/ pending'[b] = Null
                            \/ pending[b] # Null /\ pending'[b].secret = pending[b].secret
                            \/ pending'[b] = pending[b]
    BY <1>5, <2>1
  <2> HIDE DEF Own
  <2> QED
    BY <1>1, <1>5, <2>2
<1>6. ASSUME NEW a \in Accounts,
             \/ \E s \in Secrets \cup {Null} : ConfirmRecovery(a, s)
             \/ \E s \in Secrets : HandLink(a, s) \/ AcceptInvite(s, a)
             \/ ClearRecovery(a) \/ SetDisabled(a) \/ DeletePrincipal(a) \/ LapseAttempt(a)
      PROVE  Own
  <2>1. CASE \/ \E s \in Secrets \cup {Null} : ConfirmRecovery(a, s)
             \/ ClearRecovery(a) \/ DeletePrincipal(a) \/ LapseAttempt(a)
    BY <1>5, <2>1 DEF ConfirmRecovery, ClearRecovery, DeletePrincipal, LapseAttempt
  <2>2. CASE SetDisabled(a) \/ \E s \in Secrets : HandLink(a, s) \/ AcceptInvite(s, a)
    BY <1>3, <2>2 DEF HandLink, AcceptInvite, SetDisabled
  <2> HIDE DEF Own
  <2> QED
    BY <1>6, <2>1, <2>2
<1>7. ASSUME NEW s \in Secrets, HandInvite(s) \/ UseRecoveryLink(s) \/ LapseLink(s) \/ LapseInvite(s)
      PROVE  Own
  BY <1>3, <1>7 DEF HandInvite, UseRecoveryLink, LapseLink, LapseInvite
<1>8. UNCHANGED recoveryVars => Own
  BY <1>3 DEF recoveryVars
<1> HIDE DEF Own
<1>9. (\E h \in Handlers : Handler(h)) => Own
  BY <1>4
<1>10. ASSUME AtOnce PROVE Own
  <2>1. CASE \E s \in Secrets : HandInvite(s) \/ UseRecoveryLink(s) \/ LapseLink(s) \/ LapseInvite(s)
    BY <1>7, <2>1
  <2> QED
    BY <1>6, <1>10, <2>1 DEF AtOnce
<1>11. Own
  BY <1>8, <1>9, <1>10 DEF RecoveryNext, AtOnce
<1> QED
  BY <1>11 DEF Own

\* Where no two requests are at one account's attempt, "nothing was sent, so
\* nothing is waiting" holds of every mail that fails, for any number of
\* requests at once.
THEOREM NothingWaitsForOne == RecoverySpec /\ []OnePerAccount => NothingWaiting
<1> DEFINE Undone ==
      \A h \in Handlers :
          LET p == pending[request[h].by]
          IN  request[h].kind = "code" /\ ClearPendingRecovery(h) /\ p # Null
                 => p.secret = request[h].secret \/ ~Known(p.secret)
<1>1. RecoveryInit => OwnAttempt
  BY IdleTypes DEF RecoveryInit, OwnAttempt
<1>2. OwnAttempt => Undone
  BY DEF OwnAttempt
<1>3. RecoverySpec /\ []OnePerAccount => []OwnAttempt
  BY <1>1, OwnAttemptKept, RecoveryInvariant, PTL DEF RecoverySpec
<1>4. OwnAttempt /\ [RecoveryNext]_recoveryVars => [Undone]_recoveryVars
  BY <1>2
<1> QED
  BY <1>3, <1>4, PTL DEF RecoverySpec, NothingWaiting
=============================================================================
