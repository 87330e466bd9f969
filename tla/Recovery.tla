------------------------------ MODULE Recovery ------------------------------
(***************************************************************************)
(* Ways into an account without its password: the address an account has   *)
(* proved, by a code sent there or by the invitation it came from, the     *)
(* links that set a new password, and the mail that carries all three.     *)
(* The store works a transaction at a time; a mail leaves, or fails to, in *)
(* between, and is undone by a handler that looks at what is there then.   *)
(***************************************************************************)
EXTENDS Integers

CONSTANTS
    Accounts,      \* principals there are, were or may yet be
    Founders,      \* those there are at the start
    Addresses,     \* inboxes; spellings that differ by case are one
    Secrets,       \* codes, link and invitation tokens, each made at most once
    Handlers,      \* requests the server answers at once
    MaxAttempts,   \* MaxRecoveryAttempts
    Null

\* live is expires_at > now; the hash of a secret stands for the secret.
Attempt == [email : Addresses, secret : Secrets, attempts : 0..MaxAttempts, live : BOOLEAN]
RecoveryLink == [of : Accounts, state : {"out", "used", "voided"}, live : BOOLEAN]
Invite == [email : Addresses \cup {Null}, accepted : BOOLEAN, live : BOOLEAN]

ASSUME RecoveryAssumption ==
    /\ Founders \subseteq Accounts
    /\ MaxAttempts \in Nat \ {0}
    /\ Null \notin Accounts \cup Addresses \cup Secrets \cup Attempt \cup RecoveryLink \cup Invite

VARIABLES
    account,       \* principals: not yet made, on, disabled or deleted
    onRecord,      \* user_recovery: the proved address, or Null
    pending,       \* recovery_pending: an address being proved, or Null
    link,          \* recovery_links, by token
    invite,        \* invites, by token
    made,          \* secrets made so far
    reached,       \* the secrets that reached an inbox, or at Null a hand
    request        \* what each handler is at

recoveryVars == <<account, onRecord, pending, link, invite, made, reached, request>>

tables == <<account, onRecord, pending, link, invite>>

Request ==
    [at      : {"idle", "read", "mint", "send", "undo", "drop"},
     kind    : {"none", "code", "link", "invite"},
     by      : Accounts \cup {Null},
     address : Addresses \cup {Null},
     secret  : Secrets \cup {Null}]

Idle == [at |-> "idle", kind |-> "none", by |-> Null, address |-> Null, secret |-> Null]

RecoveryInit ==
    /\ account = [a \in Accounts |-> IF a \in Founders THEN "on" ELSE "none"]
    /\ onRecord = [a \in Accounts |-> Null] /\ pending = [a \in Accounts |-> Null]
    /\ link = [s \in Secrets |-> Null] /\ invite = [s \in Secrets |-> Null]
    /\ made = {} /\ reached = [e \in Addresses \cup {Null} |-> {}]
    /\ request = [h \in Handlers |-> Idle]

\* Somebody has read it: an inbox's owner, or who was handed it.
Known(s) == \E e \in Addresses \cup {Null} : s \in reached[e]

Make(s) == s \notin made /\ made' = made \cup {s}

Reach(e, s) == reached' = [reached EXCEPT ![e] = @ \cup {s}]

Goes(h, from, to) == request[h].at = from /\ request' = [request EXCEPT ![h].at = to]

Ends(h, from) == request[h].at = from /\ request' = [request EXCEPT ![h] = Idle]

(***************************************************************************)
(* Proving an address.                                                     *)
(***************************************************************************)
\* Mutant of Replace: starting again changes the address and not the code.
ReplaceAddress(a, e, s) ==
    pending' = [pending EXCEPT ![a] =
        [email |-> e, secret |-> IF @ = Null THEN s ELSE @.secret, attempts |-> 0, live |-> TRUE]]

Replace(a, e, s) ==
    pending' = [pending EXCEPT ![a] = [email |-> e, secret |-> s, attempts |-> 0, live |-> TRUE]]

\* BeginRecovery writes the attempt, in place of one there is; the address to
\* send to is then read back.
BeginRecovery(h, a, e, s) ==
    /\ request[h].at = "idle" /\ account[a] = "on"
    /\ Make(s) /\ Replace(a, e, s)
    /\ request' = [request EXCEPT ![h] = [at |-> "read", kind |-> "code", by |-> a,
                                          address |-> Null, secret |-> s]]
    /\ UNCHANGED <<account, onRecord, link, invite, reached>>

PendingRecovery(h) ==
    LET p == pending[request[h].by]
    IN /\ request[h].at = "read"
       /\ request' = [request EXCEPT ![h].at = "send",
                          ![h].address = IF p # Null /\ p.live THEN p.email ELSE Null]
       /\ UNCHANGED <<tables, made, reached>>

\* takeOverAddress, and the row of the account that has proved it now.
TakeOver(a, e) ==
    onRecord' = [b \in Accounts |-> IF b = a THEN e
                                    ELSE IF onRecord[b] = e THEN Null ELSE onRecord[b]]

\* A code out of some mail, or a wrong one (Null); one is not guessed.
ConfirmRecovery(a, s) ==
    LET p == pending[a]
    IN /\ account[a] = "on" /\ p # Null
       /\ s = Null \/ Known(s)
       /\ \/ /\ ~p.live \/ p.attempts >= MaxAttempts
             /\ pending' = [pending EXCEPT ![a] = Null]
             /\ UNCHANGED onRecord
          \/ /\ p.live /\ p.attempts < MaxAttempts /\ s # p.secret
             /\ pending' = [pending EXCEPT ![a].attempts = @ + 1]
             /\ UNCHANGED onRecord
          \/ /\ p.live /\ p.attempts < MaxAttempts /\ s = p.secret
             /\ pending' = [pending EXCEPT ![a] = Null]
             /\ TakeOver(a, p.email)
       /\ UNCHANGED <<account, link, invite, made, reached, request>>

ClearRecovery(a) ==
    /\ account[a] = "on"
    /\ onRecord' = [onRecord EXCEPT ![a] = Null]
    /\ pending' = [pending EXCEPT ![a] = Null]
    /\ UNCHANGED <<account, link, invite, made, reached, request>>

(***************************************************************************)
(* Links.                                                                  *)
(***************************************************************************)
\* requestRecovery: whose address it is is looked up, and the link made after;
\* a stranger asking for an address nobody has is answered all the same.
RequestRecovery(h, e) ==
    /\ request[h].at = "idle"
    /\ \/ \E a \in Accounts :
             /\ onRecord[a] = e
             /\ request' = [request EXCEPT ![h] = [at |-> "mint", kind |-> "link", by |-> a,
                                                   address |-> e, secret |-> Null]]
       \/ (\A a \in Accounts : onRecord[a] # e) /\ UNCHANGED request
    /\ UNCHANGED <<tables, made, reached>>

Outstanding(a) == [of |-> a, state |-> "out", live |-> TRUE]

\* An account disabled between the look and the insert is as one disabled after.
CreateRecoveryLink(h, s) ==
    LET who == request[h].by
    IN /\ request[h].at = "mint"
       /\ \/ /\ account[who] = "on" /\ Make(s)
             /\ link' = [link EXCEPT ![s] = Outstanding(who)]
             /\ request' = [request EXCEPT ![h].at = "send", ![h].secret = s]
          \/ account[who] # "on" /\ Ends(h, "mint") /\ UNCHANGED <<link, made>>
       /\ UNCHANGED <<account, onRecord, pending, invite, reached>>

\* createUserRecovery: an administrator passes the link on.
HandLink(a, s) ==
    /\ account[a] = "on" /\ Make(s) /\ Reach(Null, s)
    /\ link' = [link EXCEPT ![s] = Outstanding(a)]
    /\ UNCHANGED <<account, onRecord, pending, invite, request>>

\* One transaction; the password and the sessions are those of Accounts.
UseRecoveryLink(s) ==
    /\ Known(s) /\ link[s] # Null /\ link[s].state = "out" /\ link[s].live
    /\ account[link[s].of] = "on"
    /\ link' = [t \in Secrets |->
                   IF t = s THEN [link[t] EXCEPT !.state = "used"]
                   ELSE IF link[t] # Null /\ link[t].of = link[s].of /\ link[t].state = "out"
                        THEN [link[t] EXCEPT !.state = "voided"]
                   ELSE link[t]]
    /\ UNCHANGED <<account, onRecord, pending, invite, made, reached, request>>

(***************************************************************************)
(* Invitations: sent to an inbox, or handed over.                          *)
(***************************************************************************)
NewInvite(e) == [email |-> e, accepted |-> FALSE, live |-> TRUE]

CreateInvite(h, e, s) ==
    /\ request[h].at = "idle" /\ Make(s)
    /\ invite' = [invite EXCEPT ![s] = NewInvite(e)]
    /\ request' = [request EXCEPT ![h] = [at |-> "send", kind |-> "invite", by |-> Null,
                                          address |-> e, secret |-> s]]
    /\ UNCHANGED <<account, onRecord, pending, link, reached>>

HandInvite(s) ==
    /\ Make(s) /\ Reach(Null, s)
    /\ invite' = [invite EXCEPT ![s] = NewInvite(Null)]
    /\ UNCHANGED <<account, onRecord, pending, link, request>>

AcceptInvite(s, a) ==
    /\ Known(s) /\ invite[s] # Null /\ ~invite[s].accepted /\ invite[s].live
    /\ account[a] = "none"
    /\ account' = [account EXCEPT ![a] = "on"]
    /\ invite' = [invite EXCEPT ![s].accepted = TRUE]
    /\ IF invite[s].email = Null THEN UNCHANGED onRecord ELSE TakeOver(a, invite[s].email)
    /\ UNCHANGED <<pending, link, made, reached, request>>

\* DeleteInvite looks whether it was accepted, and deletes in a statement of its own.
DeleteInvite(h, s) ==
    /\ request[h].at = "idle" /\ invite[s] # Null /\ ~invite[s].accepted
    /\ request' = [request EXCEPT ![h] = [Idle EXCEPT !.at = "drop", !.kind = "invite", !.secret = s]]
    /\ UNCHANGED <<tables, made, reached>>

Drop(h) ==
    /\ Ends(h, "drop")
    /\ invite' = [invite EXCEPT ![request[h].secret] = Null]
    /\ UNCHANGED <<account, onRecord, pending, link, made, reached>>

(***************************************************************************)
(* The mail, and what is undone when it fails.  A relay that has taken a   *)
(* message may still be heard as one that has not.                         *)
(***************************************************************************)
Sent(h) ==
    /\ request[h].address # Null /\ Ends(h, "send")
    /\ Reach(request[h].address, request[h].secret)
    /\ UNCHANGED <<tables, made>>

SendFails(h) ==
    /\ Goes(h, "send", "undo")
    /\ \/ UNCHANGED reached
       \/ request[h].address # Null /\ Reach(request[h].address, request[h].secret)
    /\ UNCHANGED <<tables, made>>

\* Mutant of ClearPendingRecovery: all that is known of the address goes.
ClearAllRecovery(h) ==
    /\ request[h].kind = "code" /\ Ends(h, "undo")
    /\ pending' = [pending EXCEPT ![request[h].by] = Null]
    /\ onRecord' = [onRecord EXCEPT ![request[h].by] = Null]
    /\ UNCHANGED <<account, link, invite, made, reached>>

ClearPendingRecovery(h) ==
    /\ request[h].kind = "code" /\ Ends(h, "undo")
    /\ pending' = [pending EXCEPT ![request[h].by] = Null]
    /\ UNCHANGED <<account, onRecord, link, invite, made, reached>>

\* Mutant of VoidRecoveryLink: without its used_at IS NULL.
VoidAnyLink(h) ==
    LET s == request[h].secret
    IN /\ request[h].kind = "link" /\ Ends(h, "undo")
       /\ link' = IF link[s] # Null THEN [link EXCEPT ![s].state = "voided"] ELSE link
       /\ UNCHANGED <<account, onRecord, pending, invite, made, reached>>

VoidRecoveryLink(h) ==
    LET s == request[h].secret
    IN /\ request[h].kind = "link" /\ Ends(h, "undo")
       /\ link' = IF link[s] # Null /\ link[s].state = "out"
                  THEN [link EXCEPT ![s].state = "voided"] ELSE link
       /\ UNCHANGED <<account, onRecord, pending, invite, made, reached>>

WithdrawInvite(h) ==
    LET i == invite[request[h].secret]
    IN /\ request[h].kind = "invite"
       /\ IF i # Null /\ ~i.accepted THEN Goes(h, "undo", "drop") ELSE Ends(h, "undo")
       /\ UNCHANGED <<tables, made, reached>>

(***************************************************************************)
(* What else becomes of accounts and requests, and time.                   *)
(***************************************************************************)
SetDisabled(a) ==
    /\ account[a] \in {"on", "off"}
    /\ account' = [account EXCEPT ![a] = IF @ = "on" THEN "off" ELSE "on"]
    /\ UNCHANGED <<onRecord, pending, link, invite, made, reached, request>>

\* By cascade, all but the invitation it came from.
DeletePrincipal(a) ==
    /\ account[a] \in {"on", "off"} /\ account' = [account EXCEPT ![a] = "gone"]
    /\ onRecord' = [onRecord EXCEPT ![a] = Null]
    /\ pending' = [pending EXCEPT ![a] = Null]
    /\ link' = [s \in Secrets |-> IF link[s] # Null /\ link[s].of = a THEN Null ELSE link[s]]
    /\ UNCHANGED <<invite, made, reached, request>>

LapseAttempt(a) ==
    /\ pending[a] # Null /\ pending' = [pending EXCEPT ![a].live = FALSE]
    /\ UNCHANGED <<account, onRecord, link, invite, made, reached, request>>

LapseLink(s) ==
    /\ link[s] # Null /\ link' = [link EXCEPT ![s].live = FALSE]
    /\ UNCHANGED <<account, onRecord, pending, invite, made, reached, request>>

LapseInvite(s) ==
    /\ invite[s] # Null /\ invite' = [invite EXCEPT ![s].live = FALSE]
    /\ UNCHANGED <<account, onRecord, pending, link, made, reached, request>>

\* An error of the database, or the process stopping under a request.
GivesUp(h) ==
    /\ request[h].at # "idle" /\ request' = [request EXCEPT ![h] = Idle]
    /\ UNCHANGED <<tables, made, reached>>

Handler(h) ==
    \/ \E a \in Accounts, e \in Addresses, s \in Secrets : BeginRecovery(h, a, e, s)
    \/ PendingRecovery(h) \/ Sent(h) \/ SendFails(h) \/ Drop(h) \/ GivesUp(h)
    \/ ClearPendingRecovery(h) \/ VoidRecoveryLink(h) \/ WithdrawInvite(h)
    \/ \E e \in Addresses : RequestRecovery(h, e) \/ \E s \in Secrets : CreateInvite(h, e, s)
    \/ \E s \in Secrets : CreateRecoveryLink(h, s) \/ DeleteInvite(h, s)

RecoveryNext ==
    \/ \E h \in Handlers : Handler(h)
    \/ \E a \in Accounts : \/ \E s \in Secrets \cup {Null} : ConfirmRecovery(a, s)
                           \/ \E s \in Secrets : HandLink(a, s) \/ AcceptInvite(s, a)
                           \/ ClearRecovery(a) \/ SetDisabled(a) \/ DeletePrincipal(a) \/ LapseAttempt(a)
    \/ \E s \in Secrets : HandInvite(s) \/ UseRecoveryLink(s) \/ LapseLink(s) \/ LapseInvite(s)

RecoverySpec == RecoveryInit /\ [][RecoveryNext]_recoveryVars

(***************************************************************************)
(* Properties.                                                             *)
(***************************************************************************)
\* The tables and the requests; an attempt is never guessed at more often
\* than MaxRecoveryAttempts, and rows are those of accounts that exist.
RecoveryTypeOK ==
    /\ account \in [Accounts -> {"none", "on", "off", "gone"}]
    /\ onRecord \in [Accounts -> Addresses \cup {Null}]
    /\ pending \in [Accounts -> Attempt \cup {Null}]
    /\ link \in [Secrets -> RecoveryLink \cup {Null}] /\ invite \in [Secrets -> Invite \cup {Null}]
    /\ made \subseteq Secrets /\ reached \in [Addresses \cup {Null} -> SUBSET Secrets]
    /\ request \in [Handlers -> Request]

\* What still proves an address has reached no other place than that inbox:
\* however attempts replace one another while their mail is on its way, a code
\* that works was read there, and so was an invitation that was sent there.
ProofsGoHome ==
    \A e \in Addresses \cup {Null} :
        /\ \A a \in Accounts : pending[a] # Null /\ pending[a].secret \in reached[e] => e = pending[a].email
        /\ \A s \in reached[e] : invite[s] # Null /\ invite[s].email # Null => e = invite[s].email

\* An address on record is on record for one account only, and an account that
\* could recover still can: its address goes when it is given up or is proved
\* by another account, never for an attempt that was begun, failed or lapsed.
ProvedStaysProved ==
    [][\A a \in Accounts :
          /\ onRecord[a] # Null /\ onRecord'[a] = Null /\ account'[a] # "gone"
             => ClearRecovery(a) \/ \E b \in Accounts : onRecord'[b] = onRecord[a]
          /\ onRecord'[a] # Null => \A b \in Accounts \ {a} : onRecord'[b] # onRecord'[a]]_recoveryVars

\* A link that was used, or closed by the use of another, stays on record as
\* just that: it neither opens again nor, by a mail heard to have failed after
\* it got through, is written down as never used.
SpentStaysSpent ==
    [][\A s \in Secrets : link[s] # Null /\ link[s].state # "out" /\ link'[s] # Null
          => link'[s].state = link[s].state]_recoveryVars

\* "Nothing was sent, so nothing is waiting" (api/account.go:243): when one
\* code could not be sent, no attempt is dropped whose own code reached its inbox.
NothingWaiting ==
    [][\A h \in Handlers :
          LET p == pending[request[h].by]
          IN  request[h].kind = "code" /\ ClearPendingRecovery(h) /\ p # Null
                 => p.secret = request[h].secret \/ ~Known(p.secret)]_recoveryVars
=============================================================================
