------------------------------- MODULE Accounts -------------------------------
(***************************************************************************)
(* The accounts and the ways into them: signup, login, the entrance with   *)
(* Google that finds, links or creates an account, the change of the       *)
(* password and the deletion, when their requests overlap.                 *)
(*                                                                         *)
(* A request is a process that runs once; one action is one access to the  *)
(* database, or one await of the hasher or of Google.  What becomes of the *)
(* tokens of a session is in Sessions: here a session is the fact that a   *)
(* request opened one.                                                     *)
(***************************************************************************)
EXTENDS Integers, FiniteSets

CONSTANTS
    Ids,            \* accounts there may be, in the order they are created
    Emails,
    Passwords,
    Subs,           \* Google accounts; their address may change and be anybody's
    Requests,
    SignupEnabled,
    NoEmail, NoPassword, NoSub, NoId

ASSUME SignupAssumption == SignupEnabled \in BOOLEAN
ASSUME IdsAssumption == Ids \subseteq Nat
ASSUME NullAssumption ==
    NoEmail \notin Emails /\ NoPassword \notin Passwords /\ NoSub \notin Subs /\ NoId \notin Ids

VARIABLES
    account,  \* the User table
    session,  \* the session each request opened
    request

accountVars == <<account, session, request>>

------------------------------------------------------------------------------
\* A deleted row keeps its id, so that no other takes it.
User == [state : {"mai", "vivo", "cancellato"}, email : Emails \cup {NoEmail},
         password : Passwords \cup {NoPassword}, sub : Subs \cup {NoSub}]
Never == [state |-> "mai", email |-> NoEmail, password |-> NoPassword, sub |-> NoSub]

\* `sub': the Google account it was opened with.
Session == [user : Ids \cup {NoId}, sub : Subs \cup {NoSub}]
NoSession == [user |-> NoId, sub |-> NoSub]

\* The next access, what the body carries, and the row found.
Request == [pc : {"nuova", "crea", "perIndirizzo", "collega", "rilegge", "emette",
                  "cambia", "cancella", "fatta"},
            email : Emails \cup {NoEmail}, password : Passwords \cup {NoPassword},
            sub : Subs \cup {NoSub}, verified : BOOLEAN, user : Ids \cup {NoId}]
New == [pc |-> "nuova", email |-> NoEmail, password |-> NoPassword, sub |-> NoSub,
        verified |-> FALSE, user |-> NoId]

AccountsTypeOK ==
    /\ account \in [Ids -> User]
    /\ session \in [Requests -> Session]
    /\ request \in [Requests -> Request]

Init ==
    /\ account = [i \in Ids |-> Never]
    /\ session = [x \in Requests |-> NoSession]
    /\ request = [x \in Requests |-> New]

Live == {i \in Ids : account[i].state = "vivo"}
ByEmail(e) == {i \in Live : account[i].email = e}
ByGoogleSub(s) == {i \in Live : account[i].sub = s}
NextId(i) == /\ i \in Ids /\ account[i].state = "mai"
             /\ \A j \in Ids : account[j].state = "mai" => i <= j

At(x, pc) == request[x].pc = pc
Become(x, r) == request' = [request EXCEPT ![x] = r]
Goes(x, pc) == Become(x, [request[x] EXCEPT !.pc = pc])
Found(x, pc, i) == Become(x, [request[x] EXCEPT !.pc = pc, !.user = i])
Ends(x) == Goes(x, "fatta")

------------------------------------------------------------------------------
(* The first access of each request, with its body.                        *)

\* The hash of the password is computed before the row is created.
Signup(x, e, p) ==
    /\ At(x, "nuova") /\ SignupEnabled
    /\ IF ByEmail(e) = {}
       THEN Become(x, [New EXCEPT !.pc = "crea", !.email = e, !.password = p])
       ELSE Ends(x)
    /\ UNCHANGED <<account, session>>

\* A wrong password, and an account without one, are refused alike.
Login(x, e, p) ==
    /\ At(x, "nuova")
    /\ \/ \E i \in ByEmail(e) : account[i].password = p
                               /\ Become(x, [New EXCEPT !.pc = "emette", !.user = i])
       \/ /\ \A i \in ByEmail(e) : account[i].password # p
          /\ Ends(x)
    /\ UNCHANGED <<account, session>>

\* loginWithGoogle, with the identity that identitaGoogle gave: by `sub' first.
LoginWithGoogle(x, s, e, verified) ==
    LET r == [New EXCEPT !.email = e, !.sub = s, !.verified = verified] IN
    /\ At(x, "nuova")
    /\ \/ \E i \in ByGoogleSub(s) : Become(x, [r EXCEPT !.pc = "emette", !.user = i])
       \/ ByGoogleSub(s) = {} /\ Become(x, [r EXCEPT !.pc = IF verified THEN "perIndirizzo" ELSE "fatta"])
    /\ UNCHANGED <<account, session>>

\* identitaGoogle gives no identity: Google does not confirm the token, cannot be asked,
\* or is not configured.
GoogleRefuses(x) ==
    /\ At(x, "nuova")
    /\ Ends(x)
    /\ UNCHANGED <<account, session>>

\* verificaProva: the password, or a fresh token of the Google account linked to the row.
Prova(i, p, s) ==
    \/ p # NoPassword /\ p = account[i].password
    \/ s # NoSub /\ s = account[i].sub

\* A request of somebody who is in: changePassword (with a new password, which may not be
\* the old one again) or deleteAccount.
Protected(x, i, p, s, pc, new) ==
    /\ At(x, "nuova") /\ i \in Live
    /\ \E y \in Requests : session[y].user = i
    /\ IF Prova(i, p, s) /\ (new = NoPassword \/ new # p)
       THEN Become(x, [New EXCEPT !.pc = pc, !.user = i, !.password = new, !.sub = s])
       ELSE Ends(x)
    /\ UNCHANGED <<account, session>>

ChangePassword(x, i, p, s, new) == Protected(x, i, p, s, "cambia", new)
DeleteAccount(x, i, p, s) == Protected(x, i, p, s, "cancella", NoPassword)

------------------------------------------------------------------------------
(* The accesses that follow.                                               *)

\* An entrance with Google that found no account is a signup, where signups are open.
Iscrive(x) == Goes(x, IF SignupEnabled THEN "crea" ELSE "fatta")

\* The address belongs to nobody, to an account without Google, or to one with another.
FindUserByEmail(x) ==
    LET r == request[x] IN
    /\ At(x, "perIndirizzo")
    /\ \/ \E i \in ByEmail(r.email) :
            IF account[i].sub = NoSub THEN Found(x, "collega", i) ELSE Ends(x)
       \/ ByEmail(r.email) = {} /\ Iscrive(x)
    /\ UNCHANGED <<account, session>>

\* createUser.  A row with this address or this `sub' makes the INSERT fail.
CreateUser(x) ==
    LET r == request[x] IN
    /\ At(x, "crea")
    /\ IF ByEmail(r.email) = {} /\ (r.sub = NoSub \/ ByGoogleSub(r.sub) = {})
       THEN \E i \in Ids :
              /\ NextId(i)
              /\ account' = [account EXCEPT ![i] = [state |-> "vivo", email |-> r.email,
                                                    password |-> r.password, sub |-> r.sub]]
              /\ Found(x, "emette", i)
       ELSE Ends(x) /\ UNCHANGED account
    /\ UNCHANGED session

\* Mutant: the write does not ask that no `sub' be there yet.
LinkGoogleMutant(x) ==
    LET r == request[x] IN
    /\ At(x, "collega")
    /\ IF r.user \in Live /\ ByGoogleSub(r.sub) = {}
       THEN account' = [account EXCEPT ![r.user].sub = r.sub] /\ Goes(x, "emette")
       ELSE UNCHANGED account /\ Goes(x, "rilegge")
    /\ UNCHANGED session

\* linkGoogle: the UPDATE asks again that no `sub' be there, and fails on a `sub' that
\* another account took meanwhile.  Its read-back finds the row unless it is deleted.
LinkGoogle(x) ==
    LET r == request[x] IN
    /\ At(x, "collega")
    /\ IF r.user \in Live /\ account[r.user].sub = NoSub
       THEN IF ByGoogleSub(r.sub) = {}
            THEN account' = [account EXCEPT ![r.user].sub = r.sub] /\ Goes(x, "emette")
            ELSE UNCHANGED account /\ Ends(x)
       ELSE UNCHANGED account /\ Goes(x, "rilegge")
    /\ UNCHANGED session

\* Mutant: whoever linked the account, this request enters.
RereadMutant(x) ==
    /\ At(x, "rilegge")
    /\ IF request[x].user \in Live THEN Goes(x, "emette") ELSE Ends(x)
    /\ UNCHANGED <<account, session>>

\* Somebody linked it first: this same Google account, or another.
Reread(x) ==
    /\ At(x, "rilegge")
    /\ \/ \E i \in ByGoogleSub(request[x].sub) : Found(x, "emette", i)
       \/ ByGoogleSub(request[x].sub) = {} /\ Ends(x)
    /\ UNCHANGED <<account, session>>

\* issueSession.  The token of an account that is no more is refused by its foreign key.
IssueSession(x) ==
    LET r == request[x] IN
    /\ At(x, "emette")
    /\ session' = IF r.user \in Live THEN [session EXCEPT ![x] = [user |-> r.user, sub |-> r.sub]]
                  ELSE session
    /\ Ends(x)
    /\ UNCHANGED account

\* changePassword revokes every session, and opens the one of its answer.
WritePassword(x) ==
    LET r == request[x] IN
    /\ At(x, "cambia")
    /\ IF r.user \in Live
       THEN /\ account' = [account EXCEPT ![r.user].password = r.password]
            /\ session' = [y \in Requests |-> IF session[y].user = r.user THEN NoSession ELSE session[y]]
            /\ Become(x, [r EXCEPT !.pc = "emette", !.sub = NoSub])
       ELSE UNCHANGED <<account, session>> /\ Ends(x)

\* deleteAccount: the row, and by cascade its sessions; refused while a recording is worked on.
Delete(x) ==
    LET r == request[x] IN
    /\ At(x, "cancella")
    /\ \/ /\ r.user \in Live
          /\ account' = [account EXCEPT ![r.user].state = "cancellato"]
          /\ session' = [y \in Requests |-> IF session[y].user = r.user THEN NoSession ELSE session[y]]
       \/ UNCHANGED <<account, session>>
    /\ Ends(x)

------------------------------------------------------------------------------
First(x) ==
    \/ \E e \in Emails, p \in Passwords : Signup(x, e, p) \/ Login(x, e, p)
    \/ \E s \in Subs, e \in Emails, v \in BOOLEAN : LoginWithGoogle(x, s, e, v)
    \/ GoogleRefuses(x)
    \/ \E i \in Ids : \E proof \in (Passwords \X {NoSub}) \cup ({NoPassword} \X Subs) :
          \/ DeleteAccount(x, i, proof[1], proof[2])
          \/ \E new \in Passwords : ChangePassword(x, i, proof[1], proof[2], new)

Next == \E x \in Requests :
    \/ First(x) \/ FindUserByEmail(x) \/ CreateUser(x) \/ LinkGoogle(x) \/ Reread(x)
    \/ IssueSession(x) \/ WritePassword(x) \/ Delete(x)

AccountsSpec == Init /\ [][Next]_accountVars

------------------------------------------------------------------------------
\* "un conto ha un solo account Google, e il `sub` non si sostituisce da qui"
\* (auth.service.ts:325): once linked, an account stays with its Google account.
GoogleSubIsForLife ==
    [][\A i \in Live : account[i].sub # NoSub => account'[i].sub = account[i].sub]_accountVars

\* Whoever enters with Google is in the account of that Google account, whatever links,
\* creations and deletions crossed the request.
GoogleSessionsFollowTheSub ==
    \A x \in Requests : session[x].sub # NoSub => account[session[x].user].sub = session[x].sub

\* "il collegamento chiede l'indirizzo verificato" (auth.service.ts:311): an account gets a
\* Google account only from a request for which Google guarantees the account's address.
LinkNeedsVerifiedAddress ==
    [][\A i \in Ids : account'[i].sub # account[i].sub =>
          \E x \in Requests : /\ request[x].pc # "fatta" /\ request'[x].pc = "emette"
                              /\ request[x].verified /\ request[x].email = account'[i].email
                              /\ request[x].sub = account'[i].sub]_accountVars

\* An account is deleted by its Google account, or by a password: a proof by Google is
\* still the one of the account when the rows go, however long ago it was verified.
DeletedByItsOwner ==
    [][\A i \in Live : account'[i].state = "cancellato" =>
          \E x \in Requests : /\ request[x].pc = "cancella" /\ request[x].user = i
                              /\ request[x].sub # NoSub => request[x].sub = account[i].sub]_accountVars

================================================================================
