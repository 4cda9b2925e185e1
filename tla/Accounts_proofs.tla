---------------------------- MODULE Accounts_proofs ----------------------------
(***************************************************************************)
(* What crossing requests cannot do to the Google account of an account,   *)
(* for any number of accounts and requests.  The rows are the memory the   *)
(* proof rests on: once there, a row keeps its address and its `sub'       *)
(* (RowsStay), so what a request has read of them stays true while it      *)
(* waits for its next access (Path), and of its session afterwards.        *)
(***************************************************************************)
EXTENDS Accounts, TLAPS

Exists(i) == i \in Ids /\ account[i].state # "mai"

\* A row that was never created has no `sub'.
Blank == \A i \in Ids : account[i].state = "mai" => account[i].sub = NoSub

\* What a request knows between two accesses.
Path(x) ==
    LET r == request[x] IN
    /\ r.pc = "perIndirizzo" => r.verified
    /\ r.pc = "crea" /\ r.sub # NoSub => r.verified
    /\ r.pc = "collega" => r.verified /\ Exists(r.user) /\ account[r.user].email = r.email
    /\ r.pc \in {"emette", "cancella"} /\ r.sub # NoSub =>
           Exists(r.user) /\ account[r.user].sub = r.sub

Entered(x) ==
    session[x].sub # NoSub =>
        Exists(session[x].user) /\ account[session[x].user].sub = session[x].sub

Known == AccountsTypeOK /\ Blank /\ \A x \in Requests : Path(x) /\ Entered(x)

\* What no step changes of a row.
RowsStay ==
    \A i \in Ids :
        /\ account[i].state # "mai" => /\ account'[i].state # "mai"
                                       /\ account'[i].email = account[i].email
        /\ account[i].sub # NoSub => account'[i].sub = account[i].sub

Stages == {"nuova", "crea", "perIndirizzo", "collega", "rilegge", "emette",
           "cambia", "cancella", "fatta"}

\* The pairs a protected request may prove itself with.
Proofs == (Passwords \X {NoSub}) \cup ({NoPassword} \X Subs)

------------------------------------------------------------------------------
LEMMA BecomeChangesOne ==
    ASSUME AccountsTypeOK, NEW x \in Requests, NEW r \in Request, Become(x, r)
    PROVE  /\ request' \in [Requests -> Request]
           /\ request'[x] = r
           /\ \A y \in Requests : y # x => request'[y] = request[y]
BY DEF AccountsTypeOK, Become

LEMMA GoesChangesOne ==
    ASSUME AccountsTypeOK, NEW x \in Requests, NEW pc \in Stages, Goes(x, pc)
    PROVE  /\ request' \in [Requests -> Request]
           /\ request'[x] = [request[x] EXCEPT !.pc = pc]
           /\ \A y \in Requests : y # x => request'[y] = request[y]
<1>1. [request[x] EXCEPT !.pc = pc] \in Request
    BY DEF AccountsTypeOK, Request, Stages
<1> QED
    BY <1>1, BecomeChangesOne DEF Goes

LEMMA FoundChangesOne ==
    ASSUME AccountsTypeOK, NEW x \in Requests, NEW pc \in Stages, NEW i \in Ids, Found(x, pc, i)
    PROVE  /\ request' \in [Requests -> Request]
           /\ request'[x] = [request[x] EXCEPT !.pc = pc, !.user = i]
           /\ \A y \in Requests : y # x => request'[y] = request[y]
<1>1. [request[x] EXCEPT !.pc = pc, !.user = i] \in Request
    BY DEF AccountsTypeOK, Request, Stages
<1> QED
    BY <1>1, BecomeChangesOne DEF Found

LEMMA EndsChangesOne ==
    ASSUME AccountsTypeOK, NEW x \in Requests, Ends(x)
    PROVE  /\ request' \in [Requests -> Request]
           /\ request'[x].pc = "fatta"
           /\ \A y \in Requests : y # x => request'[y] = request[y]
<1>1. /\ request' \in [Requests -> Request]
      /\ request'[x] = [request[x] EXCEPT !.pc = "fatta"]
      /\ \A y \in Requests : y # x => request'[y] = request[y]
    BY GoesChangesOne DEF Ends, Stages
<1> QED
    BY <1>1 DEF AccountsTypeOK, Request

\* A request none of whose facts moved still knows what it knew.
LEMMA PathStays ==
    ASSUME Known, RowsStay, NEW y \in Requests, request'[y] = request[y]
    PROVE  Path(y)'
<1>1. Path(y)
    BY DEF Known
<1>2. \A i : Exists(i) => Exists(i)' /\ account'[i].email = account[i].email
    BY DEF RowsStay, Exists
<1>3. \A i : Exists(i) /\ account[i].sub # NoSub => account'[i].sub = account[i].sub
    BY DEF RowsStay, Exists
<1> QED
    BY <1>1, <1>2, <1>3 DEF Path

LEMMA EndedKnowsNothing ==
    ASSUME NEW x \in Requests, request'[x].pc = "fatta"
    PROVE  Path(x)'
BY DEF Path

LEMMA EnteredStays ==
    ASSUME Known, RowsStay, NEW y \in Requests, session'[y] = session[y]
    PROVE  Entered(y)'
<1>1. Entered(y)
    BY DEF Known
<1>2. \A i : Exists(i) => Exists(i)'
    BY DEF RowsStay, Exists
<1>3. \A i : Exists(i) /\ account[i].sub # NoSub => account'[i].sub = account[i].sub
    BY DEF RowsStay, Exists
<1> QED
    BY <1>1, <1>2, <1>3 DEF Entered

------------------------------------------------------------------------------
(* Types.                                                                  *)

LEMMA FirstKeepsType ==
    ASSUME AccountsTypeOK, NEW x \in Requests, First(x)
    PROVE  AccountsTypeOK'
<1>1. UNCHANGED <<account, session>>
    BY DEF First, Signup, Login, LoginWithGoogle, GoogleRefuses, DeleteAccount, ChangePassword,
           Protected
<1>2. SUFFICES request' \in [Requests -> Request]
    BY <1>1 DEF AccountsTypeOK
<1>ends. ASSUME Ends(x) PROVE request' \in [Requests -> Request]
    BY <1>ends, EndsChangesOne
<1>3. ASSUME NEW e \in Emails, NEW p \in Passwords, Signup(x, e, p)
      PROVE  request' \in [Requests -> Request]
    <2>1. [New EXCEPT !.pc = "crea", !.email = e, !.password = p] \in Request
        BY DEF New, Request
    <2> QED
        BY <2>1, <1>3, <1>ends, BecomeChangesOne DEF Signup
<1>4. ASSUME NEW e \in Emails, NEW p \in Passwords, Login(x, e, p)
      PROVE  request' \in [Requests -> Request]
    <2>1. \A i \in ByEmail(e) : [New EXCEPT !.pc = "emette", !.user = i] \in Request
        BY DEF New, Request, ByEmail, Live
    <2> QED
        BY <2>1, <1>4, <1>ends, BecomeChangesOne DEF Login
<1>5. ASSUME NEW s \in Subs, NEW e \in Emails, NEW v \in BOOLEAN, LoginWithGoogle(x, s, e, v)
      PROVE  request' \in [Requests -> Request]
    <2> DEFINE r == [New EXCEPT !.email = e, !.sub = s, !.verified = v]
    <2>1. \A i \in ByGoogleSub(s) : [r EXCEPT !.pc = "emette", !.user = i] \in Request
        BY DEF New, Request, ByGoogleSub, Live
    <2>2. [r EXCEPT !.pc = IF v THEN "perIndirizzo" ELSE "fatta"] \in Request
        BY DEF New, Request
    <2> QED
        BY <2>1, <2>2, <1>5, BecomeChangesOne DEF LoginWithGoogle
<1>6. ASSUME GoogleRefuses(x)
      PROVE  request' \in [Requests -> Request]
    BY <1>6, <1>ends DEF GoogleRefuses
<1>7. ASSUME NEW i \in Ids, NEW proof \in Proofs, NEW pc \in {"cambia", "cancella"},
             NEW new \in Passwords \cup {NoPassword}, Protected(x, i, proof[1], proof[2], pc, new)
      PROVE  request' \in [Requests -> Request]
    <2>1. [New EXCEPT !.pc = pc, !.user = i, !.password = new, !.sub = proof[2]] \in Request
        BY DEF New, Request, Proofs
    <2> QED
        BY <2>1, <1>7, <1>ends, BecomeChangesOne DEF Protected
<1> QED
    BY <1>3, <1>4, <1>5, <1>6, <1>7 DEF First, Proofs, DeleteAccount, ChangePassword

LEMMA NextKeepsType ==
    ASSUME AccountsTypeOK, [Next]_accountVars
    PROVE  AccountsTypeOK'
<1>0. account \in [Ids -> User] /\ session \in [Requests -> Session] /\ request \in [Requests -> Request]
    BY DEF AccountsTypeOK
<1>1. CASE UNCHANGED accountVars
    BY <1>1 DEF accountVars, AccountsTypeOK
<1>2. ASSUME NEW x \in Requests, First(x)
      PROVE  AccountsTypeOK'
    BY <1>2, FirstKeepsType
<1>3. ASSUME NEW x \in Requests, FindUserByEmail(x)
      PROVE  AccountsTypeOK'
    <2>1. request' \in [Requests -> Request]
        BY <1>3, FoundChangesOne, GoesChangesOne, EndsChangesOne
           DEF FindUserByEmail, Iscrive, ByEmail, Live, Stages
    <2> QED
        BY <2>1, <1>0, <1>3 DEF FindUserByEmail, AccountsTypeOK
<1>4. ASSUME NEW x \in Requests, CreateUser(x)
      PROVE  AccountsTypeOK'
    <2>1. request' \in [Requests -> Request]
        BY <1>4, FoundChangesOne, EndsChangesOne DEF CreateUser, Stages
    <2>2. [state |-> "vivo", email |-> request[x].email, password |-> request[x].password,
           sub |-> request[x].sub] \in User
        BY <1>0 DEF Request, User
    <2>3. account' \in [Ids -> User]
        BY <2>2, <1>0, <1>4 DEF CreateUser
    <2> QED
        BY <2>1, <2>3, <1>0, <1>4 DEF CreateUser, AccountsTypeOK
<1>5. ASSUME NEW x \in Requests, LinkGoogle(x)
      PROVE  AccountsTypeOK'
    <2>1. request' \in [Requests -> Request]
        BY <1>5, GoesChangesOne, EndsChangesOne DEF LinkGoogle, Stages
    <2>2. account' \in [Ids -> User]
        BY <1>0, <1>5 DEF LinkGoogle, User, Request
    <2> QED
        BY <2>1, <2>2, <1>0, <1>5 DEF LinkGoogle, AccountsTypeOK
<1>6. ASSUME NEW x \in Requests, Reread(x)
      PROVE  AccountsTypeOK'
    <2>1. request' \in [Requests -> Request]
        BY <1>6, FoundChangesOne, EndsChangesOne DEF Reread, ByGoogleSub, Live, Stages
    <2> QED
        BY <2>1, <1>0, <1>6 DEF Reread, AccountsTypeOK
<1>7. ASSUME NEW x \in Requests, IssueSession(x)
      PROVE  AccountsTypeOK'
    <2>1. request' \in [Requests -> Request]
        BY <1>7, EndsChangesOne DEF IssueSession
    <2>2. [user |-> request[x].user, sub |-> request[x].sub] \in Session
        BY <1>0 DEF Request, Session
    <2>3. session' \in [Requests -> Session]
        BY <2>2, <1>0, <1>7 DEF IssueSession
    <2> QED
        BY <2>1, <2>3, <1>0, <1>7 DEF IssueSession, AccountsTypeOK
<1>8. ASSUME NEW x \in Requests, WritePassword(x)
      PROVE  AccountsTypeOK'
    <2>1. [request[x] EXCEPT !.pc = "emette", !.sub = NoSub] \in Request
        BY <1>0 DEF Request
    <2>2. request' \in [Requests -> Request]
        BY <2>1, <1>8, BecomeChangesOne, EndsChangesOne DEF WritePassword
    <2>3. account' \in [Ids -> User]
        BY <1>0, <1>8 DEF WritePassword, User, Request
    <2>4. session' \in [Requests -> Session]
        BY <1>0, <1>8 DEF WritePassword, Session, NoSession
    <2> QED
        BY <2>2, <2>3, <2>4 DEF AccountsTypeOK
<1>9. ASSUME NEW x \in Requests, Delete(x)
      PROVE  AccountsTypeOK'
    <2>1. request' \in [Requests -> Request]
        BY <1>9, EndsChangesOne DEF Delete
    <2>2. account' \in [Ids -> User]
        BY <1>0, <1>9 DEF Delete, User
    <2>3. session' \in [Requests -> Session]
        BY <1>0, <1>9 DEF Delete, Session, NoSession
    <2> QED
        BY <2>1, <2>2, <2>3 DEF AccountsTypeOK
<1> QED
    BY <1>1, <1>2, <1>3, <1>4, <1>5, <1>6, <1>7, <1>8, <1>9 DEF Next

\* Types: rows, sessions and requests stay what they are said to be.
THEOREM AccountsTypeCorrectness == AccountsSpec => []AccountsTypeOK
<1>1. Init => AccountsTypeOK
    BY DEF Init, AccountsTypeOK, Never, User, NoSession, Session, New, Request
<1>2. AccountsTypeOK /\ [Next]_accountVars => AccountsTypeOK'
    BY NextKeepsType
<1> QED
    BY <1>1, <1>2, PTL DEF AccountsSpec

------------------------------------------------------------------------------
(* The rows.                                                               *)

LEMMA NextKeepsRows ==
    ASSUME AccountsTypeOK, Blank, [Next]_accountVars
    PROVE  RowsStay /\ Blank'
<1>0. account \in [Ids -> User]
    BY DEF AccountsTypeOK
<1>1. ASSUME UNCHANGED account PROVE RowsStay /\ Blank'
    BY <1>1 DEF RowsStay, Blank
<1>2. CASE UNCHANGED accountVars
    BY <1>1, <1>2 DEF accountVars
<1>3. ASSUME NEW x \in Requests, First(x)
      PROVE  UNCHANGED account
    BY <1>3 DEF First, Signup, Login, LoginWithGoogle, GoogleRefuses, DeleteAccount,
                ChangePassword, Protected
<1>4. ASSUME NEW x \in Requests, CreateUser(x), ~ UNCHANGED account
      PROVE  RowsStay /\ Blank'
    <2>1. PICK i \in Ids :
             /\ account[i].state = "mai"
             /\ account' = [account EXCEPT ![i] = [state |-> "vivo", email |-> request[x].email,
                                   password |-> request[x].password, sub |-> request[x].sub]]
        BY <1>4 DEF CreateUser, NextId
    <2>2. account'[i].state = "vivo" /\ account[i].sub = NoSub
        BY <2>1, <1>0 DEF Blank
    <2>3. \A j \in Ids : j # i => account'[j] = account[j]
        BY <2>1, <1>0
    <2> QED
        BY <2>1, <2>2, <2>3 DEF RowsStay, Blank
<1>5. ASSUME NEW x \in Requests, LinkGoogle(x), ~ UNCHANGED account
      PROVE  RowsStay /\ Blank'
    <2> DEFINE i == request[x].user
    <2>1. /\ i \in Ids /\ account[i].state = "vivo" /\ account[i].sub = NoSub
          /\ account' = [account EXCEPT ![i].sub = request[x].sub]
        BY <1>5 DEF LinkGoogle, Live
    <2>2. account'[i].state = "vivo" /\ account'[i].email = account[i].email
        BY <2>1, <1>0 DEF User
    <2>3. \A j \in Ids : j # i => account'[j] = account[j]
        BY <2>1, <1>0
    <2> HIDE DEF i
    <2> QED
        BY <2>1, <2>2, <2>3 DEF RowsStay, Blank
<1>6. ASSUME NEW x \in Requests, WritePassword(x) \/ Delete(x), ~ UNCHANGED account
      PROVE  RowsStay /\ Blank'
    <2> DEFINE i == request[x].user
    <2>1. /\ i \in Ids /\ account[i].state = "vivo"
          /\ \/ account' = [account EXCEPT ![i].password = request[x].password]
             \/ account' = [account EXCEPT ![i].state = "cancellato"]
        BY <1>6 DEF WritePassword, Delete, Live
    <2>2. /\ account'[i].state # "mai" /\ account'[i].email = account[i].email
          /\ account'[i].sub = account[i].sub
        BY <2>1, <1>0 DEF User
    <2>3. \A j \in Ids : j # i => account'[j] = account[j]
        BY <2>1, <1>0
    <2> HIDE DEF i
    <2> QED
        BY <2>1, <2>2, <2>3 DEF RowsStay, Blank
<1>7. ASSUME NEW x \in Requests, FindUserByEmail(x) \/ Reread(x) \/ IssueSession(x)
      PROVE  UNCHANGED account
    BY <1>7 DEF FindUserByEmail, Reread, IssueSession
<1> QED
    BY <1>1, <1>2, <1>3, <1>4, <1>5, <1>6, <1>7 DEF Next

------------------------------------------------------------------------------
(* What a request knows.                                                   *)

\* The first access leaves a request knowing what it has just read.
LEMMA FirstKnows ==
    ASSUME Known, NEW x \in Requests, First(x), RowsStay
    PROVE  Path(x)' /\ \A y \in Requests : y # x => request'[y] = request[y]
<1>0. AccountsTypeOK
    BY DEF Known
<1>1. UNCHANGED account
    BY DEF First, Signup, Login, LoginWithGoogle, GoogleRefuses, DeleteAccount, ChangePassword,
           Protected
<1> DEFINE Others == \A y \in Requests : y # x => request'[y] = request[y]
<1>ends. ASSUME Ends(x) PROVE Path(x)' /\ Others
    BY <1>0, <1>ends, EndsChangesOne, EndedKnowsNothing
<1>to. ASSUME NEW r \in Request, Become(x, r)
       PROVE  request'[x] = r /\ Others
    BY <1>0, <1>to, BecomeChangesOne
<1>3. ASSUME NEW e \in Emails, NEW p \in Passwords, Signup(x, e, p)
      PROVE  Path(x)' /\ Others
    <2> DEFINE r == [New EXCEPT !.pc = "crea", !.email = e, !.password = p]
    <2>1. r \in Request /\ r.pc = "crea" /\ r.sub = NoSub
        BY DEF New, Request
    <2>2. ASSUME Become(x, r) PROVE Path(x)' /\ Others
        <3> HIDE DEF r
        <3> QED
            BY <2>1, <2>2, <1>to DEF Path
    <2> QED
        BY <2>2, <1>3, <1>ends DEF Signup
<1>4. ASSUME NEW e \in Emails, NEW p \in Passwords, Login(x, e, p)
      PROVE  Path(x)' /\ Others
    <2>1. ASSUME NEW i \in ByEmail(e), Become(x, [New EXCEPT !.pc = "emette", !.user = i])
          PROVE  Path(x)' /\ Others
        <3> DEFINE r == [New EXCEPT !.pc = "emette", !.user = i]
        <3>1. r \in Request /\ r.pc = "emette" /\ r.sub = NoSub
            BY DEF New, Request, ByEmail, Live
        <3>2. Become(x, r)
            BY <2>1
        <3> HIDE DEF r
        <3> QED
            BY <3>1, <3>2, <1>to DEF Path
    <2> QED
        BY <2>1, <1>4, <1>ends DEF Login
<1>5. ASSUME NEW s \in Subs, NEW e \in Emails, NEW v \in BOOLEAN, LoginWithGoogle(x, s, e, v)
      PROVE  Path(x)' /\ Others
    <2> DEFINE r == [New EXCEPT !.email = e, !.sub = s, !.verified = v]
    <2>1. ASSUME NEW i \in ByGoogleSub(s), Become(x, [r EXCEPT !.pc = "emette", !.user = i])
          PROVE  Path(x)' /\ Others
        <3> DEFINE q == [r EXCEPT !.pc = "emette", !.user = i]
        <3>1. q \in Request /\ q.pc = "emette" /\ q.user = i /\ q.sub = s
            BY DEF New, Request, ByGoogleSub, Live
        <3>2. Exists(i)' /\ account'[i].sub = s
            BY <1>1 DEF ByGoogleSub, Live, Exists
        <3>3. Become(x, q)
            BY <2>1
        <3> HIDE DEF q
        <3> QED
            BY <3>1, <3>2, <3>3, <1>to DEF Path
    <2>2. ASSUME Become(x, [r EXCEPT !.pc = IF v THEN "perIndirizzo" ELSE "fatta"])
          PROVE  Path(x)' /\ Others
        <3> DEFINE q == [r EXCEPT !.pc = IF v THEN "perIndirizzo" ELSE "fatta"]
        <3>1. /\ q \in Request /\ q.pc \in {"perIndirizzo", "fatta"}
              /\ q.pc = "perIndirizzo" => q.verified
            BY DEF New, Request
        <3>2. Become(x, q)
            BY <2>2
        <3> HIDE DEF q
        <3> QED
            BY <3>1, <3>2, <1>to DEF Path
    <2> QED
        BY <2>1, <2>2, <1>5 DEF LoginWithGoogle
<1>6. ASSUME GoogleRefuses(x)
      PROVE  Path(x)' /\ Others
    BY <1>6, <1>ends DEF GoogleRefuses
<1>7. ASSUME NEW i \in Ids, NEW proof \in Proofs, NEW pc \in {"cambia", "cancella"},
             NEW new \in Passwords \cup {NoPassword}, Protected(x, i, proof[1], proof[2], pc, new)
      PROVE  Path(x)' /\ Others
    <2> DEFINE r == [New EXCEPT !.pc = pc, !.user = i, !.password = new, !.sub = proof[2]]
    <2>1. r \in Request /\ r.pc = pc /\ r.user = i /\ r.sub = proof[2]
        BY DEF New, Request, Proofs
    <2>2. ASSUME Become(x, r), Prova(i, proof[1], proof[2]) PROVE Path(x)' /\ Others
        <3>1. request'[x] = r /\ Others
            BY <2>1, <2>2, <1>to
        <3>2. Exists(i)'
            BY <1>1, <1>7 DEF Protected, Live, Exists
        <3>3. proof[2] # NoSub => account'[i].sub = proof[2]
            <4>1. proof[2] # NoSub => proof[1] = NoPassword
                BY DEF Proofs
            <4> QED
                BY <4>1, <1>1, <2>2 DEF Prova
        <3> HIDE DEF r
        <3> QED
            BY <2>1, <3>1, <3>2, <3>3 DEF Path
    <2> QED
        BY <2>2, <1>7, <1>ends DEF Protected
<1> QED
    BY <1>3, <1>4, <1>5, <1>6, <1>7 DEF First, Proofs, DeleteAccount, ChangePassword

\* So does every later access.
LEMMA LaterKnows ==
    ASSUME Known, NEW x \in Requests, RowsStay,
           \/ FindUserByEmail(x) \/ CreateUser(x) \/ LinkGoogle(x) \/ Reread(x)
           \/ IssueSession(x) \/ WritePassword(x) \/ Delete(x)
    PROVE  Path(x)' /\ \A y \in Requests : y # x => request'[y] = request[y]
<1>0. /\ AccountsTypeOK /\ account \in [Ids -> User] /\ request[x] \in Request
      /\ Path(x) /\ Blank
    BY DEF Known, AccountsTypeOK
<1> DEFINE Others == \A y \in Requests : y # x => request'[y] = request[y]
<1>ends. ASSUME Ends(x) PROVE Path(x)' /\ Others
    BY <1>0, <1>ends, EndsChangesOne, EndedKnowsNothing
<1>goes. ASSUME NEW pc \in Stages, Goes(x, pc)
         PROVE  /\ request'[x].pc = pc /\ request'[x].sub = request[x].sub
                /\ request'[x].user = request[x].user /\ request'[x].email = request[x].email
                /\ request'[x].verified = request[x].verified /\ Others
    <2> DEFINE r == [request[x] EXCEPT !.pc = pc]
    <2>1. request'[x] = r /\ Others
        BY <1>0, <1>goes, GoesChangesOne
    <2>2. /\ r.pc = pc /\ r.sub = request[x].sub /\ r.user = request[x].user
          /\ r.email = request[x].email /\ r.verified = request[x].verified
        BY <1>0 DEF Request
    <2> HIDE DEF r
    <2> QED
        BY <2>1, <2>2
<1>found. ASSUME NEW pc \in Stages, NEW i \in Ids, Found(x, pc, i)
          PROVE  /\ request'[x].pc = pc /\ request'[x].sub = request[x].sub
                 /\ request'[x].user = i /\ request'[x].email = request[x].email
                 /\ request'[x].verified = request[x].verified /\ Others
    <2> DEFINE r == [request[x] EXCEPT !.pc = pc, !.user = i]
    <2>1. request'[x] = r /\ Others
        BY <1>0, <1>found, FoundChangesOne
    <2>2. /\ r.pc = pc /\ r.sub = request[x].sub /\ r.user = i
          /\ r.email = request[x].email /\ r.verified = request[x].verified
        BY <1>0 DEF Request
    <2> HIDE DEF r
    <2> QED
        BY <2>1, <2>2
<1>1. CASE FindUserByEmail(x)
    <2>1. request[x].verified /\ UNCHANGED account
        BY <1>0, <1>1 DEF FindUserByEmail, Path, At
    <2>2. ASSUME NEW i \in ByEmail(request[x].email), Found(x, "collega", i)
          PROVE  Path(x)' /\ Others
        <3>1. i \in Ids /\ Exists(i)' /\ account'[i].email = request[x].email
            BY <2>1 DEF ByEmail, Live, Exists
        <3> QED
            BY <3>1, <2>1, <2>2, <1>found DEF Path, Stages
    <2>3. ASSUME NEW pc \in {"crea", "fatta"}, Goes(x, pc)
          PROVE  Path(x)' /\ Others
        BY <2>1, <2>3, <1>goes DEF Path, Stages
    <2> QED
        BY <2>2, <2>3, <1>1, <1>ends DEF FindUserByEmail, Iscrive
<1>2. CASE CreateUser(x)
    <2>1. ASSUME NEW i \in Ids, Found(x, "emette", i),
                 account' = [account EXCEPT ![i] = [state |-> "vivo", email |-> request[x].email,
                                   password |-> request[x].password, sub |-> request[x].sub]]
          PROVE  Path(x)' /\ Others
        <3>1. Exists(i)' /\ account'[i].sub = request[x].sub
            BY <2>1, <1>0 DEF Exists
        <3> QED
            BY <3>1, <2>1, <1>found DEF Path, Stages
    <2> QED
        BY <2>1, <1>2, <1>ends DEF CreateUser
<1>3. CASE LinkGoogle(x)
    <2>1. ASSUME request[x].user \in Live, Goes(x, "emette"),
                 account' = [account EXCEPT ![request[x].user].sub = request[x].sub]
          PROVE  Path(x)' /\ Others
        <3> DEFINE i == request[x].user
        <3>1. i \in Ids /\ account'[i].state = "vivo" /\ account'[i].sub = request[x].sub
            BY <2>1, <1>0 DEF Live, User
        <3> QED
            BY <3>1, <2>1, <1>goes DEF Path, Stages, Exists
    <2>2. ASSUME Goes(x, "rilegge") PROVE Path(x)' /\ Others
        BY <2>2, <1>goes DEF Path, Stages
    <2> QED
        BY <2>1, <2>2, <1>3, <1>ends DEF LinkGoogle
<1>4. CASE Reread(x)
    <2>1. ASSUME NEW i \in ByGoogleSub(request[x].sub), Found(x, "emette", i)
          PROVE  Path(x)' /\ Others
        <3>1. i \in Ids /\ Exists(i)' /\ account'[i].sub = request[x].sub
            BY <1>4 DEF Reread, ByGoogleSub, Live, Exists
        <3> QED
            BY <3>1, <2>1, <1>found DEF Path, Stages
    <2> QED
        BY <2>1, <1>4, <1>ends DEF Reread
<1>5. CASE IssueSession(x)
    BY <1>5, <1>ends DEF IssueSession
<1>6. CASE WritePassword(x)
    <2> DEFINE r == [request[x] EXCEPT !.pc = "emette", !.sub = NoSub]
    <2>1. r \in Request /\ r.pc = "emette" /\ r.sub = NoSub
        BY <1>0 DEF Request
    <2>2. ASSUME Become(x, r) PROVE Path(x)' /\ Others
        <3>1. request'[x] = r /\ Others
            BY <1>0, <2>1, <2>2, BecomeChangesOne
        <3> HIDE DEF r
        <3> QED
            BY <2>1, <3>1 DEF Path
    <2> QED
        BY <2>2, <1>6, <1>ends DEF WritePassword
<1>7. CASE Delete(x)
    BY <1>7, <1>ends DEF Delete
<1> QED
    BY <1>1, <1>2, <1>3, <1>4, <1>5, <1>6, <1>7

LEMMA NextKeepsKnown ==
    ASSUME Known, [Next]_accountVars
    PROVE  Known'
<1>0. AccountsTypeOK /\ Blank
    BY DEF Known
<1>1. AccountsTypeOK'
    BY <1>0, NextKeepsType
<1>2. RowsStay /\ Blank'
    BY <1>0, NextKeepsRows
<1>3. ASSUME NEW y \in Requests PROVE Path(y)'
    <2>1. CASE UNCHANGED accountVars
        BY <2>1, <1>2, PathStays DEF accountVars
    <2>2. CASE Next
        <3>1. PICK x \in Requests :
                 \/ First(x) \/ FindUserByEmail(x) \/ CreateUser(x) \/ LinkGoogle(x) \/ Reread(x)
                 \/ IssueSession(x) \/ WritePassword(x) \/ Delete(x)
            BY <2>2 DEF Next
        <3>2. Path(x)' /\ \A z \in Requests : z # x => request'[z] = request[z]
            BY <3>1, <1>2, FirstKnows, LaterKnows
        <3> QED
            BY <3>2, <1>2, PathStays
    <2> QED
        BY <2>1, <2>2
<1>4. ASSUME NEW y \in Requests PROVE Entered(y)'
    <2>1. CASE session'[y] = session[y]
        BY <2>1, <1>2, EnteredStays
    <2>2. CASE session'[y] = NoSession
        BY <2>2 DEF Entered, NoSession
    <2>3. CASE session'[y] # session[y] /\ session'[y] # NoSession
        <3>1. session \in [Requests -> Session]
            BY <1>0 DEF AccountsTypeOK
        <3>2. PICK x \in Requests : IssueSession(x)
            <4>1. ASSUME NEW x \in Requests, First(x) PROVE UNCHANGED session
                BY <4>1 DEF First, Signup, Login, LoginWithGoogle, GoogleRefuses, DeleteAccount,
                            ChangePassword, Protected
            <4>2. ASSUME NEW x \in Requests,
                         FindUserByEmail(x) \/ CreateUser(x) \/ LinkGoogle(x) \/ Reread(x)
                  PROVE  UNCHANGED session
                BY <4>2 DEF FindUserByEmail, CreateUser, LinkGoogle, Reread
            <4>3. ASSUME NEW x \in Requests, WritePassword(x) \/ Delete(x)
                  PROVE  session'[y] \in {session[y], NoSession}
                BY <4>3 DEF WritePassword, Delete
            <4> QED
                BY <2>3, <4>1, <4>2, <4>3 DEF Next, accountVars
        <3>3. /\ x = y /\ UNCHANGED account /\ Path(x) /\ request[x].pc = "emette"
              /\ session'[x] = [user |-> request[x].user, sub |-> request[x].sub]
            BY <2>3, <3>1, <3>2 DEF IssueSession, At, Known
        <3> QED
            BY <3>3 DEF Path, Entered, Exists
    <2> QED
        BY <2>1, <2>2, <2>3
<1> QED
    BY <1>1, <1>2, <1>3, <1>4 DEF Known

LEMMA InitKnows == Init => Known
<1>1. Init => AccountsTypeOK
    BY DEF Init, AccountsTypeOK, Never, User, NoSession, Session, New, Request
<1>2. Init => Blank
    BY DEF Init, Blank, Never
<1>3. Init => \A x \in Requests : Path(x) /\ Entered(x)
    BY DEF Init, Path, Entered, New, NoSession
<1> QED
    BY <1>1, <1>2, <1>3 DEF Known

LEMMA AlwaysKnown == AccountsSpec => []Known
BY InitKnows, NextKeepsKnown, PTL DEF AccountsSpec

------------------------------------------------------------------------------
\* Whatever links, creations and deletions cross, an account once linked stays with its
\* Google account (linkGoogle's `googleSub: null' in the WHERE).
THEOREM GoogleSubStays == AccountsSpec => GoogleSubIsForLife
<1>1. Known /\ [Next]_accountVars =>
         [\A i \in Live : account[i].sub # NoSub => account'[i].sub = account[i].sub]_accountVars
    BY NextKeepsRows DEF Known, RowsStay, Live
<1> QED
    BY <1>1, AlwaysKnown, PTL DEF AccountsSpec, GoogleSubIsForLife

\* Whoever enters with Google is in the account of that Google account.
THEOREM GoogleSessionsAreOfTheSub == AccountsSpec => []GoogleSessionsFollowTheSub
<1>1. Known => GoogleSessionsFollowTheSub
    BY DEF Known, Entered, GoogleSessionsFollowTheSub
<1> QED
    BY <1>1, AlwaysKnown, PTL

\* An account gets a Google account only from a request for which Google guarantees the
\* account's address, read in an earlier access (auth.service.ts:311).
THEOREM LinkedByTheVerifiedAddress == AccountsSpec => LinkNeedsVerifiedAddress
<1> DEFINE A == \A i \in Ids : account'[i].sub # account[i].sub =>
                  \E x \in Requests : /\ request[x].pc # "fatta" /\ request'[x].pc = "emette"
                                      /\ request[x].verified /\ request[x].email = account'[i].email
                                      /\ request[x].sub = account'[i].sub
<1>1. ASSUME Known, [Next]_accountVars PROVE [A]_accountVars
    <2>0. AccountsTypeOK /\ account \in [Ids -> User] /\ \A x \in Requests : request[x] \in Request
        BY <1>1 DEF Known, AccountsTypeOK
    <2>1. SUFFICES ASSUME Next, NEW i \in Ids, account'[i].sub # account[i].sub
                   PROVE  \E x \in Requests :
                            /\ request[x].pc # "fatta" /\ request'[x].pc = "emette"
                            /\ request[x].verified /\ request[x].email = account'[i].email
                            /\ request[x].sub = account'[i].sub
        BY <1>1
    <2>2. PICK x \in Requests : CreateUser(x) \/ LinkGoogle(x)
        <3>1. ASSUME NEW x \in Requests, First(x) PROVE UNCHANGED account
            BY <3>1 DEF First, Signup, Login, LoginWithGoogle, GoogleRefuses, DeleteAccount,
                        ChangePassword, Protected
        <3>2. ASSUME NEW x \in Requests, FindUserByEmail(x) \/ Reread(x) \/ IssueSession(x)
              PROVE  UNCHANGED account
            BY <3>2 DEF FindUserByEmail, Reread, IssueSession
        <3>3. ASSUME NEW x \in Requests, WritePassword(x) \/ Delete(x)
              PROVE  account'[i].sub = account[i].sub
            BY <3>3, <2>0 DEF WritePassword, Delete, User
        <3> QED
            BY <2>1, <3>1, <3>2, <3>3 DEF Next
    <2>3. Path(x)
        BY <1>1 DEF Known
    <2>4. CASE CreateUser(x)
        <3>1. PICK j \in Ids :
                 /\ account[j].state = "mai" /\ Found(x, "emette", j)
                 /\ account' = [account EXCEPT ![j] = [state |-> "vivo", email |-> request[x].email,
                                      password |-> request[x].password, sub |-> request[x].sub]]
            BY <2>1, <2>4 DEF CreateUser, NextId
        <3>2. /\ j = i /\ account'[i].sub = request[x].sub
              /\ account'[i].email = request[x].email
            BY <2>0, <2>1, <3>1
        <3>3. request[x].sub # NoSub
            BY <1>1, <2>1, <3>1, <3>2 DEF Known, Blank
        <3>4. request'[x].pc = "emette"
            <4>1. AccountsTypeOK /\ Found(x, "emette", j) /\ "emette" \in Stages
                BY <2>0, <3>1 DEF Stages
            <4>2. request'[x] = [request[x] EXCEPT !.pc = "emette", !.user = j]
                BY <4>1, FoundChangesOne
            <4>3. [request[x] EXCEPT !.pc = "emette", !.user = j].pc = "emette"
                BY <2>0 DEF Request
            <4> QED
                BY <4>2, <4>3
        <3> QED
            BY <2>3, <2>4, <3>2, <3>3, <3>4 DEF Path, CreateUser, At
    <2>5. CASE LinkGoogle(x)
        <3>1. /\ account' = [account EXCEPT ![request[x].user].sub = request[x].sub]
              /\ Goes(x, "emette") /\ request[x].pc = "collega"
            BY <2>1, <2>5 DEF LinkGoogle, At
        <3>2. /\ request[x].user = i /\ account'[i].sub = request[x].sub
              /\ account'[i].email = account[i].email
            BY <2>0, <2>1, <3>1 DEF User
        <3>3. request'[x].pc = "emette"
            <4>1. AccountsTypeOK /\ Goes(x, "emette") /\ "emette" \in Stages
                BY <2>0, <3>1 DEF Stages
            <4>2. request'[x] = [request[x] EXCEPT !.pc = "emette"]
                BY <4>1, GoesChangesOne
            <4>3. [request[x] EXCEPT !.pc = "emette"].pc = "emette"
                BY <2>0 DEF Request
            <4> QED
                BY <4>2, <4>3
        <3> QED
            BY <2>3, <3>1, <3>2, <3>3 DEF Path
    <2> QED
        BY <2>2, <2>4, <2>5
<1> HIDE DEF A
<1>2. Known /\ [Next]_accountVars => [A]_accountVars
    BY <1>1
<1>3. AccountsSpec => [][A]_accountVars
    BY <1>2, AlwaysKnown, PTL DEF AccountsSpec
<1> QED
    BY <1>3 DEF A, LinkNeedsVerifiedAddress

\* An account is deleted by its own Google account, or by a password: the proof given when
\* the request began still holds when the rows go (verificaProva, auth.service.ts).
THEOREM DeletionsAreProved == AccountsSpec => DeletedByItsOwner
<1> DEFINE A == \A i \in Live : account'[i].state = "cancellato" =>
                  \E x \in Requests : /\ request[x].pc = "cancella" /\ request[x].user = i
                                      /\ request[x].sub # NoSub => request[x].sub = account[i].sub
<1>1. ASSUME Known, [Next]_accountVars PROVE [A]_accountVars
    <2>0. account \in [Ids -> User]
        BY <1>1 DEF Known, AccountsTypeOK
    <2>1. SUFFICES ASSUME Next, NEW i \in Ids, account[i].state = "vivo",
                          account'[i].state = "cancellato"
                   PROVE  \E x \in Requests :
                            /\ request[x].pc = "cancella" /\ request[x].user = i
                            /\ request[x].sub # NoSub => request[x].sub = account[i].sub
        BY <1>1 DEF Live
    <2>2. PICK x \in Requests : Delete(x)
        <3>1. ASSUME NEW x \in Requests, First(x) PROVE UNCHANGED account
            BY <3>1 DEF First, Signup, Login, LoginWithGoogle, GoogleRefuses, DeleteAccount,
                        ChangePassword, Protected
        <3>2. ASSUME NEW x \in Requests, FindUserByEmail(x) \/ Reread(x) \/ IssueSession(x)
              PROVE  UNCHANGED account
            BY <3>2 DEF FindUserByEmail, Reread, IssueSession
        <3>3. ASSUME NEW x \in Requests, CreateUser(x) \/ LinkGoogle(x) \/ WritePassword(x)
              PROVE  account'[i].state \in {"vivo"}
            BY <3>3, <2>0, <2>1 DEF CreateUser, LinkGoogle, WritePassword, User, Live
        <3> QED
            BY <2>1, <3>1, <3>2, <3>3 DEF Next
    <2>3. request[x].pc = "cancella" /\ request[x].user = i
        BY <2>0, <2>1, <2>2 DEF Delete, At
    <2>4. request[x].sub # NoSub => account[i].sub = request[x].sub
        BY <1>1, <2>3 DEF Known, Path
    <2> QED
        BY <2>3, <2>4
<1> HIDE DEF A
<1>2. Known /\ [Next]_accountVars => [A]_accountVars
    BY <1>1
<1>3. AccountsSpec => [][A]_accountVars
    BY <1>2, AlwaysKnown, PTL DEF AccountsSpec
<1> QED
    BY <1>3 DEF A, DeletedByItsOwner
================================================================================
