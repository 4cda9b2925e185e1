------------------------------- MODULE Sessions -------------------------------
(***************************************************************************)
(* The sessions of one account: logins, the rotation of refresh tokens     *)
(* with the detection of reuse, logout, the closing of other sessions and  *)
(* the change of the password.                                             *)
(*                                                                         *)
(* A request is a process that runs once; one action is one access to the  *)
(* database.  Under READ COMMITTED the UPDATE of a revocation sees the     *)
(* rows committed when it starts and asks the condition again of each row  *)
(* it locks, so it is two steps: the rows it sees, and what it writes.     *)
(* Any token ever issued may be presented by anybody, again and again.     *)
(***************************************************************************)
EXTENDS Integers, FiniteSets

CONSTANTS
    Tokens,    \* refresh tokens there may be, in the order they are issued
    Families,  \* families there may be, in the order they are opened
    Requests   \* requests there may be

ASSUME TokensAssumption == Tokens \subseteq Nat \ {0}
ASSUME FamiliesAssumption == Families \subseteq Nat \ {0}

VARIABLES
    token,     \* the RefreshToken table
    password,  \* the version of the password of the account
    request    \* the state of each request

sessionVars == <<token, password, request>>

------------------------------------------------------------------------------
NoFamily == 0

\* `password' is the version that opened the family of the token.
Token == [state    : {"mai", "vivo", "revocato"},
          family   : Families \cup {NoFamily},
          password : Nat]

NotIssued == [state |-> "mai", family |-> NoFamily, password |-> 0]

\* Where a request is: the access it performs next.
Request == [pc       : {"nuova", "emette", "ruota", "revoca", "scrive", "fatta"},
            token    : Tokens \cup {0},
            scope    : SUBSET Families,
            seen     : SUBSET Tokens,
            password : Nat,
            changes  : BOOLEAN]

New == [pc |-> "nuova", token |-> 0, scope |-> {}, seen |-> {},
        password |-> 0, changes |-> FALSE]
Done == [New EXCEPT !.pc = "fatta"]

SessionTypeOK ==
    /\ token \in [Tokens -> Token]
    /\ password \in Nat
    /\ request \in [Requests -> Request]

SessionInit ==
    /\ token = [t \in Tokens |-> NotIssued]
    /\ password = 1
    /\ request = [x \in Requests |-> New]

------------------------------------------------------------------------------
Issued == {t \in Tokens : token[t].state # "mai"}
Live(families) == {t \in Tokens : token[t].state = "vivo" /\ token[t].family \in families}

\* isFamilyActive, what requireAuth asks on every request.
IsFamilyActive(f) == Live({f}) # {}

IsNextToken(t) == t \in Tokens \ Issued /\ \A u \in Tokens \ Issued : t <= u
Opened == {token[t].family : t \in Issued}
IsNextFamily(f) == f \in Families \ Opened /\ \A g \in Families \ Opened : f <= g

Become(x, state) == request' = [request EXCEPT ![x] = state]
Starts(x) == request[x].pc = "nuova"
At(x, pc) == request[x].pc = pc

\* A revocation of the live tokens of some families is about to start.
Revoking(families) == [New EXCEPT !.pc = "revoca", !.scope = families]

------------------------------------------------------------------------------
\* login: the row of the user is read and the password verified against it.
Login(x) ==
    /\ Starts(x)
    /\ Become(x, [New EXCEPT !.pc = "emette", !.password = password])
    /\ UNCHANGED <<token, password>>

\* issueSession, at the end of login and of changePassword: a new family.
IssueSession(x) ==
    /\ At(x, "emette")
    /\ \E t \in Tokens, f \in Families :
        /\ IsNextToken(t)
        /\ IsNextFamily(f)
        /\ token' = [token EXCEPT ![t] = [state |-> "vivo", family |-> f,
                                          password |-> request[x].password]]
    /\ Become(x, Done)
    /\ UNCHANGED password

\* refresh: the row of the token is read. One that was revoked is a reuse, and
\* its whole family is to be closed.
Refresh(x) ==
    /\ Starts(x)
    /\ \E t \in Issued :
        IF token[t].state = "vivo"
        THEN Become(x, [New EXCEPT !.pc = "ruota", !.token = t])
        ELSE Become(x, Revoking({token[t].family}))
    /\ UNCHANGED <<token, password>>

\* Mutant: the token that was presented is not revoked.
RotateMutant(x) ==
    LET t == request[x].token IN
    /\ At(x, "ruota")
    /\ IF token[t].state = "vivo"
       THEN \E u \in Tokens : IsNextToken(u) /\ token' = [token EXCEPT ![u] = token[t]]
       ELSE UNCHANGED token
    /\ Become(x, Done)
    /\ UNCHANGED password
\* Mutant: the token is revoked by id, without asking that it still be live.
RotateBlindMutant(x) ==
    LET t == request[x].token IN
    /\ At(x, "ruota")
    /\ \E u \in Tokens :
        /\ IsNextToken(u)
        /\ token' = [token EXCEPT ![t].state = "revocato",
                                  ![u] = [token[t] EXCEPT !.state = "vivo"]]
    /\ Become(x, Done)
    /\ UNCHANGED password
\* rotateRefreshToken: INSERT of the next and compare-and-swap of the current
\* in one transaction, rolled back when somebody else got there first.
Rotate(x) ==
    LET t == request[x].token IN
    /\ At(x, "ruota")
    /\ IF token[t].state = "vivo"
       THEN \E u \in Tokens :
                /\ IsNextToken(u)
                /\ token' = [token EXCEPT ![t] = [token[t] EXCEPT !.state = "revocato"],
                                          ![u] = token[t]]
       ELSE UNCHANGED token
    /\ Become(x, Done)
    /\ UNCHANGED password

\* logout: the token names the family, live or not.
Logout(x) ==
    /\ Starts(x)
    /\ \E t \in Issued : Become(x, Revoking({token[t].family}))
    /\ UNCHANGED <<token, password>>

\* revokeOtherSessions and revokeSession: from a live family, with the password.
RevokeOthers(x) ==
    /\ Starts(x)
    /\ \E f \in Families :
        /\ IsFamilyActive(f)
        /\ \/ Become(x, Revoking(Families \ {f}))
           \/ \E g \in Opened \ {f} : Become(x, Revoking({g}))
    /\ UNCHANGED <<token, password>>

\* changePassword: from a live family, with the password of now.
ChangePassword(x) ==
    /\ Starts(x)
    /\ \E f \in Families : IsFamilyActive(f)
    /\ Become(x, [Revoking(Families) EXCEPT !.changes = TRUE])
    /\ UNCHANGED <<token, password>>

\* The UPDATE starts. Two changes of the password follow one another: the row
\* of the user is locked from before this step to the COMMIT.
Revoke(x) ==
    /\ At(x, "revoca")
    /\ request[x].changes =>
        \A y \in Requests : ~(At(y, "scrive") /\ request[y].changes)
    /\ Become(x, [request[x] EXCEPT !.pc = "scrive",
                                    !.seen = Live(request[x].scope)])
    /\ UNCHANGED <<token, password>>

\* It ends, and with it the transaction: what it saw and is still live is
\* revoked. A change of the password goes on to open a new family.
RevokeEnds(x) ==
    /\ At(x, "scrive")
    /\ token' = [t \in Tokens |->
                    IF t \in request[x].seen /\ token[t].state = "vivo"
                    THEN [token[t] EXCEPT !.state = "revocato"] ELSE token[t]]
    /\ IF request[x].changes
       THEN /\ password' = password + 1
            /\ Become(x, [New EXCEPT !.pc = "emette", !.password = password + 1])
       ELSE /\ Become(x, Done)
            /\ UNCHANGED password

SessionNext ==
    \E x \in Requests :
        \/ Login(x) \/ IssueSession(x)
        \/ Refresh(x) \/ Rotate(x)
        \/ Logout(x) \/ RevokeOthers(x) \/ ChangePassword(x)
        \/ Revoke(x) \/ RevokeEnds(x)

SessionSpec == SessionInit /\ [][SessionNext]_sessionVars

------------------------------------------------------------------------------
(* Properties. *)

\* A live family has exactly one live token, so two tabs that rotate the same
\* token do not leave two live chains.
OneLiveTokenPerFamily ==
    \A t, u \in Tokens :
        /\ token[t].state = "vivo"
        /\ token[u].state = "vivo"
        /\ token[t].family = token[u].family
        => t = u

\* A family that was closed stays closed, whatever rotation was under way.
ClosedFamilyStaysClosed ==
    [][\A f \in Opened : ~IsFamilyActive(f) => ~IsFamilyActive(f)']_sessionVars

==============================================================================
