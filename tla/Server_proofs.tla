----------------------------- MODULE Server_proofs -----------------------------
(***************************************************************************)
(* Two parts of the server that share no variable.                         *)
(*                                                                         *)
(* Sessions for any number of requests, tokens and families: a family has  *)
(* one live token, and what was closed stays closed.                       *)
(*                                                                         *)
(* AudioStore for any keys, any number of sweepers, any pages, blocks and  *)
(* bounds: what a row names is in the bucket, and only orphans are ever    *)
(* deleted from it.  These proofs rest on GraceAssumption: an upload is    *)
(* over before its object is old enough for a sweep.                       *)
(***************************************************************************)
EXTENDS Sessions, AudioStore, TLAPS

------------------------------------------------------------------------------
(* Sessions. *)

USE DEF Issued

\* Every token that was issued has a family, and a request that is about to
\* rotate a token names one.
TokensKnown ==
    /\ \A t \in Issued : token[t].family \in Families
    /\ \A x \in Requests : At(x, "ruota") => request[x].token \in Issued

SessionInv == SessionTypeOK /\ TokensKnown /\ OneLiveTokenPerFamily

LEMMA NewType == New \in Request /\ Done \in Request
    BY DEF New, Done, Request

LEMMA SessionInvInit == SessionInit => SessionInv
    BY NewType
    DEF SessionInit, SessionInv, SessionTypeOK, TokensKnown, OneLiveTokenPerFamily,
        NotIssued, Token, NoFamily, At, New

LEMMA IssuingType ==
    ASSUME NEW n \in Nat
    PROVE  /\ [New EXCEPT !.pc = "emette", !.password = n] \in Request
           /\ [New EXCEPT !.pc = "emette", !.password = n].pc = "emette"
    BY DEF New, Request

\* A request that moves on, the tokens and the password being left alone.
LEMMA OnlyRequest ==
    ASSUME SessionInv, NEW x \in Requests, NEW s \in Request,
           s.pc = "ruota" => s.token \in Issued,
           Become(x, s), UNCHANGED <<token, password>>
    PROVE  SessionInv'
<1>1. request' \in [Requests -> Request]
    BY DEF SessionInv, SessionTypeOK, Become
<1>2. \A y \in Requests : request'[y] = IF y = x THEN s ELSE request[y]
    BY DEF SessionInv, SessionTypeOK, Become
<1>3. Issued' = Issued
    OBVIOUS
<1>4. TokensKnown'
    BY <1>2, <1>3 DEF SessionInv, TokensKnown, At
<1> QED
    BY <1>1, <1>4 DEF SessionInv, SessionTypeOK, OneLiveTokenPerFamily

\* A revocation of known families is a state a request may be in.
LEMMA RevokingType ==
    ASSUME NEW families \in SUBSET Families
    PROVE  /\ Revoking(families) \in Request
           /\ [Revoking(families) EXCEPT !.changes = TRUE] \in Request
           /\ Revoking(families).pc = "revoca"
           /\ [Revoking(families) EXCEPT !.changes = TRUE].pc = "revoca"
    BY DEF Revoking, New, Request

LEMMA SessionInvNext ==
    ASSUME SessionInv, [SessionNext]_sessionVars
    PROVE  SessionInv'
<1>0. /\ token \in [Tokens -> Token] /\ \A t \in Tokens : token[t] \in Token
      /\ password \in Nat
      /\ request \in [Requests -> Request] /\ \A x \in Requests : request[x] \in Request
    BY DEF SessionInv, SessionTypeOK
<1>00. /\ \A t \in Issued : token[t].family \in Families
       /\ Opened \subseteq Families
    BY DEF SessionInv, TokensKnown, Opened
<1>1. ASSUME NEW x \in Requests, Login(x) PROVE SessionInv'
    BY <1>0, <1>1, IssuingType, OnlyRequest DEF Login
<1>2. ASSUME NEW x \in Requests, IssueSession(x) PROVE SessionInv'
    <2>1. PICK t \in Tokens, f \in Families :
            /\ IsNextToken(t)
            /\ IsNextFamily(f)
            /\ token' = [token EXCEPT ![t] = [state |-> "vivo", family |-> f,
                                              password |-> request[x].password]]
        BY <1>2 DEF IssueSession
    <2>2. /\ \A u \in Tokens : token'[u] = IF u = t
                THEN [state |-> "vivo", family |-> f, password |-> request[x].password]
                ELSE token[u]
          /\ request' = [request EXCEPT ![x] = Done] /\ password' = password
        BY <1>0, <1>2, <2>1 DEF IssueSession, Become
    <2>3. token[t].state = "mai" /\ \A u \in Issued : token[u].family # f
        BY <2>1 DEF IsNextToken, IsNextFamily, Opened
    <2>4. SessionTypeOK'
        BY <1>0, <2>1, <2>2, NewType DEF SessionTypeOK, Token, Request
    <2>5. TokensKnown'
        BY <1>0, <1>00, <2>2, <2>3 DEF SessionInv, TokensKnown, At, Done, New
    <2>6. OneLiveTokenPerFamily'
        BY <2>2, <2>3 DEF SessionInv, OneLiveTokenPerFamily
    <2> QED
        BY <2>4, <2>5, <2>6 DEF SessionInv
<1>3. ASSUME NEW x \in Requests, Refresh(x) PROVE SessionInv'
    <2>1. PICK t \in Issued :
            IF token[t].state = "vivo"
            THEN Become(x, [New EXCEPT !.pc = "ruota", !.token = t])
            ELSE Become(x, Revoking({token[t].family}))
        BY <1>3 DEF Refresh
    <2>2. /\ [New EXCEPT !.pc = "ruota", !.token = t] \in Request
          /\ [New EXCEPT !.pc = "ruota", !.token = t].token = t
        BY DEF New, Request
    <2>3. {token[t].family} \in SUBSET Families
        BY <1>00
    <2>4. UNCHANGED <<token, password>>
        BY <1>3 DEF Refresh
    <2>5. CASE token[t].state = "vivo"
        BY <2>1, <2>2, <2>4, <2>5, OnlyRequest
    <2>6. CASE token[t].state # "vivo"
        BY <2>1, <2>3, <2>4, <2>6, RevokingType, OnlyRequest
    <2> QED
        BY <2>5, <2>6
<1>4. ASSUME NEW x \in Requests, Rotate(x) PROVE SessionInv'
    <2> DEFINE t == request[x].token
    <2>0. t \in Issued /\ At(x, "ruota")
        BY <1>4 DEF Rotate, SessionInv, TokensKnown
    <2>1. request' = [request EXCEPT ![x] = Done] /\ password' = password
        BY <1>4 DEF Rotate, Become
    <2>2. CASE token[t].state # "vivo"
        BY <1>4, <2>2, NewType, OnlyRequest DEF Rotate, Done, New
    <2>3. CASE token[t].state = "vivo"
        <3>1. PICK u \in Tokens :
                /\ IsNextToken(u)
                /\ token' = [token EXCEPT ![t] = [token[t] EXCEPT !.state = "revocato"],
                                          ![u] = token[t]]
            BY <1>4, <2>3 DEF Rotate
        <3>2. token[u].state = "mai" /\ t \in Tokens /\ t # u
            BY <2>0, <2>3, <3>1 DEF IsNextToken
        <3>3. \A v \in Tokens :
                token'[v] = IF v = u THEN token[t]
                            ELSE IF v = t THEN [token[t] EXCEPT !.state = "revocato"]
                            ELSE token[v]
            BY <1>0, <3>1, <3>2
        <3>4. /\ [token[t] EXCEPT !.state = "revocato"] \in Token
              /\ [token[t] EXCEPT !.state = "revocato"].state = "revocato"
              /\ [token[t] EXCEPT !.state = "revocato"].family = token[t].family
            BY <1>0, <3>2 DEF Token
        <3>5. SessionTypeOK'
            BY <1>0, <2>1, <3>1, <3>2, <3>4, NewType DEF SessionTypeOK
        <3>6. TokensKnown'
            BY <1>0, <1>00, <2>0, <2>1, <3>2, <3>3, <3>4
            DEF SessionInv, TokensKnown, At, Done, New
        <3>7. OneLiveTokenPerFamily'
            <4>1. \A v \in Tokens :
                    token[v].state = "vivo" /\ token[v].family = token[t].family => v = t
                BY <2>3, <3>2 DEF SessionInv, OneLiveTokenPerFamily
            <4>2. \A v \in Tokens \ {u} :
                    token'[v].state = "vivo" => v # t /\ token'[v] = token[v]
                BY <3>3, <3>4
            <4>3. token'[u].family = token[t].family
                BY <3>3
            <4> HIDE DEF t
            <4>4. \A v \in Tokens \ {u} :
                    token'[v].state = "vivo" => token'[v].family # token'[u].family
                BY <4>1, <4>2, <4>3
            <4>5. \A v, w \in Tokens \ {u} :
                    /\ token'[v].state = "vivo"
                    /\ token'[w].state = "vivo"
                    /\ token'[v].family = token'[w].family
                    => v = w
                BY <4>2 DEF SessionInv, OneLiveTokenPerFamily
            <4> QED
                BY <4>4, <4>5 DEF OneLiveTokenPerFamily
        <3> QED
            BY <3>5, <3>6, <3>7 DEF SessionInv
    <2> QED
        BY <2>2, <2>3
<1>5. ASSUME NEW x \in Requests, Logout(x) PROVE SessionInv'
    <2>1. PICK t \in Issued : Become(x, Revoking({token[t].family}))
        BY <1>5 DEF Logout
    <2>2. {token[t].family} \in SUBSET Families
        BY <1>00
    <2> QED
        BY <1>5, <2>1, <2>2, RevokingType, OnlyRequest DEF Logout
<1>6. ASSUME NEW x \in Requests, RevokeOthers(x) PROVE SessionInv'
    <2>1. PICK families \in SUBSET Families : Become(x, Revoking(families))
        BY <1>6, <1>00 DEF RevokeOthers
    <2> QED
        BY <1>6, <2>1, RevokingType, OnlyRequest DEF RevokeOthers
<1>7. ASSUME NEW x \in Requests, ChangePassword(x) PROVE SessionInv'
    BY <1>7, RevokingType, OnlyRequest DEF ChangePassword
<1>8. ASSUME NEW x \in Requests, Revoke(x) PROVE SessionInv'
    <2> DEFINE s == [request[x] EXCEPT !.pc = "scrive", !.seen = Live(request[x].scope)]
    <2>1. s \in Request /\ s.pc = "scrive"
        BY <1>0 DEF Request, Live
    <2> QED
        BY <1>8, <2>1, OnlyRequest DEF Revoke
<1>9. ASSUME NEW x \in Requests, RevokeEnds(x) PROVE SessionInv'
    <2>1. \A t \in Tokens :
            token'[t] = IF t \in request[x].seen /\ token[t].state = "vivo"
                        THEN [token[t] EXCEPT !.state = "revocato"] ELSE token[t]
        BY <1>9 DEF RevokeEnds
    <2>2. \A t \in Tokens :
            /\ token'[t] \in Token
            /\ token'[t].family = token[t].family
            /\ token'[t].state = "vivo" => token[t].state = "vivo"
            /\ token'[t].state = "mai" <=> token[t].state = "mai"
        BY <1>0, <2>1 DEF Token
    <2>3. token' \in [Tokens -> Token]
        BY <1>9, <2>2 DEF RevokeEnds
    <2>4. password' \in Nat
        BY <1>0, <1>9 DEF RevokeEnds
    <2>5. PICK s \in Request : request' = [request EXCEPT ![x] = s] /\ s.pc # "ruota"
        <3>1. password + 1 \in Nat
            BY <1>0
        <3>2. Done.pc = "fatta"
            BY DEF Done, New
        <3>3. CASE request[x].changes
            BY <1>9, <3>1, <3>3, IssuingType DEF RevokeEnds, Become
        <3>4. CASE ~request[x].changes
            BY <1>9, <3>2, <3>4, NewType DEF RevokeEnds, Become
        <3> QED
            BY <3>3, <3>4
    <2>6. SessionTypeOK'
        BY <1>0, <2>3, <2>4, <2>5 DEF SessionTypeOK
    <2>7. TokensKnown'
        BY <1>0, <1>00, <2>2, <2>5 DEF SessionInv, TokensKnown, At
    <2>8. OneLiveTokenPerFamily'
        BY <2>2 DEF SessionInv, OneLiveTokenPerFamily
    <2> QED
        BY <2>6, <2>7, <2>8 DEF SessionInv
<1>10. CASE UNCHANGED sessionVars
    BY <1>10
    DEF sessionVars, SessionInv, SessionTypeOK, TokensKnown, OneLiveTokenPerFamily, At
<1> QED
    BY <1>1, <1>2, <1>3, <1>4, <1>5, <1>6, <1>7, <1>8, <1>9, <1>10 DEF SessionNext

LEMMA SessionInvAlways == SessionSpec => []SessionInv
    BY SessionInvInit, SessionInvNext, PTL DEF SessionSpec

\* The variables keep their types.
THEOREM SessionTypeCorrectness == SessionSpec => []SessionTypeOK
<1>1. SessionInv => SessionTypeOK
    BY DEF SessionInv
<1> QED
    BY <1>1, SessionInvAlways, PTL

\* However many tabs rotate the same token, a live family has one live token:
\* the compare-and-swap of rotateRefreshToken.
THEOREM OneLiveToken == SessionSpec => []OneLiveTokenPerFamily
<1>1. SessionInv => OneLiveTokenPerFamily
    BY DEF SessionInv
<1> QED
    BY <1>1, SessionInvAlways, PTL

\* No rotation, login or change of the password revives a family that was closed.
THEOREM ClosedStaysClosed == SessionSpec => ClosedFamilyStaysClosed
<1>1. ASSUME SessionInv, [SessionNext]_sessionVars,
             NEW f \in Opened, ~IsFamilyActive(f)
      PROVE  ~IsFamilyActive(f)'
    <2>0. /\ token \in [Tokens -> Token] /\ \A t \in Tokens : token[t] \in Token
          /\ \A t \in Tokens : ~(token[t].state = "vivo" /\ token[t].family = f)
        BY <1>1 DEF SessionInv, SessionTypeOK, IsFamilyActive, Live
    <2>1. SUFFICES \A t \in Tokens : ~(token'[t].state = "vivo" /\ token'[t].family = f)
        BY DEF IsFamilyActive, Live
    <2>2. ASSUME NEW x \in Requests, IssueSession(x)
          PROVE  \A t \in Tokens : ~(token'[t].state = "vivo" /\ token'[t].family = f)
        BY <2>0, <2>2 DEF IssueSession, IsNextFamily
    <2>3. ASSUME NEW x \in Requests, Rotate(x)
          PROVE  \A t \in Tokens : ~(token'[t].state = "vivo" /\ token'[t].family = f)
        <3> DEFINE t == request[x].token
        <3>1. t \in Tokens
            BY <1>1, <2>3 DEF Rotate, SessionInv, TokensKnown
        <3>2. CASE token[t].state # "vivo"
            BY <2>0, <2>3, <3>2 DEF Rotate
        <3>3. CASE token[t].state = "vivo"
            BY <2>0, <2>3, <3>1, <3>3 DEF Rotate, Token
        <3> QED
            BY <3>2, <3>3
    <2>4. ASSUME NEW x \in Requests, RevokeEnds(x)
          PROVE  \A t \in Tokens : ~(token'[t].state = "vivo" /\ token'[t].family = f)
        BY <2>0, <2>4 DEF RevokeEnds, Token
    <2>5. \/ token' = token
          \/ \E x \in Requests : IssueSession(x) \/ Rotate(x) \/ RevokeEnds(x)
        BY <1>1 DEF SessionNext, sessionVars, Login, Refresh, Logout, RevokeOthers,
                    ChangePassword, Revoke
    <2> QED
        BY <2>0, <2>2, <2>3, <2>4, <2>5
<1>2. SessionInv /\ [SessionNext]_sessionVars =>
        [\A f \in Opened : ~IsFamilyActive(f) => ~IsFamilyActive(f)']_sessionVars
    BY <1>1
<1> QED
    BY <1>2, SessionInvAlways, PTL DEF SessionSpec, ClosedFamilyStaysClosed

------------------------------------------------------------------------------
(* The audio objects. *)

USE DEF Ours, Named, AgeCap, PutObject, DeleteObject, TogliDalBucket

\* Nobody names k and nobody will: what may be deleted. It is for ever, because
\* a key is uploaded once.
Doomed(k) == k \in Ours /\ row[k] = "assente" /\ upload[k] = "finito"

\* The stages of an upload, against the row and the object.
UploadsInOrder ==
    \A k \in Keys :
        /\ row[k] # "assente" => k \in Ours \cap bucket /\ upload[k] = "finito"
        /\ upload[k] = "scritto" => /\ k \in Ours \cap bucket
                                    /\ age[k] <= MaxUpload
        /\ upload[k] = "nuovo" /\ k \in Ours => k \notin bucket
        /\ k \in Foreign => upload[k] = "nuovo"

\* What requests, an account's deletion and passes have in hand to delete.
InHandIsDoomed ==
    /\ \A k \in pending : Doomed(k)
    /\ \A k \in account.keys : upload[k] = "finito"
    /\ \A s \in Sweepers :
        /\ \A k \in sweeper[s].candidates : upload[k] # "nuovo"
        /\ \A k \in sweeper[s].orphans : Doomed(k)

AudioInv == AudioTypeOK /\ UploadsInOrder /\ InHandIsDoomed

LEMMA AtRestType == AtRest \in Sweeper
    BY GraceAssumption DEF AtRest, Sweeper

LEMMA AudioInvInit == AudioInit => AudioInv
<1> SUFFICES ASSUME AudioInit PROVE AudioInv
    OBVIOUS
<1>1. AudioTypeOK
    BY AtRestType, KeysAssumption, GraceAssumption DEF AudioInit, AudioTypeOK
<1>2. UploadsInOrder
    BY KeysAssumption DEF AudioInit, UploadsInOrder
<1>3. InHandIsDoomed
    BY DEF AudioInit, InHandIsDoomed, AtRest
<1> QED
    BY <1>1, <1>2, <1>3 DEF AudioInv

\* A pass that is replaced by one that is well typed and holds nothing else than
\* keys it may hold.
LEMMA SetPass ==
    ASSUME AudioInv, NEW s \in Sweepers, NEW p \in Sweeper,
           \A k \in p.candidates : upload[k] # "nuovo",
           \A k \in p.orphans : Doomed(k),
           Set(s, p), UNCHANGED <<row, upload>>
    PROVE  /\ sweeper' \in [Sweepers -> Sweeper]
           /\ \A z \in Sweepers :
                /\ \A k \in sweeper'[z].candidates : upload'[k] # "nuovo"
                /\ \A k \in sweeper'[z].orphans : Doomed(k)'
<1>1. sweeper \in [Sweepers -> Sweeper]
    BY DEF AudioInv, AudioTypeOK
<1>2. sweeper' = [sweeper EXCEPT ![s] = p]
    BY DEF Set
<1>3. \A z \in Sweepers : sweeper'[z] = IF z = s THEN p ELSE sweeper[z]
    BY <1>1, <1>2
<1>4. \A k : Doomed(k)' <=> Doomed(k)
    BY DEF Doomed
<1>5. upload' = upload
    OBVIOUS
<1> QED
    BY <1>1, <1>2, <1>3, <1>4, <1>5 DEF AudioInv, InHandIsDoomed

\* A step of a pass that leaves everybody else alone.
LEMMA OnlySweeper ==
    ASSUME AudioInv, NEW s \in Sweepers, NEW p \in Sweeper,
           \A k \in p.candidates : upload[k] # "nuovo",
           \A k \in p.orphans : Doomed(k),
           Set(s, p), faults' \in Nat,
           UNCHANGED <<bucket, age, row, upload, pending, account>>
    PROVE  AudioInv'
<1>1. /\ sweeper' \in [Sweepers -> Sweeper]
      /\ \A z \in Sweepers :
            /\ \A k \in sweeper'[z].candidates : upload'[k] # "nuovo"
            /\ \A k \in sweeper'[z].orphans : Doomed(k)'
    BY SetPass
<1>2. AudioTypeOK'
    BY <1>1 DEF AudioInv, AudioTypeOK
<1>3. UploadsInOrder'
    BY DEF AudioInv, UploadsInOrder
<1>4. InHandIsDoomed'
    BY <1>1 DEF AudioInv, InHandIsDoomed, Doomed
<1> QED
    BY <1>2, <1>3, <1>4 DEF AudioInv

LEMMA AudioInvNext ==
    ASSUME AudioInv, [AudioNext]_audioVars
    PROVE  AudioInv'
<1> USE DEF AudioInv
<1>0. /\ bucket \subseteq Keys /\ age \in [Keys -> 0 .. AgeCap]
      /\ row \in [Keys -> {"assente", "ferma", "inLavorazione"}]
      /\ upload \in [Keys -> {"nuovo", "scritto", "finito"}]
      /\ pending \subseteq Ours
      /\ account \in [state : {"vivo", "lette", "cancellato"}, keys : SUBSET Ours]
      /\ sweeper \in [Sweepers -> Sweeper] /\ faults \in Nat
      /\ \A s \in Sweepers : sweeper[s] \in Sweeper
    BY DEF AudioTypeOK
<1>00. GRACE \in Nat /\ MaxUpload \in Nat /\ MaxPass \in Nat /\ MaxUpload < GRACE
    BY GraceAssumption
<1>1. ASSUME NEW k \in Keys, Put(k) PROVE AudioInv'
    <2>1. AudioTypeOK'
        BY <1>0, <1>00, <1>1 DEF Put, AudioTypeOK
    <2>2. UploadsInOrder'
        BY <1>0, <1>00, <1>1 DEF Put, UploadsInOrder
    <2>3. InHandIsDoomed'
        BY <1>0, <1>1 DEF Put, InHandIsDoomed, Doomed, Sweeper
    <2> QED
        BY <2>1, <2>2, <2>3
<1>2. ASSUME NEW k \in Keys, CreateRow(k) PROVE AudioInv'
    <2>1. AudioTypeOK'
        BY <1>0, <1>2 DEF CreateRow, AudioTypeOK
    <2>2. UploadsInOrder'
        BY <1>0, <1>2 DEF CreateRow, UploadsInOrder
    <2>3. InHandIsDoomed'
        BY <1>0, <1>2 DEF CreateRow, InHandIsDoomed, Doomed, Sweeper
    <2> QED
        BY <2>1, <2>2, <2>3
<1>3. ASSUME NEW k \in Keys, UploadFails(k) PROVE AudioInv'
    <2>1. AudioTypeOK'
        BY <1>0, <1>3 DEF UploadFails, AudioTypeOK
    <2>2. UploadsInOrder'
        BY <1>0, <1>3 DEF UploadFails, UploadsInOrder
    <2>3. InHandIsDoomed'
        BY <1>0, <1>3 DEF UploadFails, InHandIsDoomed, Doomed, Sweeper
    <2> QED
        BY <2>1, <2>2, <2>3
<1>4. ASSUME NEW k \in Keys, Work(k) PROVE AudioInv'
    <2>1. AudioTypeOK'
        BY <1>0, <1>4 DEF Work, AudioTypeOK
    <2>2. UploadsInOrder'
        BY <1>0, <1>4 DEF Work, UploadsInOrder
    <2>3. InHandIsDoomed'
        BY <1>0, <1>4 DEF Work, InHandIsDoomed, Doomed, Sweeper
    <2> QED
        BY <2>1, <2>2, <2>3
<1>5. ASSUME NEW k \in Keys, Remove(k) PROVE AudioInv'
    <2>0. k \in Ours /\ upload[k] = "finito"
        BY <1>0, <1>5 DEF Remove, UploadsInOrder
    <2>1. AudioTypeOK'
        BY <1>0, <1>5, <2>0 DEF Remove, AudioTypeOK
    <2>2. UploadsInOrder'
        BY <1>0, <1>5 DEF Remove, UploadsInOrder
    <2>3. InHandIsDoomed'
        BY <1>0, <1>5, <2>0 DEF Remove, InHandIsDoomed, Doomed, Sweeper
    <2> QED
        BY <2>1, <2>2, <2>3
<1>6. ASSUME NEW k \in Keys, DeleteAudio(k) PROVE AudioInv'
    <2>0. Doomed(k)
        BY <1>6 DEF DeleteAudio, InHandIsDoomed
    <2>1. AudioTypeOK'
        BY <1>0, <1>6 DEF DeleteAudio, AudioTypeOK
    <2>2. UploadsInOrder'
        BY <1>0, <1>6, <2>0 DEF DeleteAudio, UploadsInOrder, Doomed
    <2>3. InHandIsDoomed'
        BY <1>0, <1>6 DEF DeleteAudio, InHandIsDoomed, Doomed
    <2> QED
        BY <2>1, <2>2, <2>3
<1>7. ASSUME AccountRead PROVE AudioInv'
    <2>0. \A k \in Named : k \in Ours /\ upload[k] = "finito"
        BY <1>0 DEF UploadsInOrder
    <2>1. AudioTypeOK'
        BY <1>0, <1>7, <2>0 DEF AccountRead, AudioTypeOK
    <2>2. UploadsInOrder'
        BY <1>7 DEF AccountRead, UploadsInOrder
    <2>3. InHandIsDoomed'
        BY <1>7, <2>0 DEF AccountRead, InHandIsDoomed, Doomed
    <2> QED
        BY <2>1, <2>2, <2>3
<1>8. ASSUME AccountDelete PROVE AudioInv'
    <2>1. AudioTypeOK'
        BY <1>0, <1>8 DEF AccountDelete, AudioTypeOK
    <2>2. UploadsInOrder'
        BY <1>0, <1>8 DEF AccountDelete, UploadsInOrder
    <2>3. InHandIsDoomed'
        BY <1>0, <1>8 DEF AccountDelete, InHandIsDoomed, Doomed
    <2> QED
        BY <2>1, <2>2, <2>3
<1>9. ASSUME AccountRollback PROVE AudioInv'
    <2>1. AudioTypeOK'
        BY <1>0, <1>9 DEF AccountRollback, AudioTypeOK
    <2>2. UploadsInOrder'
        BY <1>9 DEF AccountRollback, UploadsInOrder
    <2>3. InHandIsDoomed'
        BY <1>9 DEF AccountRollback, InHandIsDoomed, Doomed
    <2> QED
        BY <2>1, <2>2, <2>3
<1>10. ASSUME NEW s \in Sweepers, StartPass(s) PROVE AudioInv'
    <2>1. [AtRest EXCEPT !.running = TRUE] \in Sweeper
        BY AtRestType DEF AtRest, Sweeper
    <2> QED
        BY <1>0, <1>10, <2>1, OnlySweeper DEF StartPass, AtRest
<1>11. ASSUME NEW s \in Sweepers, ListPage(s) PROVE AudioInv'
    <2> DEFINE page == List(sweeper[s].cursor)
    <2>1. PICK cursor \in page \cup {sweeper[s].cursor} :
            Set(s, [sweeper[s] EXCEPT !.candidates = @ \cup (page \cap Ours),
                                      !.cursor = cursor,
                                      !.last = IsLast(sweeper[s].cursor)])
        BY <1>11 DEF ListPage
    <2> DEFINE p == [sweeper[s] EXCEPT !.candidates = @ \cup (page \cap Ours),
                                       !.cursor = cursor,
                                       !.last = IsLast(sweeper[s].cursor)]
    <2>2. page \subseteq bucket
        BY DEF List, Ahead, FirstOf
    <2>3. cursor \in Nat
        BY <1>0, <2>1, <2>2, KeysAssumption DEF Sweeper
    <2>4. p \in Sweeper
        BY <1>0, <2>2, <2>3 DEF Sweeper, IsLast
    <2>5. /\ p.candidates = sweeper[s].candidates \cup (page \cap Ours)
          /\ p.orphans = sweeper[s].orphans
        BY <1>0 DEF Sweeper
    <2>6. \A k \in p.candidates : upload[k] # "nuovo"
        BY <1>0, <2>2, <2>5 DEF InHandIsDoomed, UploadsInOrder
    <2>7. \A k \in p.orphans : Doomed(k)
        BY <2>5 DEF InHandIsDoomed
    <2> HIDE DEF p, page
    <2>8. Set(s, p)
        BY <2>1 DEF p
    <2> QED
        BY <1>0, <1>11, <2>4, <2>6, <2>7, <2>8, OnlySweeper DEF ListPage
<1>12. ASSUME NEW s \in Sweepers, Confronta(s) PROVE AudioInv'
    <2> DEFINE block == FirstOf(BLOCCO, sweeper[s].candidates)
               found == {k \in block \ Named : age[k] >= GRACE + sweeper[s].lag}
               p == [sweeper[s] EXCEPT !.candidates = @ \ block, !.orphans = found]
    <2>1. Set(s, p)
        BY <1>12 DEF Confronta
    <2>2. block \subseteq sweeper[s].candidates
        BY DEF FirstOf
    <2>3. sweeper[s].candidates \subseteq Ours /\ sweeper[s].lag \in Nat
        BY <1>0, <1>00 DEF Sweeper
    <2>4. \A k \in found : Doomed(k)
        <3> SUFFICES ASSUME NEW k \in found PROVE Doomed(k)
            OBVIOUS
        <3>1. k \in Ours /\ row[k] = "assente" /\ upload[k] # "nuovo"
            BY <2>2, <2>3 DEF InHandIsDoomed
        <3>2. age[k] > MaxUpload
            BY <1>0, <1>00, <2>3, <3>1
        <3> QED
            BY <1>0, <1>00, <3>1, <3>2 DEF Doomed, UploadsInOrder
    <2>5. p \in Sweeper
        BY <1>0, <2>2, <2>3 DEF Sweeper
    <2>6. p.candidates = sweeper[s].candidates \ block /\ p.orphans = found
        BY <1>0 DEF Sweeper
    <2>7. \A k \in p.candidates : upload[k] # "nuovo"
        BY <2>6 DEF InHandIsDoomed
    <2>8. \A k \in p.orphans : Doomed(k)
        BY <2>4, <2>6
    <2> HIDE DEF p
    <2> QED
        BY <1>0, <1>12, <2>1, <2>5, <2>7, <2>8, OnlySweeper DEF Confronta
<1>13. ASSUME NEW s \in Sweepers, DeleteOrphan(s) PROVE AudioInv'
    <2>1. PICK k \in sweeper[s].orphans :
            /\ Set(s, [sweeper[s] EXCEPT !.orphans = @ \ {k}])
            /\ \/ bucket' = bucket \ {k} /\ UNCHANGED faults
               \/ faults < MaxFaults /\ faults' = faults + 1 /\ UNCHANGED bucket
            /\ UNCHANGED <<age, row, upload, pending, account>>
        BY <1>13 DEF DeleteOrphan
    <2> DEFINE p == [sweeper[s] EXCEPT !.orphans = @ \ {k}]
    <2>2. p \in Sweeper
        BY <1>0 DEF Sweeper
    <2>3. p.candidates = sweeper[s].candidates /\ p.orphans = sweeper[s].orphans \ {k}
        BY <1>0 DEF Sweeper
    <2>4. /\ \A j \in p.candidates : upload[j] # "nuovo"
          /\ \A j \in p.orphans : Doomed(j)
          /\ Doomed(k)
        BY <2>3 DEF InHandIsDoomed
    <2>5. Set(s, p) /\ UNCHANGED <<row, upload>>
        BY <2>1
    <2> HIDE DEF p
    <2>6. /\ sweeper' \in [Sweepers -> Sweeper]
          /\ \A z \in Sweepers :
                /\ \A j \in sweeper'[z].candidates : upload'[j] # "nuovo"
                /\ \A j \in sweeper'[z].orphans : Doomed(j)'
        BY <2>2, <2>4, <2>5, SetPass
    <2>7. bucket' \subseteq bucket /\ bucket \subseteq bucket' \cup {k} /\ faults' \in Nat
        BY <1>0, <2>1
    <2>8. AudioTypeOK'
        BY <1>0, <2>1, <2>6, <2>7 DEF AudioTypeOK
    <2>9. UploadsInOrder'
        BY <1>0, <2>1, <2>4, <2>7 DEF UploadsInOrder, Doomed
    <2>10. InHandIsDoomed'
        BY <2>1, <2>6 DEF InHandIsDoomed, Doomed
    <2> QED
        BY <2>8, <2>9, <2>10
<1>14. ASSUME NEW s \in Sweepers, EndPass(s) \/ AbortPass(s) PROVE AudioInv'
    <2>1. Set(s, AtRest) /\ faults' \in Nat
        BY <1>0, <1>14 DEF EndPass, AbortPass
    <2>2. AtRest.candidates = {} /\ AtRest.orphans = {}
        BY DEF AtRest
    <2> QED
        BY <1>0, <1>14, <2>1, <2>2, AtRestType, OnlySweeper DEF EndPass, AbortPass
<1>15. ASSUME Tick PROVE AudioInv'
    <2>1. /\ UNCHANGED <<bucket, row, upload, pending, account, faults>>
          /\ age' = [k \in Keys |->
                        IF k \in bucket /\ age[k] < AgeCap THEN age[k] + 1 ELSE age[k]]
          /\ \A k \in Keys : upload[k] = "scritto" => age[k] < MaxUpload
        BY <1>15 DEF Tick
    <2>2. \A s \in Sweepers :
            /\ sweeper'[s] \in Sweeper
            /\ sweeper'[s].candidates = sweeper[s].candidates
            /\ sweeper'[s].orphans = sweeper[s].orphans
        <3> SUFFICES ASSUME NEW s \in Sweepers
                     PROVE  /\ sweeper'[s] \in Sweeper
                            /\ sweeper'[s].candidates = sweeper[s].candidates
                            /\ sweeper'[s].orphans = sweeper[s].orphans
            OBVIOUS
        <3>1. sweeper'[s] = IF sweeper[s].running
                            THEN [sweeper[s] EXCEPT !.lag = sweeper[s].lag + 1]
                            ELSE sweeper[s]
            BY <1>15 DEF Tick
        <3>2. sweeper[s].running => sweeper[s].lag + 1 \in 0 .. MaxPass
            BY <1>0, <1>00, <1>15 DEF Tick, Sweeper
        <3> QED
            BY <1>0, <3>1, <3>2 DEF Sweeper
    <2>3. sweeper' \in [Sweepers -> Sweeper]
        <3>1. sweeper' = [s \in Sweepers |-> sweeper'[s]]
            BY <1>15 DEF Tick
        <3> QED
            BY <2>2, <3>1
    <2>4. age' \in [Keys -> 0 .. AgeCap]
        BY <1>0, <1>00, <2>1
    <2>5. AudioTypeOK'
        BY <1>0, <2>1, <2>3, <2>4 DEF AudioTypeOK
    <2>6. UploadsInOrder'
        BY <1>0, <1>00, <2>1 DEF UploadsInOrder
    <2>7. InHandIsDoomed'
        BY <2>1, <2>2 DEF InHandIsDoomed, Doomed
    <2> QED
        BY <2>5, <2>6, <2>7
<1>16. CASE UNCHANGED audioVars
    BY <1>16 DEF audioVars, AudioTypeOK, UploadsInOrder, InHandIsDoomed, Doomed
<1> QED
    BY <1>1, <1>2, <1>3, <1>4, <1>5, <1>6, <1>7, <1>8, <1>9, <1>10, <1>11, <1>12,
       <1>13, <1>14, <1>15, <1>16 DEF AudioNext, EndUpload, SweepStep

LEMMA AudioInvAlways == AudioSpec => []AudioInv
    BY AudioInvInit, AudioInvNext, PTL DEF AudioSpec

\* The variables keep their types.
THEOREM AudioTypeCorrectness == AudioSpec => []AudioTypeOK
<1>1. AudioInv => AudioTypeOK
    BY DEF AudioInv
<1> QED
    BY <1>1, AudioInvAlways, PTL

\* What a row names is in the bucket, however many passes, deletions and uploads
\* overlap: recordings.service writes the object first and deletes it last.
THEOREM NamedAudioIsKept == AudioSpec => []NamedAudioExists
<1>1. AudioInv => NamedAudioExists
    BY DEF AudioInv, UploadsInOrder, NamedAudioExists
<1> QED
    BY <1>1, AudioInvAlways, PTL

\* Whoever deletes an object, nobody names it and nobody is uploading it.
THEOREM OnlyOrphansAreDeleted == AudioSpec => OnlyOrphansVanish
<1>1. ASSUME AudioInv, [AudioNext]_audioVars, NEW k \in bucket \ bucket'
      PROVE  k \in Ours /\ row[k] = "assente" /\ upload[k] = "finito"
    <2>1. \/ \E j \in Keys : DeleteAudio(j)
          \/ \E s \in Sweepers : DeleteOrphan(s)
          \/ bucket \subseteq bucket'
        BY <1>1 DEF AudioNext, audioVars, Put, EndUpload, CreateRow, UploadFails, Work,
                    Remove, AccountRead, AccountDelete, AccountRollback, SweepStep,
                    StartPass, ListPage, Confronta, EndPass, AbortPass, Tick
    <2>2. \/ k \in pending
          \/ \E s \in Sweepers : k \in sweeper[s].orphans
        BY <1>1, <2>1 DEF DeleteAudio, DeleteOrphan
    <2> QED
        BY <1>1, <2>2 DEF AudioInv, InHandIsDoomed, Doomed
<1>2. AudioInv /\ [AudioNext]_audioVars =>
        [\A k \in bucket \ bucket' :
            k \in Ours /\ row[k] = "assente" /\ upload[k] = "finito"]_audioVars
    BY <1>1
<1> QED
    BY <1>2, AudioInvAlways, PTL DEF AudioSpec, OnlyOrphansVanish
================================================================================
