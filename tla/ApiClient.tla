------------------------------- MODULE ApiClient -------------------------------
(***************************************************************************)
(* The HTTP client of the app, in several tabs of one browser: the access  *)
(* token each tab keeps in memory, the refresh token they share in the     *)
(* storage, the rotation that answers a 401, and the session the screens   *)
(* believe in.                                                             *)
(*                                                                         *)
(* The server handles one request in one step: what its own steps do when  *)
(* they overlap is in Sessions.  Here requests and answers travel, get     *)
(* lost and cross.  JavaScript runs one tab to its next await, so what a   *)
(* tab does with an answer is one step, with all the calls that waited for *)
(* the same promise.                                                       *)
(***************************************************************************)
EXTENDS Integers, FiniteSets

CONSTANTS
    Tabs,
    MaxCalls,            \* bound: calls of the client, numbered as they start
    MaxTokens,           \* bound: refresh tokens, numbered as they are issued
    MaxFaults,           \* bound: requests and answers the network loses
    GIRI_DI_SVUOTAMENTO  \* requests emptyTrash makes at most

ASSUME MaxTokensAssumption == MaxTokens \in Nat \ {0}
ASSUME MaxCallsAssumption == MaxCalls \in Nat \ {0}
ASSUME GiriAssumption == GIRI_DI_SVUOTAMENTO \in Nat \ {0}
ASSUME TabsAssumption == Tabs # {}
ASSUME FaultsAssumption == MaxFaults \in Nat

VARIABLES
    token,   \* the server: state and family of each refresh token
    stored,  \* localStorage: the refresh token, or NoToken
    access,  \* the access token in the memory of each tab
    flight,  \* the rotation each tab has under way
    shown,   \* the session state each tab's screens see
    call,    \* the calls
    faults,
    history  \* read by the properties only

vars == <<token, stored, access, flight, shown, call, faults, history>>

------------------------------------------------------------------------------
Calls == 1 .. MaxCalls
Tokens == 1 .. MaxTokens
NoToken == 0
NoFamily == 0

Token == [state : {"mai", "vivo", "revocato"}, family : 0 .. MaxTokens]

\* An access token names its family; `fresh' until it expires.
Access == [family : 0 .. MaxTokens, fresh : BOOLEAN]
NoAccess == [family |-> NoFamily, fresh |-> FALSE]

\* `live': the token was live when it was sent.
Flight == [pc : {"niente", "inviata", "ruotata", "respinta"},
           token : 0 .. MaxTokens, live : BOOLEAN]
NoFlight == [pc |-> "niente", token |-> NoToken, live |-> FALSE]

\* What the methods of the client differ in.  login stands for signup and Google too,
\* legge for every authenticated call that has no hand on the session.
Kinds == {"login", "riprende", "legge", "svuota", "password", "cancella", "esce"}
Auth == {"legge", "svuota", "password", "cancella"}
Persists == {"login", "password"}
AsksForProof == {"login", "password", "cancella"}

Call == [pc     : {"nuova", "inviata", "risposta", "aspetta", "riuscita", "fallita"},
         kind   : Kinds,
         tab    : Tabs,
         retry  : BOOLEAN,
         with   : Access,
         token  : 0 .. MaxTokens,
         answer : {"nessuna", "ok", "401", "corpo", "rete", "ancora"},
         round  : 0 .. GIRI_DI_SVUOTAMENTO - 1,
         ran    : 0 .. GIRI_DI_SVUOTAMENTO + 2]

ClientTypeOK ==
    /\ token \in [Tokens -> Token]
    /\ stored \in Tokens \cup {NoToken}
    /\ access \in [Tabs -> Access]
    /\ flight \in [Tabs -> Flight]
    /\ shown \in [Tabs -> {"sconosciuta", "assente", "attiva"}]
    /\ call \in [Calls -> Call]
    /\ faults \in 0 .. MaxFaults
    /\ history \in [loaded : SUBSET Tabs, tripped : BOOLEAN]

Issued == {t \in Tokens : token[t].state # "mai"}
Family(f) == {t \in Tokens : token[t].family = f}
IsFamilyActive(f) == \E t \in Family(f) : token[t].state = "vivo"
FreshToken(t) == t \in Tokens \ Issued /\ \A u \in Tokens \ Issued : t <= u

NewCall(kind, b) ==
    [pc |-> "nuova", kind |-> kind, tab |-> b, retry |-> kind \in Auth, with |-> NoAccess,
     token |-> NoToken, answer |-> "nessuna", round |-> 0, ran |-> 0]

\* A device that was used before: one live session, in the storage.
Init ==
    /\ token = [t \in Tokens |-> IF t = 1 THEN [state |-> "vivo", family |-> 1]
                                 ELSE [state |-> "mai", family |-> NoFamily]]
    /\ stored = 1
    /\ access = [b \in Tabs |-> NoAccess]
    /\ flight = [b \in Tabs |-> NoFlight]
    /\ shown = [b \in Tabs |-> "sconosciuta"]
    /\ call = [x \in Calls |-> NewCall("legge", CHOOSE b \in Tabs : TRUE)]
    /\ faults = 0
    /\ history = [loaded |-> {}, tripped |-> FALSE]

Loss == faults < MaxFaults /\ faults' = faults + 1
Become(c, new) == call' = [call EXCEPT ![c] = new]
EndCall(c, pc) == [c EXCEPT !.pc = pc, !.answer = "nessuna"]

------------------------------------------------------------------------------
(* A call leaves.                                                           *)

\* execute puts the access token of now in the headers.
Sent(c) == [c EXCEPT !.pc = "inviata", !.answer = "nessuna",
                     !.with = IF c.kind \in Auth THEN access[c.tab] ELSE NoAccess]

\* What the screens let a person do: enter when nobody is in, the rest when someone is.
Allowed(kind, b) ==
    CASE kind = "riprende" -> b \notin history.loaded
      [] kind = "login"    -> shown[b] = "assente"
      [] OTHER             -> shown[b] = "attiva"

Begins(x, kind, b) ==
    /\ call[x].pc = "nuova" /\ \A y \in 1 .. (x - 1) : call[y].pc # "nuova"
    /\ Allowed(kind, b)

Start(x, kind, b) ==
    /\ Begins(x, kind, b) /\ kind \notin {"riprende", "esce"}
    /\ Become(x, Sent(NewCall(kind, b)))
    /\ UNCHANGED <<token, stored, access, flight, shown, faults, history>>

\* logout: without a token in the storage there is nobody to tell.
StartLogout(x, b) ==
    LET c == NewCall("esce", b) IN
    /\ Begins(x, "esce", b)
    /\ IF stored # NoToken
       THEN /\ Become(x, [Sent(c) EXCEPT !.token = stored])
            /\ UNCHANGED <<access, shown>>
       ELSE /\ Become(x, EndCall(c, "riuscita"))
            /\ access' = [access EXCEPT ![b] = NoAccess]
            /\ shown' = [shown EXCEPT ![b] = "assente"]
    /\ UNCHANGED <<token, stored, flight, faults, history>>

\* Mutant: each 401 starts a rotation of its own.
JoinedMutant(b) == [pc |-> "inviata", token |-> stored,
                    live |-> stored # NoToken /\ token[stored].state = "vivo"]

\* rotate: the rotation under way, or a new one with the token of the storage.
Joined(b) ==
    IF flight[b].pc # "niente" THEN flight[b]
    ELSE [pc |-> "inviata", token |-> stored, live |-> stored # NoToken /\ token[stored].state = "vivo"]

\* restoreSession, when the tab is opened.
Restore(x, b) ==
    LET c == NewCall("riprende", b) IN
    /\ Begins(x, "riprende", b)
    /\ history' = [history EXCEPT !.loaded = @ \cup {b}]
    /\ IF stored = NoToken
       THEN /\ Become(x, EndCall(c, "riuscita"))
            /\ shown' = [shown EXCEPT ![b] = "assente"]
            /\ UNCHANGED flight
       ELSE /\ Become(x, [c EXCEPT !.pc = "aspetta"])
            /\ flight' = [flight EXCEPT ![b] = Joined(b)]
            /\ UNCHANGED shown
    /\ UNCHANGED <<token, stored, access, faults>>

------------------------------------------------------------------------------
(* The server.                                                              *)

Revoked(ts) == [t \in Tokens |-> IF t \in ts /\ token[t].state = "vivo"
                                 THEN [token[t] EXCEPT !.state = "revocato"] ELSE token[t]]

Answered(c, answer) == [c EXCEPT !.pc = "risposta", !.answer = answer]
Ran(c, answer) == [Answered(c, answer) EXCEPT !.ran = @ + 1]

Passes(c) == c.kind \in Auth => c.with.fresh /\ IsFamilyActive(c.with.family)

\* requireAuth: nothing was done for the request.
Refuse(x) ==
    /\ call[x].pc = "inviata" /\ ~Passes(call[x])
    /\ Become(x, Answered(call[x], "401"))
    /\ UNCHANGED <<token, stored, access, flight, shown, faults, history>>

\* The handler finds the proof in the body wrong: INVALID_CREDENTIALS, GOOGLE_TOKEN_INVALID.
RefuseBody(x) ==
    /\ call[x].pc = "inviata" /\ Passes(call[x]) /\ call[x].kind \in AsksForProof
    /\ Become(x, Ran(call[x], "corpo"))
    /\ UNCHANGED <<token, stored, access, flight, shown, faults, history>>

\* The handler runs to its end; its answer arrives, or is lost.  emptyTrash may leave cards.
Handle(x) ==
    LET c == call[x] IN
    /\ c.pc = "inviata" /\ Passes(c)
    /\ \E answer \in (IF c.kind = "svuota" THEN {"ok", "ancora"} ELSE {"ok"}) :
       \/ /\ c.kind \in {"legge", "svuota"}
          /\ Become(x, Ran(c, answer))
          /\ UNCHANGED token
       \/ /\ c.kind \in Persists
          /\ \E t \in Tokens :
               /\ FreshToken(t)
               /\ token' = [(IF c.kind = "password" THEN Revoked(Tokens) ELSE token)
                            EXCEPT ![t] = [state |-> "vivo", family |-> t]]
               /\ Become(x, [Ran(c, answer) EXCEPT !.token = t])
       \/ /\ c.kind = "cancella"
          /\ token' = Revoked(Tokens)
          /\ Become(x, Ran(c, answer))
       \/ /\ c.kind = "esce"
          /\ token' = Revoked(Family(token[c.token].family))
          /\ Become(x, Ran(c, answer))
    /\ UNCHANGED <<stored, access, flight, shown, faults, history>>

\* The request never arrives, or its answer never does.
LoseCall(x) ==
    /\ Loss
    /\ \/ call[x].pc = "inviata"
       \/ call[x].pc = "risposta" /\ call[x].answer \in {"ok", "ancora"}
    /\ Become(x, Answered(call[x], "rete"))
    /\ UNCHANGED <<token, stored, access, flight, shown, history>>

\* POST /refresh.  A token that somebody rotated while this request travelled may be
\* found live and lost at the compare-and-swap: a failure, and no reuse.
Rotate(b) ==
    LET f == flight[b]
        t == f.token
    IN
    /\ f.pc = "inviata"
    /\ \/ /\ t # NoToken /\ token[t].state = "vivo"
          /\ \E u \in Tokens :
               /\ FreshToken(u)
               /\ token' = [token EXCEPT ![t].state = "revocato", ![u] = token[t]]
               /\ flight' = [flight EXCEPT ![b] = [@ EXCEPT !.pc = "ruotata", !.token = u]]
          /\ UNCHANGED history
       \/ /\ t # NoToken /\ token[t].state = "revocato"
          /\ flight' = [flight EXCEPT ![b].pc = "respinta"]
          /\ \/ /\ token' = Revoked(Family(token[t].family))
                /\ history' = [history EXCEPT !.tripped = @ \/ IsFamilyActive(token[t].family)]
             \/ /\ f.live
                /\ UNCHANGED <<token, history>>
       \/ /\ t = NoToken
          /\ flight' = [flight EXCEPT ![b].pc = "respinta"]
          /\ UNCHANGED <<token, history>>
    /\ UNCHANGED <<stored, access, shown, call, faults>>

LoseRotation(b) ==
    /\ Loss
    /\ flight[b].pc \in {"inviata", "ruotata"}
    /\ flight' = [flight EXCEPT ![b].pc = "respinta"]
    /\ UNCHANGED <<token, stored, access, shown, call, history>>

------------------------------------------------------------------------------
(* The answers.                                                             *)

Persisted(b, t) ==
    /\ stored' = t
    /\ access' = [access EXCEPT ![b] = [family |-> token[t].family, fresh |-> TRUE]]

Cleared(b) ==
    /\ stored' = NoToken
    /\ access' = [access EXCEPT ![b] = NoAccess]

\* Mutants: what is repeated after no answer at all, and after a refusal of the body.
RecoverableMutant(c) == c.retry /\ c.answer \in {"401", "rete"}
RecoverableBodyMutant(c) == c.retry /\ c.answer \in {"401", "corpo"}

\* recoverable: a 401 about the session, once.
Recoverable(c) == c.retry /\ c.answer = "401"

\* A 401 sends the call behind a rotation: nothing else is done yet.
Recover(x) ==
    LET c == call[x] IN
    /\ c.pc = "risposta" /\ Recoverable(c)
    /\ Become(x, [EndCall(c, "aspetta") EXCEPT !.retry = FALSE])
    /\ flight' = [flight EXCEPT ![c.tab] = Joined(c.tab)]
    /\ UNCHANGED <<token, stored, access, shown, faults, history>>

\* The second 401: the session is over for this tab.  No screen is told.
GiveUp(x) ==
    LET c == call[x] IN
    /\ c.pc = "risposta" /\ c.answer = "401" /\ ~Recoverable(c)
    /\ Become(x, EndCall(c, "fallita"))
    /\ Cleared(c.tab)
    /\ UNCHANGED <<token, flight, shown, faults, history>>

\* A refusal of the body, or no answer: an error for the screen, except for a logout.
Fail(x) ==
    LET c == call[x] IN
    /\ c.pc = "risposta" /\ c.answer \in {"corpo", "rete"} /\ c.kind # "esce" /\ ~Recoverable(c)
    /\ Become(x, EndCall(c, "fallita"))
    /\ UNCHANGED <<token, stored, access, flight, shown, faults, history>>

Entered(x) ==
    LET c == call[x] IN
    /\ c.pc = "risposta" /\ c.answer = "ok" /\ c.kind \in Persists
    /\ Become(x, EndCall(c, "riuscita"))
    /\ Persisted(c.tab, c.token)
    /\ shown' = [shown EXCEPT ![c.tab] = "attiva"]
    /\ UNCHANGED <<token, flight, faults, history>>

\* logout whatever the answer; deleteAccount only if the account is gone.
Left(x) ==
    LET c == call[x] IN
    /\ c.pc = "risposta"
    /\ c.kind = "esce" \/ (c.kind = "cancella" /\ c.answer = "ok")
    /\ Become(x, EndCall(c, "riuscita"))
    /\ Cleared(c.tab)
    /\ shown' = [shown EXCEPT ![c.tab] = "assente"]
    /\ UNCHANGED <<token, flight, faults, history>>

\* emptyTrash asks again while cards are left, up to its limit.
AsksAgain(c) == c.answer = "ancora" /\ c.round + 1 < GIRI_DI_SVUOTAMENTO

Read(x) ==
    LET c == call[x] IN
    /\ c.pc = "risposta" /\ c.answer \in {"ok", "ancora"} /\ c.kind \in {"legge", "svuota"}
    /\ Become(x, IF AsksAgain(c)
                 THEN [Sent(c) EXCEPT !.round = @ + 1, !.retry = TRUE]
                 ELSE EndCall(c, "riuscita"))
    /\ UNCHANGED <<token, stored, access, flight, shown, faults, history>>

\* The answer of the rotation: whoever waited for it goes on with the new token.
Rotated(b) ==
    /\ flight[b].pc = "ruotata"
    /\ Persisted(b, flight[b].token)
    /\ flight' = [flight EXCEPT ![b] = NoFlight]
    /\ call' = [x \in Calls |->
         IF call[x].tab # b \/ call[x].pc # "aspetta" THEN call[x]
         ELSE IF call[x].kind = "riprende" THEN EndCall(call[x], "riuscita")
         ELSE [call[x] EXCEPT !.pc = "inviata", !.with = access'[b]]]
    /\ shown' = IF \E x \in Calls : call[x].tab = b /\ call[x].pc = "aspetta" /\ call[x].kind = "riprende"
                THEN [shown EXCEPT ![b] = "attiva"] ELSE shown
    /\ UNCHANGED <<token, faults, history>>

\* Mutant: the failure reaches only one of those who waited.
RotationFailedMutant(b) ==
    LET waiting == {x \in Calls : call[x].tab = b /\ call[x].pc = "aspetta"} IN
    /\ flight[b].pc = "respinta"
    /\ Cleared(b)
    /\ flight' = [flight EXCEPT ![b] = NoFlight]
    /\ \E x \in waiting : Become(x, EndCall(call[x], "fallita"))
    /\ UNCHANGED <<token, shown, faults, history>>

\* It failed, whatever the reason: everybody who waited empties the session.
RotationFailed(b) ==
    /\ flight[b].pc = "respinta"
    /\ Cleared(b)
    /\ flight' = [flight EXCEPT ![b] = NoFlight]
    /\ call' = [x \in Calls |->
         IF call[x].tab = b /\ call[x].pc = "aspetta"
         THEN EndCall(call[x], IF call[x].kind = "riprende" THEN "riuscita" ELSE "fallita")
         ELSE call[x]]
    /\ shown' = IF \E x \in Calls : call[x].tab = b /\ call[x].pc = "aspetta" /\ call[x].kind = "riprende"
                THEN [shown EXCEPT ![b] = "assente"] ELSE shown
    /\ UNCHANGED <<token, faults, history>>

------------------------------------------------------------------------------
(* The rest of the world.                                                   *)

Expire(b) ==
    /\ access[b].fresh
    /\ access' = [access EXCEPT ![b].fresh = FALSE]
    /\ UNCHANGED <<token, stored, flight, shown, call, faults, history>>

\* Another device closes this session.
CloseElsewhere(f) ==
    /\ IsFamilyActive(f)
    /\ token' = Revoked(Family(f))
    /\ UNCHANGED <<stored, access, flight, shown, call, faults, history>>

ClientStep(x) ==
    Recover(x) \/ GiveUp(x) \/ Fail(x) \/ Entered(x) \/ Left(x) \/ Read(x)
ServerStep(x) == Refuse(x) \/ RefuseBody(x) \/ Handle(x)
RotationStep(b) == Rotate(b) \/ Rotated(b) \/ RotationFailed(b)

Next ==
    \/ \E x \in Calls :
         \/ \E b \in Tabs : StartLogout(x, b) \/ Restore(x, b)
                           \/ \E k \in Kinds : Start(x, k, b)
         \/ ServerStep(x) \/ ClientStep(x) \/ LoseCall(x)
    \/ \E b \in Tabs : RotationStep(b) \/ LoseRotation(b) \/ Expire(b)
    \/ \E f \in Tokens : CloseElsewhere(f)

Spec == Init /\ [][Next]_vars

\* The server answers or the connection breaks, and a tab handles what arrives.
FairSpec ==
    /\ Spec
    /\ \A x \in Calls : WF_vars(ServerStep(x) \/ LoseCall(x)) /\ WF_vars(ClientStep(x))
    /\ \A b \in Tabs : WF_vars(RotationStep(b))

------------------------------------------------------------------------------
\* "si ripete solo dopo un 401, e un 401 significa che la prima non ha cambiato niente"
\* (client.ts:662): no call makes its handler run twice; emptyTrash, once per round.
HandlerRunsOnce ==
    \A x \in Calls : call[x].ran <= call[x].round + 1

\* "chi sbaglia la password attuale" is not thrown out of the account: a call whose
\* proof was refused ends there, and takes no token away, however it got to the handler.
BodyRefusalKeepsSession ==
    [][\A x \in Calls : call[x].answer = "corpo" /\ call'[x] # call[x] /\ call[x].kind # "esce" =>
          call'[x].pc = "fallita" /\ UNCHANGED <<stored, access, flight, shown>>]_vars

\* One rotation in flight: a browser with one tab that lost no answer never presents a
\* token it has already spent, so the detection of reuse closes no live session of its own.
LoneTabNeverTripsReuse ==
    Cardinality(history.loaded) <= 1 /\ faults = 0 => ~history.tripped

\* Every call ends, those that wait for the rotation of another one included.
EveryCallSettles ==
    \A x \in Calls : call[x].pc \in {"inviata", "risposta", "aspetta"}
                       ~> call[x].pc \in {"riuscita", "fallita"}
================================================================================
