---------------------------- MODULE ApiClient_proofs ----------------------------
(***************************************************************************)
(* The client repeats a request only when the first one did nothing, keeps *)
(* the session of who mistypes a password, and alone in its browser never  *)
(* presents a token it has spent: for any number of tabs, calls and        *)
(* tokens.                                                                 *)
(***************************************************************************)
EXTENDS ApiClient, FiniteSetTheorems, TLAPS

\* A call that may still reach its handler has not reached it in this round.
Unhandled(c) == c.pc \in {"nuova", "inviata", "aspetta"} \/ c.answer = "401"

\* A call that brings a token the tab has not stored yet.
Brought(c) == c.pc = "risposta" /\ c.answer = "ok" /\ c.kind \in Persists

CallOrder(c) ==
    /\ c.ran <= c.round + 1
    /\ Unhandled(c) => c.ran <= c.round
    /\ c.answer # "nessuna" => c.pc = "risposta"
    /\ c.answer = "corpo" => c.kind \in AsksForProof
    /\ Brought(c) => c.token # NoToken

CallsInv == \A x \in Calls : CallOrder(call[x])
FlightsInv == \A b \in Tabs : flight[b].pc = "ruotata" => flight[b].token # NoToken

Sane == ClientTypeOK /\ CallsInv /\ FlightsInv

------------------------------------------------------------------------------
(* A browser with one tab.                                                  *)

\* A token that was rotated: to present it again closes the session of its family.
Spent(tokens, t) ==
    /\ t # NoToken /\ tokens[t].state = "revocato"
    /\ \E u \in Tokens : tokens[u].family = tokens[t].family /\ tokens[u].state = "vivo"

LoneTab == faults = 0 /\ \A a, b \in history.loaded : a = b

\* Only a tab that was opened does anything.
Opened ==
    /\ \A b \in Tabs : flight[b].pc # "niente" \/ shown[b] # "sconosciuta" => b \in history.loaded
    /\ \A x \in Calls : call[x].pc # "nuova" => call[x].tab \in history.loaded

IssuedOnly ==
    /\ \A t \in Issued : token[t].family \in Issued
    /\ stored \in Issued \cup {NoToken}
    /\ \A b \in Tabs : /\ flight[b].token \in Issued \cup {NoToken}
                       /\ flight[b].pc = "ruotata" => flight[b].token \in Issued
    /\ \A x \in Calls : Brought(call[x]) => call[x].token \in Issued

SessionsInv == Opened /\ IssuedOnly /\ IsFiniteSet(history.loaded)

\* A token is in one place only, until the tab stores it.
Separate ==
    /\ \A x \in Calls : Brought(call[x]) =>
         /\ call[x].token # stored /\ \A b \in Tabs : call[x].token # flight[b].token
         /\ \A y \in Calls : Brought(call[y]) /\ y # x => call[y].token # call[x].token
    /\ \A b \in Tabs : flight[b].pc = "ruotata" => flight[b].token # stored

\* The spent one may be in the storage while the answer with the next one travels.
NotSpent ==
    /\ \A x \in Calls : Brought(call[x]) => ~Spent(token, call[x].token)
    /\ \A b \in Tabs : flight[b].pc \in {"inviata", "ruotata"} => ~Spent(token, flight[b].token)
    /\ Spent(token, stored) => \E b \in Tabs : flight[b].pc = "ruotata"

LoneInv == LoneTab => Separate /\ NotSpent /\ ~history.tripped

------------------------------------------------------------------------------
(* What the client does to the record of a call.                            *)

LEMMA Numbers == Calls \subseteq Int /\ GIRI_DI_SVUOTAMENTO \in Int /\ NoToken \in 0 .. MaxTokens /\ 0 \in 0 .. MaxTokens
BY GiriAssumption, MaxTokensAssumption, MaxCallsAssumption DEF Calls, NoToken

LEMMA NewCallIsSane ==
    ASSUME NEW kind \in Kinds, NEW b \in Tabs
    PROVE  /\ NewCall(kind, b) \in Call /\ CallOrder(NewCall(kind, b))
           /\ NewCall(kind, b).pc = "nuova" /\ NewCall(kind, b).kind = kind
           /\ NewCall(kind, b).tab = b /\ NewCall(kind, b).answer = "nessuna"
           /\ NewCall(kind, b).ran = 0 /\ NewCall(kind, b).round = 0
<1>1. 0 \in 0 .. GIRI_DI_SVUOTAMENTO - 1 /\ 0 \in 0 .. GIRI_DI_SVUOTAMENTO + 2 /\ NoToken \in 0 .. MaxTokens
      /\ NoFamily \in 0 .. MaxTokens
    BY GiriAssumption, MaxTokensAssumption DEF NoToken, NoFamily
<1>2. (kind \in Auth) \in BOOLEAN /\ NoAccess \in Access
    BY <1>1 DEF NoAccess, Access
<1>3. NewCall(kind, b) \in Call
    BY <1>1, <1>2 DEF NewCall, Call
<1> QED
    BY <1>3 DEF NewCall, CallOrder, Unhandled, Brought

LEMMA SentIsSane ==
    ASSUME ClientTypeOK, NEW c \in Call, CallOrder(c), c.ran <= c.round
    PROVE  /\ Sent(c) \in Call /\ CallOrder(Sent(c))
           /\ Sent(c).pc = "inviata" /\ Sent(c).answer = "nessuna" /\ Sent(c).tab = c.tab
           /\ Sent(c).kind = c.kind /\ Sent(c).ran = c.ran /\ Sent(c).round = c.round
<1> DEFINE a == IF c.kind \in Auth THEN access[c.tab] ELSE NoAccess
<1>1. a \in Access
    BY MaxTokensAssumption DEF ClientTypeOK, Call, NoAccess, NoFamily, Access
<1>2. Sent(c) = [c EXCEPT !.pc = "inviata", !.answer = "nessuna", !.with = a]
    BY DEF Sent
<1> HIDE DEF a
<1>3. /\ Sent(c) \in Call /\ Sent(c).pc = "inviata" /\ Sent(c).answer = "nessuna"
      /\ Sent(c).tab = c.tab /\ Sent(c).kind = c.kind /\ Sent(c).ran = c.ran
      /\ Sent(c).round = c.round
    BY <1>1, <1>2 DEF Call
<1> QED
    BY <1>3 DEF CallOrder, Unhandled, Brought

LEMMA EndIsSane ==
    ASSUME NEW c \in Call, CallOrder(c), NEW pc \in {"riuscita", "fallita", "aspetta"},
           pc = "aspetta" => c.ran <= c.round
    PROVE  /\ EndCall(c, pc) \in Call /\ CallOrder(EndCall(c, pc))
           /\ EndCall(c, pc).pc = pc /\ EndCall(c, pc).answer = "nessuna"
           /\ EndCall(c, pc).tab = c.tab
<1>1. /\ EndCall(c, pc) \in Call /\ EndCall(c, pc).pc = pc /\ EndCall(c, pc).answer = "nessuna"
      /\ EndCall(c, pc).tab = c.tab /\ EndCall(c, pc).ran = c.ran
      /\ EndCall(c, pc).round = c.round
    BY DEF EndCall, Call
<1> QED
    BY <1>1 DEF CallOrder, Unhandled, Brought

LEMMA AnsweredIsSane ==
    ASSUME NEW c \in Call, CallOrder(c), NEW a \in {"401", "rete"}, a = "401" => c.ran <= c.round
    PROVE  /\ Answered(c, a) \in Call /\ CallOrder(Answered(c, a))
           /\ Answered(c, a).pc = "risposta" /\ Answered(c, a).answer = a
           /\ Answered(c, a).tab = c.tab
<1>1. /\ Answered(c, a) \in Call /\ Answered(c, a).pc = "risposta" /\ Answered(c, a).answer = a
      /\ Answered(c, a).tab = c.tab /\ Answered(c, a).ran = c.ran
      /\ Answered(c, a).round = c.round
    BY DEF Answered, Call
<1> QED
    BY <1>1 DEF CallOrder, Unhandled, Brought

LEMMA RanIsSane ==
    ASSUME NEW c \in Call, CallOrder(c), c.pc = "inviata", NEW a \in {"ok", "ancora", "corpo"},
           a = "corpo" => c.kind \in AsksForProof
    PROVE  /\ Ran(c, a) \in Call
           /\ (a = "ok" /\ c.kind \in Persists) \/ CallOrder(Ran(c, a))
           /\ Ran(c, a).pc = "risposta" /\ Ran(c, a).answer = a /\ Ran(c, a).kind = c.kind
           /\ Ran(c, a).tab = c.tab /\ Ran(c, a).ran = c.ran + 1 /\ Ran(c, a).round = c.round
<1> DEFINE m == c.ran + 1
<1>1. c.ran <= c.round /\ c.round \in 0 .. GIRI_DI_SVUOTAMENTO - 1
      /\ c.ran \in 0 .. GIRI_DI_SVUOTAMENTO + 2
    BY DEF CallOrder, Unhandled, Call
<1>2. m \in 0 .. GIRI_DI_SVUOTAMENTO + 2 /\ m <= c.round + 1
    BY <1>1, GiriAssumption
<1>3. Ran(c, a) = [c EXCEPT !.pc = "risposta", !.answer = a, !.ran = m]
    BY DEF Ran, Answered, Call
<1> HIDE DEF m
<1>4. /\ Ran(c, a) \in Call /\ Ran(c, a).pc = "risposta" /\ Ran(c, a).answer = a
      /\ Ran(c, a).tab = c.tab /\ Ran(c, a).ran = m /\ Ran(c, a).kind = c.kind
      /\ Ran(c, a).round = c.round
    BY <1>2, <1>3 DEF Call
<1> QED
    BY <1>2, <1>4 DEF CallOrder, Unhandled, Brought, m

LEMMA OneCallChanges ==
    ASSUME Sane, NEW x \in Calls, NEW n \in Call, CallOrder(n), Become(x, n)
    PROVE  /\ call' \in [Calls -> Call] /\ CallsInv'
           /\ call'[x] = n /\ \A y \in Calls : y # x => call'[y] = call[y]
<1>1. /\ call' \in [Calls -> Call]
      /\ call'[x] = n /\ \A y \in Calls : y # x => call'[y] = call[y]
    BY DEF Sane, ClientTypeOK, Become
<1> QED
    BY <1>1 DEF Sane, CallsInv

LEMMA CallFields ==
    ASSUME Sane, NEW x \in Calls
    PROVE  call[x] \in Call /\ CallOrder(call[x]) /\ call[x].tab \in Tabs /\ call[x].kind \in Kinds
           /\ call[x].token \in 0 .. MaxTokens /\ call[x].ran \in Int /\ call[x].round \in Int
BY GiriAssumption DEF Sane, ClientTypeOK, CallsInv, Call

------------------------------------------------------------------------------
(* Every step keeps the types and the order of the calls.                   *)

\* All but the calls.
RestOK ==
    /\ token \in [Tokens -> Token]
    /\ stored \in Tokens \cup {NoToken}
    /\ access \in [Tabs -> Access]
    /\ flight \in [Tabs -> Flight]
    /\ shown \in [Tabs -> {"sconosciuta", "assente", "attiva"}]
    /\ faults \in 0 .. MaxFaults
    /\ history \in [loaded : SUBSET Tabs, tripped : BOOLEAN]
    /\ FlightsInv

LEMMA SaneIsBoth ==
    Sane <=> RestOK /\ call \in [Calls -> Call] /\ CallsInv
BY DEF Sane, RestOK, ClientTypeOK, FlightsInv

LEMMA OneCallIsSane ==
    ASSUME Sane, NEW x \in Calls, NEW n \in Call, CallOrder(n), Become(x, n), RestOK'
    PROVE  Sane'
<1>1. call' \in [Calls -> Call] /\ CallsInv'
    BY OneCallChanges
<1> QED
    BY <1>1 DEF Sane, RestOK, ClientTypeOK, FlightsInv

LEMMA RevokedIsTyped ==
    ASSUME token \in [Tokens -> Token], NEW ts
    PROVE  Revoked(ts) \in [Tokens -> Token]
BY DEF Revoked, Token

LEMMA JoinedIsTyped ==
    ASSUME RestOK, NEW b \in Tabs
    PROVE  Joined(b) \in Flight /\ (Joined(b).pc = "ruotata" => Joined(b).token # NoToken)
<1>1. stored \in 0 .. MaxTokens
    BY MaxTokensAssumption DEF RestOK, Tokens, NoToken
<1>2. (stored # NoToken /\ token[stored].state = "vivo") \in BOOLEAN
    OBVIOUS
<1> QED
    BY <1>1, <1>2 DEF Joined, RestOK, FlightsInv, Flight

LEMMA NoAccessIsTyped == NoAccess \in Access
BY MaxTokensAssumption DEF NoAccess, NoFamily, Access

LEMMA StartIsSane ==
    ASSUME Sane, NEW x \in Calls, NEW k \in Kinds, NEW b \in Tabs, Start(x, k, b)
    PROVE  Sane'
<1>1. RestOK'
    BY SaneIsBoth DEF Start, RestOK, FlightsInv
<1>2. Sent(NewCall(k, b)) \in Call /\ CallOrder(Sent(NewCall(k, b)))
    BY NewCallIsSane, SentIsSane DEF Sane
<1> QED
    BY <1>1, <1>2, OneCallIsSane DEF Start

LEMMA StartLogoutIsSane ==
    ASSUME Sane, NEW x \in Calls, NEW b \in Tabs, StartLogout(x, b)
    PROVE  Sane'
<1> DEFINE c == NewCall("esce", b)
<1>0. RestOK /\ "esce" \in Kinds
    BY SaneIsBoth DEF Kinds
<1>1. c \in Call /\ CallOrder(c) /\ c.ran = 0 /\ c.round = 0
    BY <1>0, NewCallIsSane
<1>2. UNCHANGED <<token, stored, flight, faults, history>>
    BY DEF StartLogout
<1>3. CASE stored # NoToken
    <2> DEFINE n == [Sent(c) EXCEPT !.token = stored]
    <2>1. Become(x, n) /\ UNCHANGED <<access, shown>>
        BY <1>3 DEF StartLogout
    <2>2. Sent(c) \in Call /\ CallOrder(Sent(c)) /\ Sent(c).answer = "nessuna"
        BY <1>1, SentIsSane DEF Sane
    <2>3. stored \in 0 .. MaxTokens
        BY <1>0, MaxTokensAssumption DEF RestOK, Tokens, NoToken
    <2> HIDE DEF c
    <2>4. n \in Call /\ CallOrder(n)
        BY <2>2, <2>3 DEF Call, CallOrder, Unhandled, Brought
    <2> HIDE DEF n
    <2> QED
        BY <1>0, <1>2, <2>1, <2>4, OneCallIsSane DEF RestOK, FlightsInv
<1>4. CASE stored = NoToken
    <2>1. /\ Become(x, EndCall(c, "riuscita"))
          /\ access' = [access EXCEPT ![b] = NoAccess]
          /\ shown' = [shown EXCEPT ![b] = "assente"]
        BY <1>4 DEF StartLogout
    <2>2. EndCall(c, "riuscita") \in Call /\ CallOrder(EndCall(c, "riuscita"))
        BY <1>1, EndIsSane
    <2>3. RestOK'
        BY <1>0, <1>2, <2>1, NoAccessIsTyped DEF RestOK, FlightsInv
    <2> QED
        BY <2>1, <2>2, <2>3, OneCallIsSane
<1> QED
    BY <1>3, <1>4

LEMMA RestoreIsSane ==
    ASSUME Sane, NEW x \in Calls, NEW b \in Tabs, Restore(x, b)
    PROVE  Sane'
<1> DEFINE c == NewCall("riprende", b)
<1>0. RestOK /\ "riprende" \in Kinds
    BY SaneIsBoth DEF Kinds
<1>1. c \in Call /\ CallOrder(c) /\ c.ran = 0 /\ c.round = 0 /\ c.answer = "nessuna"
    BY <1>0, NewCallIsSane
<1>2. UNCHANGED <<token, stored, access, faults>> /\ history' = [history EXCEPT !.loaded = @ \cup {b}]
    BY DEF Restore
<1>3. history' \in [loaded : SUBSET Tabs, tripped : BOOLEAN]
    BY <1>0, <1>2 DEF RestOK, FlightsInv
<1>4. CASE stored = NoToken
    <2>1. /\ Become(x, EndCall(c, "riuscita"))
          /\ shown' = [shown EXCEPT ![b] = "assente"] /\ UNCHANGED flight
        BY <1>4 DEF Restore
    <2>2. EndCall(c, "riuscita") \in Call /\ CallOrder(EndCall(c, "riuscita"))
        BY <1>1, EndIsSane
    <2>3. RestOK'
        BY <1>0, <1>2, <1>3, <2>1 DEF RestOK, FlightsInv
    <2> QED
        BY <2>1, <2>2, <2>3, OneCallIsSane
<1>5. CASE stored # NoToken
    <2> DEFINE n == [c EXCEPT !.pc = "aspetta"]
    <2>1. /\ Become(x, n) /\ flight' = [flight EXCEPT ![b] = Joined(b)] /\ UNCHANGED shown
        BY <1>5 DEF Restore
    <2> HIDE DEF c
    <2>2. n \in Call /\ CallOrder(n)
        BY <1>1 DEF Call, CallOrder, Unhandled, Brought
    <2>3. Joined(b) \in Flight /\ (Joined(b).pc = "ruotata" => Joined(b).token # NoToken)
        BY <1>0, JoinedIsTyped
    <2>4. RestOK'
        BY <1>0, <1>2, <1>3, <2>1, <2>3 DEF RestOK, FlightsInv
    <2> HIDE DEF n
    <2> QED
        BY <2>1, <2>2, <2>4, OneCallIsSane
<1> QED
    BY <1>4, <1>5

LEMMA ServerIsSane ==
    ASSUME Sane, NEW x \in Calls, ServerStep(x)
    PROVE  Sane'
<1>0. RestOK /\ call[x] \in Call /\ CallOrder(call[x])
    BY SaneIsBoth, CallFields
<1>1. CASE Refuse(x)
    <2>1. call[x].ran <= call[x].round
        BY <1>0, <1>1 DEF Refuse, CallOrder, Unhandled
    <2>2. Answered(call[x], "401") \in Call /\ CallOrder(Answered(call[x], "401"))
        BY <1>0, <2>1, AnsweredIsSane
    <2>3. RestOK'
        BY <1>0, <1>1 DEF Refuse, RestOK, FlightsInv
    <2> QED
        BY <1>1, <2>2, <2>3, OneCallIsSane DEF Refuse
<1>2. CASE RefuseBody(x)
    <2>1. Ran(call[x], "corpo") \in Call /\ CallOrder(Ran(call[x], "corpo"))
        BY <1>0, <1>2, RanIsSane DEF RefuseBody
    <2>2. RestOK'
        BY <1>0, <1>2 DEF RefuseBody, RestOK, FlightsInv
    <2> QED
        BY <1>2, <2>1, <2>2, OneCallIsSane DEF RefuseBody
<1>3. CASE Handle(x)
    <2>0. call[x].pc = "inviata" /\ UNCHANGED <<stored, access, flight, shown, faults, history>>
        BY <1>3 DEF Handle
    <2>1. PICK a \in {"ok", "ancora"} :
            \/ /\ call[x].kind \in {"legge", "svuota"}
               /\ Become(x, Ran(call[x], a)) /\ UNCHANGED token
            \/ /\ call[x].kind \in Persists
               /\ \E t \in Tokens :
                    /\ FreshToken(t)
                    /\ token' = [(IF call[x].kind = "password" THEN Revoked(Tokens) ELSE token)
                                 EXCEPT ![t] = [state |-> "vivo", family |-> t]]
                    /\ Become(x, [Ran(call[x], a) EXCEPT !.token = t])
            \/ /\ call[x].kind = "cancella"
               /\ token' = Revoked(Tokens) /\ Become(x, Ran(call[x], a))
            \/ /\ call[x].kind = "esce"
               /\ token' = Revoked(Family(token[call[x].token].family))
               /\ Become(x, Ran(call[x], a))
        BY <1>3 DEF Handle
    <2>2. /\ Ran(call[x], a) \in Call /\ Ran(call[x], a).pc = "risposta"
          /\ Ran(call[x], a).answer = a /\ Ran(call[x], a).ran = call[x].ran + 1
          /\ Ran(call[x], a).round = call[x].round
          /\ call[x].kind \notin Persists => CallOrder(Ran(call[x], a))
        BY <1>0, <2>0, RanIsSane
    <2>3. CASE /\ Become(x, Ran(call[x], a)) /\ token' \in [Tokens -> Token]
               /\ call[x].kind \notin Persists
        <3>1. RestOK'
            BY <1>0, <2>0, <2>3 DEF RestOK, FlightsInv
        <3> QED
            BY <2>2, <2>3, <3>1, OneCallIsSane
    <2>4. ASSUME NEW t \in Tokens,
                 token' = [(IF call[x].kind = "password" THEN Revoked(Tokens) ELSE token)
                           EXCEPT ![t] = [state |-> "vivo", family |-> t]],
                 Become(x, [Ran(call[x], a) EXCEPT !.token = t])
          PROVE  Sane'
        <3> DEFINE n == [Ran(call[x], a) EXCEPT !.token = t]
        <3>1. t \in 0 .. MaxTokens /\ t # NoToken /\ call[x].ran <= call[x].round
            BY <1>0, <2>0, MaxTokensAssumption DEF Tokens, NoToken, CallOrder, Unhandled
        <3>2. n \in Call /\ CallOrder(n)
            <4>1. /\ n \in Call /\ n.pc = "risposta" /\ n.answer = a /\ n.token = t
                  /\ n.ran = call[x].ran + 1 /\ n.round = call[x].round
                BY <2>2, <3>1 DEF Call
            <4> HIDE DEF n
            <4> QED
                BY <1>0, <3>1, <4>1 DEF CallOrder, Unhandled, Call
        <3>3. Become(x, n)
            BY <2>4
        <3> HIDE DEF n
        <3>4. token' \in [Tokens -> Token]
            <4>1. Revoked(Tokens) \in [Tokens -> Token] /\ [state |-> "vivo", family |-> t] \in Token
                BY <1>0, <3>1, RevokedIsTyped DEF RestOK, Token
            <4> QED
                BY <1>0, <2>4, <4>1 DEF RestOK, FlightsInv
        <3>5. RestOK'
            BY <1>0, <2>0, <3>4 DEF RestOK, FlightsInv
        <3> QED
            BY <3>2, <3>3, <3>5, OneCallIsSane
    <2> QED
        <3>1. \A ts : Revoked(ts) \in [Tokens -> Token]
            BY <1>0, RevokedIsTyped DEF RestOK
        <3>2. call[x].kind \in {"legge", "svuota", "cancella", "esce"} => call[x].kind \notin Persists
            BY DEF Persists
        <3>3. token \in [Tokens -> Token]
            BY <1>0 DEF RestOK
        <3> QED
            BY <2>1, <2>3, <2>4, <3>1, <3>2, <3>3
<1> QED
    BY <1>1, <1>2, <1>3 DEF ServerStep

LEMMA ClientIsSane ==
    ASSUME Sane, NEW x \in Calls, ClientStep(x)
    PROVE  Sane'
<1> DEFINE c == call[x]
<1>0. RestOK /\ c \in Call /\ CallOrder(c) /\ c.tab \in Tabs /\ c.pc = "risposta"
      /\ c.token \in 0 .. MaxTokens
    BY SaneIsBoth, CallFields DEF ClientStep, Recover, GiveUp, Fail, Entered, Left, Read
<1>1. CASE Recover(x)
    <2> DEFINE e == EndCall(c, "aspetta")
               n == [e EXCEPT !.retry = FALSE]
    <2>1. Become(x, n) /\ c.answer = "401"
          /\ flight' = [flight EXCEPT ![c.tab] = Joined(c.tab)]
          /\ UNCHANGED <<token, stored, access, shown, faults, history>>
        BY <1>1 DEF Recover, Recoverable
    <2>2. e \in Call /\ CallOrder(e)
        BY <1>0, <2>1, EndIsSane DEF CallOrder, Unhandled
    <2> HIDE DEF e
    <2>3. n \in Call /\ CallOrder(n)
        BY <2>2 DEF Call, CallOrder, Unhandled, Brought
    <2> HIDE DEF n
    <2>4. RestOK'
        BY <1>0, <2>1, JoinedIsTyped DEF RestOK, FlightsInv
    <2> QED
        BY <2>1, <2>3, <2>4, OneCallIsSane
<1>2. CASE GiveUp(x)
    <2>1. EndCall(c, "fallita") \in Call /\ CallOrder(EndCall(c, "fallita"))
        BY <1>0, EndIsSane
    <2>2. RestOK'
        BY <1>0, <1>2, NoAccessIsTyped DEF GiveUp, Cleared, RestOK, FlightsInv
    <2> QED
        BY <1>2, <2>1, <2>2, OneCallIsSane DEF GiveUp
<1>3. CASE Fail(x)
    <2>1. EndCall(c, "fallita") \in Call /\ CallOrder(EndCall(c, "fallita"))
        BY <1>0, EndIsSane
    <2>2. RestOK'
        BY <1>0, <1>3 DEF Fail, RestOK, FlightsInv
    <2> QED
        BY <1>3, <2>1, <2>2, OneCallIsSane DEF Fail
<1>5. CASE Left(x)
    <2>1. EndCall(c, "riuscita") \in Call /\ CallOrder(EndCall(c, "riuscita"))
        BY <1>0, EndIsSane
    <2>2. RestOK'
        BY <1>0, <1>5, NoAccessIsTyped DEF Left, Cleared, RestOK, FlightsInv
    <2> QED
        BY <1>5, <2>1, <2>2, OneCallIsSane DEF Left
<1>6. CASE Read(x)
    <2>0. RestOK'
        BY <1>0, <1>6 DEF Read, RestOK, FlightsInv
    <2>1. CASE AsksAgain(c)
        <3> DEFINE m == c.round + 1
                   n == [Sent(c) EXCEPT !.round = m, !.retry = TRUE]
        <3>1. c.round \in 0 .. GIRI_DI_SVUOTAMENTO - 1 /\ c.ran <= m /\ m < GIRI_DI_SVUOTAMENTO
            BY <1>0, <2>1 DEF Call, CallOrder, AsksAgain
        <3>2. m \in 0 .. GIRI_DI_SVUOTAMENTO - 1
            BY <3>1, GiriAssumption
        <3>3. Become(x, [Sent(c) EXCEPT !.round = @ + 1, !.retry = TRUE])
            BY <1>6, <2>1 DEF Read
        <3> DEFINE a == IF c.kind \in Auth THEN access[c.tab] ELSE NoAccess
        <3>4. a \in Access
            BY <1>0, NoAccessIsTyped DEF RestOK, FlightsInv
        <3>5. Sent(c) = [c EXCEPT !.pc = "inviata", !.answer = "nessuna", !.with = a]
            BY DEF Sent
        <3> HIDE DEF a
        <3>6. Become(x, n)
            BY <1>0, <3>3, <3>5 DEF Call
        <3> HIDE DEF m
        <3>7. n \in Call /\ n.ran = c.ran /\ n.round = m /\ n.answer = "nessuna"
            BY <1>0, <3>2, <3>4, <3>5 DEF Call
        <3> HIDE DEF n
        <3>8. CallOrder(n)
            BY <1>0, <3>1, <3>2, <3>7 DEF CallOrder, Unhandled, Brought, Call
        <3> QED
            BY <2>0, <3>6, <3>7, <3>8, OneCallIsSane
    <2>2. CASE ~AsksAgain(c)
        <3>1. EndCall(c, "riuscita") \in Call /\ CallOrder(EndCall(c, "riuscita"))
            BY <1>0, EndIsSane
        <3> QED
            BY <1>6, <2>0, <2>2, <3>1, OneCallIsSane DEF Read
    <2> QED
        BY <2>1, <2>2
<1> HIDE DEF c
<1>4. CASE Entered(x)
    <2>0. UNCHANGED <<token, flight, faults, history>> /\ Persisted(c.tab, c.token)
          /\ shown' = [shown EXCEPT ![c.tab] = "attiva"] /\ c.kind \in Persists
          /\ Become(x, EndCall(c, "riuscita"))
        BY <1>4 DEF Entered, c
    <2>1. EndCall(c, "riuscita") \in Call /\ CallOrder(EndCall(c, "riuscita"))
        BY <1>0, EndIsSane
    <2>2. c.token \in Tokens
        BY <1>0, <1>4, MaxTokensAssumption DEF Entered, c, CallOrder, Brought, Tokens, NoToken
    <2>3. [family |-> token[c.token].family, fresh |-> TRUE] \in Access
        BY <1>0, <2>2 DEF RestOK, Token, Access
    <2>4. RestOK'
        BY <1>0, <2>0, <2>2, <2>3 DEF Persisted, RestOK, FlightsInv
    <2> QED
        BY <2>0, <2>1, <2>4, OneCallIsSane
<1> QED
    BY <1>1, <1>2, <1>3, <1>4, <1>5, <1>6 DEF ClientStep

LEMMA LossIsSane ==
    ASSUME Sane, NEW x \in Calls, LoseCall(x)
    PROVE  Sane'
<1>0. RestOK /\ call[x] \in Call /\ CallOrder(call[x])
    BY SaneIsBoth, CallFields
<1>1. Answered(call[x], "rete") \in Call /\ CallOrder(Answered(call[x], "rete"))
    BY <1>0, AnsweredIsSane
<1>2. RestOK'
    BY <1>0, FaultsAssumption DEF LoseCall, Loss, RestOK, FlightsInv
<1> QED
    BY <1>1, <1>2, OneCallIsSane DEF LoseCall

LEMMA FlightFields ==
    ASSUME RestOK, NEW b \in Tabs
    PROVE  flight[b] \in Flight /\ flight[b].token \in Tokens \cup {NoToken}
<1>1. flight[b] \in Flight /\ flight[b].token \in 0 .. MaxTokens
    BY DEF RestOK, Flight
<1>2. 0 .. MaxTokens = Tokens \cup {NoToken}
    BY MaxTokensAssumption DEF Tokens, NoToken
<1> QED
    BY <1>1, <1>2

LEMMA RotationIsSane ==
    ASSUME Sane, NEW b \in Tabs, Rotate(b) \/ LoseRotation(b)
    PROVE  Sane'
<1>0. RestOK /\ flight[b] \in Flight
    BY SaneIsBoth DEF RestOK
<1>1. UNCHANGED <<stored, access, shown, call>>
    BY DEF Rotate, LoseRotation
<1>2. \A ts : Revoked(ts) \in [Tokens -> Token]
    BY <1>0, RevokedIsTyped DEF RestOK
<1>3. RestOK'
    <2>1. ASSUME NEW u \in Tokens, flight[b].token \in Tokens,
                 token' = [token EXCEPT ![flight[b].token].state = "revocato", ![u] = token[flight[b].token]],
                 flight' = [flight EXCEPT ![b] = [@ EXCEPT !.pc = "ruotata", !.token = u]],
                 UNCHANGED <<history, faults>>
          PROVE  RestOK'
        <3> DEFINE n == [flight[b] EXCEPT !.pc = "ruotata", !.token = u]
                   o == [token[flight[b].token] EXCEPT !.state = "revocato"]
        <3>1. u \in 0 .. MaxTokens /\ u # NoToken
            BY MaxTokensAssumption DEF Tokens, NoToken
        <3>2. n \in Flight /\ n.token = u
            BY <1>0, <3>1 DEF Flight
        <3>3. token[flight[b].token] \in Token /\ o \in Token
            BY <1>0, <2>1 DEF RestOK, Token
        <3>4. token' = [token EXCEPT ![flight[b].token] = o, ![u] = token[flight[b].token]]
              /\ flight' = [flight EXCEPT ![b] = n]
            BY <2>1
        <3> HIDE DEF n, o
        <3>5. token' \in [Tokens -> Token] /\ flight' \in [Tabs -> Flight]
            BY <1>0, <2>1, <3>2, <3>3, <3>4 DEF RestOK
        <3>6. FlightsInv'
            BY <1>0, <3>1, <3>2, <3>4 DEF RestOK, FlightsInv
        <3> QED
            BY <1>0, <1>1, <2>1, <3>5, <3>6 DEF RestOK
    <2>2. ASSUME flight' = [flight EXCEPT ![b].pc = "respinta"], token' \in [Tokens -> Token],
                 faults' \in 0 .. MaxFaults, history' \in [loaded : SUBSET Tabs, tripped : BOOLEAN]
          PROVE  RestOK'
        <3> DEFINE n == [flight[b] EXCEPT !.pc = "respinta"]
        <3>1. n \in Flight /\ n.pc = "respinta" /\ flight' = [flight EXCEPT ![b] = n]
            BY <1>0, <2>2 DEF Flight
        <3> HIDE DEF n
        <3> QED
            BY <1>0, <1>1, <2>2, <3>1 DEF RestOK, FlightsInv
    <2>3. CASE LoseRotation(b)
        <3>1. faults' \in 0 .. MaxFaults
            BY <1>0, <2>3, FaultsAssumption DEF LoseRotation, Loss, RestOK
        <3> QED
            BY <1>0, <2>2, <2>3, <3>1 DEF LoseRotation, RestOK
    <2>4. CASE Rotate(b)
        <3>0. UNCHANGED faults /\ flight[b].token \in Tokens \cup {NoToken}
            BY <1>0, <2>4, FlightFields DEF Rotate
        <3>1. CASE flight[b].token # NoToken /\ token[flight[b].token].state = "vivo"
                   /\ \E u \in Tokens :
                       /\ token' = [token EXCEPT ![flight[b].token].state = "revocato",
                                                 ![u] = token[flight[b].token]]
                       /\ flight' = [flight EXCEPT ![b] = [@ EXCEPT !.pc = "ruotata", !.token = u]]
                   /\ UNCHANGED history
            BY <2>1, <3>0, <3>1
        <3>2. CASE /\ flight' = [flight EXCEPT ![b].pc = "respinta"]
                   /\ \/ token' = Revoked(Family(token[flight[b].token].family))
                      \/ UNCHANGED token
                   /\ \/ history' = [history EXCEPT !.tripped = @ \/ IsFamilyActive(token[flight[b].token].family)]
                      \/ UNCHANGED history
            <4>1. history' \in [loaded : SUBSET Tabs, tripped : BOOLEAN]
                <5> DEFINE z == history.tripped \/ IsFamilyActive(token[flight[b].token].family)
                <5>1. z \in BOOLEAN
                    BY <1>0 DEF RestOK
                <5> HIDE DEF z
                <5>2. history' = [history EXCEPT !.tripped = z] \/ history' = history
                    BY <3>2 DEF z
                <5> QED
                    BY <1>0, <5>1, <5>2 DEF RestOK
            <4>2. token' \in [Tokens -> Token]
                BY <1>0, <1>2, <3>2 DEF RestOK
            <4> QED
                BY <1>0, <2>2, <3>0, <3>2, <4>1, <4>2 DEF RestOK
        <3> QED
            BY <2>4, <3>1, <3>2 DEF Rotate
    <2> QED
        BY <2>3, <2>4
<1> QED
    BY <1>1, <1>3 DEF Sane, RestOK, ClientTypeOK, CallsInv, FlightsInv

\* The answer of a rotation, for the calls that waited.
LEMMA NoFlightIsTyped == NoFlight \in Flight /\ NoFlight.pc = "niente" /\ NoFlight.token = NoToken
BY Numbers DEF NoFlight, Flight

LEMMA RotatedIsSane ==
    ASSUME Sane, NEW b \in Tabs, Rotated(b)
    PROVE  Sane'
<1>0. RestOK /\ flight[b] \in Flight /\ flight[b].token \in Tokens
    BY SaneIsBoth, FlightFields DEF RestOK, FlightsInv, Rotated
<1>1. /\ UNCHANGED <<token, faults, history>>
      /\ stored' = flight[b].token
      /\ access' = [access EXCEPT ![b] = [family |-> token[flight[b].token].family, fresh |-> TRUE]]
      /\ flight' = [flight EXCEPT ![b] = NoFlight]
      /\ shown' = [shown EXCEPT ![b] = "attiva"] \/ shown' = shown
    BY DEF Rotated, Persisted
<1>2. [family |-> token[flight[b].token].family, fresh |-> TRUE] \in Access
    BY <1>0 DEF RestOK, Token, Access
<1>3. RestOK'
    BY <1>0, <1>1, <1>2, NoFlightIsTyped DEF RestOK, FlightsInv
<1>4. ASSUME NEW x \in Calls
      PROVE  call'[x] \in Call /\ CallOrder(call'[x])
    <2> DEFINE n == [call[x] EXCEPT !.pc = "inviata", !.with = access'[b]]
    <2>0. call[x] \in Call /\ CallOrder(call[x])
        BY CallFields
    <2>1. \/ call'[x] = call[x]
          \/ call'[x] = EndCall(call[x], "riuscita")
          \/ call[x].pc = "aspetta" /\ call'[x] = n
        BY DEF Rotated
    <2>2. CASE call[x].pc = "aspetta" /\ call'[x] = n
        <3>1. access'[b] \in Access
            BY <1>0, <1>1, <1>2 DEF RestOK
        <3>2. n \in Call /\ n.pc = "inviata" /\ n.answer = call[x].answer /\ n.ran = call[x].ran
              /\ n.round = call[x].round
            BY <2>0, <3>1 DEF Call
        <3> HIDE DEF n
        <3> QED
            BY <2>0, <2>2, <3>2 DEF CallOrder, Unhandled, Brought
    <2>3. EndCall(call[x], "riuscita") \in Call /\ CallOrder(EndCall(call[x], "riuscita"))
        BY <2>0, EndIsSane
    <2> QED
        BY <2>0, <2>1, <2>2, <2>3
<1>5. call' \in [Calls -> Call]
    <2>1. call' = [x \in Calls |-> call'[x]]
        BY DEF Rotated
    <2> QED
        BY <1>4, <2>1
<1> QED
    BY <1>3, <1>4, <1>5 DEF Sane, RestOK, ClientTypeOK, CallsInv, FlightsInv

LEMMA RotationFailedIsSane ==
    ASSUME Sane, NEW b \in Tabs, RotationFailed(b)
    PROVE  Sane'
<1>0. RestOK
    BY SaneIsBoth
<1>1. /\ UNCHANGED <<token, faults, history>>
      /\ stored' = NoToken /\ access' = [access EXCEPT ![b] = NoAccess]
      /\ flight' = [flight EXCEPT ![b] = NoFlight]
      /\ shown' = [shown EXCEPT ![b] = "assente"] \/ shown' = shown
    BY DEF RotationFailed, Cleared
<1>2. RestOK'
    BY <1>0, <1>1, NoFlightIsTyped, NoAccessIsTyped DEF RestOK, FlightsInv
<1>3. ASSUME NEW x \in Calls
      PROVE  call'[x] \in Call /\ CallOrder(call'[x])
    <2>1. call'[x] \in {call[x], EndCall(call[x], "riuscita"), EndCall(call[x], "fallita")}
        BY DEF RotationFailed
    <2> QED
        BY <2>1, CallFields, EndIsSane
<1>4. call' \in [Calls -> Call]
    <2>1. call' = [x \in Calls |-> call'[x]]
        BY DEF RotationFailed
    <2> QED
        BY <1>3, <2>1
<1> QED
    BY <1>2, <1>3, <1>4 DEF Sane, RestOK, ClientTypeOK, CallsInv, FlightsInv

LEMMA WorldIsSane ==
    ASSUME Sane,
           \/ \E b \in Tabs : Expire(b)
           \/ \E f \in Tokens : CloseElsewhere(f)
           \/ UNCHANGED vars
    PROVE  Sane'
<1>0. RestOK
    BY SaneIsBoth
<1>1. UNCHANGED call
    BY DEF Expire, CloseElsewhere, vars
<1>2. CASE \E b \in Tabs : Expire(b)
    <2>1. PICK b \in Tabs : Expire(b)
        BY <1>2
    <2> DEFINE a == [access[b] EXCEPT !.fresh = FALSE]
    <2>2. a \in Access /\ access' = [access EXCEPT ![b] = a]
        <3>1. access[b] \in Access
            BY <1>0 DEF RestOK
        <3>2. a \in Access
            BY <3>1 DEF Access
        <3> QED
            BY <2>1, <3>2 DEF Expire
    <2> HIDE DEF a
    <2>3. RestOK'
        BY <1>0, <2>1, <2>2 DEF Expire, RestOK, FlightsInv
    <2> QED
        BY <1>1, <2>3 DEF Sane, RestOK, ClientTypeOK, CallsInv, FlightsInv
<1>3. CASE \E f \in Tokens : CloseElsewhere(f)
    <2>1. RestOK'
        BY <1>0, <1>3, RevokedIsTyped DEF CloseElsewhere, RestOK, FlightsInv
    <2> QED
        BY <1>1, <2>1 DEF Sane, RestOK, ClientTypeOK, CallsInv, FlightsInv
<1>4. CASE UNCHANGED vars
    BY <1>4 DEF vars, Sane, ClientTypeOK, CallsInv, FlightsInv
<1> QED
    BY <1>2, <1>3, <1>4

LEMMA SaneStays ==
    ASSUME Sane, [Next]_vars
    PROVE  Sane'
<1>1. ASSUME NEW x \in Calls, NEW b \in Tabs,
             StartLogout(x, b) \/ Restore(x, b) \/ \E k \in Kinds : Start(x, k, b)
      PROVE  Sane'
    BY <1>1, StartLogoutIsSane, RestoreIsSane, StartIsSane
<1>2. ASSUME NEW x \in Calls, ServerStep(x) \/ ClientStep(x) \/ LoseCall(x)
      PROVE  Sane'
    BY <1>2, ServerIsSane, ClientIsSane, LossIsSane
<1>3. ASSUME NEW b \in Tabs, RotationStep(b) \/ LoseRotation(b)
      PROVE  Sane'
    BY <1>3, RotationIsSane, RotatedIsSane, RotationFailedIsSane DEF RotationStep
<1> QED
    BY <1>1, <1>2, <1>3, WorldIsSane DEF Next

LEMMA InitIsSane ==
    ASSUME Init
    PROVE  Sane
<1>1. /\ [state |-> "vivo", family |-> 1] \in Token /\ [state |-> "mai", family |-> NoFamily] \in Token
      /\ 1 \in Tokens
    BY MaxTokensAssumption DEF Token, Tokens, NoFamily
<1>2. (CHOOSE b \in Tabs : TRUE) \in Tabs
    BY TabsAssumption
<1>3. "legge" \in Kinds
    BY DEF Kinds
<1>4. /\ NewCall("legge", CHOOSE b \in Tabs : TRUE) \in Call
      /\ CallOrder(NewCall("legge", CHOOSE b \in Tabs : TRUE))
    BY <1>2, <1>3, NewCallIsSane
<1> QED
    BY <1>1, <1>4, NoFlightIsTyped, NoAccessIsTyped, FaultsAssumption
       DEF Init, Sane, ClientTypeOK, CallsInv, FlightsInv

\* The tokens of the client and of the server, and the records of the calls, stay of their
\* types: a call makes no more rounds than emptyTrash allows.
THEOREM ClientTypeCorrectness == Spec => []ClientTypeOK
<1>1. Sane => ClientTypeOK
    BY DEF Sane
<1> QED
    BY <1>1, InitIsSane, SaneStays, PTL DEF Spec

\* No call makes its handler run twice, emptyTrash once per round: what is repeated is only
\* what a 401 refused before the handler (client.ts, recoverable).
THEOREM RunsOnce == Spec => []HandlerRunsOnce
<1>1. Sane => HandlerRunsOnce
    BY DEF Sane, CallsInv, CallOrder, HandlerRunsOnce
<1> QED
    BY <1>1, InitIsSane, SaneStays, PTL DEF Spec

------------------------------------------------------------------------------
(* A refusal of the body ends where it arrives.                             *)

LEMMA BecomeTouchesOne ==
    ASSUME Sane, NEW x \in Calls, NEW y \in Calls, NEW n, Become(y, n), call'[x] # call[x]
    PROVE  x = y
BY DEF Sane, ClientTypeOK, Become

LEMMA BodyRefusalEnds ==
    ASSUME Sane, Next, NEW x \in Calls,
           call[x].answer = "corpo", call'[x] # call[x], call[x].kind # "esce"
    PROVE  call'[x].pc = "fallita" /\ UNCHANGED <<stored, access, flight, shown>>
<1>0. call[x].pc = "risposta" /\ call[x] \in Call
    BY CallFields DEF CallOrder
<1>1. ASSUME NEW y \in Calls, Fail(y)
      PROVE  call'[x].pc = "fallita" /\ UNCHANGED <<stored, access, flight, shown>>
    <2>1. x = y
        BY <1>1, BecomeTouchesOne DEF Fail
    <2>2. call'[x] = EndCall(call[x], "fallita")
        BY <1>1, <2>1 DEF Fail, Become, Sane, ClientTypeOK
    <2> QED
        BY <1>0, <1>1, <2>2 DEF Fail, EndCall, Call
<1>2. ASSUME NEW y \in Calls, ServerStep(y) \/ LoseCall(y)
      PROVE  FALSE
    <2>1. PICK n : Become(y, n)
        BY <1>2 DEF ServerStep, Refuse, RefuseBody, Handle, LoseCall
    <2>2. x = y
        BY <2>1, BecomeTouchesOne
    <2> QED
        BY <1>0, <1>2, <2>2 DEF ServerStep, Refuse, RefuseBody, Handle, LoseCall
<1>3. ASSUME NEW y \in Calls, ClientStep(y), ~Fail(y)
      PROVE  FALSE
    <2>1. PICK n : Become(y, n)
        BY <1>3 DEF ClientStep, Recover, GiveUp, Entered, Left, Read
    <2>2. x = y
        BY <2>1, BecomeTouchesOne
    <2> QED
        BY <1>3, <2>2 DEF ClientStep, Recover, GiveUp, Entered, Left, Read, Recoverable
<1>4. ASSUME NEW y \in Calls, NEW b \in Tabs,
             StartLogout(y, b) \/ Restore(y, b) \/ \E k \in Kinds : Start(y, k, b)
      PROVE  FALSE
    <2>1. PICK n : Become(y, n)
        BY <1>4 DEF StartLogout, Restore, Start
    <2>2. x = y
        BY <2>1, BecomeTouchesOne
    <2> QED
        BY <1>0, <1>4, <2>2 DEF StartLogout, Restore, Start, Begins
<1>5. ASSUME NEW b \in Tabs, RotationStep(b) \/ LoseRotation(b) \/ Expire(b)
      PROVE  FALSE
    BY <1>0, <1>5 DEF RotationStep, Rotate, Rotated, RotationFailed, LoseRotation, Expire
<1>6. ASSUME NEW f \in Tokens, CloseElsewhere(f)
      PROVE  FALSE
    BY <1>6 DEF CloseElsewhere
<1> QED
    BY <1>1, <1>2, <1>3, <1>4, <1>5, <1>6 DEF Next

\* Who mistypes the password stays in the account: a call whose proof was refused ends in
\* an error and takes no token away, whether or not it was repeated after a rotation.
THEOREM BodyRefusalIsHarmless == Spec => BodyRefusalKeepsSession
<1>1. Sane /\ [Next]_vars =>
        [\A x \in Calls : call[x].answer = "corpo" /\ call'[x] # call[x] /\ call[x].kind # "esce" =>
            call'[x].pc = "fallita" /\ UNCHANGED <<stored, access, flight, shown>>]_vars
    BY BodyRefusalEnds DEF vars
<1> QED
    BY <1>1, InitIsSane, SaneStays, PTL DEF Spec, BodyRefusalKeepsSession

------------------------------------------------------------------------------
(* What becomes of the tokens.                                              *)

LEMMA RevokedSpends ==
    ASSUME RestOK, NEW ts, ts = Tokens \/ \E f : ts = Family(f), token' = Revoked(ts)
    PROVE  /\ Issued' = Issued
           /\ \A t \in Tokens : /\ token'[t].family = token[t].family
                                /\ Spent(token', t) => Spent(token, t)
<1>1. \A t \in Tokens :
         /\ token[t] \in Token
         /\ token'[t] = IF t \in ts /\ token[t].state = "vivo"
                        THEN [token[t] EXCEPT !.state = "revocato"] ELSE token[t]
    BY DEF RestOK, Revoked
<1>2. \A t \in Tokens :
         /\ token'[t].family = token[t].family
         /\ token'[t].state = "vivo" <=> token[t].state = "vivo" /\ t \notin ts
         /\ token'[t].state = "revocato" <=> token[t].state = "revocato" \/ (token[t].state = "vivo" /\ t \in ts)
    BY <1>1 DEF Token
<1>3. Issued' = Issued
    BY <1>1, <1>2 DEF Issued, Token
<1>4. ASSUME NEW t \in Tokens, Spent(token', t)
      PROVE  Spent(token, t)
    <2>1. PICK u \in Tokens : token'[u].family = token'[t].family /\ token'[u].state = "vivo"
        BY <1>4 DEF Spent
    <2>2. t \notin ts
        BY <1>2, <2>1 DEF Family
    <2> QED
        BY <1>2, <1>4, <2>1, <2>2 DEF Spent
<1> QED
    BY <1>2, <1>3, <1>4

\* A token that starts a family of its own.
LEMMA IssuedSpends ==
    ASSUME RestOK, IssuedOnly, NEW old \in [Tokens -> Token], old = token \/ old = Revoked(Tokens),
           NEW t \in Tokens, FreshToken(t), token' = [old EXCEPT ![t] = [state |-> "vivo", family |-> t]]
    PROVE  /\ t \notin Issued /\ Issued' = Issued \cup {t} /\ token'[t].family = t
           /\ \A s \in Issued : /\ token'[s].family = token[s].family
                                /\ Spent(token', s) => Spent(token, s)
           /\ ~Spent(token', t)
<1>1. t \notin Issued /\ token[t].state = "mai"
    BY DEF FreshToken, Issued
<1>2. \A s \in Tokens :
         /\ old[s].family = token[s].family
         /\ old[s].state = "mai" <=> token[s].state = "mai"
         /\ old[s].state = "vivo" => token[s].state = "vivo"
         /\ old[s].state = "revocato" => token[s].state = "revocato" \/ old = Revoked(Tokens)
    BY DEF Revoked, RestOK, Token
<1>3. token'[t] = [state |-> "vivo", family |-> t] /\ \A s \in Tokens : s # t => token'[s] = old[s]
    OBVIOUS
<1>4. Issued' = Issued \cup {t}
    BY <1>2, <1>3 DEF Issued
<1>5. ASSUME NEW s \in Issued
      PROVE  token'[s].family = token[s].family /\ (Spent(token', s) => Spent(token, s))
    <2>1. s \in Tokens /\ s # t /\ token'[s] = old[s] /\ token[s].family \in Issued
        BY <1>1, <1>3 DEF Issued, IssuedOnly
    <2>2. ASSUME Spent(token', s)
          PROVE  Spent(token, s)
        <3>1. PICK u \in Tokens : token'[u].family = token'[s].family /\ token'[u].state = "vivo"
            BY <2>2 DEF Spent
        <3>2. u # t
            BY <1>1, <1>2, <1>3, <2>1, <3>1
        <3>3. old[u].state = "vivo"
            BY <1>3, <3>1, <3>2
        <3>4. old = token
            BY <3>3 DEF Revoked, RestOK, Token
        <3> QED
            BY <1>3, <2>1, <2>2, <3>1, <3>2, <3>4 DEF Spent
    <2> QED
        BY <1>2, <2>1, <2>2
<1> QED
    BY <1>1, <1>3, <1>4, <1>5 DEF Spent

\* A token that takes the place of the one presented.
LEMMA RotatedSpends ==
    ASSUME RestOK, IssuedOnly, NEW t \in Tokens, token[t].state = "vivo", NEW u \in Tokens, FreshToken(u),
           token' = [token EXCEPT ![t].state = "revocato", ![u] = token[t]]
    PROVE  /\ u \notin Issued /\ t \in Issued /\ Issued' = Issued \cup {u}
           /\ token'[u].family = token[t].family
           /\ \A s \in Issued : /\ token'[s].family = token[s].family
                                /\ s # t /\ Spent(token', s) => Spent(token, s)
           /\ ~Spent(token', u)
<1> DEFINE o == [token[t] EXCEPT !.state = "revocato"]
<1>1. u \notin Issued /\ t \in Issued /\ u # t
    BY DEF FreshToken, Issued
<1>2. token[t] \in Token /\ o.family = token[t].family /\ o.state = "revocato"
    BY DEF RestOK, Token
<1>3. token' = [token EXCEPT ![t] = o, ![u] = token[t]]
    OBVIOUS
<1> HIDE DEF o
<1>4. /\ token'[t] = o /\ token'[u] = token[t]
      /\ \A s \in Tokens : s # t /\ s # u => token'[s] = token[s]
    BY <1>1, <1>3 DEF RestOK
<1>5. Issued' = Issued \cup {u}
    BY <1>1, <1>2, <1>4 DEF Issued
<1>6. ASSUME NEW s \in Issued, s # t, Spent(token', s)
      PROVE  Spent(token, s)
    <2>1. s \in Tokens /\ token'[s] = token[s]
        BY <1>1, <1>4, <1>6 DEF Issued
    <2>2. PICK v \in Tokens : token'[v].family = token'[s].family /\ token'[v].state = "vivo"
        BY <1>6 DEF Spent
    <2> QED
        BY <1>2, <1>4, <1>6, <2>1, <2>2 DEF Spent
<1> QED
    BY <1>1, <1>2, <1>4, <1>5, <1>6 DEF Spent, Issued

\* A step that issues no token and stores none.
LEMMA NothingNew ==
    ASSUME Sane, SessionsInv, LoneInv, Opened', IsFiniteSet(history.loaded)', Issued' = Issued,
           \A t \in Tokens : /\ token'[t].family = token[t].family
                             /\ Spent(token', t) => Spent(token, t),
           stored' \in {stored, NoToken},
           \A b \in Tabs :
              \/ flight'[b] = flight[b]
              \/ /\ flight'[b].pc \in {"niente", "respinta"}
                 /\ flight'[b].token \in {flight[b].token, NoToken},
           \A x \in Calls : Brought(call'[x]) => call'[x] = call[x],
           LoneTab' => /\ LoneTab /\ ~history'.tripped
                       /\ stored' = NoToken \/ flight' = flight \/ ~Spent(token, stored)
    PROVE  SessionsInv' /\ LoneInv'
<1>0. Issued \subseteq Tokens /\ NoToken \notin Tokens
    BY DEF Issued, Tokens, NoToken
<1>1. IssuedOnly'
    BY <1>0 DEF SessionsInv, IssuedOnly
<1>2. ASSUME LoneTab'
      PROVE  Separate'
    BY <1>0, <1>2 DEF LoneInv, SessionsInv, IssuedOnly, Separate
<1>3. ASSUME LoneTab'
      PROVE  NotSpent'
    <2>1. \A t \in Issued \cup {NoToken} : Spent(token', t) => Spent(token, t)
        BY <1>0 DEF Spent
    <2>2. NotSpent
        BY <1>3 DEF LoneInv
    <2>3. \A x \in Calls : Brought(call'[x]) => ~Spent(token', call'[x].token)
        BY <2>1, <2>2 DEF NotSpent, SessionsInv, IssuedOnly
    <2>4. \A b \in Tabs : flight'[b].pc \in {"inviata", "ruotata"} => ~Spent(token', flight'[b].token)
        BY <2>1, <2>2 DEF NotSpent, SessionsInv, IssuedOnly
    <2>5. Spent(token', stored') => \E b \in Tabs : flight'[b].pc = "ruotata"
        <3>1. ~Spent(token', NoToken)
            BY DEF Spent
        <3> QED
            BY <1>3, <2>1, <2>2, <3>1 DEF NotSpent, SessionsInv, IssuedOnly
    <2> QED
        BY <2>3, <2>4, <2>5 DEF NotSpent
<1> QED
    BY <1>1, <1>2, <1>3 DEF SessionsInv, LoneInv

------------------------------------------------------------------------------
(* Every step of a browser with one tab.                                    *)

Kept == SessionsInv /\ LoneInv

\* Only one call changes, for one that brings nothing, in a tab that is open.
LEMMA OneCallOpens ==
    ASSUME Sane, Opened, NEW x \in Calls, NEW n \in Call, CallOrder(n), Become(x, n),
           n.tab \in history.loaded, ~Brought(n), history' = history,
           \A b \in Tabs : flight'[b].pc # "niente" \/ shown'[b] # "sconosciuta" =>
               b \in history.loaded
    PROVE  Opened' /\ \A y \in Calls : Brought(call'[y]) => call'[y] = call[y]
<1>1. call'[x] = n /\ \A y \in Calls : y # x => call'[y] = call[y]
    BY OneCallChanges
<1> QED
    BY <1>1 DEF Opened

LEMMA SameTokens ==
    ASSUME UNCHANGED token
    PROVE  /\ Issued' = Issued
           /\ \A t \in Tokens : /\ token'[t].family = token[t].family
                                /\ Spent(token', t) => Spent(token, t)
BY DEF Issued

LEMMA StartKeeps ==
    ASSUME Sane, Kept, NEW x \in Calls, NEW k \in Kinds, NEW b \in Tabs, Start(x, k, b)
    PROVE  Kept'
<1> DEFINE n == Sent(NewCall(k, b))
<1>1. n \in Call /\ CallOrder(n) /\ n.tab = b /\ n.answer = "nessuna"
    BY NewCallIsSane, SentIsSane DEF Sane
<1>2. Become(x, n) /\ UNCHANGED <<token, stored, access, flight, shown, faults, history>>
      /\ shown[b] # "sconosciuta"
    BY DEF Start, Begins, Allowed, Kinds
<1> HIDE DEF n
<1>3. b \in history.loaded /\ ~Brought(n)
    BY <1>1, <1>2 DEF Kept, SessionsInv, Opened, Brought
<1>4. Opened' /\ \A y \in Calls : Brought(call'[y]) => call'[y] = call[y]
    BY <1>1, <1>2, <1>3, OneCallOpens DEF Kept, SessionsInv, Opened
<1> QED
    BY <1>2, <1>4, SameTokens, NothingNew DEF Kept, SessionsInv, LoneTab, LoneInv

LEMMA StartLogoutKeeps ==
    ASSUME Sane, Kept, NEW x \in Calls, NEW b \in Tabs, StartLogout(x, b)
    PROVE  Kept'
<1> DEFINE c == NewCall("esce", b)
<1>0. RestOK /\ "esce" \in Kinds
    BY SaneIsBoth DEF Kinds
<1>1. c \in Call /\ CallOrder(c) /\ c.ran = 0 /\ c.round = 0 /\ c.tab = b
    BY <1>0, NewCallIsSane
<1>2. UNCHANGED <<token, stored, flight, faults, history>> /\ b \in history.loaded
    BY DEF StartLogout, Begins, Allowed, Kept, SessionsInv, Opened
<1>3. PICK n \in Call : Become(x, n) /\ CallOrder(n) /\ n.answer = "nessuna" /\ n.tab = b
    <2>1. CASE stored # NoToken
        <3> DEFINE n == [Sent(c) EXCEPT !.token = stored]
        <3>1. Become(x, n)
            BY <2>1 DEF StartLogout
        <3>2. Sent(c) \in Call /\ CallOrder(Sent(c)) /\ Sent(c).answer = "nessuna" /\ Sent(c).tab = b
            BY <1>1, SentIsSane DEF Sane
        <3>3. stored \in 0 .. MaxTokens
            BY <1>0, MaxTokensAssumption DEF RestOK, Tokens, NoToken
        <3> HIDE DEF c
        <3>4. n \in Call /\ CallOrder(n) /\ n.answer = "nessuna" /\ n.tab = b
            BY <3>2, <3>3 DEF Call, CallOrder, Unhandled, Brought
        <3> HIDE DEF n
        <3> QED
            BY <3>1, <3>4
    <2>2. CASE stored = NoToken
        <3>1. EndCall(c, "riuscita") \in Call /\ CallOrder(EndCall(c, "riuscita"))
              /\ EndCall(c, "riuscita").answer = "nessuna" /\ EndCall(c, "riuscita").tab = b
            BY <1>1, EndIsSane
        <3>2. Become(x, EndCall(c, "riuscita"))
            BY <2>2 DEF StartLogout
        <3> QED
            BY <3>1, <3>2
    <2> QED
        BY <2>1, <2>2
<1>4. \A a \in Tabs : flight'[a].pc # "niente" \/ shown'[a] # "sconosciuta" => a \in history.loaded
    <2>1. shown' = shown \/ shown' = [shown EXCEPT ![b] = "assente"]
        BY DEF StartLogout
    <2> QED
        BY <1>0, <1>2, <2>1 DEF Kept, SessionsInv, Opened, RestOK
<1>5. Opened' /\ \A y \in Calls : Brought(call'[y]) => call'[y] = call[y]
    BY <1>2, <1>3, <1>4, OneCallOpens DEF Kept, SessionsInv, Brought
<1> QED
    BY <1>2, <1>5, SameTokens, NothingNew DEF Kept, SessionsInv, LoneTab, LoneInv

\* A rotation that starts: the token in the storage has not been spent.
LEMMA JoinKeeps ==
    ASSUME Sane, Kept, NEW b \in Tabs, flight' = [flight EXCEPT ![b] = Joined(b)],
           UNCHANGED <<token, stored, faults>>, Opened', IsFiniteSet(history.loaded)',
           history.loaded \subseteq history'.loaded, b \in history'.loaded,
           history'.tripped = history.tripped,
           \A y \in Calls : Brought(call'[y]) => call'[y] = call[y]
    PROVE  Kept'
<1>0. RestOK /\ Issued' = Issued
    BY SaneIsBoth DEF Issued
<1>1. /\ flight'[b] = Joined(b) /\ \A a \in Tabs : a # b => flight'[a] = flight[a]
      /\ \/ Joined(b) = flight[b]
         \/ flight[b].pc = "niente" /\ Joined(b).pc = "inviata" /\ Joined(b).token = stored
    BY <1>0 DEF Joined, RestOK
<1>2. IssuedOnly'
    BY <1>0, <1>1 DEF Kept, SessionsInv, IssuedOnly
<1>3. ASSUME LoneTab'
      PROVE  Separate' /\ NotSpent' /\ ~history'.tripped
    <2>1. LoneTab /\ Separate /\ NotSpent /\ ~history.tripped
        BY <1>3 DEF LoneTab, Kept, LoneInv
    <2>2. Separate'
        BY <1>1, <2>1 DEF Separate
    <2>3. flight[b].pc = "niente" => ~Spent(token, stored)
        BY <1>3, <2>1 DEF LoneTab, NotSpent, Kept, SessionsInv, Opened
    <2>4. NotSpent'
        BY <1>1, <2>1, <2>3 DEF NotSpent
    <2> QED
        BY <2>1, <2>2, <2>4
<1> QED
    BY <1>2, <1>3 DEF Kept, SessionsInv, LoneInv

LEMMA RestoreKeeps ==
    ASSUME Sane, Kept, NEW x \in Calls, NEW b \in Tabs, Restore(x, b)
    PROVE  Kept'
<1> DEFINE c == NewCall("riprende", b)
           n == [c EXCEPT !.pc = "aspetta"]
<1>0. RestOK /\ "riprende" \in Kinds
    BY SaneIsBoth DEF Kinds
<1>1. c \in Call /\ CallOrder(c) /\ c.ran = 0 /\ c.round = 0 /\ c.tab = b /\ c.answer = "nessuna"
    BY <1>0, NewCallIsSane
<1>2. UNCHANGED <<token, stored, access, faults>>
      /\ \/ Become(x, EndCall(c, "riuscita")) /\ UNCHANGED flight
            /\ shown' = [shown EXCEPT ![b] = "assente"]
         \/ Become(x, n) /\ UNCHANGED shown /\ flight' = [flight EXCEPT ![b] = Joined(b)]
    BY DEF Restore
<1>3. /\ history'.loaded = history.loaded \cup {b} /\ history'.tripped = history.tripped
    BY <1>0 DEF Restore, RestOK
<1>4. IsFiniteSet(history'.loaded)
    BY <1>3, FS_AddElement DEF Kept, SessionsInv
<1>5. EndCall(c, "riuscita") \in Call /\ CallOrder(EndCall(c, "riuscita"))
      /\ EndCall(c, "riuscita").answer = "nessuna" /\ EndCall(c, "riuscita").tab = b
    BY <1>1, EndIsSane
<1> HIDE DEF c
<1>6. n \in Call /\ CallOrder(n) /\ n.answer = "nessuna" /\ n.tab = b
    BY <1>1 DEF Call, CallOrder, Unhandled, Brought
<1> HIDE DEF n
<1>7. PICK m \in Call : Become(x, m) /\ CallOrder(m) /\ m.answer = "nessuna" /\ m.tab = b
    BY <1>2, <1>5, <1>6
<1>8. call'[x] = m /\ \A y \in Calls : y # x => call'[y] = call[y]
    BY <1>7, OneCallChanges
<1>9. \A y \in Calls : Brought(call'[y]) => call'[y] = call[y]
    BY <1>7, <1>8 DEF Brought
<1>10. Opened'
    BY <1>0, <1>2, <1>3, <1>7, <1>8 DEF Kept, SessionsInv, Opened, RestOK
<1>11. CASE UNCHANGED flight
    <2>1. LoneTab' => LoneTab /\ ~history'.tripped
        BY <1>2, <1>3 DEF LoneTab, Kept, LoneInv
    <2> QED
        BY <1>2, <1>4, <1>9, <1>10, <1>11, <2>1, SameTokens, NothingNew DEF Kept
<1>12. CASE flight' = [flight EXCEPT ![b] = Joined(b)]
    BY <1>2, <1>3, <1>4, <1>9, <1>10, <1>12, JoinKeeps
<1> QED
    BY <1>2, <1>11, <1>12


LEMMA ServerKeeps ==
    ASSUME Sane, Kept, NEW x \in Calls, ServerStep(x)
    PROVE  Kept'
<1>0. /\ RestOK /\ call[x] \in Call /\ CallOrder(call[x])
      /\ call[x].pc = "inviata" /\ call[x].tab \in history.loaded
      /\ UNCHANGED <<stored, access, flight, shown, faults, history>>
    BY SaneIsBoth, CallFields
       DEF ServerStep, Refuse, RefuseBody, Handle, Kept, SessionsInv, Opened
<1>1. ASSUME NEW n \in Call, CallOrder(n), Become(x, n), n.tab = call[x].tab, ~Brought(n),
             Issued' = Issued,
             \A t \in Tokens : /\ token'[t].family = token[t].family
                               /\ Spent(token', t) => Spent(token, t)
      PROVE  Kept'
    <2>1. Opened' /\ \A y \in Calls : Brought(call'[y]) => call'[y] = call[y]
        BY <1>0, <1>1, OneCallOpens DEF Kept, SessionsInv, Opened
    <2> QED
        BY <1>0, <1>1, <2>1, NothingNew DEF Kept, SessionsInv, LoneTab, LoneInv
<1>2. CASE Refuse(x)
    <2>1. call[x].ran <= call[x].round
        BY <1>0 DEF CallOrder, Unhandled
    <2>2. /\ Answered(call[x], "401") \in Call /\ CallOrder(Answered(call[x], "401"))
          /\ Answered(call[x], "401").answer = "401" /\ Answered(call[x], "401").tab = call[x].tab
        BY <1>0, <2>1, AnsweredIsSane
    <2> QED
        BY <1>1, <1>2, <2>2, SameTokens DEF Refuse, Brought
<1>3. CASE RefuseBody(x)
    <2>1. /\ Ran(call[x], "corpo") \in Call /\ CallOrder(Ran(call[x], "corpo"))
          /\ Ran(call[x], "corpo").answer = "corpo" /\ Ran(call[x], "corpo").tab = call[x].tab
        BY <1>0, <1>3, RanIsSane DEF RefuseBody
    <2> QED
        BY <1>1, <1>3, <2>1, SameTokens DEF RefuseBody, Brought
<1>4. CASE Handle(x)
    <2>1. PICK a \in {"ok", "ancora"} :
            \/ /\ call[x].kind \in {"legge", "svuota"}
               /\ Become(x, Ran(call[x], a)) /\ UNCHANGED token
            \/ /\ call[x].kind \in Persists
               /\ \E t \in Tokens :
                    /\ FreshToken(t)
                    /\ token' = [(IF call[x].kind = "password" THEN Revoked(Tokens) ELSE token)
                                 EXCEPT ![t] = [state |-> "vivo", family |-> t]]
                    /\ Become(x, [Ran(call[x], a) EXCEPT !.token = t])
            \/ /\ call[x].kind = "cancella"
               /\ token' = Revoked(Tokens) /\ Become(x, Ran(call[x], a))
            \/ /\ call[x].kind = "esce"
               /\ token' = Revoked(Family(token[call[x].token].family))
               /\ Become(x, Ran(call[x], a))
        BY <1>4 DEF Handle
    <2>2. /\ Ran(call[x], a) \in Call /\ Ran(call[x], a).pc = "risposta"
          /\ Ran(call[x], a).answer = a /\ Ran(call[x], a).kind = call[x].kind
          /\ Ran(call[x], a).tab = call[x].tab
          /\ call[x].kind \notin Persists => CallOrder(Ran(call[x], a))
        BY <1>0, RanIsSane
    <2>3. CASE call[x].kind \notin Persists
        <3>1. /\ Become(x, Ran(call[x], a))
              /\ UNCHANGED token \/ \E ts : token' = Revoked(ts) /\ (ts = Tokens \/ \E f : ts = Family(f))
            BY <2>1, <2>3
        <3>2. /\ Issued' = Issued
              /\ \A t \in Tokens : /\ token'[t].family = token[t].family
                                   /\ Spent(token', t) => Spent(token, t)
            BY <1>0, <3>1, SameTokens, RevokedSpends
        <3> QED
            BY <1>1, <2>2, <2>3, <3>1, <3>2 DEF Brought
    <2>4. ASSUME NEW t \in Tokens, FreshToken(t),
                 token' = [(IF call[x].kind = "password" THEN Revoked(Tokens) ELSE token)
                           EXCEPT ![t] = [state |-> "vivo", family |-> t]],
                 Become(x, [Ran(call[x], a) EXCEPT !.token = t])
          PROVE  Kept'
        <3> DEFINE n == [Ran(call[x], a) EXCEPT !.token = t]
                   old == IF call[x].kind = "password" THEN Revoked(Tokens) ELSE token
        <3>1. /\ n.token = t /\ n.tab = call[x].tab /\ n.pc = "risposta"
              /\ call'[x] = n /\ \A y \in Calls : y # x => call'[y] = call[y]
            BY <2>2, <2>4 DEF Become, Call, Sane, ClientTypeOK
        <3>2. old \in [Tokens -> Token] /\ (old = token \/ old = Revoked(Tokens))
            BY <1>0, RevokedIsTyped DEF RestOK
        <3>3. token' = [old EXCEPT ![t] = [state |-> "vivo", family |-> t]]
            BY <2>4
        <3> HIDE DEF n, old
        <3>4. /\ t \notin Issued /\ Issued' = Issued \cup {t} /\ token'[t].family = t
              /\ \A s \in Issued : /\ token'[s].family = token[s].family
                                   /\ Spent(token', s) => Spent(token, s)
              /\ ~Spent(token', t)
            BY <1>0, <2>4, <3>2, <3>3, IssuedSpends DEF Kept, SessionsInv
        <3>5. Opened' /\ IsFiniteSet(history'.loaded)
            BY <1>0, <3>1 DEF Kept, SessionsInv, Opened
        <3>6. t # NoToken /\ ~Spent(token', NoToken)
            BY DEF Tokens, NoToken, Spent
        <3>7. IssuedOnly'
            BY <1>0, <3>1, <3>4 DEF Kept, SessionsInv, IssuedOnly
        <3>8. ASSUME LoneTab'
              PROVE  Separate' /\ NotSpent' /\ ~history'.tripped
            <4>1. Separate /\ NotSpent /\ ~history.tripped
                BY <1>0, <3>8 DEF LoneTab, Kept, LoneInv
            <4>2. Separate'
                BY <1>0, <3>1, <3>4, <3>6, <4>1 DEF Separate, Kept, SessionsInv, IssuedOnly
            <4>3. \A y \in Calls : Brought(call'[y]) => ~Spent(token', call'[y].token)
                BY <3>1, <3>4, <4>1 DEF NotSpent, Kept, SessionsInv, IssuedOnly
            <4>4. \A b \in Tabs : flight'[b].pc \in {"inviata", "ruotata"} => ~Spent(token', flight'[b].token)
                BY <1>0, <3>4, <3>6, <4>1 DEF NotSpent, Kept, SessionsInv, IssuedOnly
            <4>5. Spent(token', stored') => \E b \in Tabs : flight'[b].pc = "ruotata"
                BY <1>0, <3>4, <3>6, <4>1 DEF NotSpent, Kept, SessionsInv, IssuedOnly
            <4> QED
                BY <1>0, <4>1, <4>2, <4>3, <4>4, <4>5 DEF NotSpent
        <3> QED
            BY <3>5, <3>7, <3>8 DEF Kept, SessionsInv, LoneInv
    <2> QED
        <3>1. call[x].kind \in {"legge", "svuota", "cancella", "esce"} => call[x].kind \notin Persists
            BY DEF Persists
        <3> QED
            BY <2>1, <2>3, <2>4, <3>1
<1> QED
    BY <1>2, <1>3, <1>4 DEF ServerStep

LEMMA ClientKeeps ==
    ASSUME Sane, Kept, NEW x \in Calls, ClientStep(x)
    PROVE  Kept'
<1>0. /\ RestOK /\ call[x] \in Call /\ CallOrder(call[x]) /\ call[x].tab \in Tabs
      /\ call[x].pc = "risposta" /\ call[x].tab \in history.loaded
      /\ UNCHANGED <<token, faults, history>>
    BY SaneIsBoth, CallFields
       DEF ClientStep, Recover, GiveUp, Fail, Entered, Left, Read, Kept, SessionsInv, Opened
<1>1. \A s \in {"attiva", "assente"} :
        /\ shown' = shown \/ shown' = [shown EXCEPT ![call[x].tab] = s]
        /\ flight' = flight \/ flight' = [flight EXCEPT ![call[x].tab] = Joined(call[x].tab)]
        => \A b \in Tabs : flight'[b].pc # "niente" \/ shown'[b] # "sconosciuta" => b \in history.loaded
    BY <1>0 DEF Kept, SessionsInv, Opened, RestOK
<1>2. ASSUME NEW n \in Call, CallOrder(n), Become(x, n), n.tab = call[x].tab, n.pc # "risposta",
             \E s \in {"attiva", "assente"} :
               /\ shown' = shown \/ shown' = [shown EXCEPT ![call[x].tab] = s]
               /\ flight' = flight \/ flight' = [flight EXCEPT ![call[x].tab] = Joined(call[x].tab)]
      PROVE  Opened' /\ \A y \in Calls : Brought(call'[y]) => call'[y] = call[y]
    BY <1>0, <1>1, <1>2, OneCallOpens DEF Kept, SessionsInv, Brought
<1>3. ASSUME NEW n \in Call, CallOrder(n), Become(x, n), n.tab = call[x].tab, n.pc # "risposta",
             stored' \in {stored, NoToken}, UNCHANGED flight,
             \E s \in {"attiva", "assente"} : shown' = shown \/ shown' = [shown EXCEPT ![call[x].tab] = s]
      PROVE  Kept'
    <2>1. Opened' /\ \A y \in Calls : Brought(call'[y]) => call'[y] = call[y]
        BY <1>2, <1>3
    <2> QED
        BY <1>0, <1>3, <2>1, SameTokens, NothingNew DEF Kept, SessionsInv, LoneTab, LoneInv
<1>4. ASSUME NEW pc \in {"riuscita", "fallita"}
      PROVE  /\ EndCall(call[x], pc) \in Call /\ CallOrder(EndCall(call[x], pc))
             /\ EndCall(call[x], pc).tab = call[x].tab /\ EndCall(call[x], pc).pc # "risposta"
    <2>1. pc \in {"riuscita", "fallita", "aspetta"} /\ pc # "aspetta" /\ pc # "risposta"
        BY <1>4
    <2> QED
        BY <1>0, <2>1, EndIsSane
<1>5. CASE Recover(x)
    <2> DEFINE e == EndCall(call[x], "aspetta")
               n == [e EXCEPT !.retry = FALSE]
    <2>1. Become(x, n) /\ call[x].answer = "401"
          /\ flight' = [flight EXCEPT ![call[x].tab] = Joined(call[x].tab)]
          /\ UNCHANGED <<token, stored, access, shown, faults, history>>
        BY <1>5 DEF Recover, Recoverable
    <2>2. e \in Call /\ CallOrder(e) /\ e.tab = call[x].tab /\ e.pc = "aspetta"
        BY <1>0, <2>1, EndIsSane DEF CallOrder, Unhandled
    <2> HIDE DEF e
    <2>3. n \in Call /\ CallOrder(n) /\ n.tab = call[x].tab /\ n.pc = "aspetta"
        BY <2>2 DEF Call, CallOrder, Unhandled, Brought
    <2> HIDE DEF n
    <2>4. Opened' /\ \A y \in Calls : Brought(call'[y]) => call'[y] = call[y]
        BY <1>2, <2>1, <2>3
    <2> QED
        BY <1>0, <2>1, <2>4, JoinKeeps DEF Kept, SessionsInv
<1>6. CASE GiveUp(x) \/ Fail(x) \/ Left(x)
    <2>1. /\ \E pc \in {"riuscita", "fallita"} : Become(x, EndCall(call[x], pc))
          /\ stored' \in {stored, NoToken} /\ UNCHANGED flight
          /\ shown' = shown \/ shown' = [shown EXCEPT ![call[x].tab] = "assente"]
        BY <1>6 DEF GiveUp, Fail, Left, Cleared
    <2> QED
        BY <1>3, <1>4, <2>1
<1>7. CASE Read(x)
    <2>1. CASE AsksAgain(call[x])
        <3> DEFINE m == call[x].round + 1
                   a == IF call[x].kind \in Auth THEN access[call[x].tab] ELSE NoAccess
                   n == [call[x] EXCEPT !.pc = "inviata", !.answer = "nessuna", !.with = a,
                                        !.round = m, !.retry = TRUE]
        <3>1. call[x].round \in 0 .. GIRI_DI_SVUOTAMENTO - 1 /\ call[x].ran <= m /\ m < GIRI_DI_SVUOTAMENTO
            BY <1>0, <2>1 DEF Call, CallOrder, AsksAgain
        <3>2. m \in 0 .. GIRI_DI_SVUOTAMENTO - 1
            BY <3>1, GiriAssumption
        <3>3. a \in Access
            BY <1>0, NoAccessIsTyped DEF RestOK
        <3>4. Become(x, [Sent(call[x]) EXCEPT !.round = @ + 1, !.retry = TRUE])
            BY <1>7, <2>1 DEF Read
        <3>5. Sent(call[x]) = [call[x] EXCEPT !.pc = "inviata", !.answer = "nessuna", !.with = a]
            BY DEF Sent
        <3> HIDE DEF a
        <3>6. Become(x, n)
            BY <1>0, <3>4, <3>5 DEF Call
        <3> HIDE DEF m
        <3>7. /\ n \in Call /\ n.ran = call[x].ran /\ n.round = m /\ n.answer = "nessuna"
              /\ n.pc = "inviata" /\ n.tab = call[x].tab
            BY <1>0, <3>2, <3>3 DEF Call
        <3> HIDE DEF n
        <3>8. CallOrder(n)
            BY <1>0, <3>1, <3>2, <3>7 DEF CallOrder, Unhandled, Brought, Call
        <3> QED
            BY <1>3, <1>7, <3>6, <3>7, <3>8 DEF Read
    <2>2. CASE ~AsksAgain(call[x])
        BY <1>3, <1>4, <1>7, <2>2 DEF Read
    <2> QED
        BY <2>1, <2>2
<1>8. CASE Entered(x)
    <2>1. /\ Brought(call[x]) /\ stored' = call[x].token /\ UNCHANGED flight
          /\ shown' = [shown EXCEPT ![call[x].tab] = "attiva"]
          /\ Become(x, EndCall(call[x], "riuscita"))
        BY <1>8 DEF Entered, Brought, Persisted
    <2>2. Opened' /\ \A y \in Calls : Brought(call'[y]) => call'[y] = call[y]
        BY <1>2, <1>4, <2>1
    <2>3. call'[x] = EndCall(call[x], "riuscita") /\ ~Brought(call'[x]) /\ Issued' = Issued
        BY <1>0, <1>4, <2>1, OneCallChanges DEF Brought, Issued
    <2>4. IssuedOnly'
        BY <1>0, <2>1, <2>2, <2>3 DEF Kept, SessionsInv, IssuedOnly
    <2>5. ASSUME LoneTab'
          PROVE  Separate' /\ NotSpent' /\ ~history'.tripped
        <3>1. Separate /\ NotSpent /\ ~history.tripped
            BY <1>0, <2>5 DEF LoneTab, Kept, LoneInv
        <3>2. Separate'
            BY <2>1, <2>2, <2>3, <3>1 DEF Separate
        <3>3. NotSpent'
            BY <1>0, <2>1, <2>2, <3>1 DEF NotSpent
        <3> QED
            BY <1>0, <3>1, <3>2, <3>3
    <2> QED
        BY <1>0, <2>2, <2>4, <2>5 DEF Kept, SessionsInv, LoneInv
<1> QED
    BY <1>5, <1>6, <1>7, <1>8 DEF ClientStep

LEMMA LossKeeps ==
    ASSUME Sane, Kept, NEW x \in Calls, LoseCall(x)
    PROVE  Kept'
<1> DEFINE n == Answered(call[x], "rete")
<1>0. /\ RestOK /\ call[x] \in Call /\ CallOrder(call[x]) /\ call[x].tab \in history.loaded
      /\ UNCHANGED <<token, stored, access, flight, shown, history>> /\ Become(x, n)
    BY SaneIsBoth, CallFields DEF LoseCall, Kept, SessionsInv, Opened
<1>1. n \in Call /\ CallOrder(n) /\ n.answer = "rete" /\ n.tab = call[x].tab
    BY <1>0, AnsweredIsSane
<1> HIDE DEF n
<1>2. Opened' /\ \A y \in Calls : Brought(call'[y]) => call'[y] = call[y]
    BY <1>0, <1>1, OneCallOpens DEF Kept, SessionsInv, Opened, Brought
<1>3. ~LoneTab'
    BY <1>0 DEF LoseCall, Loss, LoneTab, RestOK
<1> QED
    BY <1>0, <1>2, <1>3, SameTokens, NothingNew DEF Kept, SessionsInv

\* A flight that comes back with nothing.
LEMMA RefusedFlight ==
    ASSUME Sane, Kept, NEW b \in Tabs, flight' = [flight EXCEPT ![b].pc = "respinta"],
           flight[b].pc \in {"inviata", "ruotata"},
           UNCHANGED <<stored, access, shown, call>>, history'.loaded = history.loaded,
           Issued' = Issued,
           \A t \in Tokens : /\ token'[t].family = token[t].family
                             /\ Spent(token', t) => Spent(token, t),
           LoneTab' => LoneTab /\ ~history'.tripped /\ flight[b].pc = "inviata"
    PROVE  Kept'
<1>0. RestOK /\ flight[b] \in Flight /\ b \in history.loaded
    BY SaneIsBoth DEF RestOK, Kept, SessionsInv, Opened
<1>1. /\ flight'[b].pc = "respinta" /\ flight'[b].token = flight[b].token
      /\ \A a \in Tabs : a # b => flight'[a] = flight[a]
    BY <1>0 DEF RestOK, Flight
<1>2. Opened'
    BY <1>0, <1>1 DEF Kept, SessionsInv, Opened
<1>3. LoneTab' => ~Spent(token, stored)
    BY <1>0 DEF LoneTab, Kept, LoneInv, NotSpent, SessionsInv, Opened
<1> QED
    BY <1>1, <1>2, <1>3, NothingNew DEF Kept, SessionsInv

LEMMA RotationKeeps ==
    ASSUME Sane, Kept, NEW b \in Tabs, Rotate(b) \/ LoseRotation(b)
    PROVE  Kept'
<1>0. /\ RestOK /\ flight[b] \in Flight /\ flight[b].token \in Tokens \cup {NoToken}
      /\ flight[b].pc # "niente" /\ b \in history.loaded
      /\ UNCHANGED <<stored, access, shown, call>>
    BY SaneIsBoth, FlightFields DEF RestOK, Rotate, LoseRotation, Kept, SessionsInv, Opened
<1>1. CASE LoseRotation(b)
    <2>1. ~LoneTab'
        BY <1>0, <1>1 DEF LoseRotation, Loss, LoneTab, RestOK
    <2> QED
        BY <1>0, <1>1, <2>1, SameTokens, RefusedFlight DEF LoseRotation
<1>2. CASE Rotate(b)
    <2> DEFINE t == flight[b].token
    <2>0. UNCHANGED faults /\ flight[b].pc = "inviata"
        BY <1>2 DEF Rotate
    <2>1. ASSUME t # NoToken, token[t].state = "vivo", NEW u \in Tokens, FreshToken(u),
                 token' = [token EXCEPT ![t].state = "revocato", ![u] = token[t]],
                 flight' = [flight EXCEPT ![b] = [@ EXCEPT !.pc = "ruotata", !.token = u]],
                 UNCHANGED history
          PROVE  Kept'
        <3>1. t \in Tokens
            BY <1>0, <2>1
        <3>2. /\ u \notin Issued /\ t \in Issued /\ Issued' = Issued \cup {u}
              /\ token'[u].family = token[t].family
              /\ \A s \in Issued : /\ token'[s].family = token[s].family
                                   /\ s # t /\ Spent(token', s) => Spent(token, s)
              /\ ~Spent(token', u)
            BY <1>0, <2>1, <3>1, RotatedSpends DEF Kept, SessionsInv
        <3>3. /\ flight'[b].pc = "ruotata" /\ flight'[b].token = u
              /\ \A a \in Tabs : a # b => flight'[a] = flight[a]
            BY <1>0, <2>1 DEF RestOK, Flight
        <3> HIDE DEF t
        <3>4. Opened' /\ IsFiniteSet(history'.loaded)
            BY <1>0, <2>1, <3>3 DEF Kept, SessionsInv, Opened
        <3>5. u # NoToken /\ ~Spent(token', NoToken)
            BY DEF Tokens, NoToken, Spent
        <3>6. IssuedOnly'
            BY <1>0, <3>2, <3>3 DEF Kept, SessionsInv, IssuedOnly
        <3>7. ASSUME LoneTab'
              PROVE  Separate' /\ NotSpent' /\ ~history'.tripped
            <4>1. Separate /\ NotSpent /\ ~history.tripped
                BY <2>0, <2>1, <3>7 DEF LoneTab, Kept, LoneInv
            <4>2. \A a \in Tabs : a # b => flight'[a].pc = "niente"
                BY <1>0, <2>1, <3>3, <3>7 DEF LoneTab, Kept, SessionsInv, Opened
            <4>3. Separate'
                BY <1>0, <3>2, <3>3, <3>5, <4>1, <4>2 DEF Separate, Kept, SessionsInv, IssuedOnly
            <4>4. NotSpent'
                <5>1. \A y \in Calls : Brought(call'[y]) => ~Spent(token', call'[y].token)
                    <6>1. \A y \in Calls : Brought(call[y]) => call[y].token # t
                        BY <4>1 DEF Separate, t
                    <6> QED
                        BY <1>0, <3>2, <4>1, <6>1 DEF NotSpent, Kept, SessionsInv, IssuedOnly
                <5> QED
                    BY <3>2, <3>3, <4>2, <5>1 DEF NotSpent
            <4> QED
                BY <2>1, <4>1, <4>3, <4>4
        <3> QED
            BY <3>4, <3>6, <3>7 DEF Kept, SessionsInv, LoneInv
    <2>2. ASSUME flight' = [flight EXCEPT ![b].pc = "respinta"], UNCHANGED <<token, history>>
          PROVE  Kept'
        BY <1>0, <2>0, <2>2, SameTokens, RefusedFlight DEF LoneTab, Kept, LoneInv
    <2>3. ASSUME t # NoToken, token[t].state = "revocato",
                 flight' = [flight EXCEPT ![b].pc = "respinta"],
                 token' = Revoked(Family(token[t].family)),
                 history' = [history EXCEPT !.tripped = @ \/ IsFamilyActive(token[t].family)]
          PROVE  Kept'
        <3>1. history'.loaded = history.loaded
              /\ history'.tripped = (history.tripped \/ IsFamilyActive(token[t].family))
            BY <1>0, <2>3 DEF RestOK
        <3>2. /\ Issued' = Issued
              /\ \A s \in Tokens : /\ token'[s].family = token[s].family
                                   /\ Spent(token', s) => Spent(token, s)
            BY <1>0, <2>3, RevokedSpends
        <3>3. LoneTab' => LoneTab /\ ~history'.tripped
            <4>1. LoneTab => ~Spent(token, t) /\ ~history.tripped
                BY <2>0 DEF Kept, LoneInv, NotSpent
            <4>2. IsFamilyActive(token[t].family) => Spent(token, t)
                BY <2>3 DEF IsFamilyActive, Family, Spent
            <4> QED
                BY <2>0, <3>1, <4>1, <4>2 DEF LoneTab
        <3> QED
            BY <1>0, <2>0, <2>3, <3>1, <3>2, <3>3, RefusedFlight
    <2> QED
        BY <1>2, <2>1, <2>2, <2>3 DEF Rotate
<1> QED
    BY <1>1, <1>2

LEMMA RotatedKeeps ==
    ASSUME Sane, Kept, NEW b \in Tabs, Rotated(b)
    PROVE  Kept'
<1>0. /\ RestOK /\ b \in history.loaded /\ flight[b].pc = "ruotata"
      /\ UNCHANGED <<token, faults, history>> /\ stored' = flight[b].token
      /\ flight' = [flight EXCEPT ![b] = NoFlight]
      /\ shown' = [shown EXCEPT ![b] = "attiva"] \/ shown' = shown
    BY SaneIsBoth DEF Rotated, Persisted, Kept, SessionsInv, Opened
<1>1. ASSUME NEW x \in Calls
      PROVE  /\ call'[x].tab = call[x].tab /\ (call[x].pc = "nuova" => call'[x].pc = "nuova")
             /\ Brought(call'[x]) => call'[x] = call[x]
    <2> DEFINE n == [call[x] EXCEPT !.pc = "inviata", !.with = access'[b]]
    <2>0. call[x] \in Call /\ CallOrder(call[x])
        BY CallFields
    <2>1. \/ call'[x] = call[x]
          \/ call[x].pc = "aspetta" /\ call'[x] = EndCall(call[x], "riuscita")
          \/ call[x].pc = "aspetta" /\ call'[x] = n
        BY DEF Rotated
    <2>2. n.tab = call[x].tab /\ n.pc = "inviata"
        BY <2>0 DEF Call
    <2>3. EndCall(call[x], "riuscita").tab = call[x].tab /\ EndCall(call[x], "riuscita").pc = "riuscita"
        BY <2>0, EndIsSane
    <2> HIDE DEF n
    <2> QED
        BY <2>1, <2>2, <2>3 DEF Brought
<1>2. /\ flight'[b].pc = "niente" /\ flight'[b].token = NoToken
      /\ \A a \in Tabs : a # b => flight'[a] = flight[a]
    BY <1>0, NoFlightIsTyped DEF RestOK
<1>3. Opened' /\ Issued' = Issued
    BY <1>0, <1>1, <1>2 DEF Kept, SessionsInv, Opened, RestOK, Issued
<1>4. IssuedOnly'
    BY <1>0, <1>1, <1>2, <1>3 DEF Kept, SessionsInv, IssuedOnly
<1>5. NoToken \notin Issued
    BY DEF Issued, Tokens, NoToken
<1>6. ASSUME LoneTab'
      PROVE  Separate' /\ NotSpent' /\ ~history'.tripped
    <2>1. Separate /\ NotSpent /\ ~history.tripped
        BY <1>0, <1>6 DEF LoneTab, Kept, LoneInv
    <2>2. \A a \in Tabs : a # b => flight'[a].pc = "niente"
        BY <1>0, <1>2, <1>6 DEF LoneTab, Kept, SessionsInv, Opened
    <2>3. Separate'
        BY <1>0, <1>1, <1>2, <1>5, <2>1, <2>2 DEF Separate, Kept, SessionsInv, IssuedOnly
    <2>4. NotSpent'
        BY <1>0, <1>1, <1>2, <2>1, <2>2 DEF NotSpent
    <2> QED
        BY <1>0, <2>1, <2>3, <2>4
<1> QED
    BY <1>0, <1>3, <1>4, <1>6 DEF Kept, SessionsInv, LoneInv

LEMMA RotationFailedKeeps ==
    ASSUME Sane, Kept, NEW b \in Tabs, RotationFailed(b)
    PROVE  Kept'
<1>0. /\ RestOK /\ b \in history.loaded
      /\ UNCHANGED <<token, faults, history>> /\ stored' = NoToken
      /\ flight' = [flight EXCEPT ![b] = NoFlight]
      /\ shown' = [shown EXCEPT ![b] = "assente"] \/ shown' = shown
    BY SaneIsBoth DEF RotationFailed, Cleared, Kept, SessionsInv, Opened
<1>1. ASSUME NEW x \in Calls
      PROVE  /\ call'[x].tab = call[x].tab /\ (call[x].pc = "nuova" => call'[x].pc = "nuova")
             /\ Brought(call'[x]) => call'[x] = call[x]
    <2>0. call[x] \in Call /\ CallOrder(call[x])
        BY CallFields
    <2>1. \/ call'[x] = call[x]
          \/ /\ call[x].pc = "aspetta"
             /\ call'[x] = EndCall(call[x], "riuscita") \/ call'[x] = EndCall(call[x], "fallita")
        BY DEF RotationFailed
    <2>2. /\ EndCall(call[x], "riuscita").tab = call[x].tab /\ EndCall(call[x], "riuscita").pc = "riuscita"
          /\ EndCall(call[x], "fallita").tab = call[x].tab /\ EndCall(call[x], "fallita").pc = "fallita"
        BY <2>0 DEF EndCall, Call
    <2> QED
        BY <2>1, <2>2 DEF Brought
<1>2. /\ flight'[b].pc = "niente" /\ flight'[b].token = NoToken
      /\ \A a \in Tabs : a # b => flight'[a] = flight[a]
    BY <1>0, NoFlightIsTyped DEF RestOK
<1>3. Opened'
    BY <1>0, <1>1, <1>2 DEF Kept, SessionsInv, Opened, RestOK
<1>4. LoneTab' => LoneTab /\ ~history'.tripped
    BY <1>0 DEF LoneTab, Kept, LoneInv
<1> QED
    BY <1>0, <1>1, <1>2, <1>3, <1>4, SameTokens, NothingNew DEF Kept, SessionsInv

LEMMA WorldKeeps ==
    ASSUME Sane, Kept,
           \/ \E b \in Tabs : Expire(b)
           \/ \E f \in Tokens : CloseElsewhere(f)
           \/ UNCHANGED vars
    PROVE  Kept'
<1>0. RestOK /\ UNCHANGED <<stored, flight, shown, call, faults, history>>
    BY SaneIsBoth DEF Expire, CloseElsewhere, vars
<1>1. /\ Issued' = Issued
      /\ \A t \in Tokens : /\ token'[t].family = token[t].family
                           /\ Spent(token', t) => Spent(token, t)
    <2>1. CASE UNCHANGED token
        BY <2>1, SameTokens
    <2>2. ASSUME NEW f \in Tokens, CloseElsewhere(f)
          PROVE  /\ Issued' = Issued
                 /\ \A t \in Tokens : /\ token'[t].family = token[t].family
                                      /\ Spent(token', t) => Spent(token, t)
        BY <1>0, <2>2, RevokedSpends DEF CloseElsewhere
    <2> QED
        BY <2>1, <2>2 DEF Expire, vars
<1>2. Opened'
    BY <1>0 DEF Kept, SessionsInv, Opened
<1> QED
    BY <1>0, <1>1, <1>2, NothingNew DEF Kept, SessionsInv, LoneTab, LoneInv

LEMMA KeptStays ==
    ASSUME Sane, Kept, [Next]_vars
    PROVE  Kept'
<1>1. ASSUME NEW x \in Calls, NEW b \in Tabs,
             StartLogout(x, b) \/ Restore(x, b) \/ \E k \in Kinds : Start(x, k, b)
      PROVE  Kept'
    BY <1>1, StartLogoutKeeps, RestoreKeeps, StartKeeps
<1>2. ASSUME NEW x \in Calls, ServerStep(x) \/ ClientStep(x) \/ LoseCall(x)
      PROVE  Kept'
    BY <1>2, ServerKeeps, ClientKeeps, LossKeeps
<1>3. ASSUME NEW b \in Tabs, RotationStep(b) \/ LoseRotation(b)
      PROVE  Kept'
    BY <1>3, RotationKeeps, RotatedKeeps, RotationFailedKeeps DEF RotationStep
<1> QED
    BY <1>1, <1>2, <1>3, WorldKeeps DEF Next

LEMMA InitIsKept ==
    ASSUME Init
    PROVE  Kept
<1>1. Issued = {1} /\ token[1].family = 1 /\ 1 \in Tokens /\ token[1].state = "vivo"
    BY MaxTokensAssumption DEF Init, Issued, Tokens
<1>2. /\ \A b \in Tabs : flight[b] = NoFlight /\ shown[b] = "sconosciuta"
      /\ stored = 1 /\ history.loaded = {} /\ ~history.tripped
      /\ \A x \in Calls : call[x] = NewCall("legge", CHOOSE b \in Tabs : TRUE)
    BY DEF Init
<1>3. \A x \in Calls : call[x].pc = "nuova"
    <2>1. (CHOOSE b \in Tabs : TRUE) \in Tabs /\ "legge" \in Kinds
        BY TabsAssumption DEF Kinds
    <2> QED
        BY <1>2, <2>1, NewCallIsSane
<1>4. Opened /\ IssuedOnly /\ Separate
    BY <1>1, <1>2, <1>3, NoFlightIsTyped DEF Opened, IssuedOnly, Separate, Brought
<1>5. NotSpent
    BY <1>1, <1>2, <1>3, NoFlightIsTyped DEF NotSpent, Brought, Spent
<1> QED
    BY <1>2, <1>4, <1>5, FS_EmptySet DEF Kept, SessionsInv, LoneInv

\* A browser with one tab that lost no answer never presents a token it has spent: the
\* rotation in flight is one (client.ts, rotate), so the detection of reuse never closes a
\* live session of its own.
THEOREM LoneTabIsSafe == Spec => []LoneTabNeverTripsReuse
<1>1. ASSUME Sane, Kept, Cardinality(history.loaded) <= 1, faults = 0
      PROVE  ~history.tripped
    <2>1. ASSUME NEW a \in history.loaded, NEW b \in history.loaded, a # b
          PROVE  FALSE
        <3>0. IsFiniteSet(history.loaded)
            BY <1>1 DEF Kept, SessionsInv
        <3>1. Cardinality({a, b}) = 2
            <4>1. IsFiniteSet({a}) /\ Cardinality({a}) = 1 /\ {a, b} = {a} \cup {b} /\ b \notin {a}
                BY <2>1, FS_Singleton
            <4> QED
                BY <4>1, FS_AddElement
        <3>2. Cardinality({a, b}) <= Cardinality(history.loaded)
            <4>1. {a, b} \subseteq history.loaded
                OBVIOUS
            <4> QED
                BY <3>0, <4>1, FS_Subset
        <3>3. Cardinality(history.loaded) \in Nat
            BY <3>0, FS_CardinalityType
        <3> QED
            BY <1>1, <3>1, <3>2, <3>3
    <2> QED
        BY <1>1, <2>1 DEF Kept, LoneInv, LoneTab
<1>2. Sane /\ Kept => LoneTabNeverTripsReuse
    BY <1>1 DEF LoneTabNeverTripsReuse
<1>3. Sane /\ Kept /\ [Next]_vars => (Sane /\ Kept)'
    BY SaneStays, KeptStays
<1> QED
    BY <1>2, <1>3, InitIsSane, InitIsKept, PTL DEF Spec
================================================================================
