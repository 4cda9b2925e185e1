----------------------------- MODULE AccountScreen -----------------------------
(***************************************************************************)
(* The account: the list of the devices that are connected with a button   *)
(* on each, the button for all the others, the change of the password and  *)
(* the deletion of the account, which empties the queue of this device.    *)
(* All but the list need a proof, the password written in a field or the   *)
(* confirmation of Google.  What the server does of a session is in        *)
(* Sessions, and what emptying the queue does is in Capture.               *)
(***************************************************************************)
EXTENDS UseAsync

CONSTANTS
    Devices,    \* the other devices
    NoDevice,
    MaxCalls    \* calls of the screen under way at a time

VARIABLES
    server,   \* the sessions of the other devices, and whether there is the account
    page

accountVars == <<server, page>>

------------------------------------------------------------------------------
\* `chiuse': the sessions the server closed for it.
Call(gesto, device) == [gesto |-> gesto, device |-> device, stato |-> "andata", chiuse |-> {}]

Init ==
    /\ server = [sessione |-> [d \in Devices |-> "aperta"], conto |-> TRUE]
    /\ \E conPassword \in BOOLEAN :
         page = [elenco |-> Mount("sessioni"), conPassword |-> conPassword,
                 prova |-> FALSE, inVolo |-> NoDevice, chiesta |-> FALSE,
                 volo |-> {}, chiuse |-> {}, coda |-> TRUE]

Open == {d \in Devices : server.sessione[d] = "aperta"}
Listed == IF page.elenco.kind = "pronto" THEN page.elenco.dato ELSE {}

\* The attesa of a form, as long as its call is under way.
Attesa(gesto) == \E g \in page.volo : g.gesto = gesto

Send(p, gesto, device) ==
    /\ Cardinality(page.volo) < MaxCalls
    /\ page' = [p EXCEPT !.volo = @ \cup {Call(gesto, device)}]
    /\ UNCHANGED server

------------------------------------------------------------------------------
\* Another device logs out: a session that was closed is never open again.
LeaveElsewhere(d) ==
    /\ d \in Open
    /\ server' = [server EXCEPT !.sessione[d] = "chiusa"]
    /\ UNCHANGED page

\* Another device deletes the account, or a call this page no longer hears of.
CancellaElsewhere ==
    /\ server.conto
    /\ server' = [server EXCEPT !.conto = FALSE]
    /\ UNCHANGED page

ServeElenco ==
    /\ server.conto
    /\ \E r \in Unserved(page.elenco) : page' = [page EXCEPT !.elenco = Serve(@, r, Open)]
    /\ UNCHANGED server

AnswerElenco ==
    /\ \E r \in Served(page.elenco) : page' = [page EXCEPT !.elenco = Resolve(@, r)]
    /\ UNCHANGED server

FailElenco ==
    /\ \E r \in page.elenco.reads : page' = [page EXCEPT !.elenco = Reject(@, r)]
    /\ UNCHANGED server

------------------------------------------------------------------------------
\* The gestures.
\* A password is written, or wiped out again.
ScriviPassword ==
    /\ page.conPassword
    /\ page' = [page EXCEPT !.prova = ~@]
    /\ UNCHANGED server

\* Google signs a token, which the page keeps until a gesture has used it.
ConfermaGoogle ==
    /\ ~page.conPassword /\ ~page.prova
    /\ page' = [page EXCEPT !.prova = TRUE]
    /\ UNCHANGED server

\* Only the row whose id is `inVolo' is disabled: a later press takes its place.
ChiudiUna(d) ==
    /\ d \in Listed /\ page.prova /\ page.inVolo # d
    /\ Send([page EXCEPT !.inVolo = d], "una", d)

ScollegaAltri == page.prova /\ ~Attesa("altre") /\ Send(page, "altre", NoDevice)

CambiaPassword == ~Attesa("cambia") /\ Send(page, "cambia", NoDevice)

\* Mutant: the queue is emptied when the deletion is asked for.
CancellaContoMutant ==
    /\ page.coda /\ page.chiesta /\ ~Attesa("conto")
    /\ Send([page EXCEPT !.coda = FALSE], "conto", NoDevice)

CancellaConto ==
    /\ page.coda /\ page.chiesta /\ ~Attesa("conto")
    /\ Send(page, "conto", NoDevice)

\* The two steps of the deletion; the second button is shown by the first.
VoglioCancellare ==
    /\ page.coda /\ ~page.chiesta
    /\ page' = [page EXCEPT !.chiesta = TRUE]
    /\ UNCHANGED server

LasciaStare ==
    /\ page.coda /\ page.chiesta /\ ~Attesa("conto")
    /\ page' = [page EXCEPT !.chiesta = FALSE]
    /\ UNCHANGED server

\* The server answers a call, or refuses it: a wrong proof, a recording in work,
\* an account that is gone.
Settle(g, esito) == page' = [page EXCEPT !.volo = (@ \ {g}) \cup {esito}]

Closes(g) ==
    CASE g.gesto = "una" -> Open \cap {g.device}
      [] g.gesto \in {"altre", "cambia"} -> Open
      [] OTHER -> {}

Handle(g) ==
    /\ g.stato = "andata" /\ server.conto
    /\ Settle(g, [g EXCEPT !.stato = "fatta", !.chiuse = Closes(g)])
    /\ server' = [sessione |-> [d \in Devices |-> IF d \in Closes(g) THEN "chiusa"
                                                  ELSE server.sessione[d]],
                  conto |-> g.gesto # "conto"]

Refuse(g) ==
    /\ g.stato = "andata"
    /\ Settle(g, [g EXCEPT !.stato = "rifiutata"])
    /\ UNCHANGED server

------------------------------------------------------------------------------
\* The answers: the proof leaves the field, and the list is read again.
Closed(g) ==
    [page EXCEPT !.volo = @ \ {g}, !.prova = FALSE, !.chiuse = @ \cup g.chiuse,
                 !.inVolo = IF g.gesto = "una" THEN NoDevice ELSE @,
                 !.elenco = Ricarica(@)]

AnswerChiusura(g) ==
    /\ g.gesto \in {"una", "altre"} /\ g.stato = "fatta"
    /\ page' = Closed(g)
    /\ UNCHANGED server

\* The change of the password empties its own fields: the list is not read again.  An
\* account of Google alone has a password from now on, and its confirmation is not asked.
AnswerCambio(g) ==
    /\ g.gesto = "cambia" /\ g.stato = "fatta"
    /\ page' = [page EXCEPT !.volo = @ \ {g}, !.conPassword = TRUE,
                            !.prova = @ /\ page.conPassword]
    /\ UNCHANGED server

AnswerCancellazione(g) ==
    /\ g.gesto = "conto" /\ g.stato = "fatta"
    /\ page' = [page EXCEPT !.volo = @ \ {g}, !.coda = FALSE]
    /\ UNCHANGED server

\* Refused, never arrived, or done and its reply lost: what was written stays,
\* but a confirmation of Google does not.
FailCall(g) ==
    /\ page' = [page EXCEPT !.volo = @ \ {g},
                            !.prova = @ /\ (page.conPassword \/ g.gesto \notin {"una", "altre"}),
                            !.inVolo = IF g.gesto = "una" THEN NoDevice ELSE @]
    /\ UNCHANGED server

Next ==
    \/ \E d \in Devices : LeaveElsewhere(d) \/ ChiudiUna(d)
    \/ CancellaElsewhere
    \/ ServeElenco \/ AnswerElenco \/ FailElenco
    \/ ScriviPassword \/ ConfermaGoogle \/ ScollegaAltri \/ CambiaPassword
    \/ VoglioCancellare \/ LasciaStare \/ CancellaConto
    \/ \E g \in page.volo :
           \/ Handle(g) \/ Refuse(g)
           \/ AnswerChiusura(g) \/ AnswerCambio(g) \/ AnswerCancellazione(g) \/ FailCall(g)

AccountSpec == Init /\ [][Next]_accountVars

------------------------------------------------------------------------------
(* A device this section has disconnected is not in the list it shows.     *)
OwnClosuresStayGone == Listed \cap page.chiuse = {}

(* The queue is emptied only of an account that is gone.                   *)
QueueOutlivesTheAccount == page.coda \/ ~server.conto
================================================================================
