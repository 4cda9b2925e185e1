------------------------------ MODULE DetailScreen ------------------------------
(***************************************************************************)
(* One card, with the sections that change it: its categories, the three   *)
(* outcomes of an execution, the deletion of the voice it was born of.     *)
(* Each section keeps its own `attesa', and asks for the card again when   *)
(* its call goes well; while the card is read no section is mounted, and   *)
(* the sections that come after it know of no call under way.              *)
(*                                                                         *)
(* The categories are sent whole, as the page read them with one more or   *)
(* one less.  What the server does inside an edit or an execution is in    *)
(* Cards, and inside the deletion of a recording in CardTrash.             *)
(***************************************************************************)
EXTENDS UseAsync

CONSTANTS
    Tags,
    TagMax,     \* PROCEDURE_TAG_MAX
    MaxCalls    \* calls of the screen under way at a time

VARIABLES
    server,   \* the categories of the card, and whether it still has its voice
    page

detailVars == <<server, page>>

------------------------------------------------------------------------------
\* `nuovi': the categories the page did not show; `montata': its section is there.
Call(sezione, prossime, nuovi) ==
    [sezione |-> sezione, prossime |-> prossime, nuovi |-> nuovi,
     stato |-> "andata", montata |-> TRUE]

\* `salvati': the categories the page was told are saved, and has not taken off;
\* `buttato': the voice it was told is gone; `solo': its categories are the only
\* section used, every call was answered, and nobody else writes them.
Init ==
    /\ server = [tag |-> {}, vocale |-> TRUE]
    /\ page = [scheda |-> Mount("scheda"), volo |-> {},
               salvati |-> {}, buttato |-> FALSE, solo |-> TRUE]

Pronta == page.scheda.kind = "pronto"
P == page.scheda.dato

\* A section left its place: its calls have no attesa to put out any more.
Render(p, h) ==
    [p EXCEPT !.scheda = h,
              !.volo = {[g EXCEPT !.montata = @ /\ h.kind = "pronto"] : g \in @}]

Attesa(sezione) == \E g \in page.volo : g.sezione = sezione /\ g.montata

Send(p, g) ==
    /\ Cardinality(page.volo) < MaxCalls
    /\ page' = [p EXCEPT !.volo = @ \cup {g}]
    /\ UNCHANGED server

------------------------------------------------------------------------------
\* Elsewhere: another device, or a call this page no longer hears of.
TagElsewhere(tag) ==
    /\ Cardinality(tag) <= TagMax /\ tag # server.tag
    /\ server' = [server EXCEPT !.tag = tag]
    /\ page' = [page EXCEPT !.solo = FALSE]

DeleteElsewhere ==
    /\ server.vocale
    /\ server' = [server EXCEPT !.vocale = FALSE]
    /\ UNCHANGED page

ServeScheda ==
    /\ \E r \in Unserved(page.scheda) : page' = [page EXCEPT !.scheda = Serve(@, r, server)]
    /\ UNCHANGED server

AnswerScheda ==
    /\ \E r \in Served(page.scheda) : page' = Render(page, Resolve(page.scheda, r))
    /\ UNCHANGED server

FailScheda ==
    /\ \E r \in page.scheda.reads : page' = Render(page, Reject(page.scheda, r))
    /\ UNCHANGED server

------------------------------------------------------------------------------
\* Categorie: `puoAggiungere' for the field and its button, the cross on a chip.
PuoAggiungere(t) ==
    /\ ~Attesa("categorie")
    /\ t \notin P.tag /\ Cardinality(P.tag) < TagMax

\* Mutant: the field can be sent while the last change is being saved.
AggiungiMutant(t) ==
    /\ Pronta /\ t \notin P.tag /\ Cardinality(P.tag) < TagMax
    /\ Send(page, Call("categorie", P.tag \cup {t}, {t}))

Aggiungi(t) ==
    /\ Pronta /\ PuoAggiungere(t)
    /\ Send(page, Call("categorie", P.tag \cup {t}, {t}))

Togli(t) ==
    /\ Pronta /\ t \in P.tag /\ ~Attesa("categorie")
    /\ Send([page EXCEPT !.salvati = @ \ {t}], Call("categorie", P.tag \ {t}, {}))

\* Conferma, and the two buttons of EliminaVocale.
Invia ==
    /\ Pronta /\ ~Attesa("conferma")
    /\ Send([page EXCEPT !.solo = FALSE], Call("conferma", {}, {}))

Elimina ==
    /\ Pronta /\ P.vocale /\ ~Attesa("elimina")
    /\ Send([page EXCEPT !.solo = FALSE], Call("elimina", {}, {}))

Settle(g, stato) == [page EXCEPT !.volo = (@ \ {g}) \cup {[g EXCEPT !.stato = stato]}]

Handle(g) ==
    /\ g.stato = "andata" /\ (g.sezione = "elimina" => server.vocale)
    /\ page' = Settle(g, "fatta")
    /\ server' = [tag |-> IF g.sezione = "categorie" THEN g.prossime ELSE server.tag,
                  vocale |-> server.vocale /\ g.sezione # "elimina"]

\* A recording in work or gone, a card that is gone, too many requests.
Refuse(g) ==
    /\ g.stato = "andata"
    /\ page' = Settle(g, "rifiutata")
    /\ UNCHANGED server

\* The answer: the section asks for the card again.
AnswerCall(g) ==
    /\ g.stato = "fatta"
    /\ page' = Render([page EXCEPT !.volo = @ \ {g},
                                   !.salvati = @ \cup g.nuovi,
                                   !.buttato = @ \/ g.sezione = "elimina"],
                      Ricarica(page.scheda))
    /\ UNCHANGED server

\* Refused, or done and its reply lost, or given up before the server saw it.
FailCall(g) ==
    /\ page' = [page EXCEPT !.volo = @ \ {g}, !.solo = @ /\ g.stato # "andata"]
    /\ UNCHANGED server

Next ==
    \/ \E tag \in SUBSET Tags : TagElsewhere(tag)
    \/ DeleteElsewhere
    \/ ServeScheda \/ AnswerScheda \/ FailScheda
    \/ \E t \in Tags : Aggiungi(t) \/ Togli(t)
    \/ Invia \/ Elimina
    \/ \E g \in page.volo : Handle(g) \/ Refuse(g) \/ AnswerCall(g) \/ FailCall(g)

DetailSpec == Init /\ [][Next]_detailVars

------------------------------------------------------------------------------
(* A voice this page was told is gone is not shown by it again.            *)
OwnDeletionStaysGone == page.buttato /\ Pronta => ~P.vocale

(* Whoever only puts categories on and takes them off, one page at a time, *)
(* finds on the card every one the page said was saved.                    *)
LoneHandKeepsItsTags == page.solo => page.salvati \subseteq server.tag
================================================================================
