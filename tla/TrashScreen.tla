------------------------------ MODULE TrashScreen ------------------------------
(***************************************************************************)
(* The trash: a page of archived cards, the two gestures on each of them,  *)
(* and the one that empties the trash, while other devices archive,        *)
(* restore and delete.  What the server does inside a deletion is in       *)
(* CardTrash: here it is one step, and what counts is when its answer and  *)
(* the answers to the page's reads arrive.                                 *)
(***************************************************************************)
EXTENDS UseAsync, FiniteSetsExt, Functions

CONSTANTS
    Cards,
    NoCard,
    PageSize,
    MaxGestures   \* gestures of the page under way at a time

VARIABLES
    server,   \* the place of each archived card, and the deleted cards
    page      \* `cancellate' and `nonRilette' are history: what the page was told it deleted,
              \* and what of that it has asked for nothing after

trashVars == <<server, page>>

------------------------------------------------------------------------------
\* `tolte': the cards the server deleted for it; `montata': its row is still there;
\* `prima': the emptying was pressed on the first page, which is what onSvuotato, a
\* closure of the render in which it was pressed, still tests when the answer comes.
Gesture(card, gesto) ==
    [card |-> card, gesto |-> gesto, stato |-> "andata", montata |-> TRUE, tolte |-> {},
     prima |-> (gesto = "svuota" => page.offset = 0)]

Idle == [attesa |-> FALSE, conferma |-> FALSE]

Init ==
    /\ \E cards \in SUBSET Cards :
           \E cestino \in {f \in [cards -> 0..(Cardinality(cards) - 1)] : IsInjective(f)} :
               server = [cestino |-> cestino, via |-> {}]
    /\ page = [offset |-> 0, hook |-> Mount(0), voci |-> [c \in Cards |-> Idle],
               svuota |-> Idle, volo |-> {}, cancellate |-> {}, nonRilette |-> {}]

\* updatedAt, descending: the last touched is at 0.
Archived == DOMAIN server.cestino

Without(tolte) ==
    LET restano == Archived \ tolte
    IN [c \in restano |-> Cardinality({d \in restano : server.cestino[d] < server.cestino[c]})]

\* GET /procedures?status=ARCHIVIATA: a window on the trash, and how many it holds.
Window(offset) ==
    [items |-> {c \in Archived : server.cestino[c] \in offset..(offset + PageSize - 1)},
     total |-> Cardinality(Archived), offset |-> offset]

Shown(h) == IF h.kind = "pronto" THEN h.dato.items ELSE {}
Total(h) == IF h.kind = "pronto" THEN h.dato.total ELSE 0

\* A row that is no longer shown loses its state, and its gesture a place to tell.
Render(p, h) ==
    [p EXCEPT !.hook = h,
              !.voci = [c \in Cards |-> IF c \in Shown(h) THEN @[c] ELSE Idle],
              !.volo = {[g EXCEPT !.montata = @ /\ g.card \in Shown(h) \cup {NoCard}] : g \in @}]

\* Every read asked for comes after what was deleted until now.
Asks(p, h) == [Render(p, h) EXCEPT !.nonRilette = {}]

MayGesture == Cardinality(page.volo) < MaxGestures

------------------------------------------------------------------------------
\* Elsewhere: another device, or a request of this page it no longer hears of.
Archive(c) ==
    /\ c \notin Archived \cup server.via
    /\ server' = [server EXCEPT !.cestino =
                      [d \in Archived \cup {c} |-> IF d = c THEN 0 ELSE @[d] + 1]]
    /\ UNCHANGED page

RestoreElsewhere(c) ==
    /\ c \in Archived
    /\ server' = [server EXCEPT !.cestino = Without({c})]
    /\ UNCHANGED page

DeleteElsewhere(c) ==
    /\ c \in Archived
    /\ server' = [cestino |-> Without({c}), via |-> server.via \cup {c}]
    /\ UNCHANGED page

------------------------------------------------------------------------------
\* The page's reads.
ServePage ==
    /\ \E r \in Unserved(page.hook) :
           page' = [page EXCEPT !.hook = Serve(@, r, Window(r.question))]
    /\ UNCHANGED server

AnswerPage ==
    /\ \E r \in Served(page.hook) : page' = Render(page, Resolve(page.hook, r))
    /\ UNCHANGED server

FailPage ==
    /\ \E r \in page.hook.reads : page' = Render(page, Reject(page.hook, r))
    /\ UNCHANGED server

SetOffset(p, offset) == [Asks(p, Effect(p.hook, offset, FALSE)) EXCEPT !.offset = offset]

Precedenti ==
    /\ page.hook.kind = "pronto" /\ page.hook.dato.items # {} /\ page.hook.dato.offset # 0
    /\ page' = SetOffset(page, Max({0, page.hook.dato.offset - PageSize}))
    /\ UNCHANGED server

Successive ==
    /\ page.hook.kind = "pronto" /\ page.hook.dato.items # {}
    /\ page.hook.dato.offset + Cardinality(page.hook.dato.items) < page.hook.dato.total
    /\ page' = SetOffset(page, page.hook.dato.offset + PageSize)
    /\ UNCHANGED server

------------------------------------------------------------------------------
\* The gestures.
AskConferma(c) ==
    /\ c \in Shown(page.hook) /\ ~page.voci[c].attesa
    /\ page' = [page EXCEPT !.voci[c].conferma = ~@]
    /\ UNCHANGED server

Ripristina(c) ==
    /\ c \in Shown(page.hook) /\ ~page.voci[c].attesa /\ MayGesture
    /\ page' = [page EXCEPT !.voci[c].attesa = TRUE, !.volo = @ \cup {Gesture(c, "ripristina")}]
    /\ UNCHANGED server

Cancella(c) ==
    /\ c \in Shown(page.hook) /\ page.voci[c].conferma /\ ~page.voci[c].attesa /\ MayGesture
    /\ page' = [page EXCEPT !.voci[c].attesa = TRUE, !.volo = @ \cup {Gesture(c, "cancella")}]
    /\ UNCHANGED server

AskSvuota ==
    /\ Total(page.hook) > 0 /\ ~page.svuota.attesa
    /\ page' = [page EXCEPT !.svuota.conferma = ~@]
    /\ UNCHANGED server

Svuota ==
    /\ Total(page.hook) > 0 /\ page.svuota.conferma /\ ~page.svuota.attesa /\ MayGesture
    /\ page' = [page EXCEPT !.svuota.attesa = TRUE, !.volo = @ \cup {Gesture(NoCard, "svuota")}]
    /\ UNCHANGED server

\* The server does what a gesture asks, or refuses it: a deletion of a card that
\* left the trash (409, 404), a restore of one that is gone (404).
Done(g, tolte) == [page EXCEPT !.volo = (@ \ {g}) \cup {[g EXCEPT !.stato = "fatta", !.tolte = tolte]}]
Refused(g) == [page EXCEPT !.volo = (@ \ {g}) \cup {[g EXCEPT !.stato = "rifiutata"]}]

ServeRipristina(g) ==
    /\ g.gesto = "ripristina" /\ g.stato = "andata"
    /\ IF g.card \in server.via
         THEN page' = Refused(g) /\ UNCHANGED server
         ELSE /\ page' = Done(g, {})
              /\ server' = [server EXCEPT !.cestino = Without({g.card})]

ServeCancella(g) ==
    /\ g.gesto = "cancella" /\ g.stato = "andata"
    /\ IF g.card \in Archived
         THEN /\ page' = Done(g, {g.card})
              /\ server' = [cestino |-> Without({g.card}), via |-> server.via \cup {g.card}]
         ELSE page' = Refused(g) /\ UNCHANGED server

\* The loop of emptyTrash may stop at its ceiling, with cards left.
ServeSvuota(g) ==
    /\ g.gesto = "svuota" /\ g.stato = "andata"
    /\ \E tolte \in SUBSET Archived :
           /\ page' = Done(g, tolte)
           /\ server' = [cestino |-> Without(tolte), via |-> server.via \cup tolte]

------------------------------------------------------------------------------
\* The answer to a gesture.  A row that was unmounted has no state left to set;
\* its onCambiata is the screen's ricarica all the same.
Settled(g) == [page EXCEPT !.volo = @ \ {g}, !.cancellate = @ \cup g.tolte]

OnCambiata(p) == Asks(p, Ricarica(p.hook))

\* setOffset(0) on the first page changes nothing, and no read follows.
OnSvuotato(p, g) ==
    IF g.prima THEN OnCambiata(p)
    ELSE IF p.offset = 0 THEN [p EXCEPT !.nonRilette = @ \cup g.tolte]
    ELSE SetOffset(p, 0)

AnswerVoce(g) ==
    /\ g.card # NoCard /\ g.stato = "fatta"
    /\ page' = OnCambiata(Settled(g))
    /\ UNCHANGED server

AnswerSvuota(g) ==
    /\ g.card = NoCard /\ g.stato = "fatta"
    /\ page' = OnSvuotato([Settled(g) EXCEPT !.svuota = Idle], g)
    /\ UNCHANGED server

\* Refused, never arrived, or done and its reply lost.
FailGesture(g) ==
    /\ page' = LET told == [page EXCEPT !.volo = @ \ {g}] IN
               IF g.card = NoCard THEN [told EXCEPT !.svuota = Idle]
               ELSE IF ~g.montata THEN told
               ELSE IF g.gesto = "cancella" THEN [told EXCEPT !.voci[g.card] = Idle]
               ELSE [told EXCEPT !.voci[g.card].attesa = FALSE]
    /\ UNCHANGED server

Next ==
    \/ \E c \in Cards : Archive(c) \/ RestoreElsewhere(c) \/ DeleteElsewhere(c)
    \/ ServePage \/ AnswerPage \/ FailPage \/ Precedenti \/ Successive
    \/ \E c \in Cards : AskConferma(c) \/ Ripristina(c) \/ Cancella(c)
    \/ AskSvuota \/ Svuota
    \/ \E g \in page.volo :
           \/ ServeRipristina(g) \/ ServeCancella(g) \/ ServeSvuota(g)
           \/ AnswerVoce(g) \/ AnswerSvuota(g) \/ FailGesture(g)

TrashSpec == Init /\ [][Next]_trashVars

------------------------------------------------------------------------------
(* What a gesture of this page deleted is never shown by it again, however *)
(* the answers to its reads, asked before and after, are reordered.  Not    *)
(* so the cards of an emptying that was pressed on a later page and        *)
(* answered on the first (`nonRilette'), until the page reads again.       *)
OwnDeletionsStayGone == Shown(page.hook) \cap (page.cancellate \ page.nonRilette) = {}
================================================================================
