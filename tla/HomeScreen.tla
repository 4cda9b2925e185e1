------------------------------- MODULE HomeScreen -------------------------------
(***************************************************************************)
(* The first screen: the list of the cards, and above it the recordings    *)
(* that are not cards yet.  Two hooks read the API on their own: the list  *)
(* once, the section on a timer, while something in it can change by       *)
(* itself.  What joins them is onSparita: an id that left the section      *)
(* makes the list be read again.  The list is all the cards a read could   *)
(* see; its filters and pages only change the question, as the pages of    *)
(* TrashScreen do.                                                         *)
(*                                                                         *)
(* What a recording goes through is in Ingestion; here it is a state the   *)
(* section shows, and the worker moves it.                                 *)
(***************************************************************************)
EXTENDS UseAsync, SequencesExt

CONSTANTS
    Recordings,
    Guasti,       \* how the processing of each can fail: `ritento', `ferma', `duplicato'
    MaxTouched    \* rows of the section touched at a time

VARIABLES
    server,   \* the state of each recording
    page

homeVars == <<server, page>>

------------------------------------------------------------------------------
\* BOZZA_AUDIO, new or after a failure (`coda', `ritento'), IN_ELABORAZIONE;
\* ESTRAZIONE_FALLITA and DUPLICATO_SOSPETTO.
Waiting == {"coda", "ritento", "lavoro"}
Pending == Waiting \cup {"ferma", "duplicato"}

\* toRecordingState: what a row of the section says of a recording, from its status
\* and the error of its last attempt.
ToRecordingState(stato) ==
    [status |-> CASE stato \in {"coda", "ritento"} -> "BOZZA_AUDIO"
                  [] stato = "lavoro" -> "IN_ELABORAZIONE"
                  [] stato = "ferma" -> "ESTRAZIONE_FALLITA"
                  [] stato = "duplicato" -> "DUPLICATO_SOSPETTO",
     lastError |-> stato \in {"ritento", "ferma"}]

\* avvisoDi: pressing the button can change something.
Riprovabile(v) == v.status = "ESTRAZIONE_FALLITA" \/ (v.status = "BOZZA_AUDIO" /\ v.lastError)

InAttesa(v) == v.status \in {"BOZZA_AUDIO", "IN_ELABORAZIONE"}

\* The section's row of a recording: `conferma' is the question it shows.
Quiet == [attesa |-> FALSE, conferma |-> FALSE]

\* `visti' before the first answer; `mostrati' is every id the section has shown.
NotSeen == {NoDato}

Init ==
    /\ server = [r \in Recordings |-> "mai"]
    /\ page = [lista |-> Mount("schede"), sospesi |-> Mount("sospesi"), visti |-> NotSeen, mostrati |-> {},
               voci |-> [r \in Recordings |-> Quiet], volo |-> {}]

\* GET /procedures.
Schede == {r \in Recordings : server[r] = "scheda"}

\* GET /recordings/pending.
PendingRows ==
    LET rows == {r \in Recordings : server[r] \in Pending}
    IN [r \in rows |-> ToRecordingState(server[r])]

Sospese(h) == IF h.kind = "pronto" THEN DOMAIN h.dato ELSE {}

\* Mutant: a recording nobody has taken yet is not seen as moving.
InMovimentoMutant ==
    /\ page.sospesi.kind = "pronto"
    /\ \E r \in DOMAIN page.sospesi.dato : page.sospesi.dato[r].status = "IN_ELABORAZIONE"

InMovimento ==
    /\ page.sospesi.kind = "pronto"
    /\ \E r \in DOMAIN page.sospesi.dato : InAttesa(page.sospesi.dato[r])

------------------------------------------------------------------------------
\* The worker and the recorder.
Create(r) ==
    /\ server[r] = "mai"
    /\ server' = [server EXCEPT ![r] = "coda"]
    /\ UNCHANGED page

Take(r) ==
    /\ server[r] \in {"coda", "ritento"}
    /\ server' = [server EXCEPT ![r] = "lavoro"]
    /\ UNCHANGED page

Finish(r) ==
    /\ server[r] = "lavoro"
    /\ server' = [server EXCEPT ![r] = "scheda"]
    /\ UNCHANGED page

GiveUp(r, esito) ==
    /\ server[r] = "lavoro"
    /\ server' = [server EXCEPT ![r] = esito]
    /\ UNCHANGED page

------------------------------------------------------------------------------
\* The list.
ServeLista ==
    /\ \E r \in Unserved(page.lista) :
           page' = [page EXCEPT !.lista = Serve(@, r, Schede)]
    /\ UNCHANGED server

AnswerLista ==
    /\ \E r \in Served(page.lista) : page' = [page EXCEPT !.lista = Resolve(@, r)]
    /\ UNCHANGED server

FailLista ==
    /\ \E r \in page.lista.reads : page' = [page EXCEPT !.lista = Reject(@, r)]
    /\ UNCHANGED server

------------------------------------------------------------------------------
\* The section.
Poll ==
    /\ InMovimento
    /\ page' = [page EXCEPT !.sospesi = Aggiorna(@)]
    /\ UNCHANGED server

ServeSospesi ==
    /\ \E r \in Unserved(page.sospesi) :
           page' = [page EXCEPT !.sospesi = Serve(@, r, PendingRows)]
    /\ UNCHANGED server

\* A row that is not shown any more loses its state.
Rows(h) == [r \in Recordings |-> IF r \in Sospese(h) THEN page.voci[r] ELSE Quiet]

\* Mutant: what is lost is told by how many rows there are.
SparitaMutant(visti, adesso) == visti # NotSeen /\ Cardinality(visti) > Cardinality(adesso)

\* An id of the last answer is not in this one.
Sparita(visti, adesso) == visti # NotSeen /\ ~(visti \subseteq adesso)

\* A value is shown, and the effect on `stato' looks at what it has lost.
Settle(h) ==
    LET adesso == Sospese(h)
    IN [page EXCEPT !.sospesi = h, !.voci = Rows(h),
                    !.visti = adesso, !.mostrati = @ \cup adesso,
                    !.lista = IF Sparita(page.visti, adesso) THEN Ricarica(@) ELSE @]

AnswerSospesi ==
    /\ \E r \in Served(page.sospesi) : page' = Settle(Resolve(page.sospesi, r))
    /\ UNCHANGED server

FailSospesi ==
    /\ \E r \in page.sospesi.reads :
           LET h == Reject(page.sospesi, r)
           IN page' = [page EXCEPT !.sospesi = h, !.voci = Rows(h)]
    /\ UNCHANGED server

------------------------------------------------------------------------------
\* The gestures on a row.
Touched == {r \in Recordings : page.voci[r] # Quiet} \cup {g.riga : g \in page.volo}

MayTap(r) ==
    /\ r \in Sospese(page.sospesi) /\ ~page.voci[r].attesa
    /\ Cardinality(Touched \cup {r}) <= MaxTouched

Tap(r, gesto) ==
    page' = [page EXCEPT !.voci[r].attesa = TRUE,
                         !.volo = @ \cup {[riga |-> r, gesto |-> gesto, fatta |-> FALSE]}]

Riprova(r) ==
    /\ MayTap(r) /\ Riprovabile(page.sospesi.dato[r])
    /\ Tap(r, "riprova")
    /\ UNCHANGED server

AskElimina(r) ==
    /\ MayTap(r)
    /\ page' = [page EXCEPT !.voci[r].conferma = ~@]
    /\ UNCHANGED server

Elimina(r) ==
    /\ MayTap(r) /\ page.voci[r].conferma
    /\ Tap(r, "elimina")
    /\ UNCHANGED server

Done(g) == [page EXCEPT !.volo = (@ \ {g}) \cup {[g EXCEPT !.fatta = TRUE]}]

ServeRiprova(g) ==
    /\ g.gesto = "riprova" /\ ~g.fatta
    /\ server[g.riga] \in {"coda", "ritento", "ferma", "duplicato"}
    /\ server' = [server EXCEPT ![g.riga] = "coda"]
    /\ page' = Done(g)

\* A recording in work is refused, as is one that is not there; of one that became
\* a card only the voice goes.
ServeElimina(g) ==
    /\ g.gesto = "elimina" /\ ~g.fatta /\ server[g.riga] \notin {"lavoro", "via"}
    /\ server' = [server EXCEPT ![g.riga] = IF @ = "scheda" THEN @ ELSE "via"]
    /\ page' = Done(g)

AnswerTap(g) ==
    /\ g.fatta
    /\ LET h == Ricarica(page.sospesi)
       IN page' = [page EXCEPT !.volo = @ \ {g}, !.sospesi = h, !.voci = Rows(h)]
    /\ UNCHANGED server

\* Refused, never arrived, or done and its reply lost.
FailTap(g) ==
    /\ page' = [page EXCEPT !.volo = @ \ {g},
                            !.voci[g.riga] =
                                IF g.riga \notin Sospese(page.sospesi) THEN Quiet
                                ELSE IF g.gesto = "elimina" THEN Quiet
                                ELSE [@ EXCEPT !.attesa = FALSE]]
    /\ UNCHANGED server

Next ==
    \/ \E r \in Recordings : Create(r) \/ Take(r) \/ Finish(r)
    \/ \E r \in Recordings : \E esito \in Guasti[r] : GiveUp(r, esito)
    \/ ServeLista \/ AnswerLista \/ FailLista
    \/ Poll \/ ServeSospesi \/ AnswerSospesi \/ FailSospesi
    \/ \E r \in Recordings : Riprova(r) \/ AskElimina(r) \/ Elimina(r)
    \/ \E g \in page.volo : ServeRiprova(g) \/ ServeElimina(g) \/ AnswerTap(g) \/ FailTap(g)

------------------------------------------------------------------------------
(* A card born of a recording this screen has shown, and shows no more, is *)
(* in the list it shows: the list was asked for after the card was there.  *)
NoCardIsMissed ==
    \A r \in page.mostrati :
        server[r] = "scheda" /\ r \notin page.visti /\ page.lista.kind = "pronto"
            => r \in page.lista.dato

Asked(r) == r \in Sospese(page.sospesi) /\ page.voci[r].conferma

(* The question <<Elimina davvero>> under somebody's eyes goes away only by *)
(* a gesture of theirs, or because the recording is not in the answer any  *)
(* more: never because the clock asked for a read, or the read failed      *)
(* (PendingRecordings.tsx:105-109).                                        *)
QuestionKept ==
    \A r \in Recordings :
        Asked(r) /\ ~Asked(r)' =>
            \/ page'.sospesi.kind = "pronto" /\ r \notin DOMAIN page'.sospesi.dato
            \/ page'.volo # page.volo
            \/ page' = [page EXCEPT !.voci[r].conferma = FALSE]

ShownWaiting(r) == r \in Sospese(page.sospesi) /\ InAttesa(page.sospesi.dato[r])

(* A recording shown in the queue or in work that has become a card, or    *)
(* has failed, is not shown so for ever.                                    *)
MovedOn(r) == ShownWaiting(r) /\ server[r] \notin Waiting
================================================================================
