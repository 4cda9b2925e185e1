------------------------------ MODULE ReviewScreen ------------------------------
(***************************************************************************)
(* The review of a card born of a story: its title, and one more step      *)
(* written by hand.  The screen reads the card once; what it saves is      *)
(* built on that reading, all the steps with the new one at the end, and a *)
(* saving that failed may be tried again on the same reading.  A saving    *)
(* that goes well leaves the screen, and so do two of its buttons; here    *)
(* whoever leaves comes back, to a screen that reads the card anew.  The   *)
(* title is left out: it is saved as the status is.                        *)
(***************************************************************************)
EXTENDS UseAsync, Functions, Extraction

CONSTANTS
    Racconti,   \* what the model answered of the stories
    Note        \* the steps that are written by hand

VARIABLES
    server,   \* the rows of the card, and its status
    page

reviewVars == <<server, page>>

------------------------------------------------------------------------------
Accettati == {raw \in Racconti : ValidateExtraction(raw).outcome = "ACCETTATA"}

\* persistProcedure: one row for each step.
CardOf(raw) ==
    [status |-> ValidateExtraction(raw).cardStatus,
     steps |-> Range(NormalizeSteps(raw.passi))]

\* The order the steps are read in, which is all an answer says of their numbers.
Azioni(steps) ==
    LET posto(p) == Cardinality({q \in steps : q.ordine <= p.ordine})
    IN [i \in 1..Cardinality(steps) |-> (CHOOSE p \in steps : posto(p) = i).azione]

\* update: the steps go all, and come back numbered by the place they have.
Rows(azioni) == {[ordine |-> i, azione |-> azioni[i]] : i \in DOMAIN azioni}

Detail == [steps |-> Azioni(server.steps), status |-> server.status]

NessunaNota == ""

Fresca == [dati |-> Mount("revisione"), note |-> NessunaNota, attesa |-> FALSE]

\* `salvate': the notes the page was told are saved; `solo': nobody else writes
\* the card, and no saving the page stopped waiting for may still be handled.
Init ==
    \E raw \in Accettati :
        /\ server = CardOf(raw)
        /\ page = [schermo |-> Fresca, volo |-> {}, racconto |-> raw.passi,
                   salvate |-> {}, solo |-> TRUE]

S == page.schermo
Pronto == S.dati.kind = "pronto"

Andata(volo) == \E g \in volo : g.stato = "andata"

\* The screen is left, and entered again: nothing waits for its saving any more.
Via(p) == [p EXCEPT !.schermo = Fresca, !.volo = {}, !.solo = @ /\ ~Andata(p.volo)]

------------------------------------------------------------------------------
\* Elsewhere a step is taken away.
EditElsewhere(p) ==
    /\ server' = [server EXCEPT !.steps = Rows(Azioni(@ \ {p}))]
    /\ page' = [page EXCEPT !.solo = FALSE]

ServeDati ==
    /\ \E r \in Unserved(S.dati) : page' = [page EXCEPT !.schermo.dati = Serve(@, r, Detail)]
    /\ UNCHANGED server

AnswerDati ==
    /\ \E r \in Served(S.dati) :
           page' = [page EXCEPT !.schermo.dati = Resolve(@, r)]
    /\ UNCHANGED server

FailDati ==
    /\ \E r \in S.dati.reads : page' = [page EXCEPT !.schermo.dati = Reject(@, r)]
    /\ UNCHANGED server

------------------------------------------------------------------------------
\* The field can be written while a saving is under way; a step that is shown is
\* not written again.
ScriviNota(nota) ==
    /\ Pronto /\ nota \notin Range(S.dati.dato.steps)
    /\ page' = [page EXCEPT !.schermo.note = nota]
    /\ UNCHANGED server

\* Only what changes; the steps are those that were read, with the new one at the end.
Patch(completa) ==
    [steps |-> IF S.note = NessunaNota THEN {} ELSE {Append(S.dati.dato.steps, S.note)},
     status |-> IF completa THEN {"COMPLETA"} ELSE {}]

Vuota(patch) == \A campo \in DOMAIN patch : patch[campo] = {}

Salva(completa) ==
    /\ Pronto /\ ~S.attesa
    /\ IF Vuota(Patch(completa))
         THEN page' = Via(page)
         ELSE page' = [page EXCEPT !.schermo.attesa = TRUE,
                                   !.volo = {[patch |-> Patch(completa), nota |-> S.note,
                                              stato |-> "andata"]}]
    /\ UNCHANGED server

\* <<Va bene cosi'>>, when nothing is being saved; the arrow back, at any time.
VaBeneCosi == Pronto /\ ~S.attesa /\ page' = Via(page) /\ UNCHANGED server
Indietro == Pronto /\ page' = Via(page) /\ UNCHANGED server

------------------------------------------------------------------------------
Written(old, new) == IF new = {} THEN old ELSE CHOOSE x \in new : TRUE

\* Mutant: the steps are written without taking away those there were.
UpdateMutant(card, patch) ==
    [status |-> Written(card.status, patch.status),
     steps |-> card.steps \cup Rows(Written(<<>>, patch.steps))]

\* The columns that are sent; the steps all together, in the place of those there were.
Update(card, patch) ==
    [status |-> Written(card.status, patch.status),
     steps |-> IF patch.steps = {} THEN card.steps ELSE Rows(Written(<<>>, patch.steps))]

Handle(g) ==
    /\ g.stato = "andata"
    /\ server' = Update(server, g.patch)
    /\ page' = [page EXCEPT !.volo = {[g EXCEPT !.stato = "fatta"]}]

AnswerSalva(g) ==
    /\ g.stato = "fatta"
    /\ page' = Via([page EXCEPT !.volo = {}, !.salvate = @ \cup ({g.nota} \ {NessunaNota})])
    /\ UNCHANGED server

\* Refused; done, and its reply lost; given up, and perhaps handled later.
FailSalva(g) ==
    /\ \E rifiutata \in BOOLEAN :
           /\ rifiutata => g.stato = "andata"
           /\ page' = [page EXCEPT !.volo = {}, !.schermo.attesa = FALSE,
                                   !.solo = @ /\ (g.stato = "fatta" \/ rifiutata)]
    /\ UNCHANGED server

Next ==
    \/ \E p \in server.steps : EditElsewhere(p)
    \/ ServeDati \/ AnswerDati \/ FailDati
    \/ \E nota \in Note \cup {NessunaNota} : ScriviNota(nota)
    \/ \E completa \in BOOLEAN : Salva(completa)
    \/ VaBeneCosi \/ Indietro
    \/ \E g \in page.volo : Handle(g) \/ AnswerSalva(g) \/ FailSalva(g)

ReviewSpec == Init /\ [][Next]_reviewVars

------------------------------------------------------------------------------
(* The card numbers its steps from one, each number once, as the unique    *)
(* index on them demands.                                                  *)
StepsAreNumbered ==
    /\ \A p, q \in server.steps : p.ordine = q.ordine => p = q
    /\ {p.ordine : p \in server.steps} = 1..Cardinality(server.steps)

(* Whoever reviews a card alone finds the steps of the story, in the order *)
(* of its numbers, then what was written by hand: each note that was saved *)
(* is there, and none is there twice, however often it was tried.          *)
StoryThenNotes ==
    LET azioni == Azioni(server.steps)
        racconto == page.racconto
    IN /\ \A i, j \in DOMAIN azioni : azioni[i] = azioni[j] => i = j
       /\ Range(SubSeq(azioni, 1, Len(racconto))) = {racconto[i].azione : i \in DOMAIN racconto}
       /\ \A i, j \in DOMAIN racconto, m, n \in DOMAIN azioni :
              azioni[m] = racconto[i].azione /\ azioni[n] = racconto[j].azione
                  => (racconto[i].ordine < racconto[j].ordine => m < n)
       /\ page.salvate \subseteq Range(azioni)

LoneHandLosesNoStep == StepsAreNumbered /\ (page.solo => StoryThenNotes)
================================================================================
