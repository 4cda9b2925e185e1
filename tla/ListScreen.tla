------------------------------- MODULE ListScreen -------------------------------
(***************************************************************************)
(* The list of the cards, with what decides the question it asks: the      *)
(* scope, the category, the page.  The chips of the categories are a read  *)
(* of their own, that depends on the scope only.  The section of the       *)
(* recordings, above the list, is in HomeScreen: here it is the caller     *)
(* that has both reads asked for again, at any time.                       *)
(***************************************************************************)
EXTENDS UseAsync, SequencesExt

CONSTANTS
    Archivio,   \* the cards, the last one touched first: [id, ambito, tag]
    Ambiti,     \* the scopes
    Tags,
    PageSize,   \* PROCEDURE_PAGE_SIZE
    MaxEdits    \* changes made elsewhere

VARIABLES
    server,   \* the cards that are not in the trash
    page

listVars == <<server, page>>

------------------------------------------------------------------------------
Tutte == NoDato      \* no scope, no category

Prima == [ambito |-> Tutte, categoria |-> Tutte, offset |-> 0]

\* `letti': what was leafed through, from the first page to this one, with its page.
Init ==
    /\ server = Archivio
    /\ page = [domanda |-> Prima, lista |-> Mount(Prima), tag |-> Mount(Tutte),
               letti |-> {}, cambi |-> 0]

\* whereFor.
Where(c, q) == q.ambito \in {Tutte, c.ambito} /\ q.categoria \in c.tag \cup {Tutte}

ListProcedures(q) ==
    LET righe == {i \in DOMAIN server : Where(server[i], q)}
        place(i) == Cardinality({j \in righe : j < i})
        window == {i \in righe : place(i) \in q.offset..(q.offset + PageSize - 1)}
    IN [items |-> {server[i] : i \in window}, total |-> Cardinality(righe), offset |-> q.offset]

\* A category with no card of the scope is not in the answer.
ListTags(ambito) ==
    LET cards(t) == {c \in Range(server) : Where(c, [ambito |-> ambito, categoria |-> t])}
    IN [t \in {t \in Tags : cards(t) # {}} |-> Cardinality(cards(t))]

------------------------------------------------------------------------------
\* A card is edited, born, archived: elsewhere.
ChangeElsewhere(cards) ==
    /\ page.cambi < MaxEdits /\ cards # server
    /\ server' = cards
    /\ page' = [page EXCEPT !.cambi = @ + 1]

Touch(i) == ChangeElsewhere(<<server[i]>> \o RemoveAt(server, i))
Archive(i) == ChangeElsewhere(RemoveAt(server, i))
Retag(i, tag) == ChangeElsewhere(<<[server[i] EXCEPT !.tag = tag]>> \o RemoveAt(server, i))

ServeLista ==
    /\ \E r \in Unserved(page.lista) :
           page' = [page EXCEPT !.lista = Serve(@, r, ListProcedures(r.question))]
    /\ UNCHANGED server

AnswerLista ==
    /\ \E r \in Served(page.lista) :
           page' = [page EXCEPT !.lista = Resolve(@, r),
                                !.letti = {x \in @ : x.offset < r.dato.offset}
                                              \cup [offset : {r.dato.offset}, card : r.dato.items]]
    /\ UNCHANGED server

FailLista ==
    /\ \E r \in page.lista.reads : page' = [page EXCEPT !.lista = Reject(@, r)]
    /\ UNCHANGED server

ServeTag ==
    /\ \E r \in Unserved(page.tag) :
           page' = [page EXCEPT !.tag = Serve(@, r, ListTags(r.question))]
    /\ UNCHANGED server

AnswerTag ==
    /\ \E r \in Served(page.tag) : page' = [page EXCEPT !.tag = Resolve(@, r)]
    /\ UNCHANGED server

FailTag ==
    /\ \E r \in page.tag.reads : page' = [page EXCEPT !.tag = Reject(@, r)]
    /\ UNCHANGED server

------------------------------------------------------------------------------
\* The reads whose question has changed are made again.
Chiedi(q) ==
    /\ page' = [page EXCEPT
                    !.domanda = q,
                    !.lista = IF q = @.question THEN @ ELSE Effect(@, q, FALSE),
                    !.tag = IF q.ambito = @.question THEN @ ELSE Effect(@, q.ambito, FALSE)]
    /\ UNCHANGED server

\* Mutant: the page is kept.
ScegliAmbitoMutant(ambito) ==
    Chiedi([page.domanda EXCEPT !.ambito = ambito, !.categoria = Tutte])

ScegliAmbito(ambito) == Chiedi([Prima EXCEPT !.ambito = ambito])

\* The chips, when there is one.
ScegliCategoria(t) ==
    /\ page.tag.kind = "pronto" /\ DOMAIN page.tag.dato # {}
    /\ t \in DOMAIN page.tag.dato \cup {Tutte}
    /\ Chiedi([page.domanda EXCEPT !.categoria = t, !.offset = 0])

Mostrata == page.lista.kind = "pronto"
Lista == page.lista.dato
Fine == Lista.offset + Cardinality(Lista.items)

Precedenti ==
    /\ Mostrata /\ Lista.items # {} /\ Lista.offset > 0
    /\ Chiedi([page.domanda EXCEPT
                  !.offset = IF Lista.offset < PageSize THEN 0 ELSE Lista.offset - PageSize])

Successive ==
    /\ Mostrata /\ Lista.items # {} /\ Fine < Lista.total
    /\ Chiedi([page.domanda EXCEPT !.offset = Lista.offset + PageSize])

RicaricaTutto ==
    /\ page' = [page EXCEPT !.lista = Ricarica(@), !.tag = Ricarica(@)]
    /\ UNCHANGED server

Next ==
    \/ \E i \in DOMAIN server : Touch(i) \/ Archive(i) \/ \E tag \in SUBSET Tags : Retag(i, tag)
    \/ ServeLista \/ AnswerLista \/ FailLista
    \/ ServeTag \/ AnswerTag \/ FailTag
    \/ \E ambito \in Ambiti \cup {Tutte} : ScegliAmbito(ambito)
    \/ \E t \in Tags \cup {Tutte} : ScegliCategoria(t)
    \/ Precedenti \/ Successive \/ RicaricaTutto

ListSpec == Init /\ [][Next]_listVars

------------------------------------------------------------------------------
(* The cards shown are those of the scope, the category and the page that  *)
(* are chosen, whatever the order of the answers.                          *)
ShownIsWhatIsAsked ==
    Mostrata =>
        /\ Lista.offset = page.domanda.offset
        /\ \A c \in Lista.items : Where(c, page.domanda)

(* With no change meanwhile, whoever has come to the last page has met     *)
(* every card of the filter, each once: as many as the chip had said       *)
(* (ListScreen.tsx:37-39).                                                 *)
LeafingMeetsEveryCard ==
    page.cambi = 0 /\ Mostrata /\ Fine >= Lista.total =>
        /\ \A x, y \in page.letti : x.card = y.card => x = y
        /\ {x.card : x \in page.letti} = {c \in Range(server) : Where(c, page.domanda)}
        /\ page.tag.kind = "pronto" /\ page.domanda.categoria # Tutte =>
               page.tag.dato[page.domanda.categoria] = Cardinality(page.letti)
================================================================================
