-------------------------------- MODULE Screens --------------------------------
(***************************************************************************)
(* The screens of the web app, one at a time: a behaviour is the life of   *)
(* the screen the route names, from its mounting on.                       *)
(***************************************************************************)
EXTENDS Integers, Sequences, FiniteSets

CONSTANTS
    Routes,        \* the screens this instance opens
    NoDato,
    Cards, NoCard, PageSize, MaxGestures,                            \* the trash
    Recordings, Guasti, MaxTouched,                                  \* the list
    Archivio, Ambiti,                                                \* its filters
    Devices, NoDevice, MaxCalls,                                     \* the account
    Tags, TagMax,                                                    \* a card
    Racconti, Note,                                                  \* its review
    Queries, Rankings, RRF_K, SEARCH_MAX_DEPTH, SearchPage, MaxGone, \* the search
    Testi, Dati, Segnali, MaxEdits, MaxApply                         \* the redaction

ASSUME PagesAssumption == {PageSize, SearchPage, SEARCH_MAX_DEPTH, RRF_K} \subseteq Nat \ {0}
ASSUME NamesAssumption == NoCard \notin Cards /\ NoDevice \notin Devices /\ NoDato \notin Recordings
(* The model numbers its steps as it likes; the words of a step stand for  *)
(* the step, and name it.                                                  *)
ASSUME RaccontiAssumption ==
    \A raw \in Racconti :
        /\ raw.passi \in Seq([ordine : Int, azione : STRING])
        /\ \A i, j \in DOMAIN raw.passi : raw.passi[i].azione = raw.passi[j].azione => i = j
(* The cards have each an id of their own.                                 *)
ASSUME ArchivioAssumption ==
    /\ Archivio \in Seq([id : Int, ambito : Ambiti, tag : SUBSET Tags])
    /\ \A i, j \in DOMAIN Archivio : Archivio[i].id = Archivio[j].id => i = j
(* A channel answers each card once.                                       *)
ASSUME RankingsAssumption ==
    \A canali \in Rankings, q \in Queries :
        \A lista \in {canali[q].testo, canali[q].senso} :
            /\ lista \in Seq(STRING)
            /\ \A i, j \in DOMAIN lista : lista[i] = lista[j] => i = j
(* A text is some words, and what is found in it is never of no word; what *)
(* there is to find is finite.                                             *)
ASSUME TestiAssumption ==
    /\ IsFiniteSet(Dati) /\ IsFiniteSet(Segnali)
    /\ \A campo \in DOMAIN Testi : Testi[campo] \subseteq Seq(STRING)
    /\ \A d \in Dati \cup Segnali :
          d.kind \in STRING /\ d.valore \in Seq(STRING) /\ d.valore # <<>>
ASSUME GuastiAssumption == Guasti \in [Recordings -> SUBSET {"ritento", "ferma", "duplicato"}]

VARIABLES
    route,
    server,
    page

screensVars == <<route, server, page>>

------------------------------------------------------------------------------
T == INSTANCE TrashScreen
H == INSTANCE HomeScreen
L == INSTANCE ListScreen
A == INSTANCE AccountScreen
D == INSTANCE DetailScreen
V == INSTANCE ReviewScreen
S == INSTANCE SearchScreen
R == INSTANCE RedactionScreen

Cestino == route = "cestino" /\ T!Next /\ UNCHANGED route
Lista == route = "lista" /\ H!Next /\ UNCHANGED route
Elenco == route = "elenco" /\ L!Next /\ UNCHANGED route
Conto == route = "conto" /\ A!Next /\ UNCHANGED route
Scheda == route = "scheda" /\ D!Next /\ UNCHANGED route
Revisione == route = "revisione" /\ V!Next /\ UNCHANGED route
Cerca == route = "cerca" /\ S!Next /\ UNCHANGED route
Redazione == route = "redazione" /\ R!Next /\ UNCHANGED route

Init ==
    /\ route \in Routes
    /\ \/ route = "cestino" /\ T!Init
       \/ route = "lista" /\ H!Init
       \/ route = "elenco" /\ L!Init
       \/ route = "conto" /\ A!Init
       \/ route = "scheda" /\ D!Init
       \/ route = "revisione" /\ V!Init
       \/ route = "cerca" /\ S!Init
       \/ route = "redazione" /\ R!Init

Next == Cestino \/ Lista \/ Elenco \/ Conto \/ Scheda \/ Revisione \/ Cerca \/ Redazione

(* The section's timer ticks while it is set; a read asked for again and    *)
(* again is in the end answered before the tick that stops listening to it. *)
PollLista == route = "lista" /\ H!Poll /\ UNCHANGED route
ServeSospesi == route = "lista" /\ H!ServeSospesi /\ UNCHANGED route
AnswerSospesi == route = "lista" /\ H!AnswerSospesi /\ UNCHANGED route

ScreensSpec ==
    /\ Init /\ [][Next]_screensVars
    /\ WF_screensVars(PollLista)
    /\ SF_screensVars(ServeSospesi) /\ SF_screensVars(AnswerSospesi)

------------------------------------------------------------------------------
(* useAsync: no read answered late puts back what was there before: what a *)
(* gesture of the page deleted or disconnected is never shown by that page *)
(* again, and the cards shown are those of the question asked.  An emptying *)
(* of the trash that no read follows is left out (OwnDeletionsStayGone).   *)
NoOlderReadWins ==
    /\ route = "cestino" => T!OwnDeletionsStayGone
    /\ route = "conto" => A!OwnClosuresStayGone
    /\ route = "scheda" => D!OwnDeletionStaysGone
    /\ route = "elenco" => L!ShownIsWhatIsAsked
    /\ route = "cerca" => S!ResultsAnswerTheQuestion

(* HomeScreen: the card born of a recording that has left the section is   *)
(* in the list.                                                            *)
NoCardIsMissed == route = "lista" => H!NoCardIsMissed

(* HomeScreen: a question under somebody's eyes outlives the polls.        *)
QuestionOutlivesThePoll == [][route = "lista" => H!QuestionKept]_screensVars

(* HomeScreen: a recording that has moved on is not shown waiting for ever. *)
MovedOn(r) == route = "lista" /\ H!MovedOn(r)
SectionCatchesUp == \A r \in Recordings : MovedOn(r) ~> ~MovedOn(r)

(* AccountScreen: this device's queue of recordings is emptied only of an  *)
(* account that is gone.                                                   *)
QueueOutlivesTheAccount == route = "conto" => A!QueueOutlivesTheAccount

(* DetailScreen: a category that was saved is not lost to the next one.    *)
LoneHandKeepsItsTags == route = "scheda" => D!LoneHandKeepsItsTags

(* ReviewScreen: the steps of the story are written, in the order they were *)
(* told, and every step added by hand is there once, replies lost or not.  *)
LoneHandLosesNoStep == route = "revisione" => V!LoneHandLosesNoStep

(* ListScreen and SearchScreen: leafing through meets every card once.     *)
PagesNeitherSkipNorRepeat ==
    /\ route = "elenco" => L!LeafingMeetsEveryCard
    /\ route = "cerca" => S!PagesPartitionTheRanking

(* RedactionScreen: an application takes away what was confirmed, no more. *)
OnlyTheConfirmedGoes == route = "redazione" => R!OnlyTheConfirmedGoes

(* RedactionScreen: the proposals of a card that has not changed apply.    *)
FreshReportApplies == route = "redazione" => R!FreshReportApplies

(* RedactionScreen: an application takes away what was looked at.          *)
OnlyWhatWasSeenGoes == route = "redazione" => R!OnlyWhatWasSeenGoes
================================================================================
