------------------------------ MODULE SearchScreen ------------------------------
(***************************************************************************)
(* The search: what is written becomes a question when the hand stops, and *)
(* the question a page of results.  The server asks two rankings of the    *)
(* cards, by the words and by the sense, fuses them, and serves a window   *)
(* on the fusion; the sense needs the embedding of a provider that may not *)
(* answer, and then the words alone decide.                                *)
(***************************************************************************)
EXTENDS UseAsync, SequencesExt

CONSTANTS
    Queries,
    Rankings,     \* what the two channels answer: [testo |-> ..., senso |-> ...] of a query
    RRF_K,
    SEARCH_MAX_DEPTH,
    SearchPage,   \* SEARCH_PAGE_SIZE
    MaxGone       \* cards deleted while the screen is open

VARIABLES
    server,   \* the rankings, how fresh each card is, and the cards that are gone
    page

searchVars == <<server, page>>

------------------------------------------------------------------------------
NoQuery == "niente"     \* under MIN_CARATTERI
Texts == Queries \cup {NoQuery}
Question(query, offset) == <<query, offset>>

Ids == UNION {Range(server.canali[q].testo) \cup Range(server.canali[q].senso) : q \in Queries}

\* `viste': the pages of one question, on the same cards, that were not degraded.
Init ==
    /\ \E canali \in Rankings :
           LET ids == UNION {Range(canali[q].testo) \cup Range(canali[q].senso) : q \in Queries}
           IN \E fresca \in SUBSET ids : Cardinality(fresca) <= 1
                 /\ server = [canali |-> canali, fresca |-> fresca, via |-> {}]
    /\ page = [testo |-> NoQuery, timer |-> TRUE, query |-> NoQuery, offset |-> 0,
               hook |-> Mount(Question(NoQuery, 0)), viste |-> {}]

------------------------------------------------------------------------------
\* The members of a set, each after those that come before it.
InOrder(members, Before(_, _)) ==
    LET place(x) == Cardinality({y \in members : ~Before(x, y)})
    IN [i \in 1..Cardinality(members) |-> CHOOSE x \in members : place(x) = i]

\* The cards that are there, best first, at most `limit' of them.
Channel(lista, limit) ==
    LET vive == InOrder({i \in DOMAIN lista : lista[i] \notin server.via}, <)
    IN [i \in 1..Min({limit, Len(vive)}) |-> lista[vive[i]]]

SearchFullText(q, limit) == Channel(server.canali[q].testo, limit)
\* The cards far from the question, or without a vector, are not in the ranking.
SearchSemantic(q, limit) == Channel(server.canali[q].senso, limit)

\* The rows of a page: those of the cards deleted meanwhile are not there.
SummariesByIds(ids, sparite) == ids \ sparite

\* fuseRankings.  A score is a sum of 1 / (k + rank): here, a fraction.
Rank(lista, c) == CHOOSE i \in DOMAIN lista : lista[i] = c
Share(lista, c) ==
    IF c \in Range(lista) THEN [num |-> 1, den |-> RRF_K + Rank(lista, c)] ELSE [num |-> 0, den |-> 1]
Score(testo, senso, c) ==
    LET a == Share(testo, c)
        b == Share(senso, c)
    IN [num |-> a.num * b.den + b.num * a.den, den |-> a.den * b.den]
Greater(a, b) == a.num * b.den > b.num * a.den

\* The first list is absorbed before the second.
Appearance(testo, senso, c) ==
    IF c \in Range(testo) THEN Rank(testo, c) ELSE Len(testo) + Rank(senso, c)

\* A tie goes to who appeared first.
FuseRankings(testo, senso) ==
    LET score(c) == Score(testo, senso, c)
        prima(c) == Appearance(testo, senso, c)
    IN InOrder(Range(testo) \cup Range(senso),
               LAMBDA c, d : \/ Greater(score(c), score(d))
                             \/ ~Greater(score(d), score(c)) /\ prima(c) < prima(d))

\* How many rows each channel is asked for, whatever the page.
Depth(offset) == SEARCH_MAX_DEPTH

Channels(q, offset, degradata) ==
    [testo |-> SearchFullText(q, Depth(offset)),
     senso |-> IF degradata THEN <<>> ELSE SearchSemantic(q, Depth(offset))]

\* confrontaPerRilevanza, inside the page: among equal scores the freshest first,
\* and the sort is stable.
Freshest(canali, fuse, righe) ==
    LET score(c) == Score(canali.testo, canali.senso, c)
        fresh(c) == IF c \in server.fresca THEN 1 ELSE 0
    IN InOrder(righe, LAMBDA c, d :
           \/ Greater(score(c), score(d))
           \/ /\ ~Greater(score(d), score(c))
              /\ \/ fresh(c) > fresh(d)
                 \/ fresh(c) = fresh(d) /\ Rank(fuse, c) < Rank(fuse, d))

\* The page at `offset'; `sparite' is what is deleted before its rows are read.
Result(q, offset, degradata, sparite) ==
    LET canali == Channels(q, offset, degradata)
        fuse == FuseRankings(canali.testo, canali.senso)
        servibili == Min({SEARCH_MAX_DEPTH, Len(fuse)})
        fine == offset + SearchPage
        vincitori == {fuse[i] : i \in (offset + 1)..Min({fine, servibili})}
    IN [q |-> q, offset |-> offset, degradata |-> degradata, via |-> server.via,
        items |-> Freshest(canali, fuse, SummariesByIds(vincitori, sparite)),
        hasMore |-> servibili > fine]

\* An empty question is answered at once, with nothing.
Nullo ==
    [q |-> NoQuery, offset |-> 0, degradata |-> TRUE, via |-> {}, items |-> <<>>, hasMore |-> FALSE]

------------------------------------------------------------------------------
DeleteElsewhere(c) ==
    /\ c \in Ids \ server.via /\ Cardinality(server.via) < MaxGone
    /\ server' = [server EXCEPT !.via = @ \cup {c}]
    /\ UNCHANGED page

ServeNothing ==
    /\ \E r \in Unserved(page.hook) :
           /\ r.question[1] = NoQuery
           /\ page' = [page EXCEPT !.hook = Serve(@, r, Nullo)]
    /\ UNCHANGED server

ServeSearch ==
    \E r \in Unserved(page.hook), degradata \in BOOLEAN, sparite \in SUBSET (Ids \ server.via) :
        /\ r.question[1] # NoQuery /\ Cardinality(server.via \cup sparite) <= MaxGone
        /\ page' = [page EXCEPT !.hook =
                        Serve(@, r, Result(r.question[1], r.question[2], degradata, sparite))]
        /\ server' = [server EXCEPT !.via = @ \cup sparite]

Pages(dato) ==
    {v \in page.viste : v.q = dato.q /\ v.via = dato.via}
        \cup (IF dato.degradata THEN {} ELSE {dato})

AnswerSearch ==
    /\ \E r \in Served(page.hook) :
           page' = [page EXCEPT !.hook = Resolve(@, r),
                                !.viste = Pages(r.dato)]
    /\ UNCHANGED server

FailSearch ==
    /\ \E r \in page.hook.reads : page' = [page EXCEPT !.hook = Reject(@, r)]
    /\ UNCHANGED server

------------------------------------------------------------------------------
\* The effect on the question runs when the question changes.
Ask(p, query, offset) ==
    [p EXCEPT !.query = query, !.offset = offset,
              !.hook = IF Question(query, offset) = @.question THEN @
                       ELSE Effect(@, Question(query, offset), FALSE)]

\* A key: the timer starts again.
Scrivi(t) ==
    /\ t # page.testo
    /\ page' = [page EXCEPT !.testo = t, !.timer = TRUE]
    /\ UNCHANGED server

Scade ==
    /\ page.timer
    /\ page' = Ask([page EXCEPT !.timer = FALSE], page.testo, 0)
    /\ UNCHANGED server

Risultato == page.hook.dato
Pronto == page.hook.kind = "pronto" /\ Risultato.q # NoQuery

Precedenti ==
    /\ Pronto /\ Risultato.offset # 0
    /\ page' = Ask(page, page.query, Max({0, Risultato.offset - SearchPage}))
    /\ UNCHANGED server

Successive ==
    /\ Pronto /\ Risultato.hasMore
    /\ page' = Ask(page, page.query, Risultato.offset + SearchPage)
    /\ UNCHANGED server

Next ==
    \/ \E c \in Ids : DeleteElsewhere(c)
    \/ ServeNothing \/ ServeSearch \/ AnswerSearch \/ FailSearch
    \/ \E t \in Texts : Scrivi(t)
    \/ Scade \/ Precedenti \/ Successive

SearchSpec == Init /\ [][Next]_searchVars

------------------------------------------------------------------------------
(* The results on the screen are those of the question it is asking, and   *)
(* of the page it is on, whatever was typed while they were on the way.    *)
ResultsAnswerTheQuestion ==
    page.hook.kind = "pronto" => Risultato.q = page.query /\ Risultato.offset = page.offset

\* The pages seen are the first, the next, and so on to one that has no next.
SeenWhole(viste) ==
    \E v \in viste :
        ~v.hasMore /\ \A o \in 0..v.offset :
                          o % SearchPage = 0 => \E w \in viste : w.offset = o

(* Leafing through the results of a question, as long as no card is deleted *)
(* and the sense answers, no card is met twice; and from the first page to *)
(* the one that says there is nothing more, every card is met that the     *)
(* depth leaves room for (search.service.ts:107-112).                       *)
PagesPartitionTheRanking ==
    LET met == UNION {Range(v.items) : v \in page.viste}
        ranked(q) == (Range(server.canali[q].testo) \cup Range(server.canali[q].senso)) \ server.via
    IN /\ \A v, w \in page.viste :
              v.offset # w.offset => Range(v.items) \cap Range(w.items) = {}
       /\ \A v \in page.viste :
              v.via = server.via /\ SeenWhole(page.viste) =>
                  Cardinality(met) = Min({SEARCH_MAX_DEPTH, Cardinality(ranked(v.q))})
================================================================================
