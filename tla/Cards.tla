-------------------------------- MODULE Cards --------------------------------
(***************************************************************************)
(* One card and the requests of its owner's devices: editing it (PATCH),   *)
(* recording an execution, applying a redaction, archiving and deleting.   *)
(*                                                                         *)
(* Every request reads the card, decides, and writes in a transaction of   *)
(* its own under READ COMMITTED, without asking again what it has read.    *)
(* The lists of a card are replaced whole: a DELETE of the rows that are   *)
(* committed when the statement starts, then an INSERT.  A DELETE that     *)
(* meets rows another transaction is deleting waits for it to end.         *)
(***************************************************************************)
EXTENDS Naturals, FiniteSets

CONSTANTS
    Requests,     \* the requests that arrive, each once
    Patches,      \* the bodies of PATCH: some fields, each with a new value
    Days,         \* when an execution may say it took place
    Ingestion     \* the author of the card as it is born

ASSUME RequestsAssumption == IsFiniteSet(Requests) /\ Ingestion \notin Requests
ASSUME DaysAssumption == Days \subseteq Nat \ {0}

Texts == {"originale", "riscritto", "redatto"}
Scopes == {"PERSONALE", "CLIENTE"}
Visibilities == {"PRIVATA", "PUBBLICA"}
CardStatuses == {"DA_RIVEDERE", "COMPLETA", "ARCHIVIATA"}
Outcomes == {"FUNZIONATO", "CAMBIATA", "FALLITA"}
Lists == {"steps", "costs"}

\* The fields of a PATCH.  A list is given by its length, as its rows are the new
\* ones of the request; a cost is worth 1, so the sum of the costs is their number.
IsPatch(p) ==
    /\ DOMAIN p \subseteq {"titolo", "scope", "visibility", "status",
                           "contieneDatiSensibili"} \cup Lists
    /\ "titolo" \in DOMAIN p => p.titolo \in Texts
    /\ "scope" \in DOMAIN p => p.scope \in Scopes
    /\ "visibility" \in DOMAIN p => p.visibility \in Visibilities
    /\ "status" \in DOMAIN p => p.status \in CardStatuses
    /\ "contieneDatiSensibili" \in DOMAIN p => p.contieneDatiSensibili \in BOOLEAN
    /\ \A l \in DOMAIN p \cap Lists : p[l] \in Nat

ASSUME PatchesAssumption == \A p \in Patches : IsPatch(p)

VARIABLES
    card,      \* the committed row, its child rows and its executions
    request    \* each request: where it is, what it asks and what it has read

cardsVars == <<card, request>>

Authors == Requests \cup {Ingestion}

ChildRow == [list : Lists, by : Authors, ordine : Nat]
Execution == [by : Authors, eseguitaIl : Days, esito : Outcomes]
Card ==
    [stored : BOOLEAN, titolo : Texts, scope : Scopes, visibility : Visibilities,
     status : CardStatuses, contieneDatiSensibili : BOOLEAN,
     rows : SUBSET ChildRow, costoTotaleCent : Nat,
     searchText : [titolo : Texts, passi : SUBSET ChildRow], embedding : Texts,
     executions : SUBSET Execution, volteEseguita : Nat, ultimaVerifica : Days]

RowsOf(l, by, n) == {[list |-> l, by |-> by, ordine |-> i] : i \in 1..n}
Listed(c, l) == {x \in c.rows : x.list = l}

\* searchText() and embeddingInput() by what they are computed from.
SearchText(titolo, passi) == [titolo |-> titolo, passi |-> passi]

\* persistProcedure: the card as the extraction writes it, here with one step and
\* one cost.
Born(status, scope, sensitive, day) ==
    [stored |-> TRUE, titolo |-> "originale",
     scope |-> scope, visibility |-> "PRIVATA", status |-> status,
     contieneDatiSensibili |-> sensitive,
     rows |-> RowsOf("steps", Ingestion, 1) \cup RowsOf("costs", Ingestion, 1),
     costoTotaleCent |-> 1,
     searchText |-> SearchText("originale", RowsOf("steps", Ingestion, 1)),
     embedding |-> "originale",
     executions |-> {[by |-> Ingestion, eseguitaIl |-> day, esito |-> "FUNZIONATO"]},
     volteEseguita |-> 1, ultimaVerifica |-> day]

NoRequest == [pc |-> "idle"]

CardsInit ==
    /\ \E status \in {"COMPLETA", "DA_RIVEDERE"}, scope \in Scopes,
          sensitive \in BOOLEAN, day \in Days :
            card = Born(status, scope, sensitive, day)
    /\ request = [r \in Requests |-> NoRequest]

------------------------------------------------------------------------------
(* Editing: aggiorna, and the transaction of update. *)

\* The card with the scalars of a patch on it: "patch.x ?? current.x".
Patched(c, patch) ==
    [f \in DOMAIN c |-> IF f \in DOMAIN patch THEN patch[f] ELSE c[f]]

\* Mutant: the rule is asked only of a patch that publishes.
VerificaVisibilitaMutant(c, patch) ==
    "visibility" \in DOMAIN patch => c.scope # "CLIENTE" /\ ~c.contieneDatiSensibili
\* What is public is neither a client's nor marked as sensitive, after the patch.
VerificaVisibilita(c, patch) ==
    LET risultante == Patched(c, patch) IN
    risultante.visibility = "PUBBLICA" =>
        risultante.scope # "CLIENTE" /\ ~risultante.contieneDatiSensibili

Refuse(r) == request' = [request EXCEPT ![r] = [pc |-> "refused"]]

\* aggiorna reads the card and checks the patch; 404 and 409 leave no trace.
ReadAndCheck(r, patch) ==
    IF card.stored /\ VerificaVisibilita(card, patch)
    THEN request' = [request EXCEPT ![r] =
            [pc |-> "writing", patch |-> patch, seen |-> card,
             todo |-> DOMAIN patch \cap Lists,
             gone |-> {}, waits |-> {}]]
    ELSE Refuse(r)

Update(r) ==
    /\ request[r].pc = "idle"
    /\ \E patch \in Patches : ReadAndCheck(r, patch)
    /\ UNCHANGED card

Writing(r) == request[r].pc = "writing"
\* The transactions whose locks r met are still open.
Blocked(r) == \E q \in request[r].waits : Writing(q)

\* The lists are replaced in the order of the code.
NextList(r) == IF "steps" \in request[r].todo THEN "steps" ELSE "costs"

\* The DELETE of the next list of the patch.
DeleteRows(r) ==
    /\ Writing(r) /\ request[r].todo # {} /\ ~Blocked(r)
    /\ LET seen == Listed(card, NextList(r)) IN
       request' = [request EXCEPT
            ![r].todo = @ \ {NextList(r)},
            ![r].gone = @ \cup seen,
            ![r].waits = {q \in Requests \ {r} : Writing(q) /\ request[q].gone \cap seen # {}}]
    /\ UNCHANGED card

\* The INSERTs of the lists of the patch.
Inserted(r) ==
    UNION {RowsOf(l, r, request[r].patch[l]) : l \in DOMAIN request[r].patch \cap Lists}
Kept(r) == card.rows \ request[r].gone

\* Mutant: nothing keeps two steps from having the same number.
OrdineTakenMutant(r) == FALSE
\* @@unique([procedureId, ordine]) of Step.
OrdineTaken(r) ==
    \E old \in Kept(r), new \in Inserted(r) :
        old.list = "steps" /\ new.list = "steps" /\ old.ordine = new.ordine

\* The sum of the costs of the patch, not of the ones that are stored.
CostoTotale(r, c) ==
    IF "costs" \in DOMAIN request[r].patch THEN request[r].patch.costs
    ELSE c.costoTotaleCent

\* From the row that was read and from the patch.
NewSearchText(r) ==
    LET patch == request[r].patch
        seen == request[r].seen IN
    SearchText(Patched(seen, patch).titolo,
               IF "steps" \in DOMAIN patch THEN RowsOf("steps", r, patch.steps)
               ELSE Listed(seen, "steps"))

\* The vector is asked for again only if its text changes.
NewEmbedding(r, c) ==
    LET titolo == Patched(request[r].seen, request[r].patch).titolo IN
    IF titolo # request[r].seen.titolo THEN titolo ELSE c.embedding

CommitUpdate(r) ==
    /\ Writing(r) /\ request[r].todo = {} /\ ~Blocked(r)
    /\ IF card.stored /\ ~OrdineTaken(r)
       THEN /\ card' = [Patched(card, request[r].patch) EXCEPT
                           !.rows = Kept(r) \cup Inserted(r),
                           !.costoTotaleCent = CostoTotale(r, card),
                           !.searchText = NewSearchText(r),
                           !.embedding = NewEmbedding(r, card)]
            /\ request' = [request EXCEPT ![r] = [pc |-> "done"]]
       ELSE Refuse(r) /\ UNCHANGED card

------------------------------------------------------------------------------
(* Redaction: proposeRedaction shows proposals, applyRedaction confirms them. *)

\* The owner is shown proposals about one field, as it reads now.
ProposeRedaction(r) ==
    /\ request[r].pc = "idle" /\ card.stored
    /\ \/ /\ card.titolo # "redatto"
          /\ request' = [request EXCEPT ![r] =
                [pc |-> "proposed", campo |-> "titolo", testo |-> card.titolo]]
       \/ /\ Listed(card, "steps") # {}
          /\ request' = [request EXCEPT ![r] =
                [pc |-> "proposed", campo |-> "steps", testo |-> Listed(card, "steps")]]
    /\ UNCHANGED card

\* The text is still the one the confirmations are about.
Unchanged(r) ==
    IF request[r].campo = "titolo" THEN card.titolo = request[r].testo
    ELSE Listed(card, "steps") = request[r].testo

\* risolviConferme finds a field, a position and a kind again in the text as it is now:
\* always in the same text, and it may be in another that has something to take away.
StillThere(r) ==
    IF request[r].campo = "titolo" THEN card.titolo # "redatto"
    ELSE Listed(card, "steps") # {}

\* patchDiRedazione: a list is rewritten whole, with as many rows.
PatchDiRedazione(r) ==
    IF request[r].campo = "titolo" THEN [titolo |-> "redatto"]
    ELSE [steps |-> Cardinality(Listed(card, "steps"))]

ApplyRedaction(r) ==
    /\ request[r].pc = "proposed"
    /\ \/ /\ card.stored /\ StillThere(r)
          /\ request' = [request EXCEPT ![r] =
                [pc |-> "redacting", patch |-> PatchDiRedazione(r)]]
       \/ /\ ~(card.stored /\ Unchanged(r))
          /\ Refuse(r)
    /\ UNCHANGED card

\* aggiorna reads the card a second time.
UpdateRedacted(r) ==
    /\ request[r].pc = "redacting"
    /\ ReadAndCheck(r, request[r].patch)
    /\ UNCHANGED card

------------------------------------------------------------------------------
(* Executions. *)

StatoDopo(attuale, esito) ==
    IF esito = "CAMBIATA" THEN "DA_RIVEDERE"
    ELSE IF esito = "FUNZIONATO" /\ attuale = "DA_RIVEDERE" THEN "COMPLETA"
    ELSE attuale

AddExecution(r) ==
    /\ request[r].pc = "idle"
    /\ \E day \in Days, esito \in Outcomes :
        IF card.stored /\ card.status # "ARCHIVIATA"
        THEN request' = [request EXCEPT ![r] =
                [pc |-> "executing", seen |-> card, eseguitaIl |-> day, esito |-> esito]]
        ELSE Refuse(r)
    /\ UNCHANGED card

\* Mutant: what is written is what was read, plus one.
CountedMutant(r, c) == request[r].seen.volteEseguita + 1
\* { increment: 1 }
Counted(r, c) == c.volteEseguita + 1

\* Mutant: any outcome is a verification.
VerifiesMutant(r) == request[r].eseguitaIl > request[r].seen.ultimaVerifica
\* Only an execution that worked, later than the last one known.
Verifies(r) ==
    /\ request[r].esito = "FUNZIONATO"
    /\ request[r].eseguitaIl > request[r].seen.ultimaVerifica

\* Mutant: an old execution is a verification too.
NewVerificaMutant(r, c) ==
    IF request[r].esito = "FUNZIONATO" THEN request[r].eseguitaIl ELSE c.ultimaVerifica
NewVerifica(r, c) == IF Verifies(r) THEN request[r].eseguitaIl ELSE c.ultimaVerifica

\* The status is written only when it moves from the one that was read.
NewStatus(r, c) ==
    LET prima == request[r].seen.status
        dopo == StatoDopo(prima, request[r].esito) IN
    IF dopo # prima THEN dopo ELSE c.status

CommitExecution(r) ==
    /\ request[r].pc = "executing"
    /\ IF card.stored
       THEN /\ card' = [card EXCEPT
                  !.executions = @ \cup {[by |-> r, eseguitaIl |-> request[r].eseguitaIl,
                                          esito |-> request[r].esito]},
                  !.volteEseguita = Counted(r, card),
                  !.ultimaVerifica = NewVerifica(r, card),
                  !.status = NewStatus(r, card)]
            /\ request' = [request EXCEPT ![r] = [pc |-> "done"]]
       ELSE Refuse(r) /\ UNCHANGED card

------------------------------------------------------------------------------
\* The embedding provider answers with an error, the connection or the process
\* is lost, the transaction times out: nothing was written.
Fail(r) ==
    /\ request[r].pc \in {"writing", "redacting", "executing"}
    /\ Refuse(r)
    /\ UNCHANGED card

\* One UPDATE.
Archive ==
    /\ card.stored
    /\ card' = [card EXCEPT !.status = "ARCHIVIATA"]
    /\ UNCHANGED request

\* deleteForUser deletes a card that is still archived; CardTrash has its steps.
\* The child rows and the executions go with it.
DeleteForever ==
    /\ card.stored /\ card.status = "ARCHIVIATA"
    /\ card' = [card EXCEPT !.stored = FALSE, !.rows = {}, !.executions = {}]
    /\ UNCHANGED request

CardsNext ==
    \/ \E r \in Requests :
        \/ Update(r) \/ DeleteRows(r) \/ CommitUpdate(r)
        \/ ProposeRedaction(r) \/ ApplyRedaction(r) \/ UpdateRedacted(r)
        \/ AddExecution(r) \/ CommitExecution(r) \/ Fail(r)
    \/ Archive
    \/ DeleteForever

CardsSpec == CardsInit /\ [][CardsNext]_cardsVars

------------------------------------------------------------------------------
(* Properties. *)

\* Every field keeps the values its column admits; no total is negative.
CardsTypeOK ==
    /\ card \in Card
    /\ \A r \in Requests : Writing(r) =>
            /\ IsPatch(request[r].patch)
            /\ request[r].seen \in Card
            /\ request[r].gone \subseteq ChildRow

\* volteEseguita is the number of executions, however many devices record one at
\* once: addExecution increments in SQL.
CountsItsExecutions ==
    card.stored => card.volteEseguita = Cardinality(card.executions)

\* The steps of a card are those of one request, numbered from 1 without holes:
\* two devices that replace them at once never mix theirs.
StepsOfOneHand ==
    LET passi == Listed(card, "steps") IN
    passi = {} \/ \E by \in Authors : passi = RowsOf("steps", by, Cardinality(passi))

\* A card that is fresh is fresh because of an execution that worked on that day,
\* even when executions overlap: a failure never refreshes it.
VerifiedByAnExecution ==
    card.stored => \E e \in card.executions :
                        e.esito = "FUNZIONATO" /\ e.eseguitaIl = card.ultimaVerifica

Committed(r) == request[r].pc # "done" /\ request'[r].pc = "done"
\* Nobody wrote on the card since r read it.
Alone(r) == request[r].seen = card

\* An edit nobody overlapped leaves the derived fields true, whatever they were
\* before, among the other things races left behind: the text that is searched,
\* the rule on what may be public, and the total if the costs were replaced.
LoneEditHeals ==
    [][\A r \in Requests :
        Writing(r) /\ Committed(r) /\ Alone(r) =>
            /\ card'.searchText = SearchText(card'.titolo, Listed(card', "steps"))
            /\ card'.visibility = "PUBBLICA" =>
                    card'.scope # "CLIENTE" /\ ~card'.contieneDatiSensibili
            /\ "costs" \in DOMAIN request[r].patch =>
                    card'.costoTotaleCent = Cardinality(Listed(card', "costs"))
            /\ card.embedding = card.titolo => card'.embedding = card'.titolo]_cardsVars

\* An execution nobody overlapped never ages the card, and never takes it out of
\* the trash.
LoneExecutionKeepsFreshness ==
    [][\A r \in Requests :
        request[r].pc = "executing" /\ Committed(r) /\ Alone(r) =>
            /\ card'.ultimaVerifica >= card.ultimaVerifica
            /\ card'.status # card.status => card.status # "ARCHIVIATA"]_cardsVars

==============================================================================
