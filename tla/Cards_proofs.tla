----------------------------- MODULE Cards_proofs -----------------------------
(***************************************************************************)
(* What holds of a card whatever requests overlap on it, for any requests, *)
(* patches and days, and what an edit nobody overlapped repairs.           *)
(***************************************************************************)
EXTENDS Cards, TLAPS, FiniteSetTheorems

\* Whoever wrote on the card has committed: a request that is still under way is
\* the author of nothing.
Settled(by) == by = Ingestion \/ (by \in Requests /\ request[by].pc = "done")

CardOK ==
    /\ card \in Card
    /\ IsFiniteSet(card.rows) /\ IsFiniteSet(card.executions)
    /\ \A x \in card.rows : Settled(x.by)
    /\ \A e \in card.executions : Settled(e.by)

\* The last conjunct is what makes an edit nobody overlapped complete: the rows it
\* read and that are still there are the ones its DELETE took, because a row that
\* is gone never comes back.
WritingOK(r) ==
    LET q == request[r] IN
    /\ q = [pc |-> "writing", patch |-> q.patch, seen |-> q.seen,
            todo |-> q.todo, gone |-> q.gone, waits |-> q.waits]
    /\ IsPatch(q.patch) /\ q.seen \in Card
    /\ VerificaVisibilita(q.seen, q.patch)
    /\ q.gone \subseteq ChildRow
    /\ \A x \in q.gone : x.list \in DOMAIN q.patch
    /\ q.todo \subseteq DOMAIN q.patch \cap Lists
    /\ \A x \in q.seen.rows : Settled(x.by)
    /\ \A x \in q.seen.rows \cap card.rows :
            x.list \in DOMAIN q.patch \ q.todo => x \in q.gone

ExecutingOK(r) ==
    /\ request[r].seen \in Card /\ request[r].seen.status # "ARCHIVIATA"
    /\ request[r].eseguitaIl \in Days /\ request[r].esito \in Outcomes

RequestOK(r) ==
    /\ request[r].pc \in {"idle", "refused", "done", "proposed", "redacting",
                          "writing", "executing"}
    /\ request[r].pc = "writing" => WritingOK(r)
    /\ request[r].pc = "redacting" => IsPatch(request[r].patch)
    /\ request[r].pc = "executing" => ExecutingOK(r)

Serial ==
    /\ CardOK
    /\ request = [r \in Requests |-> request[r]]
    /\ \A r \in Requests : RequestOK(r)

\* The rows a request inserts into a list are finitely many.
LEMMA RowsOfFacts ==
    ASSUME NEW l \in Lists, NEW by \in Authors, NEW n \in Nat
    PROVE  RowsOf(l, by, n) \subseteq ChildRow /\ IsFiniteSet(RowsOf(l, by, n))
<1>1. RowsOf(l, by, n) \subseteq ChildRow
  BY DEF RowsOf, ChildRow
<1> DEFINE f == [i \in 1..n |-> [list |-> l, by |-> by, ordine |-> i]]
<1>2. f \in Surjection(1..n, RowsOf(l, by, n))
  BY DEF Surjection, RowsOf
<1>3. IsFiniteSet(1..n)
  BY FS_Interval
<1>4. IsFiniteSet(RowsOf(l, by, n))
  BY <1>2, <1>3, FS_Surjection
<1> QED
  BY <1>1, <1>4

\* A patch leaves a card a card.
LEMMA PatchedIsCard ==
    ASSUME NEW c \in Card, NEW p, IsPatch(p)
    PROVE  /\ Patched(c, p) \in Card
           /\ Patched(c, p).rows = c.rows
           /\ Patched(c, p).executions = c.executions
           /\ Patched(c, p).stored = c.stored
           /\ Patched(c, p).volteEseguita = c.volteEseguita
           /\ Patched(c, p).ultimaVerifica = c.ultimaVerifica
BY DEF Card, Patched, IsPatch, Lists

\* The rows a request inserts: its own, and only into the lists of its patch.
LEMMA InsertedFacts ==
    ASSUME NEW r \in Requests, IsPatch(request[r].patch)
    PROVE  /\ Inserted(r) \subseteq ChildRow
           /\ IsFiniteSet(Inserted(r))
           /\ \A x \in Inserted(r) : x.by = r /\ x.list \in DOMAIN request[r].patch
           /\ \A l \in DOMAIN request[r].patch \cap Lists :
                {x \in Inserted(r) : x.list = l} = RowsOf(l, r, request[r].patch[l])
<1> DEFINE P == request[r].patch
           D == DOMAIN P \cap Lists
<1>1. \A l \in D : P[l] \in Nat
  BY DEF IsPatch
<1>2. \A l \in D : RowsOf(l, r, P[l]) \subseteq ChildRow /\ IsFiniteSet(RowsOf(l, r, P[l]))
  BY <1>1, RowsOfFacts DEF Authors
<1>3. \A l : \A x \in RowsOf(l, r, P[l]) : x.by = r /\ x.list = l
  BY DEF RowsOf
<1>4. IsFiniteSet(Inserted(r))
  <2> DEFINE A == IF "steps" \in D THEN RowsOf("steps", r, P["steps"]) ELSE {}
             B == IF "costs" \in D THEN RowsOf("costs", r, P["costs"]) ELSE {}
  <2>2. Inserted(r) = A \cup B
    BY DEF Inserted, Lists
  <2>3. IsFiniteSet(A) /\ IsFiniteSet(B)
    BY <1>2, FS_EmptySet
  <2> QED
    BY <2>2, <2>3, FS_Union
<1> QED
  BY <1>2, <1>3, <1>4 DEF Inserted


------------------------------------------------------------------------------
(* The invariant. *)

\* A step of one request that has not committed yet leaves the others as they
\* were, if what it adds to the card is its own.
LEMMA OneRequest ==
    ASSUME Serial, NEW r \in Requests, request[r].pc # "done",
           NEW v, request' = [request EXCEPT ![r] = v],
           \A x \in card'.rows : x \in card.rows \/ x.by = r
    PROVE  /\ request' = [p \in Requests |-> request'[p]]
           /\ request'[r] = v
           /\ \A by : Settled(by) => Settled(by)'
           /\ \A p \in Requests : p # r => RequestOK(p)'
<1> USE RequestsAssumption
<1>1. /\ request' = [p \in Requests |-> request'[p]]
      /\ request'[r] = v
      /\ \A p \in Requests : p # r => request'[p] = request[p]
  BY DEF Serial
<1>2. \A by : Settled(by) => Settled(by)'
  BY <1>1 DEF Settled
<1>3. ASSUME NEW p \in Requests, p # r PROVE RequestOK(p)'
  <2>1. RequestOK(p) /\ request'[p] = request[p]
    BY <1>1, <1>3 DEF Serial
  <2>2. ASSUME request[p].pc = "writing" PROVE WritingOK(p)'
    <3>1. WritingOK(p)
      BY <2>1, <2>2 DEF RequestOK
    <3>2. \A x \in request[p].seen.rows : Settled(x.by)'
      BY <1>2, <3>1 DEF WritingOK
    <3>3. ~Settled(r)
      BY DEF Settled
    <3>4. request[p].seen.rows \cap card'.rows \subseteq card.rows
      BY <3>1, <3>3 DEF WritingOK
    <3> QED
      BY <2>1, <3>1, <3>2, <3>4 DEF WritingOK
  <2>3. ExecutingOK(p) => ExecutingOK(p)'
    BY <2>1 DEF ExecutingOK
  <2> QED
    BY <2>1, <2>2, <2>3 DEF RequestOK
<1> QED
  BY <1>1, <1>2, <1>3

\* Hence a step that leaves the card alone and the request well formed.
LEMMA QuietRequest ==
    ASSUME Serial, NEW r \in Requests, request[r].pc # "done",
           NEW v, request' = [request EXCEPT ![r] = v], card' = card,
           request'[r] = v => RequestOK(r)'
    PROVE  Serial'
<1>1. /\ request' = [p \in Requests |-> request'[p]]
      /\ request'[r] = v
      /\ \A by : Settled(by) => Settled(by)'
      /\ \A p \in Requests : p # r => RequestOK(p)'
  BY OneRequest
<1>2. CardOK'
  BY <1>1 DEF Serial, CardOK
<1> QED
  BY <1>1, <1>2 DEF Serial

LEMMA RefuseSerial ==
    ASSUME Serial, NEW r \in Requests, request[r].pc # "done", Refuse(r), card' = card
    PROVE  Serial'
<1>1. request'[r] = [pc |-> "refused"] => RequestOK(r)'
  BY DEF RequestOK
<1> QED
  BY <1>1, QuietRequest DEF Refuse

LEMMA ReadSerial ==
    ASSUME Serial, NEW r \in Requests, request[r].pc # "done",
           NEW p, IsPatch(p), ReadAndCheck(r, p), card' = card
    PROVE  Serial'
<1>1. CASE card.stored /\ VerificaVisibilita(card, p)
  <2> DEFINE v == [pc |-> "writing", patch |-> p, seen |-> card,
                   todo |-> DOMAIN p \cap Lists, gone |-> {}, waits |-> {}]
  <2>1. request' = [request EXCEPT ![r] = v]
    BY <1>1 DEF ReadAndCheck
  <2>2. \A by : Settled(by) => Settled(by)'
    BY <2>1, OneRequest
  <2>3. \A x \in card.rows : Settled(x.by)'
    BY <2>2 DEF Serial, CardOK
  <2>4. \A x \in card.rows : x.list \in Lists
    BY DEF Serial, CardOK, Card, ChildRow
  <2>5. ASSUME request'[r] = v PROVE WritingOK(r)'
    <3>1. card \in Card
      BY DEF Serial, CardOK
    <3>2. VerificaVisibilita(card, p)'
      BY <1>1 DEF VerificaVisibilita, Patched
    <3> QED
      BY <2>3, <2>4, <2>5, <3>1, <1>1 DEF WritingOK
  <2>6. request'[r] = v => RequestOK(r)'
    BY <2>5 DEF RequestOK
  <2> QED
    BY <2>1, <2>6, QuietRequest
<1>2. CASE ~(card.stored /\ VerificaVisibilita(card, p))
  BY <1>2, RefuseSerial DEF ReadAndCheck
<1> QED
  BY <1>1, <1>2


LEMMA DeleteRowsSerial ==
    ASSUME Serial, NEW r \in Requests, DeleteRows(r)
    PROVE  Serial'
<1> DEFINE l == NextList(r)
           W == {q \in Requests \ {r} : Writing(q) /\ request[q].gone \cap Listed(card, l) # {}}
           v == [request[r] EXCEPT !.todo = @ \ {l}, !.gone = @ \cup Listed(card, l),
                                   !.waits = W]
<1>1. WritingOK(r) /\ request[r].pc = "writing" /\ request[r].todo # {}
  BY DEF DeleteRows, Writing, Serial, RequestOK
<1>2. request' = [request EXCEPT ![r] = v] /\ card' = card
  BY DEF DeleteRows, Serial
<1>3. v = [pc |-> "writing", patch |-> request[r].patch, seen |-> request[r].seen,
           todo |-> request[r].todo \ {l}, gone |-> request[r].gone \cup Listed(card, l),
           waits |-> W]
  <2>1. request[r] \in [pc : {"writing"}, patch : {request[r].patch},
                        seen : {request[r].seen}, todo : {request[r].todo},
                        gone : {request[r].gone}, waits : {request[r].waits}]
    BY <1>1 DEF WritingOK
  <2> HIDE DEF l, W
  <2>2. v \in [pc : {"writing"}, patch : {request[r].patch}, seen : {request[r].seen},
               todo : {request[r].todo \ {l}}, gone : {request[r].gone \cup Listed(card, l)},
               waits : {W}]
    BY <2>1
  <2> HIDE DEF v
  <2> QED
    BY <2>2
<1>4. l \in request[r].todo /\ l \in Lists
  BY <1>1 DEF WritingOK, NextList, Lists
<1>5. \A x \in Listed(card, l) : x \in ChildRow /\ x.list = l
  BY DEF Listed, Serial, CardOK, Card
<1>6. \A by : Settled(by) => Settled(by)'
  BY <1>1, <1>2, OneRequest
<1>7. ASSUME request'[r] = v PROVE RequestOK(r)'
  <2> HIDE DEF l, v, W
  <2>1. VerificaVisibilita(request'[r].seen, request'[r].patch)
    BY <1>1, <1>3, <1>7 DEF WritingOK
  <2>2. \A x \in request'[r].gone : x \in ChildRow /\ x.list \in DOMAIN request'[r].patch
    BY <1>1, <1>3, <1>4, <1>5, <1>7 DEF WritingOK
  <2>3. \A x \in request'[r].seen.rows : Settled(x.by)'
    BY <1>1, <1>3, <1>6, <1>7 DEF WritingOK
  <2>4. \A x \in request'[r].seen.rows \cap card'.rows :
            x.list \in DOMAIN request'[r].patch \ request'[r].todo => x \in request'[r].gone
    BY <1>1, <1>2, <1>3, <1>7 DEF WritingOK, Listed
  <2>5. /\ request'[r] = [pc |-> "writing", patch |-> request'[r].patch,
                           seen |-> request'[r].seen, todo |-> request'[r].todo,
                           gone |-> request'[r].gone, waits |-> request'[r].waits]
        /\ IsPatch(request'[r].patch) /\ request'[r].seen \in Card
        /\ request'[r].todo \subseteq DOMAIN request'[r].patch \cap Lists
    BY <1>1, <1>3, <1>7 DEF WritingOK
  <2>6. WritingOK(r)'
    BY <2>1, <2>2, <2>3, <2>4, <2>5 DEF WritingOK, VerificaVisibilita, Patched
  <2> QED
    BY <2>5, <2>6 DEF RequestOK
<1> QED
  BY <1>1, <1>2, <1>7, QuietRequest

\* What the transaction of an edit writes is a card, with the rows it kept and its
\* own.
LEMMA CommitWritesACard ==
    ASSUME Serial, NEW r \in Requests, CommitUpdate(r), card.stored, ~OrdineTaken(r)
    PROVE  /\ card' \in Card /\ IsFiniteSet(card'.rows)
           /\ card'.rows = Kept(r) \cup Inserted(r)
           /\ card'.executions = card.executions
           /\ card'.volteEseguita = card.volteEseguita
           /\ card'.ultimaVerifica = card.ultimaVerifica
           /\ card'.stored
           /\ request' = [request EXCEPT ![r] = [pc |-> "done"]]
<1> DEFINE P == request[r].patch
           c == Patched(card, P)
<1>1. WritingOK(r) /\ card \in Card /\ IsFiniteSet(card.rows)
  BY DEF CommitUpdate, Writing, Serial, RequestOK, CardOK
<1>2. IsPatch(P) /\ request[r].seen \in Card
  BY <1>1 DEF WritingOK
<1>3. /\ Inserted(r) \subseteq ChildRow /\ IsFiniteSet(Inserted(r))
  BY <1>2, InsertedFacts
<1>4. Kept(r) \subseteq card.rows
  BY DEF Kept
<1>5. IsFiniteSet(Kept(r))
  BY <1>1, <1>4, FS_Subset
<1>6. Kept(r) \cup Inserted(r) \in SUBSET ChildRow /\ IsFiniteSet(Kept(r) \cup Inserted(r))
  <2>1. card.rows \subseteq ChildRow
    BY <1>1 DEF Card
  <2> QED
    BY <1>3, <1>4, <1>5, <2>1, FS_Union
<1>7. CostoTotale(r, card) \in Nat
  BY <1>1, <1>2 DEF CostoTotale, IsPatch, Card, Lists
<1>8. Patched(request[r].seen, P) \in Card
  BY <1>2, PatchedIsCard
<1>9. NewEmbedding(r, card) \in Texts
  BY <1>1, <1>8 DEF NewEmbedding, Card
<1>10. NewSearchText(r) \in [titolo : Texts, passi : SUBSET ChildRow]
  <2>1. "steps" \in DOMAIN P => RowsOf("steps", r, P.steps) \subseteq ChildRow
    BY <1>2, RowsOfFacts DEF IsPatch, Lists, Authors
  <2>2. Listed(request[r].seen, "steps") \subseteq ChildRow
    BY <1>2 DEF Listed, Card
  <2>3. Patched(request[r].seen, P).titolo \in Texts
    BY <1>8 DEF Card
  <2> QED
    BY <2>1, <2>2, <2>3 DEF NewSearchText, SearchText
<1>11. /\ c \in Card /\ c.executions = card.executions
       /\ c.volteEseguita = card.volteEseguita /\ c.stored = card.stored
       /\ c.ultimaVerifica = card.ultimaVerifica
  BY <1>1, <1>2, PatchedIsCard
<1>12. /\ card' = [c EXCEPT !.rows = Kept(r) \cup Inserted(r),
                            !.costoTotaleCent = CostoTotale(r, card),
                            !.searchText = NewSearchText(r),
                            !.embedding = NewEmbedding(r, card)]
       /\ request' = [request EXCEPT ![r] = [pc |-> "done"]]
  BY DEF CommitUpdate
<1> HIDE DEF c
<1> QED
  BY <1>6, <1>7, <1>9, <1>10, <1>11, <1>12 DEF Card

\* A commit of one request keeps the invariant if what it writes is a card.
LEMMA CommitSerial ==
    ASSUME Serial, NEW r \in Requests, request[r].pc # "done",
           request' = [request EXCEPT ![r] = [pc |-> "done"]],
           card' \in Card, IsFiniteSet(card'.rows), IsFiniteSet(card'.executions),
           \A x \in card'.rows : x \in card.rows \/ x.by = r,
           \A e \in card'.executions : e \in card.executions \/ e.by = r
    PROVE  Serial'
<1>1. /\ request' = [p \in Requests |-> request'[p]]
      /\ request'[r] = [pc |-> "done"]
      /\ \A by : Settled(by) => Settled(by)'
      /\ \A p \in Requests : p # r => RequestOK(p)'
  BY OneRequest
<1>2. RequestOK(r)'
  BY <1>1 DEF RequestOK
<1>3. Settled(r)'
  BY <1>1 DEF Settled
<1>4. CardOK'
  BY <1>1, <1>3 DEF CardOK, Serial
<1> QED
  BY <1>1, <1>2, <1>4 DEF Serial

LEMMA CommitUpdateSerial ==
    ASSUME Serial, NEW r \in Requests, CommitUpdate(r)
    PROVE  Serial'
<1>1. request[r].pc = "writing" /\ WritingOK(r)
  BY DEF CommitUpdate, Writing, Serial, RequestOK
<1>2. CASE card.stored /\ ~OrdineTaken(r)
  <2>1. \A x \in Kept(r) : x \in card.rows
    BY DEF Kept
  <2>2. \A x \in Inserted(r) : x.by = r
    BY <1>1, InsertedFacts DEF WritingOK
  <2>3. IsFiniteSet(card.executions)
    BY DEF Serial, CardOK
  <2> QED
    BY <1>1, <1>2, <2>1, <2>2, <2>3, CommitWritesACard, CommitSerial
<1>3. CASE ~(card.stored /\ ~OrdineTaken(r))
  BY <1>1, <1>3, RefuseSerial DEF CommitUpdate
<1> QED
  BY <1>2, <1>3


LEMMA RedactionSerial ==
    ASSUME Serial, NEW r \in Requests,
           ProposeRedaction(r) \/ ApplyRedaction(r) \/ UpdateRedacted(r)
    PROVE  Serial'
<1>1. CASE ProposeRedaction(r)
  <2>1. PICK v : v.pc = "proposed" /\ request' = [request EXCEPT ![r] = v]
    BY <1>1 DEF ProposeRedaction
  <2>2. request'[r] = v => RequestOK(r)'
    BY <2>1 DEF RequestOK
  <2> QED
    BY <1>1, <2>1, <2>2, QuietRequest DEF ProposeRedaction
<1>2. CASE ApplyRedaction(r)
  <2>1. CASE request' = [request EXCEPT ![r] = [pc |-> "redacting", patch |-> PatchDiRedazione(r)]]
    <3>1. IsPatch(PatchDiRedazione(r))
      <4>1. IsFiniteSet(Listed(card, "steps"))
        BY FS_Subset DEF Listed, Serial, CardOK
      <4>2. Cardinality(Listed(card, "steps")) \in Nat
        BY <4>1, FS_CardinalityType
      <4> QED
        BY <4>2 DEF PatchDiRedazione, IsPatch, Texts, Lists
    <3> DEFINE v == [pc |-> "redacting", patch |-> PatchDiRedazione(r)]
    <3>2. request' = [request EXCEPT ![r] = v]
      BY <2>1
    <3>3. request'[r] = v => RequestOK(r)'
      BY <3>1 DEF RequestOK
    <3> QED
      BY <1>2, <3>2, <3>3, QuietRequest DEF ApplyRedaction
  <2>2. CASE Refuse(r)
    BY <1>2, <2>2, RefuseSerial DEF ApplyRedaction
  <2> QED
    BY <1>2, <2>1, <2>2 DEF ApplyRedaction
<1>3. CASE UpdateRedacted(r)
  <2>1. IsPatch(request[r].patch)
    BY <1>3 DEF UpdateRedacted, Serial, RequestOK
  <2> QED
    BY <1>3, <2>1, ReadSerial DEF UpdateRedacted
<1> QED
  BY <1>1, <1>2, <1>3

LEMMA AddExecutionSerial ==
    ASSUME Serial, NEW r \in Requests, AddExecution(r)
    PROVE  Serial'
<1>1. PICK day \in Days, esito \in Outcomes :
        IF card.stored /\ card.status # "ARCHIVIATA"
        THEN request' = [request EXCEPT ![r] =
                [pc |-> "executing", seen |-> card, eseguitaIl |-> day, esito |-> esito]]
        ELSE Refuse(r)
  BY DEF AddExecution
<1>2. request[r].pc = "idle" /\ card' = card
  BY DEF AddExecution
<1>3. CASE card.stored /\ card.status # "ARCHIVIATA"
  <2> DEFINE v == [pc |-> "executing", seen |-> card, eseguitaIl |-> day, esito |-> esito]
  <2>1. request'[r] = v => RequestOK(r)'
    BY <1>3 DEF RequestOK, ExecutingOK, Serial, CardOK
  <2> QED
    BY <1>1, <1>2, <1>3, <2>1, QuietRequest
<1>4. CASE ~(card.stored /\ card.status # "ARCHIVIATA")
  BY <1>1, <1>2, <1>4, RefuseSerial
<1> QED
  BY <1>3, <1>4

\* The row an execution writes.
Performed(r) == [by |-> r, eseguitaIl |-> request[r].eseguitaIl, esito |-> request[r].esito]

\* What an execution writes: itself, once.
LEMMA ExecutionWrites ==
    ASSUME Serial, NEW r \in Requests, CommitExecution(r), card.stored
    PROVE  /\ card' \in Card
           /\ card'.rows = card.rows
           /\ Performed(r) \notin card.executions
           /\ card'.executions = card.executions \cup {Performed(r)}
           /\ card'.volteEseguita = card.volteEseguita + 1
           /\ card'.ultimaVerifica = NewVerifica(r, card)
           /\ card'.status = NewStatus(r, card)
           /\ card'.stored
           /\ request' = [request EXCEPT ![r] = [pc |-> "done"]]
<1> DEFINE e == Performed(r)
<1>1. ExecutingOK(r) /\ request[r].pc = "executing" /\ card \in Card
  BY DEF CommitExecution, Serial, RequestOK, CardOK
<1>2. e \in Execution
  BY <1>1 DEF ExecutingOK, Execution, Authors, Performed
<1>3. e \notin card.executions
  BY <1>1, RequestsAssumption DEF Serial, CardOK, Settled, Performed
<1>4. NewVerifica(r, card) \in Days
  BY <1>1 DEF NewVerifica, ExecutingOK, Card
<1>5. NewStatus(r, card) \in CardStatuses
  BY <1>1 DEF NewStatus, StatoDopo, ExecutingOK, Card, CardStatuses
<1>6. Counted(r, card) \in Nat /\ Counted(r, card) = card.volteEseguita + 1
  BY <1>1 DEF Counted, Card
<1>7. /\ card' = [card EXCEPT !.executions = @ \cup {e}, !.volteEseguita = Counted(r, card),
                             !.ultimaVerifica = NewVerifica(r, card),
                             !.status = NewStatus(r, card)]
      /\ request' = [request EXCEPT ![r] = [pc |-> "done"]]
  BY DEF CommitExecution, Performed
<1> HIDE DEF e
<1>8. card' \in Card
  BY <1>1, <1>2, <1>4, <1>5, <1>6, <1>7 DEF Card
<1>9. /\ card'.rows = card.rows
      /\ card'.executions = card.executions \cup {e}
      /\ card'.volteEseguita = card.volteEseguita + 1
      /\ card'.ultimaVerifica = NewVerifica(r, card)
      /\ card'.status = NewStatus(r, card)
      /\ card'.stored
  BY <1>1, <1>6, <1>7 DEF Card
<1> QED
  BY <1>3, <1>7, <1>8, <1>9 DEF e

LEMMA CommitExecutionSerial ==
    ASSUME Serial, NEW r \in Requests, CommitExecution(r)
    PROVE  Serial'
<1>1. request[r].pc = "executing"
  BY DEF CommitExecution
<1>2. CASE card.stored
  <2>1. IsFiniteSet(card.rows) /\ IsFiniteSet(card.executions)
    BY DEF Serial, CardOK
  <2>2. IsFiniteSet(card'.executions)
    BY <1>2, <2>1, ExecutionWrites, FS_AddElement
  <2>3. Performed(r).by = r
    BY DEF Performed
  <2> QED
    BY <1>1, <1>2, <2>1, <2>2, <2>3, ExecutionWrites, CommitSerial
<1>3. CASE ~card.stored
  BY <1>1, <1>3, RefuseSerial DEF CommitExecution
<1> QED
  BY <1>2, <1>3

\* Archiving and deleting change the card and no request.
LEMMA TrashSerial ==
    ASSUME Serial, Archive \/ DeleteForever
    PROVE  Serial'
<1>1. /\ request' = request /\ card' \in Card
      /\ card'.rows \subseteq card.rows /\ card'.executions \subseteq card.executions
  BY DEF Archive, DeleteForever, Serial, CardOK, Card, CardStatuses
<1>2. \A by : Settled(by)' = Settled(by)
  BY <1>1 DEF Settled
<1>3. CardOK'
  BY <1>1, <1>2, FS_Subset DEF Serial, CardOK
<1>4. ASSUME NEW r \in Requests PROVE RequestOK(r)'
  <2>1. WritingOK(r) => WritingOK(r)'
    BY <1>1, <1>2 DEF WritingOK
  <2>2. ExecutingOK(r) => ExecutingOK(r)'
    BY <1>1 DEF ExecutingOK
  <2> QED
    BY <1>1, <2>1, <2>2 DEF RequestOK, Serial
<1> QED
  BY <1>1, <1>3, <1>4 DEF Serial

\* The recording itself is the first execution of the card.
LEMMA BornExecuted ==
    ASSUME CardsInit
    PROVE  \E day \in Days :
                /\ card.volteEseguita = 1 /\ card.ultimaVerifica = day
                /\ card.executions =
                        {[by |-> Ingestion, eseguitaIl |-> day, esito |-> "FUNZIONATO"]}
<1>1. PICK status \in {"COMPLETA", "DA_RIVEDERE"}, scope \in Scopes,
           sensitive \in BOOLEAN, day \in Days :
        card = Born(status, scope, sensitive, day)
  BY DEF CardsInit
<1>2. /\ card.volteEseguita = 1 /\ card.ultimaVerifica = day
      /\ card.executions = {[by |-> Ingestion, eseguitaIl |-> day, esito |-> "FUNZIONATO"]}
  BY <1>1 DEF Born
<1> QED
  BY <1>2

LEMMA InitSerial == CardsInit => Serial
<1> SUFFICES ASSUME CardsInit PROVE Serial
  OBVIOUS
<1>1. PICK status \in {"COMPLETA", "DA_RIVEDERE"}, scope \in Scopes,
           sensitive \in BOOLEAN, day \in Days :
        card = Born(status, scope, sensitive, day)
  BY DEF CardsInit
<1> DEFINE S == RowsOf("steps", Ingestion, 1)
           C == RowsOf("costs", Ingestion, 1)
           e == [by |-> Ingestion, eseguitaIl |-> day, esito |-> "FUNZIONATO"]
<1>2. S \subseteq ChildRow /\ C \subseteq ChildRow /\ IsFiniteSet(S) /\ IsFiniteSet(C)
  BY RowsOfFacts DEF Lists, Authors
<1>3. e \in Execution
  BY DEF Execution, Authors, Outcomes
<1>4. \A x \in S \cup C : x.by = Ingestion
  BY DEF RowsOf
<1>5. IsFiniteSet(S \cup C) /\ IsFiniteSet({e})
  BY <1>2, FS_Union, FS_Singleton
<1> HIDE DEF S, C, e
<1>6. card = [stored |-> TRUE, titolo |-> "originale",
              scope |-> scope, visibility |-> "PRIVATA", status |-> status,
              contieneDatiSensibili |-> sensitive, rows |-> S \cup C,
              costoTotaleCent |-> 1,
              searchText |-> [titolo |-> "originale", passi |-> S],
              embedding |-> "originale", executions |-> {e},
              volteEseguita |-> 1, ultimaVerifica |-> day]
  BY <1>1 DEF Born, SearchText, S, C, e
<1>7. card \in Card
  BY <1>2, <1>3, <1>6 DEF Card, Texts, Visibilities, CardStatuses
<1>8. e.by = Ingestion
  BY DEF e
<1>9. CardOK
  BY <1>4, <1>5, <1>6, <1>7, <1>8 DEF CardOK, Settled
<1>10. request = [r \in Requests |-> request[r]] /\ \A r \in Requests : request[r].pc = "idle"
  BY DEF CardsInit, NoRequest
<1> QED
  BY <1>9, <1>10 DEF Serial, RequestOK

LEMMA NextSerial == Serial /\ [CardsNext]_cardsVars => Serial'
<1> SUFFICES ASSUME Serial, [CardsNext]_cardsVars PROVE Serial'
  OBVIOUS
<1>1. ASSUME NEW r \in Requests, Update(r) PROVE Serial'
  BY <1>1, ReadSerial, PatchesAssumption DEF Update
<1>2. ASSUME NEW r \in Requests, Fail(r) PROVE Serial'
  BY <1>2, RefuseSerial DEF Fail
<1>3. CASE UNCHANGED cardsVars
  BY <1>3 DEF cardsVars, Serial, CardOK, Settled, RequestOK, WritingOK, ExecutingOK
<1> QED
  BY <1>1, <1>2, <1>3, DeleteRowsSerial, CommitUpdateSerial, RedactionSerial,
     AddExecutionSerial, CommitExecutionSerial, TrashSerial DEF CardsNext

LEMMA SerialAlways == CardsSpec => []Serial
BY InitSerial, NextSerial, PTL DEF CardsSpec

------------------------------------------------------------------------------
(* Theorems. *)

\* The card and what each request has read keep their types, for any requests,
\* patches and days.
THEOREM CardsTypeCorrectness == CardsSpec => []CardsTypeOK
<1>1. Serial => CardsTypeOK
  BY DEF Serial, CardOK, RequestOK, WritingOK, CardsTypeOK, Writing
<1> QED
  BY <1>1, SerialAlways, PTL

\* However many devices record an execution at once, none is lost: addExecution
\* increments in SQL and writes the execution in the same transaction.
THEOREM EveryExecutionCounts == CardsSpec => []CountsItsExecutions
<1>1. CardsInit => CountsItsExecutions
  <2> SUFFICES ASSUME CardsInit PROVE card.volteEseguita = Cardinality(card.executions)
    BY DEF CountsItsExecutions
  <2>1. PICK day \in Days :
            /\ card.volteEseguita = 1
            /\ card.executions =
                    {[by |-> Ingestion, eseguitaIl |-> day, esito |-> "FUNZIONATO"]}
    BY BornExecuted
  <2> QED
    BY <2>1, FS_Singleton
<1>2. Serial /\ CountsItsExecutions /\ [CardsNext]_cardsVars => CountsItsExecutions'
  <2> SUFFICES ASSUME Serial, CountsItsExecutions, [CardsNext]_cardsVars, card'.stored
               PROVE  card'.volteEseguita = Cardinality(card'.executions)
    BY DEF CountsItsExecutions
  <2>1. card \in Card /\ IsFiniteSet(card.executions)
    BY DEF Serial, CardOK
  <2>2. ASSUME NEW r \in Requests, CommitExecution(r), card.stored
        PROVE  card'.volteEseguita = Cardinality(card'.executions)
    <3>1. Cardinality(card'.executions) = Cardinality(card.executions) + 1
      BY <2>1, <2>2, ExecutionWrites, FS_AddElement
    <3> QED
      BY <2>2, <3>1, ExecutionWrites DEF CountsItsExecutions
  <2>3. ASSUME NEW r \in Requests, CommitUpdate(r), card.stored, ~OrdineTaken(r)
        PROVE  card'.volteEseguita = Cardinality(card'.executions)
    BY <2>3, CommitWritesACard DEF CountsItsExecutions
  <2>4. CASE Archive
    BY <2>1, <2>4 DEF Archive, Card, CountsItsExecutions
  <2>5. CASE DeleteForever
    BY <2>1, <2>5 DEF DeleteForever, Card
  <2>6. CASE card' = card
    BY <2>6 DEF CountsItsExecutions
  <2> QED
    BY <2>2, <2>3, <2>4, <2>5, <2>6 DEF CardsNext, cardsVars, Update, DeleteRows,
       CommitUpdate, ProposeRedaction, ApplyRedaction, UpdateRedacted, AddExecution,
       CommitExecution, Fail
<1> QED
  BY <1>1, <1>2, SerialAlways, PTL DEF CardsSpec

\* A card is fresh because of an execution that worked on that day.
THEOREM FreshnessHasAReason == CardsSpec => []VerifiedByAnExecution
<1>1. CardsInit => VerifiedByAnExecution
  <2> SUFFICES ASSUME CardsInit PROVE VerifiedByAnExecution
    OBVIOUS
  <2>1. PICK day \in Days :
            /\ card.ultimaVerifica = day
            /\ card.executions =
                    {[by |-> Ingestion, eseguitaIl |-> day, esito |-> "FUNZIONATO"]}
    BY BornExecuted
  <2> QED
    BY <2>1 DEF VerifiedByAnExecution
<1>2. Serial /\ VerifiedByAnExecution /\ [CardsNext]_cardsVars => VerifiedByAnExecution'
  <2> SUFFICES ASSUME Serial, VerifiedByAnExecution, [CardsNext]_cardsVars, card'.stored
               PROVE  \E e \in card'.executions :
                        e.esito = "FUNZIONATO" /\ e.eseguitaIl = card'.ultimaVerifica
    BY DEF VerifiedByAnExecution
  <2>1. card \in Card
    BY DEF Serial, CardOK
  <2>2. ASSUME NEW r \in Requests, CommitExecution(r), card.stored
        PROVE  VerifiedByAnExecution'
    <3>1. /\ card'.executions = card.executions \cup {Performed(r)}
          /\ card'.ultimaVerifica = NewVerifica(r, card)
      BY <2>2, ExecutionWrites
    <3>2. CASE Verifies(r)
      <4>1. /\ Performed(r).esito = "FUNZIONATO"
            /\ Performed(r).eseguitaIl = card'.ultimaVerifica
        BY <3>1, <3>2 DEF NewVerifica, Verifies, Performed
      <4> QED
        BY <3>1, <4>1 DEF VerifiedByAnExecution
    <3>3. CASE ~Verifies(r)
      BY <2>2, <3>1, <3>3 DEF VerifiedByAnExecution, NewVerifica
    <3> QED
      BY <3>2, <3>3
  <2>3. ASSUME NEW r \in Requests, CommitUpdate(r), card.stored, ~OrdineTaken(r)
        PROVE  VerifiedByAnExecution'
    BY <2>3, CommitWritesACard DEF VerifiedByAnExecution
  <2>4. CASE Archive
    BY <2>1, <2>4 DEF Archive, Card, VerifiedByAnExecution
  <2>5. CASE DeleteForever
    BY <2>1, <2>5 DEF DeleteForever, Card
  <2>6. CASE card' = card
    BY <2>6 DEF VerifiedByAnExecution
  <2> QED
    BY <2>2, <2>3, <2>4, <2>5, <2>6 DEF CardsNext, cardsVars, Update, DeleteRows,
       CommitUpdate, ProposeRedaction, ApplyRedaction, UpdateRedacted, AddExecution,
       CommitExecution, Fail, VerifiedByAnExecution
<1> QED
  BY <1>1, <1>2, SerialAlways, PTL DEF CardsSpec

\* A request is done by committing its edit or its execution, and by nothing else.
LEMMA DoneByCommit ==
    ASSUME Serial, [CardsNext]_cardsVars, NEW r \in Requests, Committed(r)
    PROVE  \/ CommitUpdate(r) /\ card.stored /\ ~OrdineTaken(r)
           \/ CommitExecution(r) /\ card.stored
<1>1. request[r].pc # "done" /\ request'[r].pc = "done"
  BY DEF Committed
<1>2. ASSUME NEW p \in Requests, NEW v, request' = [request EXCEPT ![p] = v]
      PROVE  p = r /\ v.pc = "done"
  BY <1>1, <1>2 DEF Serial
<1>3. ASSUME NEW p \in Requests, Refuse(p) PROVE FALSE
  <2> DEFINE v == [pc |-> "refused"]
  <2>1. v.pc = "refused" /\ request' = [request EXCEPT ![p] = v]
    BY <1>3 DEF Refuse
  <2> HIDE DEF v
  <2> QED
    BY <1>2, <2>1
<1>4. ASSUME NEW p \in Requests, NEW patch, ReadAndCheck(p, patch) PROVE FALSE
  <2> DEFINE v == [pc |-> "writing", patch |-> patch, seen |-> card,
                   todo |-> DOMAIN patch \cap Lists, gone |-> {}, waits |-> {}]
  <2>1. v.pc = "writing" /\ (request' = [request EXCEPT ![p] = v] \/ Refuse(p))
    BY <1>4 DEF ReadAndCheck
  <2> HIDE DEF v
  <2> QED
    BY <1>2, <1>3, <2>1
<1>5. ASSUME NEW p \in Requests, DeleteRows(p) PROVE FALSE
  <2>1. /\ request[p].pc = "writing"
        /\ \A q \in Requests : request'[q].pc = request[q].pc
    <3>1. request[p].pc = "writing" /\ WritingOK(p)
      BY <1>5 DEF DeleteRows, Writing, Serial, RequestOK
    <3> DEFINE v == [request[p] EXCEPT
                        !.todo = @ \ {NextList(p)},
                        !.gone = @ \cup Listed(card, NextList(p)),
                        !.waits = {q \in Requests \ {p} : Writing(q) /\
                            request[q].gone \cap Listed(card, NextList(p)) # {}}]
    <3>2. request' = [request EXCEPT ![p] = v]
      BY <1>5 DEF DeleteRows, Serial
    <3>3. v.pc = "writing"
      BY <3>1
    <3> HIDE DEF v
    <3> QED
      BY <3>1, <3>2, <3>3 DEF Serial
  <2> QED
    BY <1>1, <2>1
<1>6. ASSUME NEW p \in Requests,
             ProposeRedaction(p) \/ ApplyRedaction(p) \/ UpdateRedacted(p)
      PROVE  FALSE
  <2>1. CASE ProposeRedaction(p)
    <3> DEFINE v == [pc |-> "proposed", campo |-> "titolo", testo |-> card.titolo]
               w == [pc |-> "proposed", campo |-> "steps", testo |-> Listed(card, "steps")]
    <3>1. \/ request' = [request EXCEPT ![p] = v]
          \/ request' = [request EXCEPT ![p] = w]
      BY <2>1 DEF ProposeRedaction
    <3>2. v.pc = "proposed" /\ w.pc = "proposed"
      OBVIOUS
    <3> HIDE DEF v, w
    <3> QED
      BY <1>2, <3>1, <3>2
  <2>2. CASE ApplyRedaction(p)
    <3> DEFINE v == [pc |-> "redacting", patch |-> PatchDiRedazione(p)]
    <3>1. v.pc = "redacting" /\ (request' = [request EXCEPT ![p] = v] \/ Refuse(p))
      BY <2>2 DEF ApplyRedaction
    <3> HIDE DEF v
    <3> QED
      BY <1>2, <1>3, <3>1
  <2>3. CASE UpdateRedacted(p)
    BY <1>4, <2>3 DEF UpdateRedacted
  <2> QED
    BY <1>6, <2>1, <2>2, <2>3
<1>7. ASSUME NEW p \in Requests, AddExecution(p) PROVE FALSE
  <2>1. PICK day \in Days, esito \in Outcomes :
            \/ request' = [request EXCEPT ![p] =
                  [pc |-> "executing", seen |-> card, eseguitaIl |-> day, esito |-> esito]]
            \/ Refuse(p)
    BY <1>7 DEF AddExecution
  <2> DEFINE v == [pc |-> "executing", seen |-> card, eseguitaIl |-> day, esito |-> esito]
  <2>2. v.pc = "executing" /\ (request' = [request EXCEPT ![p] = v] \/ Refuse(p))
    BY <2>1
  <2> HIDE DEF v
  <2> QED
    BY <1>2, <1>3, <2>2
<1>8. ASSUME NEW p \in Requests, Update(p) \/ Fail(p) PROVE FALSE
  BY <1>3, <1>4, <1>8 DEF Update, Fail
<1>9. request' # request
  BY <1>1
<1>10. ASSUME NEW p \in Requests, CommitUpdate(p)
       PROVE  p = r /\ card.stored /\ ~OrdineTaken(p)
  BY <1>2, <1>3, <1>10 DEF CommitUpdate
<1>11. ASSUME NEW p \in Requests, CommitExecution(p) PROVE p = r /\ card.stored
  BY <1>2, <1>3, <1>11 DEF CommitExecution
<1> QED
  BY <1>5, <1>6, <1>7, <1>8, <1>9, <1>10, <1>11
     DEF CardsNext, cardsVars, Archive, DeleteForever

\* The rows of a list after an edit nobody overlapped: the ones of the patch if it
\* has that list, the ones there were otherwise.
LEMMA LoneLists ==
    ASSUME Serial, NEW r \in Requests, CommitUpdate(r), card.stored, ~OrdineTaken(r),
           Alone(r), NEW l \in Lists
    PROVE  Listed(card', l) = IF l \in DOMAIN request[r].patch
                              THEN RowsOf(l, r, request[r].patch[l])
                              ELSE Listed(card, l)
<1>1. WritingOK(r) /\ request[r].todo = {} /\ request[r].seen = card
  BY DEF CommitUpdate, Writing, Serial, RequestOK, Alone
<1>2. card'.rows = Kept(r) \cup Inserted(r)
  BY CommitWritesACard
<1>3. /\ \A x \in Inserted(r) : x.list \in DOMAIN request[r].patch
      /\ l \in DOMAIN request[r].patch =>
            {x \in Inserted(r) : x.list = l} = RowsOf(l, r, request[r].patch[l])
  BY <1>1, InsertedFacts DEF WritingOK
<1>4. CASE l \in DOMAIN request[r].patch
  <2>1. \A x \in Kept(r) : x.list # l
    BY <1>1, <1>4 DEF Kept, WritingOK
  <2> QED
    BY <1>2, <1>3, <1>4, <2>1 DEF Listed
<1>5. CASE l \notin DOMAIN request[r].patch
  <2>1. \A x \in card.rows : x.list = l => x \in Kept(r)
    BY <1>1, <1>5 DEF Kept, WritingOK
  <2>2. Kept(r) \subseteq card.rows
    BY DEF Kept
  <2> QED
    BY <1>2, <1>3, <1>5, <2>1, <2>2 DEF Listed
<1> QED
  BY <1>4, <1>5

LEMMA RowsOfCount ==
    ASSUME NEW l \in Lists, NEW by \in Authors, NEW n \in Nat
    PROVE  Cardinality(RowsOf(l, by, n)) = n
<1> DEFINE f == [i \in 1..n |-> [list |-> l, by |-> by, ordine |-> i]]
<1>1. f \in Bijection(1..n, RowsOf(l, by, n))
  BY DEF Bijection, Injection, Surjection, IsInjective, RowsOf
<1>2. IsFiniteSet(1..n) /\ Cardinality(1..n) = n
  BY FS_Interval
<1> QED
  BY <1>1, <1>2, FS_Bijection DEF ExistsBijection

\* An edit nobody overlapped leaves the derived fields true, whatever they were
\* before: aggiorna computes them from the row and the patch together, and its
\* transaction replaces each list whole.
THEOREM LoneEditsHeal == CardsSpec => LoneEditHeals
<1>1. ASSUME Serial, [CardsNext]_cardsVars, NEW r \in Requests,
             Writing(r), Committed(r), Alone(r)
      PROVE  /\ card'.searchText = SearchText(card'.titolo, Listed(card', "steps"))
             /\ card'.visibility = "PUBBLICA" =>
                    card'.scope # "CLIENTE" /\ ~card'.contieneDatiSensibili
             /\ "costs" \in DOMAIN request[r].patch =>
                    card'.costoTotaleCent = Cardinality(Listed(card', "costs"))
             /\ card.embedding = card.titolo => card'.embedding = card'.titolo
  <2> DEFINE P == request[r].patch
             c == Patched(card, P)
  <2>1. CommitUpdate(r) /\ card.stored /\ ~OrdineTaken(r)
    BY <1>1, DoneByCommit DEF CommitExecution, Writing
  <2>2. WritingOK(r) /\ request[r].seen = card /\ card \in Card
    BY <1>1 DEF Writing, Serial, RequestOK, Alone, CardOK
  <2>3. IsPatch(P) /\ VerificaVisibilita(card, P)
    BY <2>2 DEF WritingOK
  <2>4. card' = [c EXCEPT !.rows = Kept(r) \cup Inserted(r),
                          !.costoTotaleCent = CostoTotale(r, card),
                          !.searchText = NewSearchText(r),
                          !.embedding = NewEmbedding(r, card)]
    BY <2>1 DEF CommitUpdate
  <2>5. c \in Card
    BY <2>2, <2>3, PatchedIsCard
  <2>6. /\ card'.titolo = c.titolo /\ card'.visibility = c.visibility
        /\ card'.scope = c.scope /\ card'.contieneDatiSensibili = c.contieneDatiSensibili
        /\ card'.costoTotaleCent = CostoTotale(r, card)
        /\ card'.searchText = NewSearchText(r) /\ card'.embedding = NewEmbedding(r, card)
    <3> HIDE DEF c
    <3> QED
      BY <2>4, <2>5 DEF Card
  <2>7. card'.searchText = SearchText(card'.titolo, Listed(card', "steps"))
    <3>1. Listed(card', "steps") = IF "steps" \in DOMAIN P THEN RowsOf("steps", r, P["steps"])
                                   ELSE Listed(card, "steps")
      BY <1>1, <2>1, LoneLists DEF Lists
    <3> QED
      BY <2>2, <2>6, <3>1 DEF NewSearchText
  <2>8. card'.visibility = "PUBBLICA" =>
            card'.scope # "CLIENTE" /\ ~card'.contieneDatiSensibili
    BY <2>3, <2>6 DEF VerificaVisibilita
  <2>9. ASSUME "costs" \in DOMAIN P
        PROVE  card'.costoTotaleCent = Cardinality(Listed(card', "costs"))
    <3>1. Listed(card', "costs") = RowsOf("costs", r, P["costs"])
      BY <1>1, <2>1, <2>9, LoneLists DEF Lists
    <3>2. P["costs"] \in Nat
      BY <2>3, <2>9 DEF IsPatch, Lists
    <3>3. Cardinality(Listed(card', "costs")) = P["costs"]
      BY <3>1, <3>2, RowsOfCount DEF Lists, Authors
    <3> QED
      BY <2>6, <2>9, <3>3 DEF CostoTotale
  <2>10. card.embedding = card.titolo => card'.embedding = card'.titolo
    BY <2>2, <2>6 DEF NewEmbedding
  <2> QED
    BY <2>7, <2>8, <2>9, <2>10
<1>2. Serial /\ [CardsNext]_cardsVars =>
        [\A r \in Requests :
            Writing(r) /\ Committed(r) /\ Alone(r) =>
            /\ card'.searchText = SearchText(card'.titolo, Listed(card', "steps"))
            /\ card'.visibility = "PUBBLICA" =>
                    card'.scope # "CLIENTE" /\ ~card'.contieneDatiSensibili
            /\ "costs" \in DOMAIN request[r].patch =>
                    card'.costoTotaleCent = Cardinality(Listed(card', "costs"))
            /\ card.embedding = card.titolo => card'.embedding = card'.titolo]_cardsVars
  BY <1>1
<1> QED
  BY <1>2, SerialAlways, PTL DEF CardsSpec, LoneEditHeals

\* An execution nobody overlapped never ages the card nor takes it out of the trash:
\* addExecution looks at what it read before it decides what to write.
THEOREM LoneExecutionsKeepFreshness == CardsSpec => LoneExecutionKeepsFreshness
<1>1. ASSUME Serial, [CardsNext]_cardsVars, NEW r \in Requests,
             request[r].pc = "executing", Committed(r), Alone(r)
      PROVE  /\ card'.ultimaVerifica >= card.ultimaVerifica
             /\ card'.status # card.status => card.status # "ARCHIVIATA"
  <2>1. CommitExecution(r) /\ card.stored
    BY <1>1, DoneByCommit DEF CommitUpdate, Writing
  <2>2. ExecutingOK(r) /\ request[r].seen = card /\ card \in Card
    BY <1>1 DEF Serial, RequestOK, Alone, CardOK
  <2>3. card'.ultimaVerifica = NewVerifica(r, card)
    BY <1>1, <2>1, ExecutionWrites
  <2>4. card.ultimaVerifica \in Nat /\ request[r].eseguitaIl \in Nat
    BY <2>2, DaysAssumption DEF ExecutingOK, Card
  <2>5. card'.ultimaVerifica >= card.ultimaVerifica
    BY <2>2, <2>3, <2>4 DEF NewVerifica, Verifies
  <2>6. card.status # "ARCHIVIATA"
    BY <2>2 DEF ExecutingOK
  <2> QED
    BY <2>5, <2>6
<1>2. Serial /\ [CardsNext]_cardsVars =>
        [\A r \in Requests :
            request[r].pc = "executing" /\ Committed(r) /\ Alone(r) =>
            /\ card'.ultimaVerifica >= card.ultimaVerifica
            /\ card'.status # card.status => card.status # "ARCHIVIATA"]_cardsVars
  BY <1>1
<1> QED
  BY <1>2, SerialAlways, PTL DEF CardsSpec, LoneExecutionKeepsFreshness

------------------------------------------------------------------------------
(* The steps of one hand. *)

\* Lists that are deleted and written one request at a time mix in no order of
\* the statements: what a DELETE took is either all the steps there are now, or
\* none of them, as a whole list came in between.
Passi == Listed(card, "steps")
TakenWhole(r) ==
    /\ \A x \in request[r].gone : Settled(x.by)
    /\ Passi \cap request[r].gone = {} \/ Passi \subseteq request[r].gone
OneHand ==
    /\ Passi = {} \/ \E by \in Authors, n \in Nat : Passi = RowsOf("steps", by, n)
    /\ \A r \in Requests : Writing(r) => TakenWhole(r)

\* A step that leaves the steps there are, or none, and starts no DELETE.
LEMMA SameHand ==
    ASSUME OneHand, Passi' = Passi \/ Passi' = {},
           \A by : Settled(by) => Settled(by)',
           \A r \in Requests : Writing(r)' =>
                request'[r].gone = {} \/ (Writing(r) /\ request'[r].gone = request[r].gone)
    PROVE  OneHand'
<1>1. ASSUME NEW r \in Requests, Writing(r)' PROVE TakenWhole(r)'
  <2>1. CASE request'[r].gone = {}
    BY <2>1 DEF TakenWhole
  <2>2. CASE Writing(r) /\ request'[r].gone = request[r].gone
    <3>1. TakenWhole(r)
      BY <2>2 DEF OneHand
    <3> QED
      BY <2>2, <3>1 DEF TakenWhole
  <2> QED
    BY <1>1, <2>1, <2>2
<1>2. Passi' = {} \/ \E by \in Authors, n \in Nat : Passi' = RowsOf("steps", by, n)
  BY DEF OneHand
<1> QED
  BY <1>1, <1>2 DEF OneHand

\* One request moves on, and holds no rows after its move.
LEMMA RequestSameHand ==
    ASSUME Serial, OneHand, NEW r \in Requests, request[r].pc # "done",
           NEW v, request' = [request EXCEPT ![r] = v],
           v.pc = "writing" => v.gone = {},
           card'.rows = card.rows
    PROVE  OneHand'
<1>1. /\ request'[r] = v
      /\ \A p \in Requests : p # r => request'[p] = request[p]
      /\ \A by : Settled(by) => Settled(by)'
  BY OneRequest DEF Serial
<1>2. Passi' = Passi
  BY DEF Passi, Listed
<1>3. ASSUME NEW p \in Requests, Writing(p)'
      PROVE  request'[p].gone = {} \/ (Writing(p) /\ request'[p].gone = request[p].gone)
  BY <1>1, <1>3 DEF Writing
<1> QED
  BY <1>1, <1>2, <1>3, SameHand

LEMMA ReadSameHand ==
    ASSUME Serial, OneHand, NEW r \in Requests, request[r].pc # "done",
           NEW patch, ReadAndCheck(r, patch) \/ Refuse(r), card' = card
    PROVE  OneHand'
<1> DEFINE v == [pc |-> "writing", patch |-> patch, seen |-> card,
                 todo |-> DOMAIN patch \cap Lists, gone |-> {}, waits |-> {}]
           z == [pc |-> "refused"]
<1>1. request' = [request EXCEPT ![r] = v] \/ request' = [request EXCEPT ![r] = z]
  BY DEF ReadAndCheck, Refuse
<1>2. v.gone = {} /\ z.pc # "writing"
  OBVIOUS
<1> HIDE DEF v, z
<1> QED
  BY <1>1, <1>2, RequestSameHand

\* The DELETE of the steps takes all that are committed, the one of the costs none.
LEMMA DeleteRowsHand ==
    ASSUME Serial, OneHand, NEW r \in Requests, DeleteRows(r)
    PROVE  OneHand'
<1> DEFINE l == NextList(r)
           W == {q \in Requests \ {r} : Writing(q) /\ request[q].gone \cap Listed(card, l) # {}}
           v == [request[r] EXCEPT !.todo = @ \ {l}, !.gone = @ \cup Listed(card, l),
                                   !.waits = W]
<1>1. WritingOK(r) /\ TakenWhole(r) /\ request[r].pc = "writing"
  BY DEF DeleteRows, Writing, Serial, RequestOK, OneHand
<1>2. request' = [request EXCEPT ![r] = v] /\ card' = card
  BY DEF DeleteRows, Serial
<1>3. v.gone = request[r].gone \cup Listed(card, l)
  BY <1>1 DEF WritingOK
<1>4. \A by : Settled(by) => Settled(by)'
  BY <1>1, <1>2, OneRequest
<1>5. \A x \in Listed(card, l) : Settled(x.by)
  BY DEF Listed, Serial, CardOK
<1>6. l = "steps" \/ Passi \cap Listed(card, l) = {}
  BY DEF NextList, Passi, Listed
<1> HIDE DEF l, v, W
<1>7. request'[r].gone = request[r].gone \cup Listed(card, l)
  BY <1>2, <1>3 DEF Serial
<1>8. Passi' = Passi
  BY <1>2 DEF Passi, Listed
<1>9. TakenWhole(r)'
  <2>1. \A x \in request'[r].gone : Settled(x.by)'
    BY <1>1, <1>4, <1>5, <1>7 DEF TakenWhole
  <2>2. Passi \cap request'[r].gone = {} \/ Passi \subseteq request'[r].gone
    BY <1>1, <1>6, <1>7 DEF TakenWhole, Passi
  <2> QED
    BY <1>8, <2>1, <2>2 DEF TakenWhole
<1>10. ASSUME NEW p \in Requests, p # r, Writing(p)' PROVE TakenWhole(p)'
  <2>1. request'[p] = request[p] /\ Writing(p)
    BY <1>2, <1>10 DEF Serial, Writing
  <2>2. TakenWhole(p)
    BY <2>1 DEF OneHand
  <2> QED
    BY <1>4, <1>8, <2>1, <2>2 DEF TakenWhole
<1> QED
  BY <1>8, <1>9, <1>10 DEF OneHand

\* A transaction that inserts steps either took the ones there are, or finds them
\* in its way: each of the two lists has a number 1.
LEMMA CommitUpdateHand ==
    ASSUME Serial, OneHand, NEW r \in Requests, CommitUpdate(r)
    PROVE  OneHand'
<1>1. request[r].pc = "writing" /\ WritingOK(r) /\ TakenWhole(r)
  BY DEF CommitUpdate, Writing, Serial, RequestOK, OneHand
<1>2. CASE card.stored /\ ~OrdineTaken(r)
  <2> DEFINE P == request[r].patch
             D == "steps" \in DOMAIN P
             I == {x \in Inserted(r) : x.list = "steps"}
             K == {x \in Kept(r) : x.list = "steps"}
  <2>1. /\ card'.rows = Kept(r) \cup Inserted(r)
        /\ request' = [request EXCEPT ![r] = [pc |-> "done"]]
    BY <1>2, CommitWritesACard
  <2>2. Passi' = K \cup I
    BY <2>1 DEF Passi, Listed
  <2>3. K = Passi \ request[r].gone
    BY DEF Passi, Listed, Kept
  <2>4. K = {} \/ K = Passi
    BY <1>1, <2>3 DEF TakenWhole
  <2>5. \A x \in Inserted(r) : x.by = r /\ x.list \in DOMAIN P
    BY <1>1, InsertedFacts DEF WritingOK
  <2>6. I = {} \/ (D /\ P["steps"] \in Nat /\ I = RowsOf("steps", r, P["steps"]))
    <3>1. CASE D
      BY <1>1, <3>1, InsertedFacts DEF WritingOK, IsPatch, Lists
    <3>2. CASE ~D
      BY <2>5, <3>2
    <3> QED
      BY <3>1, <3>2
  <2>7. K = {} \/ I = {}
    <3> SUFFICES ASSUME K # {}, I # {} PROVE FALSE
      OBVIOUS
    <3>1. PICK by \in Authors, n \in Nat : K = RowsOf("steps", by, n)
      BY <2>4 DEF OneHand
    <3>2. [list |-> "steps", by |-> by, ordine |-> 1] \in K
      BY <3>1 DEF RowsOf
    <3>3. [list |-> "steps", by |-> r, ordine |-> 1] \in I
      BY <2>6 DEF RowsOf
    <3>4. OrdineTaken(r)
      BY <3>2, <3>3 DEF OrdineTaken
    <3> QED
      BY <1>2, <3>4
  <2> HIDE DEF K, I
  <2>8. Passi' = {} \/ \E by \in Authors, n \in Nat : Passi' = RowsOf("steps", by, n)
    BY <2>2, <2>4, <2>6, <2>7 DEF OneHand, Authors
  <2>9. /\ request'[r].pc = "done"
        /\ \A p \in Requests : p # r => request'[p] = request[p]
    BY <2>1 DEF Serial
  <2>10. \A by : Settled(by) => Settled(by)'
    BY <2>9 DEF Settled
  <2>11. ASSUME NEW p \in Requests, Writing(p)' PROVE TakenWhole(p)'
    <3>1. p # r /\ request'[p] = request[p] /\ Writing(p)
      BY <2>9, <2>11 DEF Writing
    <3>2. TakenWhole(p)
      BY <3>1 DEF OneHand
    <3>3. I \cap request[p].gone = {}
      <4>1. ~Settled(r)
        BY <1>1, RequestsAssumption DEF Settled
      <4> QED
        BY <2>5, <3>2, <4>1 DEF TakenWhole, I
    <3>4. Passi' \cap request[p].gone = {} \/ Passi' \subseteq request[p].gone
      BY <2>2, <2>4, <2>7, <3>2, <3>3 DEF TakenWhole
    <3> QED
      BY <2>10, <3>1, <3>2, <3>4 DEF TakenWhole
  <2> QED
    BY <2>8, <2>11 DEF OneHand
<1>3. CASE ~(card.stored /\ ~OrdineTaken(r))
  BY <1>1, <1>3, ReadSameHand DEF CommitUpdate
<1> QED
  BY <1>2, <1>3

\* The steps of a card are those of one request, however many replace them at once:
\* the unique number of a step refuses the transaction that would mix them.
THEOREM OneHandWrites == CardsSpec => []StepsOfOneHand
<1>1. CardsInit => OneHand
  <2> SUFFICES ASSUME CardsInit PROVE OneHand
    OBVIOUS
  <2>1. PICK status \in {"COMPLETA", "DA_RIVEDERE"}, scope \in Scopes,
             sensitive \in BOOLEAN, day \in Days :
          card = Born(status, scope, sensitive, day)
    BY DEF CardsInit
  <2>2. Passi = RowsOf("steps", Ingestion, 1)
    <3>1. card.rows = RowsOf("steps", Ingestion, 1) \cup RowsOf("costs", Ingestion, 1)
      BY <2>1 DEF Born
    <3> QED
      BY <3>1 DEF Passi, Listed, RowsOf
  <2>3. \A r \in Requests : ~Writing(r)
    BY DEF CardsInit, NoRequest, Writing
  <2> QED
    BY <2>2, <2>3 DEF OneHand, Authors
<1>2. Serial /\ OneHand /\ [CardsNext]_cardsVars => OneHand'
  <2> SUFFICES ASSUME Serial, OneHand, [CardsNext]_cardsVars PROVE OneHand'
    OBVIOUS
  <2>1. ASSUME NEW r \in Requests, Update(r) \/ UpdateRedacted(r) \/ Fail(r) PROVE OneHand'
    BY <2>1, ReadSameHand DEF Update, UpdateRedacted, Fail
  <2>2. ASSUME NEW r \in Requests, ProposeRedaction(r) PROVE OneHand'
    <3>1. PICK v : v.pc = "proposed" /\ request' = [request EXCEPT ![r] = v]
      BY <2>2 DEF ProposeRedaction
    <3> QED
      BY <2>2, <3>1, RequestSameHand DEF ProposeRedaction
  <2>3. ASSUME NEW r \in Requests, ApplyRedaction(r) PROVE OneHand'
    <3>1. CASE Refuse(r)
      BY <2>3, <3>1, ReadSameHand DEF ApplyRedaction
    <3>2. CASE ~Refuse(r)
      <4>1. PICK v : v.pc = "redacting" /\ request' = [request EXCEPT ![r] = v]
        BY <2>3, <3>2 DEF ApplyRedaction
      <4> QED
        BY <2>3, <4>1, RequestSameHand DEF ApplyRedaction
    <3> QED
      BY <3>1, <3>2
  <2>4. ASSUME NEW r \in Requests, AddExecution(r) PROVE OneHand'
    <3>1. CASE Refuse(r)
      BY <2>4, <3>1, ReadSameHand DEF AddExecution
    <3>2. CASE ~Refuse(r)
      <4>1. PICK v : v.pc = "executing" /\ request' = [request EXCEPT ![r] = v]
        BY <2>4, <3>2 DEF AddExecution
      <4> QED
        BY <2>4, <4>1, RequestSameHand DEF AddExecution
    <3> QED
      BY <3>1, <3>2
  <2>5. ASSUME NEW r \in Requests, CommitExecution(r) PROVE OneHand'
    <3>1. CASE card.stored
      <4> DEFINE v == [pc |-> "done"]
      <4>1. /\ card'.rows = card.rows /\ v.pc = "done"
            /\ request' = [request EXCEPT ![r] = v]
        BY <2>5, <3>1, ExecutionWrites
      <4> HIDE DEF v
      <4> QED
        BY <2>5, <4>1, RequestSameHand DEF CommitExecution
    <3>2. CASE ~card.stored
      BY <2>5, <3>2, ReadSameHand DEF CommitExecution
    <3> QED
      BY <3>1, <3>2
  <2>6. CASE Archive \/ DeleteForever
    <3>1. request' = request /\ (card'.rows = card.rows \/ card'.rows = {})
      BY <2>6 DEF Archive, DeleteForever, Serial, CardOK, Card
    <3>2. Passi' = Passi \/ Passi' = {}
      BY <3>1 DEF Passi, Listed
    <3> QED
      BY <3>1, <3>2, SameHand DEF Settled, Writing
  <2>7. CASE UNCHANGED cardsVars
    <3>1. request' = request /\ Passi' = Passi
      BY <2>7 DEF cardsVars, Passi, Listed
    <3> QED
      BY <3>1, SameHand DEF Settled, Writing
  <2> QED
    BY <2>1, <2>2, <2>3, <2>4, <2>5, <2>6, <2>7, DeleteRowsHand, CommitUpdateHand
       DEF CardsNext
<1>3. OneHand => StepsOfOneHand
  <2> SUFFICES ASSUME NEW by \in Authors, NEW n \in Nat, Passi = RowsOf("steps", by, n)
               PROVE  Passi = RowsOf("steps", by, Cardinality(Passi))
    BY DEF OneHand, StepsOfOneHand, Passi
  <2> QED
    BY RowsOfCount DEF Lists
<1> QED
  BY <1>1, <1>2, <1>3, SerialAlways, PTL DEF CardsSpec

================================================================================
