------------------------------ MODULE CardTrash ------------------------------
(***************************************************************************)
(* The trash of the cards, beside the pipeline that feeds it: archiving,   *)
(* restoring, deleting a card for ever and emptying the trash, while       *)
(* workers publish cards and suspect duplicates of them.                   *)
(*                                                                         *)
(* deleteForUser runs under READ COMMITTED.  Its three SELECTs lock        *)
(* nothing, so everybody may run between them and the DELETE; from the     *)
(* DELETE on, the rows it touches are locked and the statements that       *)
(* follow commute with every other step, so they are one step with it.     *)
(***************************************************************************)
EXTENDS Ingestion

CONSTANT
    EMPTY_TRASH_BATCH_SIZE   \* cards one POST may delete

ASSUME BatchAssumption == EMPTY_TRASH_BATCH_SIZE \in Nat

VARIABLES
    purge,     \* the deletion in progress of each card, after its SELECTs
    emptying   \* the cards an emptying of the trash still has to delete

trashVars == <<vars, purge, emptying>>

NotPurging == [open |-> FALSE, nati |-> {}, sospetti |-> {}]
Purge == [open : BOOLEAN, nati : SUBSET Recordings, sospetti : SUBSET Recordings]

TrashTypeOK ==
    /\ TypeOK
    /\ purge \in [Recordings -> Purge]
    /\ emptying \in SUBSET Recordings

TrashInit ==
    /\ Init
    /\ purge = [q \in Recordings |-> NotPurging]
    /\ emptying = {}

------------------------------------------------------------------------------
\* The card of q is the one recording q produced: Recording.procedureId.
InTrash == {q \in Recordings : card[q] = "archiviata"}
Born(q) == {r \in Recordings : r = q /\ IsStored(r) /\ born[r] > 0}
SuspectsOf(q) == {r \in Recordings : /\ row[r].status = "DUPLICATO_SOSPETTO"
                                     /\ row[r].duplicateOf = q}

Archive(q) ==
    /\ card[q] \in {"viva", "archiviata"}
    /\ card' = [card EXCEPT ![q] = "archiviata"]
    /\ UNCHANGED <<row, born, worker, requests, purge, emptying>>

Restore(q) ==
    /\ card[q] = "archiviata"
    /\ card' = [card EXCEPT ![q] = "viva"]
    /\ UNCHANGED <<row, born, worker, requests, purge, emptying>>

\* The SELECTs of deleteForUser, by the id of a request or of an emptying.
PurgeRead(q) ==
    /\ ~purge[q].open
    /\ card[q] = "archiviata"
    /\ purge' = [purge EXCEPT ![q] =
                    [open |-> TRUE, nati |-> Born(q), sospetti |-> SuspectsOf(q)]]
    /\ UNCHANGED <<vars, emptying>>

\* Mutant: the recordings of the card are left to the foreign key.
PurgedMutant(q, r) ==
    IF ~IsStored(r) THEN row[r]
    ELSE IF r \in purge[q].sospetti
    THEN [row[r] EXCEPT !.status = "BOZZA_AUDIO", !.duplicateOf = NoRow,
                        !.wait = 0, !.silence = 0]
    ELSE [row[r] EXCEPT !.duplicateOf = IF @ = q THEN NoRow ELSE @]
\* What the transaction leaves of each row: the ones born from the card are
\* deleted, the suspects read earlier go back in the queue, and the foreign keys
\* of everybody else become null.
Purged(q, r) ==
    IF ~IsStored(r) THEN row[r]
    ELSE IF r \in purge[q].nati THEN NewRow("CANCELLATA")
    ELSE IF r \in purge[q].sospetti
    THEN [row[r] EXCEPT !.status = "BOZZA_AUDIO", !.duplicateOf = NoRow,
                        !.wait = 0, !.silence = 0]
    ELSE [row[r] EXCEPT !.duplicateOf = IF @ = q THEN NoRow ELSE @]

\* Mutant: the DELETE does not ask again whether the card is in the trash.
PurgeCommitMutant(q) ==
    /\ purge[q].open
    /\ card' = [card EXCEPT ![q] = "eliminata"]
    /\ row' = [r \in Recordings |-> Purged(q, r)]
    /\ purge' = [purge EXCEPT ![q] = NotPurging]
    /\ emptying' = emptying \ {q}
    /\ UNCHANGED <<born, worker, requests>>
\* The DELETE asks again; a card that left the trash is left alone, with all of
\* its recordings.
PurgeCommit(q) ==
    /\ purge[q].open
    /\ IF card[q] = "archiviata"
       THEN /\ card' = [card EXCEPT ![q] = "eliminata"]
            /\ row' = [r \in Recordings |-> Purged(q, r)]
       ELSE UNCHANGED <<card, row>>
    /\ purge' = [purge EXCEPT ![q] = NotPurging]
    /\ emptying' = emptying \ {q}
    /\ UNCHANGED <<born, worker, requests>>

\* emptyTrash lists the batch once, oldest first, and deletes card by card;
\* one that is gone or no longer archived is skipped.
EmptyTrash ==
    /\ emptying = {}
    /\ \E batch \in SUBSET InTrash :
        /\ batch # {}
        /\ Cardinality(batch) <= EMPTY_TRASH_BATCH_SIZE
        /\ emptying' = batch
    /\ UNCHANGED <<vars, purge>>

SkipCard(q) ==
    /\ q \in emptying
    /\ ~purge[q].open
    /\ card[q] # "archiviata"
    /\ emptying' = emptying \ {q}
    /\ UNCHANGED <<vars, purge>>

------------------------------------------------------------------------------
TrashNext ==
    \/ Next /\ UNCHANGED <<purge, emptying>>
    \/ \E q \in Recordings : \/ Archive(q) \/ Restore(q)
                             \/ PurgeRead(q) \/ PurgeCommit(q) \/ SkipCard(q)
    \/ EmptyTrash

TrashSpec == TrashInit /\ [][TrashNext]_trashVars

------------------------------------------------------------------------------
(* Properties. *)

\* A card is deleted only from the trash, and together with the recording it
\* came from: one taken out of the trash while deleteForUser was reading keeps
\* everything.
DeletedOnlyFromTrash ==
    [][\A q \in Recordings :
        card'[q] = "eliminata" /\ card[q] # "eliminata" =>
            card[q] = "archiviata" /\ row'[q].status \in NotStored]_trashVars

\* No recording says it became a card that was deleted, whatever archiving,
\* restoring, removing and deleting overlapped.
ExtractedHasCard ==
    \A r \in Recordings :
        row[r].status = "ESTRATTO" => card[r] \in {"viva", "archiviata"}

==============================================================================
