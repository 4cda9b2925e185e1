------------------------------ MODULE Ingestion ------------------------------
(***************************************************************************)
(* The ingestion pipeline: the Recording table used as a queue, the        *)
(* workers that poll it (processNext), the recovery of rows a dead worker  *)
(* left behind, and the two requests of the API that write the same rows   *)
(* (POST /retry, DELETE /recordings/:id).                                  *)
(*                                                                         *)
(* One action is one access to the database plus the local work and the    *)
(* external calls up to the next access: between two actions any other     *)
(* worker, any request and the clock may run.                              *)
(*                                                                         *)
(* Time is discrete and relative: row[r].wait is what is left before       *)
(* nextAttemptAt, row[r].silence the time since updatedAt, worker[w].lag   *)
(* the time since the worker read its clock at the start of a recovery.    *)
(***************************************************************************)
EXTENDS Integers, FiniteSets, Sequences

CONSTANTS
    Recordings,              \* rows, named by the order of their recordedAt
    Workers,                 \* worker replicas
    MAX_INGESTION_ATTEMPTS,  \* automatic attempts of a row
    MAX_EXTRACTION_ATTEMPTS, \* answers of the model read in one attempt
    RITARDI_RITENTATIVO,     \* backoff after the 1st, 2nd, ... failure, in ticks
    SOGLIA_INTERROTTA,       \* silence after which a row counts as abandoned
    RILASCI_PER_GIRO,        \* rows recovered per round
    MaxSilence,              \* longest silence of a live worker: the call timeouts
    Similar,                 \* pairs of recordings whose cards exceed the threshold
    CommitMayBeLost,         \* may the reply to a COMMIT get lost?
    MaxLag,                  \* bound: ticks a recovery round may last
    MaxRequests              \* bound: POST /retry accepted per row

ASSUME RecordingsAssumption == Recordings \subseteq Nat /\ IsFiniteSet(Recordings)
ASSUME CapsAssumption ==
    /\ MAX_INGESTION_ATTEMPTS \in Nat \ {0}
    /\ MAX_EXTRACTION_ATTEMPTS \in Nat \ {0}
    /\ RILASCI_PER_GIRO \in Nat
    /\ MaxLag \in Nat
    /\ MaxRequests \in Nat
ASSUME BackoffAssumption ==
    RITARDI_RITENTATIVO \in Seq(Nat) /\ Len(RITARDI_RITENTATIVO) > 0
\* The timeouts of every external call keep a live worker's silence below the
\* threshold; a unit test of the repository ties the two together.
ASSUME SilenceAssumption ==
    /\ MaxSilence \in Nat
    /\ SOGLIA_INTERROTTA \in Nat
    /\ MaxSilence <= SOGLIA_INTERROTTA
ASSUME SimilarAssumption == Similar \subseteq Recordings \X Recordings
ASSUME CommitAssumption == CommitMayBeLost \in BOOLEAN

VARIABLES
    row,       \* the Recording table
    card,      \* the Procedure a recording produced
    born,      \* how many procedures a recording has produced
    worker,    \* the local state of each worker
    requests   \* history: retries accepted for a row

vars == <<row, card, born, worker, requests>>

------------------------------------------------------------------------------
NoRow == -1

NotStored == {"NON_CARICATA", "CANCELLATA"}
Stored == {"BOZZA_AUDIO", "IN_ELABORAZIONE", "ESTRATTO",
           "ESTRAZIONE_FALLITA", "DUPLICATO_SOSPETTO"}
CLAIMABLE == {"BOZZA_AUDIO", "ESTRAZIONE_FALLITA"}
Requeueable == {"BOZZA_AUDIO", "ESTRAZIONE_FALLITA", "DUPLICATO_SOSPETTO"}
Backlog == {"BOZZA_AUDIO", "ESTRAZIONE_FALLITA"}

SilenceCap == SOGLIA_INTERROTTA + MaxLag + 1

Row == [status     : Stored \cup NotStored,
        retryCount : Nat,
        wait       : Nat,
        silence    : 0 .. SilenceCap,
        transcript : BOOLEAN,
        duplicateOf : Recordings \cup {NoRow}]

Card == {"nessuna", "viva", "archiviata", "eliminata"}

\* Where a worker is: the access to the database it performs next.
BeforeClaim == {"idle", "releasing", "claiming"}
Holding == {"claimed", "transcribed", "extracted", "matching",
            "duplicate", "persisting", "failing"}

Worker == [pc         : BeforeClaim \cup Holding,
           job        : Recordings \cup {NoRow},
           retryCount : Nat,
           extraction : 0 .. MAX_EXTRACTION_ATTEMPTS,
           stalled    : SUBSET Recordings,
           lag        : 0 .. MaxLag,
           twin       : Recordings \cup {NoRow},
           failTo     : Backlog]

Idle == [pc |-> "idle", job |-> NoRow, retryCount |-> 0, extraction |-> 0,
         stalled |-> {}, lag |-> 0, twin |-> NoRow, failTo |-> "BOZZA_AUDIO"]

NewRow(status) == [status |-> status, retryCount |-> 0, wait |-> 0,
                   silence |-> 0, transcript |-> FALSE, duplicateOf |-> NoRow]

TypeOK ==
    /\ row \in [Recordings -> Row]
    /\ card \in [Recordings -> Card]
    /\ born \in [Recordings -> Nat]
    /\ worker \in [Workers -> Worker]
    /\ requests \in [Recordings -> Nat]

Init ==
    /\ row = [r \in Recordings |-> NewRow("NON_CARICATA")]
    /\ card = [r \in Recordings |-> "nessuna"]
    /\ born = [r \in Recordings |-> 0]
    /\ worker = [w \in Workers |-> Idle]
    /\ requests = [r \in Recordings |-> 0]

------------------------------------------------------------------------------
IsStored(r) == row[r].status \in Stored
IsHolding(w) == worker[w].pc \in Holding
Due(r) == row[r].status = "BOZZA_AUDIO" /\ row[r].wait = 0

\* status = IN_ELABORAZIONE AND updatedAt < olderThan, where olderThan is the
\* threshold before the clock reading that is now `lag' ticks old.
IsStalled(r, lag) ==
    /\ row[r].status = "IN_ELABORAZIONE"
    /\ row[r].silence > SOGLIA_INTERROTTA + lag

RitardoDopo(attempt) ==
    LET last == Len(RITARDI_RITENTATIVO)
        i == IF attempt < 1 THEN 1 ELSE IF attempt > last THEN last ELSE attempt
    IN RITARDI_RITENTATIVO[i]

\* Where a row goes after an attempt that failed towards `failTo'.
Esaurita(retryCount, failTo) ==
    failTo = "BOZZA_AUDIO" /\ retryCount + 1 >= MAX_INGESTION_ATTEMPTS

Ricaduta(retryCount, failTo) ==
    LET status == IF Esaurita(retryCount, failTo) THEN "ESTRAZIONE_FALLITA" ELSE failTo
    IN [status |-> status,
        wait |-> IF status = "BOZZA_AUDIO" THEN RitardoDopo(retryCount + 1) ELSE 0]

\* The same, decided `lag' ticks ago for a row that was abandoned.
Interrotta(r, lag) ==
    LET outcome == Ricaduta(row[r].retryCount, "BOZZA_AUDIO") IN
    [outcome EXCEPT !.wait = IF @ > lag THEN @ - lag ELSE 0]

\* The failure columns, written alike by markFailed and releaseStalled.
WriteFailure(r, outcome) ==
    row' = [row EXCEPT ![r] = [row[r] EXCEPT !.status = outcome.status,
                                        !.wait = outcome.wait,
                                        !.retryCount = @ + 1,
                                        !.silence = 0]]

\* Moves worker w on to its next access.
Goto(w, pc) == worker' = [worker EXCEPT ![w] = [worker[w] EXCEPT !.pc = pc]]
Fail(w, failTo) ==
    worker' = [worker EXCEPT ![w] = [worker[w] EXCEPT !.pc = "failing", !.failTo = failTo]]
GoIdle(w) == worker' = [worker EXCEPT ![w] = Idle]

At(w, pc) == worker[w].pc = pc

------------------------------------------------------------------------------
(* processNext: recovery of abandoned rows, then claimNext. *)

\* Mutant: abandoned rows are never looked for.
FindStalledMutant(w) ==
    /\ At(w, "idle")
    /\ Goto(w, "releasing")
    /\ UNCHANGED <<row, card, born, requests>>
\* The clock is read once; the rows are the RILASCI_PER_GIRO longest silent.
FindStalled(w) ==
    /\ At(w, "idle")
    /\ \E found \in SUBSET {r \in Recordings : IsStalled(r, 0)} :
        /\ Cardinality(found) <= RILASCI_PER_GIRO
        /\ \A r \in Recordings \ found : IsStalled(r, 0) =>
            /\ Cardinality(found) = RILASCI_PER_GIRO
            /\ \A q \in found : row[q].silence >= row[r].silence
        /\ worker' = [worker EXCEPT ![w] = [worker[w] EXCEPT !.pc = "releasing",
                                                     !.stalled = found]]
    /\ UNCHANGED <<row, card, born, requests>>

\* Mutant: the row is given back by id alone, as markFailed does.
ReleaseStalledMutant(w) ==
    /\ At(w, "releasing")
    /\ \E r \in worker[w].stalled :
        /\ worker' = [worker EXCEPT ![w] = [worker[w] EXCEPT !.stalled = @ \ {r}]]
        /\ WriteFailure(r, Interrotta(r, worker[w].lag))
    /\ UNCHANGED <<card, born, requests>>
\* The condition is evaluated again in the UPDATE: a row touched since the
\* search is left alone.
ReleaseStalled(w) ==
    /\ At(w, "releasing")
    /\ \E r \in worker[w].stalled :
        /\ worker' = [worker EXCEPT ![w] = [worker[w] EXCEPT !.stalled = @ \ {r}]]
        /\ IF IsStalled(r, worker[w].lag)
           THEN WriteFailure(r, Interrotta(r, worker[w].lag))
           ELSE UNCHANGED row
    /\ UNCHANGED <<card, born, requests>>

\* findFirst of claimNext: the oldest row that is due, or nothing to do.
FindNext(w) ==
    /\ At(w, "releasing")
    /\ worker[w].stalled = {}
    /\ \/ /\ \A r \in Recordings : ~Due(r)
          /\ GoIdle(w)
       \/ \E r \in Recordings :
            /\ Due(r)
            /\ \A q \in Recordings : Due(q) => r <= q
            /\ worker' = [worker EXCEPT ![w] =
                            [Idle EXCEPT !.pc = "claiming", !.job = r]]
    /\ UNCHANGED <<row, card, born, requests>>

\* Mutant: an update by id, without the condition on the status.
ClaimMutant(w) ==
    LET r == worker[w].job IN
    /\ At(w, "claiming")
    /\ row' = [row EXCEPT ![r] = [row[r] EXCEPT !.status = "IN_ELABORAZIONE",
                                           !.wait = 0, !.silence = 0]]
    /\ Goto(w, "claimed")
    /\ UNCHANGED <<card, born, requests>>
\* The compare-and-swap of claim, on the candidate chosen by FindNext.
Claim(w) ==
    LET r == worker[w].job IN
    /\ At(w, "claiming")
    /\ \/ /\ row[r].status \in CLAIMABLE
          /\ row' = [row EXCEPT ![r] = [row[r] EXCEPT !.status = "IN_ELABORAZIONE",
                                                 !.wait = 0,
                                                 !.silence = 0]]
          /\ Goto(w, "claimed")
       \/ /\ row[r].status \notin CLAIMABLE
          /\ GoIdle(w)
          /\ UNCHANGED row
    /\ UNCHANGED <<card, born, requests>>

------------------------------------------------------------------------------
(* The stages. A stage that fails decides where the row should go: back in *)
(* the queue, or out of it when trying again cannot change the outcome.    *)

\* The row is read back; storage.get and the transcription follow. A missing
\* object and a refused request are final, everything else is transient.
Transcribe(w) ==
    LET r == worker[w].job IN
    /\ At(w, "claimed")
    /\ \/ IsStored(r) /\ worker' = [worker EXCEPT ![w] =
                [worker[w] EXCEPT !.pc = "transcribed", !.retryCount = row[r].retryCount]]
       \/ IsStored(r) /\ \E failTo \in Backlog : worker' = [worker EXCEPT ![w] =
                [worker[w] EXCEPT !.pc = "failing", !.failTo = failTo,
                          !.retryCount = row[r].retryCount]]
       \/ ~IsStored(r) /\ GoIdle(w)
    /\ UNCHANGED <<row, card, born, requests>>

\* saveTranscript, then the first call to the model.
SaveTranscript(w) ==
    LET r == worker[w].job IN
    /\ At(w, "transcribed")
    /\ IsStored(r)
    /\ row' = [row EXCEPT ![r] = [row[r] EXCEPT !.transcript = TRUE, !.silence = 0]]
    /\ \/ worker' = [worker EXCEPT ![w] = [worker[w] EXCEPT !.pc = "extracted",
                                                    !.extraction = 1]]
       \/ \E failTo \in Backlog : Fail(w, failTo)
    /\ UNCHANGED <<card, born, requests>>

\* saveExtraction, then the verdict: accepted (and embedded), or asked again,
\* or given up after MAX_EXTRACTION_ATTEMPTS answers.
SaveExtraction(w) ==
    LET r == worker[w].job IN
    /\ At(w, "extracted")
    /\ IsStored(r)
    /\ row' = [row EXCEPT ![r] = [row[r] EXCEPT !.silence = 0]]
    /\ \/ Goto(w, "matching")
       \/ Fail(w, "BOZZA_AUDIO")
       \/ /\ worker[w].extraction < MAX_EXTRACTION_ATTEMPTS
          /\ \/ worker' = [worker EXCEPT ![w] = [worker[w] EXCEPT !.extraction = @ + 1]]
             \/ \E failTo \in Backlog : Fail(w, failTo)
       \/ /\ worker[w].extraction = MAX_EXTRACTION_ATTEMPTS
          /\ Fail(w, "ESTRAZIONE_FALLITA")
    /\ UNCHANGED <<card, born, requests>>

\* A live card of the user above the similarity threshold.
SimilarCards(r) == {q \in Recordings : card[q] = "viva" /\ <<r, q>> \in Similar}

\* Mutant: the threshold is never exceeded.
FindMostSimilarMutant(w) ==
    /\ At(w, "matching")
    /\ Goto(w, "persisting")
    /\ UNCHANGED <<row, card, born, requests>>
FindMostSimilar(w) ==
    LET twins == SimilarCards(worker[w].job) IN
    /\ At(w, "matching")
    /\ \/ /\ twins = {}
          /\ Goto(w, "persisting")
       \/ \E q \in twins : worker' = [worker EXCEPT ![w] =
                [worker[w] EXCEPT !.pc = "duplicate", !.twin = q]]
    /\ UNCHANGED <<row, card, born, requests>>

MarkDuplicate(w) ==
    LET r == worker[w].job IN
    /\ At(w, "duplicate")
    /\ IsStored(r)
    /\ card[worker[w].twin] \in {"viva", "archiviata"} \* the foreign key holds
    /\ row' = [row EXCEPT ![r] = [row[r] EXCEPT !.status = "DUPLICATO_SOSPETTO",
                                           !.duplicateOf = worker[w].twin,
                                           !.silence = 0]]
    /\ GoIdle(w)
    /\ UNCHANGED <<card, born, requests>>

\* The transaction that creates the card and links the row to it. When the
\* reply to its COMMIT is lost the worker sees an exception instead.
PersistProcedure(w) ==
    LET r == worker[w].job IN
    /\ At(w, "persisting")
    /\ IsStored(r)
    /\ row' = [row EXCEPT ![r] = [row[r] EXCEPT !.status = "ESTRATTO", !.silence = 0]]
    /\ card' = [card EXCEPT ![r] = "viva"]
    /\ born' = [born EXCEPT ![r] = @ + 1]
    /\ \/ GoIdle(w)
       \/ CommitMayBeLost /\ Fail(w, "BOZZA_AUDIO")
    /\ UNCHANGED requests

\* An access after the first throws (the row is gone, the transaction is rolled
\* back, the database refuses): the row goes back in the queue.
StageThrows(w) ==
    /\ worker[w].pc \in {"transcribed", "extracted", "matching",
                         "duplicate", "persisting"}
    /\ Fail(w, "BOZZA_AUDIO")
    /\ UNCHANGED <<row, card, born, requests>>

\* markFailed updates by id alone; it throws when the row is gone.
MarkFailed(w) ==
    LET r == worker[w].job IN
    /\ At(w, "failing")
    /\ IF IsStored(r)
       THEN WriteFailure(r, Ricaduta(worker[w].retryCount, worker[w].failTo))
       ELSE UNCHANGED row
    /\ GoIdle(w)
    /\ UNCHANGED <<card, born, requests>>

\* The process is killed, or loses the database, while it holds a row. Before
\* the claim it leaves nothing behind.
Crash(w) ==
    /\ IsHolding(w)
    /\ GoIdle(w)
    /\ UNCHANGED <<row, card, born, requests>>

------------------------------------------------------------------------------
(* The requests of the API, and the clock. *)

Create(r) ==
    /\ row[r].status = "NON_CARICATA"
    /\ row' = [row EXCEPT ![r] = NewRow("BOZZA_AUDIO")]
    /\ UNCHANGED <<card, born, worker, requests>>

Requeue(r) ==
    /\ row[r].status \in Requeueable
    /\ requests[r] < MaxRequests
    /\ row' = [row EXCEPT ![r] = [row[r] EXCEPT !.status = "BOZZA_AUDIO",
                                           !.wait = 0,
                                           !.duplicateOf = NoRow,
                                           !.retryCount = @ + 1]]
    /\ requests' = [requests EXCEPT ![r] = @ + 1]
    /\ UNCHANGED <<card, born, worker>>

\* Mutant: a row in flight is removed too.
RemoveMutant(r) ==
    /\ IsStored(r)
    /\ row' = [row EXCEPT ![r] = NewRow("CANCELLATA")]
    /\ UNCHANGED <<card, born, worker, requests>>
\* The row, and in the same transaction the card born from it when asked.
Remove(r) ==
    /\ row[r].status \in Stored \ {"IN_ELABORAZIONE"}
    /\ row' = [row EXCEPT ![r] = NewRow("CANCELLATA")]
    /\ \/ UNCHANGED card
       \/ card[r] = "viva" /\ card' = [card EXCEPT ![r] = "archiviata"]
    /\ UNCHANGED <<born, worker, requests>>

\* A live worker writes on its row, or gives up, before MaxSilence is over.
Tick ==
    /\ \A w \in Workers :
        /\ IsHolding(w) => row[worker[w].job].silence < MaxSilence
        /\ At(w, "releasing") => worker[w].lag < MaxLag
    /\ row' = [r \in Recordings |->
                [row[r] EXCEPT
                    !.wait = IF @ > 0 THEN @ - 1 ELSE 0,
                    !.silence = IF row[r].status = "IN_ELABORAZIONE" /\ @ < SilenceCap
                                THEN @ + 1 ELSE @]]
    /\ worker' = [w \in Workers |->
                    IF At(w, "releasing") THEN [worker[w] EXCEPT !.lag = @ + 1]
                                          ELSE worker[w]]
    /\ UNCHANGED <<card, born, requests>>

------------------------------------------------------------------------------
Poll(w) == FindStalled(w) \/ ReleaseStalled(w) \/ FindNext(w) \/ Claim(w)

Process(w) ==
    \/ Transcribe(w) \/ SaveTranscript(w) \/ SaveExtraction(w)
    \/ FindMostSimilar(w) \/ MarkDuplicate(w) \/ PersistProcedure(w)
    \/ StageThrows(w) \/ MarkFailed(w)

User(r) == Create(r) \/ Requeue(r) \/ Remove(r)

Next ==
    \/ \E w \in Workers : Poll(w) \/ Process(w) \/ Crash(w)
    \/ \E r \in Recordings : User(r)
    \/ Tick

Spec == Init /\ [][Next]_vars

\* The worker's loop keeps polling and every stage has a timeout; nothing
\* obliges a user to act or a process to crash.
FairSpec ==
    /\ Spec
    /\ \A w \in Workers : WF_vars(Poll(w) \/ Process(w))
    /\ WF_vars(Tick)

------------------------------------------------------------------------------
(* Properties. *)

HoldsRow(w, r) == IsHolding(w) /\ worker[w].job = r

\* A row is processed by one worker at a time, although rows are released and
\* claimed again while slow workers are still about ("due worker in parallelo
\* non si pestano").
OneWorkerPerRow ==
    \A v, w \in Workers : \A r \in Recordings :
        HoldsRow(v, r) /\ HoldsRow(w, r) => v = w

\* What a worker holds is in flight and not yet stalled, which is what keeps
\* /retry, DELETE and the recovery away from it.
HeldRowIsInFlight ==
    \A w \in Workers : \A r \in Recordings :
        HoldsRow(w, r) => /\ row[r].status = "IN_ELABORAZIONE"
                          /\ row[r].silence <= MaxSilence

\* A recording never produces two cards, over all its attempts, recoveries and
\* manual retries.
OneCardPerRecording == \A r \in Recordings : born[r] <= 1

\* There is no half card: a stored row has produced its card exactly when it
\* is ESTRATTO, so a failed attempt leaves no card behind.
CardIffExtracted ==
    \A r \in Recordings : IsStored(r) =>
        (born[r] > 0 <=> row[r].status = "ESTRATTO")

\* Two recordings of the same thing do not both end as live cards: the second
\* becomes a suspected duplicate.
NoTwinCards ==
    \A r, q \in Recordings :
        r # q /\ <<r, q>> \in Similar => ~(card[r] = "viva" /\ card[q] = "viva")

\* A step that puts a row in flight back in the queue or parks it is taken by
\* the worker that holds it, or nobody holds it: recovery is not theft.
RecoveryIsNotTheft ==
    [][\A r \in Recordings : \A w \in Workers :
        /\ HoldsRow(w, r)
        /\ row[r].status = "IN_ELABORAZIONE"
        /\ row'[r].status \in Backlog
        => worker'[w] = Idle]_vars

\* Whatever fails and however often the workers die, a stored recording
\* reaches an outcome: a card, a suspected duplicate, or a parked row (or its
\* owner removes it).
EverythingSettles ==
    \A r \in Recordings :
        row[r].status \in {"BOZZA_AUDIO", "IN_ELABORAZIONE"} ~>
        row[r].status \in {"ESTRATTO", "ESTRAZIONE_FALLITA",
                           "DUPLICATO_SOSPETTO", "CANCELLATA"}

------------------------------------------------------------------------------
(* Ingestion implements RecordingLifecycle. *)

PhaseOf(status) ==
    CASE status = "NON_CARICATA"       -> "absent"
      [] status = "BOZZA_AUDIO"        -> "queued"
      [] status = "IN_ELABORAZIONE"    -> "working"
      [] status = "ESTRAZIONE_FALLITA" -> "parked"
      [] status = "DUPLICATO_SOSPETTO" -> "suspect"
      [] status = "ESTRATTO"           -> "published"
      [] status = "CANCELLATA"         -> "erased"

Lifecycle == INSTANCE RecordingLifecycle
    WITH phase <- [r \in Recordings |-> PhaseOf(row[r].status)],
         cards <- born

\* Seen from outside, workers, crashes, backoff and recovery only ever make
\* the moves of the lifecycle, and a card is published at most once.
ImplementsLifecycle == Lifecycle!LifecycleSpec

==============================================================================
