---------------------------- MODULE Pipeline_proofs ----------------------------
(***************************************************************************)
(* Ingestion for any number of recordings and workers, any caps, backoff   *)
(* and thresholds: type correctness, exclusive processing, one card per    *)
(* recording, recovery that never takes a row from a live worker, no twin  *)
(* cards, and the implementation of RecordingLifecycle.  Then CardTrash,   *)
(* which extends it, and whose proofs rest on the same lemmas: a card is   *)
(* deleted only from the trash and with the recording it came from, and    *)
(* no recording says it became a card that is gone.                        *)
(***************************************************************************)
EXTENDS CardTrash, TLAPS

USE DEF NotStored, Stored, CLAIMABLE, Requeueable, Backlog,
        BeforeClaim, Holding

\* The delay before the next attempt is a number of ticks.
LEMMA RitardoType == \A n \in Nat : RitardoDopo(n) \in Nat
<1> SUFFICES ASSUME NEW n \in Nat
             PROVE  RitardoDopo(n) \in Nat
    OBVIOUS
<1> DEFINE last == Len(RITARDI_RITENTATIVO)
           i == IF n < 1 THEN 1 ELSE IF n > last THEN last ELSE n
<1>1. RITARDI_RITENTATIVO \in Seq(Nat) /\ last \in Nat /\ last > 0
    BY BackoffAssumption
<1>2. i \in 1 .. last
    BY <1>1
<1>3. RITARDI_RITENTATIVO[i] \in Nat
    BY <1>1, <1>2
<1> QED
    BY <1>3 DEF RitardoDopo

LEMMA RicadutaType ==
    \A n \in Nat, failTo \in Backlog :
        /\ Ricaduta(n, failTo).status \in Backlog
        /\ Ricaduta(n, failTo).wait \in Nat
    BY RitardoType DEF Ricaduta, Esaurita

(***************************************************************************)
(* Type correctness.                                                       *)
(***************************************************************************)

\* What a worker holds, or is about to claim, is a row of the table.
JobKnown ==
    \A w \in Workers :
        worker[w].pc \in Holding \cup {"claiming"} => worker[w].job \in Recordings

WellTyped == TypeOK /\ JobKnown

LEMMA WriteFailureType ==
    ASSUME TypeOK, NEW r \in Recordings,
           NEW outcome, outcome.status \in Backlog, outcome.wait \in Nat,
           WriteFailure(r, outcome)
    PROVE  row' \in [Recordings -> Row]
<1>1. row[r] \in Row /\ row[r].retryCount + 1 \in Nat
    BY DEF TypeOK, Row
<1>2. 0 \in 0 .. SilenceCap
    BY SilenceAssumption, CapsAssumption DEF SilenceCap
<1>3. [row[r] EXCEPT !.status = outcome.status, !.wait = outcome.wait,
                     !.retryCount = @ + 1, !.silence = 0] \in Row
    BY <1>1, <1>2 DEF Row
<1> QED
    BY <1>3 DEF WriteFailure, TypeOK

LEMMA InterrottaType ==
    ASSUME TypeOK, NEW r \in Recordings, NEW lag \in Nat
    PROVE  /\ Interrotta(r, lag).status \in Backlog
           /\ Interrotta(r, lag).wait \in Nat
<1>1. row[r].retryCount \in Nat
    BY DEF TypeOK, Row
<1>2. PICK o : o = Ricaduta(row[r].retryCount, "BOZZA_AUDIO")
    OBVIOUS
<1>3. o.status \in Backlog /\ o.wait \in Nat
    BY <1>1, <1>2, RicadutaType
<1>4. o = [status |-> o.status, wait |-> o.wait]
    BY <1>2 DEF Ricaduta
<1> QED
    BY <1>2, <1>3, <1>4 DEF Interrotta

LEMMA IdleType == Idle \in Worker
    BY CapsAssumption DEF Idle, Worker

LEMMA NewRowType ==
    ASSUME NEW status \in Stored \cup NotStored
    PROVE  NewRow(status) \in Row
<1>1. 0 \in 0 .. SilenceCap
    BY SilenceAssumption, CapsAssumption DEF SilenceCap
<1> QED
    BY <1>1 DEF NewRow, Row

\* One worker, or one row, changes and stays well typed.
LEMMA SetWorker ==
    ASSUME WellTyped, NEW w \in Workers, NEW x \in Worker,
           x.pc \in Holding \cup {"claiming"} => x.job \in Recordings,
           worker' = [worker EXCEPT ![w] = x]
    PROVE  worker' \in [Workers -> Worker] /\ JobKnown'
<1>1. worker \in [Workers -> Worker]
    BY DEF WellTyped, TypeOK
<1>2. \A v \in Workers : worker'[v] = IF v = w THEN x ELSE worker[v]
    BY <1>1
<1>3. worker' \in [Workers -> Worker]
    BY <1>1
<1>4. JobKnown'
    BY <1>2 DEF WellTyped, JobKnown
<1> QED
    BY <1>3, <1>4

LEMMA SetRow ==
    ASSUME WellTyped, NEW r \in Recordings, NEW x \in Row,
           row' = [row EXCEPT ![r] = x]
    PROVE  row' \in [Recordings -> Row]
    BY DEF WellTyped, TypeOK

LEMMA WellTypedInit == Init => WellTyped
    BY NewRowType, IdleType DEF Init, WellTyped, TypeOK, JobKnown, Card, Idle

LEMMA WellTypedNext ==
    ASSUME WellTyped, [Next]_vars
    PROVE  WellTyped'
<1> USE DEF WellTyped
<1>0. /\ row \in [Recordings -> Row] /\ card \in [Recordings -> Card]
      /\ born \in [Recordings -> Nat] /\ worker \in [Workers -> Worker]
      /\ requests \in [Recordings -> Nat]
    BY DEF TypeOK
<1>rec. \A w \in Workers : worker[w] \in Worker
    BY <1>0
<1>row. \A r \in Recordings : row[r] \in Row
    BY <1>0
<1>idle. \A w \in Workers : GoIdle(w) => worker' \in [Workers -> Worker] /\ JobKnown'
    BY IdleType, SetWorker DEF GoIdle, Idle
<1>goto. ASSUME NEW w \in Workers, NEW pc \in Holding,
                worker[w].job \in Recordings, Goto(w, pc)
         PROVE  worker' \in [Workers -> Worker] /\ JobKnown'
    <2> DEFINE x == [worker[w] EXCEPT !.pc = pc]
    <2>1. x \in Worker /\ x.job \in Recordings
        BY <1>rec, <1>goto DEF Worker
    <2> QED
        BY <2>1, <1>goto, SetWorker DEF Goto
<1>fail. ASSUME NEW w \in Workers, NEW failTo \in Backlog,
                worker[w].job \in Recordings, Fail(w, failTo)
         PROVE  worker' \in [Workers -> Worker] /\ JobKnown'
    <2> DEFINE x == [worker[w] EXCEPT !.pc = "failing", !.failTo = failTo]
    <2>1. x \in Worker /\ x.job \in Recordings
        BY <1>rec, <1>fail DEF Worker
    <2> QED
        BY <2>1, <1>fail, SetWorker DEF Fail
<1>known. \A w \in Workers : worker[w].pc \in Holding \cup {"claiming"}
            => worker[w].job \in Recordings
    BY DEF JobKnown
<1>cap. 0 \in 0 .. SilenceCap
    BY SilenceAssumption, CapsAssumption DEF SilenceCap
<1>1. ASSUME NEW w \in Workers, FindStalled(w)
      PROVE  WellTyped'
    <2>1. PICK found \in SUBSET Recordings :
            worker' = [worker EXCEPT ![w] = [worker[w] EXCEPT !.pc = "releasing",
                                                      !.stalled = found]]
        BY <1>1 DEF FindStalled
    <2> DEFINE x == [worker[w] EXCEPT !.pc = "releasing", !.stalled = found]
    <2>2. x \in Worker /\ x.pc = "releasing"
        BY <1>rec DEF Worker
    <2>3. worker' \in [Workers -> Worker] /\ JobKnown'
        BY <2>1, <2>2, SetWorker
    <2> QED
        BY <2>3, <1>1, <1>0 DEF FindStalled, TypeOK
<1>2. ASSUME NEW w \in Workers, ReleaseStalled(w)
      PROVE  WellTyped'
    <2>1. PICK r \in worker[w].stalled :
            /\ worker' = [worker EXCEPT ![w] = [worker[w] EXCEPT !.stalled = @ \ {r}]]
            /\ IF IsStalled(r, worker[w].lag)
               THEN WriteFailure(r, Interrotta(r, worker[w].lag))
               ELSE UNCHANGED row
        BY <1>2 DEF ReleaseStalled
    <2>2. worker[w].stalled \in SUBSET Recordings /\ worker[w].lag \in Nat
        BY <1>0, CapsAssumption DEF Worker
    <2>3. row' \in [Recordings -> Row]
        BY <2>1, <2>2, <1>0, WriteFailureType, InterrottaType
    <2> DEFINE x == [worker[w] EXCEPT !.stalled = @ \ {r}]
    <2>4. x \in Worker /\ x.pc = "releasing"
        BY <2>2, <1>rec, <1>2 DEF ReleaseStalled, At, Worker
    <2>5. worker' \in [Workers -> Worker] /\ JobKnown'
        BY <2>1, <2>4, SetWorker
    <2> QED
        BY <2>3, <2>5, <1>2, <1>0 DEF ReleaseStalled, TypeOK
<1>3. ASSUME NEW w \in Workers, FindNext(w)
      PROVE  WellTyped'
    <2>1. CASE GoIdle(w)
        BY <2>1, <1>idle, <1>3, <1>0 DEF FindNext, TypeOK
    <2>2. CASE ~GoIdle(w)
        <3>1. PICK r \in Recordings : worker' = [worker EXCEPT ![w] =
                            [Idle EXCEPT !.pc = "claiming", !.job = r]]
            BY <2>2, <1>3 DEF FindNext
        <3> DEFINE x == [Idle EXCEPT !.pc = "claiming", !.job = r]
        <3>2. x \in Worker /\ x.job \in Recordings
            BY IdleType DEF Worker, Idle
        <3>3. worker' \in [Workers -> Worker] /\ JobKnown'
            BY <3>1, <3>2, SetWorker
        <3> QED
            BY <3>3, <1>3, <1>0 DEF FindNext, TypeOK
    <2> QED
        BY <2>1, <2>2
<1>4. ASSUME NEW w \in Workers, Claim(w)
      PROVE  WellTyped'
    <2> DEFINE r == worker[w].job
    <2>1. r \in Recordings
        BY <1>4, <1>known DEF Claim, At
    <2>2. CASE row[r].status \in CLAIMABLE
        <3>0. [row[r] EXCEPT !.status = "IN_ELABORAZIONE", !.wait = 0,
                             !.silence = 0] \in Row
            BY <2>1, <1>row, <1>cap DEF Row
        <3>1. row' \in [Recordings -> Row]
            BY <2>1, <2>2, <3>0, <1>4, <1>0, SetRow DEF Claim
        <3>2. worker' \in [Workers -> Worker] /\ JobKnown'
            BY <2>1, <2>2, <1>4, <1>goto DEF Claim
        <3> QED
            BY <3>1, <3>2, <1>4, <1>0 DEF Claim, TypeOK
    <2>3. CASE row[r].status \notin CLAIMABLE
        BY <2>3, <1>4, <1>idle, <1>0 DEF Claim, TypeOK
    <2> QED
        BY <2>2, <2>3
<1>5. ASSUME NEW w \in Workers, Transcribe(w)
      PROVE  WellTyped'
    <2>1. worker[w].job \in Recordings /\ row[worker[w].job].retryCount \in Nat
        BY <1>5, <1>known, <1>0 DEF Transcribe, At, Row
    <2>2. CASE GoIdle(w)
        BY <2>2, <1>idle, <1>5, <1>0 DEF Transcribe, TypeOK
    <2>3. CASE ~GoIdle(w)
        <3> DEFINE n == row[worker[w].job].retryCount
                   ok == [worker[w] EXCEPT !.pc = "transcribed", !.retryCount = n]
                   ko(failTo) == [worker[w] EXCEPT !.pc = "failing", !.failTo = failTo,
                                                   !.retryCount = n]
        <3>1. ok \in Worker /\ ok.job \in Recordings
            BY <2>1, <1>rec DEF Worker
        <3>2. \A failTo \in Backlog : ko(failTo) \in Worker /\ ko(failTo).job \in Recordings
            BY <2>1, <1>rec DEF Worker
        <3>3. \/ worker' = [worker EXCEPT ![w] = ok]
              \/ \E failTo \in Backlog : worker' = [worker EXCEPT ![w] = ko(failTo)]
            BY <2>3, <1>5 DEF Transcribe
        <3> HIDE DEF ok, ko
        <3>4. worker' \in [Workers -> Worker] /\ JobKnown'
            BY <3>1, <3>2, <3>3, SetWorker
        <3> QED
            BY <3>4, <1>5, <1>0 DEF Transcribe, TypeOK
    <2> QED
        BY <2>2, <2>3
<1>6. ASSUME NEW w \in Workers, SaveTranscript(w)
      PROVE  WellTyped'
    <2>1. worker[w].job \in Recordings
        BY <1>6, <1>known DEF SaveTranscript, At
    <2>2. worker' \in [Workers -> Worker] /\ JobKnown'
        <3> DEFINE x == [worker[w] EXCEPT !.pc = "extracted", !.extraction = 1]
        <3>0. 1 \in 0 .. MAX_EXTRACTION_ATTEMPTS
            BY CapsAssumption
        <3>1. x \in Worker /\ x.job \in Recordings
            BY <2>1, <3>0, <1>rec DEF Worker
        <3>2. CASE worker' = [worker EXCEPT ![w] = x]
            BY <3>1, <3>2, SetWorker
        <3> QED
            BY <2>1, <3>2, <1>6, <1>fail DEF SaveTranscript
    <2>3. row' \in [Recordings -> Row]
        <3>1. [row[worker[w].job] EXCEPT !.transcript = TRUE, !.silence = 0] \in Row
            BY <2>1, <1>row, <1>cap DEF Row
        <3> QED
            BY <2>1, <3>1, <1>6, SetRow DEF SaveTranscript
    <2> QED
        BY <2>2, <2>3, <1>6, <1>0 DEF SaveTranscript, TypeOK
<1>7. ASSUME NEW w \in Workers, SaveExtraction(w)
      PROVE  WellTyped'
    <2>1. worker[w].job \in Recordings
        BY <1>7, <1>known DEF SaveExtraction, At
    <2>2. worker[w].extraction < MAX_EXTRACTION_ATTEMPTS
          => worker[w].extraction + 1 \in 0 .. MAX_EXTRACTION_ATTEMPTS
        BY <1>0, CapsAssumption DEF Worker
    <2>3. ASSUME worker[w].extraction < MAX_EXTRACTION_ATTEMPTS,
                 worker' = [worker EXCEPT ![w] =
                            [worker[w] EXCEPT !.extraction = @ + 1]]
          PROVE  worker' \in [Workers -> Worker] /\ JobKnown'
        <3> DEFINE x == [worker[w] EXCEPT !.extraction = @ + 1]
        <3>1. x \in Worker /\ x.job \in Recordings
            BY <2>1, <2>2, <2>3, <1>rec DEF Worker
        <3> QED
            BY <3>1, <2>3, SetWorker
    <2>4. worker' \in [Workers -> Worker] /\ JobKnown'
        BY <2>1, <2>3, <1>7, <1>goto, <1>fail DEF SaveExtraction
    <2>5. row' \in [Recordings -> Row]
        <3>1. [row[worker[w].job] EXCEPT !.silence = 0] \in Row
            BY <2>1, <1>row, <1>cap DEF Row
        <3> QED
            BY <2>1, <3>1, <1>7, SetRow DEF SaveExtraction
    <2> QED
        BY <2>4, <2>5, <1>7, <1>0 DEF SaveExtraction, TypeOK
<1>8. ASSUME NEW w \in Workers, FindMostSimilar(w)
      PROVE  WellTyped'
    <2>1. worker[w].job \in Recordings
        BY <1>8, <1>known DEF FindMostSimilar, At
    <2>2. worker' \in [Workers -> Worker] /\ JobKnown'
        <3> DEFINE x(q) == [worker[w] EXCEPT !.pc = "duplicate", !.twin = q]
        <3>1. \A q \in Recordings : x(q) \in Worker /\ x(q).job \in Recordings
            BY <2>1, <1>rec DEF Worker
        <3>2. ASSUME NEW q \in Recordings, worker' = [worker EXCEPT ![w] = x(q)]
              PROVE  worker' \in [Workers -> Worker] /\ JobKnown'
            <4> HIDE DEF x
            <4> QED
                BY <3>1, <3>2, SetWorker
        <3> QED
            BY <2>1, <3>2, <1>8, <1>goto DEF FindMostSimilar, SimilarCards
    <2> QED
        BY <2>2, <1>8, <1>0 DEF FindMostSimilar, TypeOK
<1>9. ASSUME NEW w \in Workers, MarkDuplicate(w)
      PROVE  WellTyped'
    <2>1. worker[w].job \in Recordings /\ worker[w].twin \in Recordings \cup {NoRow}
        BY <1>9, <1>known, <1>0 DEF MarkDuplicate, At, Worker
    <2>2. row' \in [Recordings -> Row]
        <3>1. ASSUME NEW t \in Row, NEW q \in Recordings \cup {NoRow}
              PROVE  [t EXCEPT !.status = "DUPLICATO_SOSPETTO",
                               !.duplicateOf = q, !.silence = 0] \in Row
            BY <1>cap DEF Row
        <3> QED
            BY <2>1, <3>1, <1>row, <1>9, SetRow DEF MarkDuplicate
    <2> QED
        BY <2>2, <1>9, <1>idle, <1>0 DEF MarkDuplicate, TypeOK
<1>10. ASSUME NEW w \in Workers, PersistProcedure(w)
       PROVE  WellTyped'
    <2>1. worker[w].job \in Recordings
        BY <1>10, <1>known DEF PersistProcedure, At
    <2>2. row' \in [Recordings -> Row]
        <3>1. [row[worker[w].job] EXCEPT !.status = "ESTRATTO", !.silence = 0] \in Row
            BY <2>1, <1>row, <1>cap DEF Row
        <3> QED
            BY <2>1, <3>1, <1>10, SetRow DEF PersistProcedure
    <2>3. card' \in [Recordings -> Card] /\ born' \in [Recordings -> Nat]
        BY <2>1, <1>10, <1>0 DEF PersistProcedure, Card
    <2>4. worker' \in [Workers -> Worker] /\ JobKnown'
        BY <2>1, <1>10, <1>idle, <1>fail DEF PersistProcedure
    <2> QED
        BY <2>2, <2>3, <2>4, <1>10, <1>0 DEF PersistProcedure, TypeOK
<1>11. ASSUME NEW w \in Workers, StageThrows(w)
       PROVE  WellTyped'
    <2>1. worker[w].job \in Recordings
        BY <1>11, <1>known DEF StageThrows
    <2> QED
        BY <2>1, <1>11, <1>fail, <1>0 DEF StageThrows, TypeOK
<1>12. ASSUME NEW w \in Workers, MarkFailed(w)
       PROVE  WellTyped'
    <2>1. worker[w].job \in Recordings
        BY <1>12, <1>known DEF MarkFailed, At
    <2>2. worker[w].retryCount \in Nat /\ worker[w].failTo \in Backlog
        BY <1>0 DEF Worker
    <2>3. row' \in [Recordings -> Row]
        BY <2>1, <2>2, <1>12, <1>0, WriteFailureType, RicadutaType DEF MarkFailed
    <2> QED
        BY <2>3, <1>12, <1>idle, <1>0 DEF MarkFailed, TypeOK
<1>13. ASSUME NEW w \in Workers, Crash(w)
       PROVE  WellTyped'
    BY <1>13, <1>idle, <1>0 DEF Crash, TypeOK
<1>14. ASSUME NEW r \in Recordings, Create(r)
       PROVE  WellTyped'
    BY <1>14, <1>0, NewRowType DEF Create, TypeOK, JobKnown
<1>15. ASSUME NEW r \in Recordings, Requeue(r)
       PROVE  WellTyped'
    <2>1. row' \in [Recordings -> Row]
        <3>1. [row[r] EXCEPT !.status = "BOZZA_AUDIO", !.wait = 0,
                             !.duplicateOf = NoRow, !.retryCount = @ + 1] \in Row
            <4>1. row[r] \in Row /\ row[r].retryCount + 1 \in Nat
                BY <1>row DEF Row
            <4> QED
                BY <4>1 DEF Row
        <3> QED
            BY <3>1, <1>15, SetRow DEF Requeue
    <2> QED
        BY <2>1, <1>15, <1>0 DEF Requeue, TypeOK, JobKnown
<1>16. ASSUME NEW r \in Recordings, Remove(r)
       PROVE  WellTyped'
    <2>1. row' \in [Recordings -> Row] /\ card' \in [Recordings -> Card]
        BY <1>16, <1>0, NewRowType DEF Remove, Card
    <2> QED
        BY <2>1, <1>16, <1>0 DEF Remove, TypeOK, JobKnown
<1>17. CASE Tick
    <2> DEFINE Older(t) == [t EXCEPT
                    !.wait = IF @ > 0 THEN @ - 1 ELSE 0,
                    !.silence = IF t.status = "IN_ELABORAZIONE" /\ @ < SilenceCap
                                THEN @ + 1 ELSE @]
               Later(w) == IF At(w, "releasing")
                           THEN [worker[w] EXCEPT !.lag = @ + 1]
                           ELSE worker[w]
    <2>1. ASSUME NEW t \in Row
          PROVE  Older(t) \in Row
        <3>1. (IF t.wait > 0 THEN t.wait - 1 ELSE 0) \in Nat
            BY DEF Row
        <3>2. (IF t.status = "IN_ELABORAZIONE" /\ t.silence < SilenceCap
               THEN t.silence + 1 ELSE t.silence) \in 0 .. SilenceCap
            BY SilenceAssumption, CapsAssumption DEF Row, SilenceCap
        <3> QED
            BY <3>1, <3>2 DEF Row
    <2>2. row' = [r \in Recordings |-> Older(row[r])]
        BY <1>17 DEF Tick
    <2>3. row' \in [Recordings -> Row]
        <3> HIDE DEF Older
        <3> QED
            BY <2>1, <2>2, <1>row
    <2>4. ASSUME NEW w \in Workers
          PROVE  /\ Later(w) \in Worker
                 /\ Later(w).pc = worker[w].pc /\ Later(w).job = worker[w].job
        <3>1. worker[w].lag \in 0 .. MaxLag
            BY <1>rec DEF Worker
        <3>2. At(w, "releasing") => worker[w].lag < MaxLag
            BY <1>17 DEF Tick
        <3>3. At(w, "releasing") => worker[w].lag + 1 \in 0 .. MaxLag
            BY <3>1, <3>2, CapsAssumption
        <3> QED
            BY <3>3, <1>rec DEF Worker
    <2>5. worker' = [w \in Workers |-> Later(w)]
        BY <1>17 DEF Tick
    <2>6. worker' \in [Workers -> Worker] /\ JobKnown'
        <3> HIDE DEF Later
        <3> QED
            BY <2>4, <2>5 DEF JobKnown
    <2> QED
        BY <2>3, <2>6, <1>17, <1>0 DEF Tick, TypeOK
<1>18. CASE UNCHANGED vars
    BY <1>18 DEF vars, TypeOK, JobKnown
<1> QED
    BY <1>1, <1>2, <1>3, <1>4, <1>5, <1>6, <1>7, <1>8, <1>9, <1>10, <1>11,
       <1>12, <1>13, <1>14, <1>15, <1>16, <1>17, <1>18
       DEF Next, Poll, Process, User

\* Every reachable state of the table, the cards and the workers is well
\* typed, and no worker acts on a row that is not in the table.
THEOREM TypeCorrectness == Spec => []TypeOK
<1>1. Spec => []WellTyped
    BY WellTypedInit, WellTypedNext, PTL DEF Spec
<1>2. WellTyped => TypeOK
    BY DEF WellTyped
<1> QED
    BY <1>1, <1>2, PTL

(***************************************************************************)
(* Exclusive processing.  What shields the row of a worker from everybody  *)
(* else is its state and its silence: claim wants another state, so do     *)
(* /retry and DELETE, and recovery wants a longer silence.  A worker whose *)
(* COMMIT was acknowledged to nobody holds a row that is past all of them. *)
(***************************************************************************)

Shielded(r) ==
    \/ row[r].status = "IN_ELABORAZIONE" /\ row[r].silence <= MaxSilence
    \/ CommitMayBeLost /\ row[r].status \in {"ESTRATTO", "CANCELLATA"}

HeldRowIsShielded ==
    \A w \in Workers : \A r \in Recordings : HoldsRow(w, r) => Shielded(r)

Exclusive == WellTyped /\ OneWorkerPerRow /\ HeldRowIsShielded

\* A worker comes to hold a row in one way only.
LEMMA HoldsByClaiming ==
    ASSUME WellTyped, [Next]_vars, NEW v \in Workers, NEW r \in Recordings,
           HoldsRow(v, r)'
    PROVE  \/ HoldsRow(v, r)
           \/ Claim(v) /\ worker[v].job = r /\ row[r].status \in CLAIMABLE
<1> USE DEF HoldsRow, IsHolding, At
<1>0. worker \in [Workers -> Worker] /\ \A w \in Workers : worker[w] \in Worker
    BY DEF WellTyped, TypeOK
<1>1. CASE UNCHANGED worker
    BY <1>1
<1>2. ASSUME NEW w \in Workers, GoIdle(w)
      PROVE  HoldsRow(v, r)
    BY <1>0, <1>2 DEF GoIdle, Idle
<1>goto. ASSUME NEW w \in Workers, NEW pc \in Holding, IsHolding(w), Goto(w, pc)
         PROVE  HoldsRow(v, r)
    BY <1>0, <1>goto DEF Goto
<1>fail. ASSUME NEW w \in Workers, NEW failTo \in Backlog, IsHolding(w), Fail(w, failTo)
         PROVE  HoldsRow(v, r)
    BY <1>0, <1>fail DEF Fail
<1>5. ASSUME NEW w \in Workers, Poll(w), ~Claim(w)
      PROVE  HoldsRow(v, r)
    <2>1. CASE GoIdle(w)
        BY <2>1, <1>2
    <2>2. CASE FindStalled(w)
        BY <2>2, <1>0 DEF FindStalled
    <2>3. CASE ReleaseStalled(w)
        BY <2>3, <1>0 DEF ReleaseStalled
    <2>4. CASE FindNext(w) /\ ~GoIdle(w)
        BY <2>4, <1>0 DEF FindNext, Idle
    <2> QED
        BY <2>1, <2>2, <2>3, <2>4, <1>5 DEF Poll
<1>6. ASSUME NEW w \in Workers, Claim(w)
      PROVE  \/ HoldsRow(v, r)
             \/ Claim(v) /\ worker[v].job = r /\ row[r].status \in CLAIMABLE
    <2>1. CASE GoIdle(w)
        BY <2>1, <1>2
    <2>2. CASE ~GoIdle(w)
        <3>1. row[worker[w].job].status \in CLAIMABLE /\ Goto(w, "claimed")
            BY <2>2, <1>6 DEF Claim
        <3>2. CASE v = w
            BY <3>1, <3>2, <1>0, <1>6 DEF Goto
        <3>3. CASE v # w
            BY <3>1, <3>3, <1>0 DEF Goto
        <3> QED
            BY <3>2, <3>3
    <2> QED
        BY <2>1, <2>2
<1>7. ASSUME NEW w \in Workers, Process(w)
      PROVE  HoldsRow(v, r)
    <2>1. IsHolding(w)
        BY <1>7 DEF Process, Transcribe, SaveTranscript, SaveExtraction, StageThrows,
                    FindMostSimilar, MarkDuplicate, PersistProcedure, MarkFailed
    <2>2. \/ GoIdle(w)
          \/ \E pc \in Holding : Goto(w, pc)
          \/ \E failTo \in Backlog : Fail(w, failTo)
          \/ \E x : x.job = worker[w].job /\ worker' = [worker EXCEPT ![w] = x]
        BY <1>7, <1>0
        DEF Process, Transcribe, SaveTranscript, SaveExtraction, StageThrows,
            FindMostSimilar, MarkDuplicate, PersistProcedure, MarkFailed, Worker
    <2> QED
        BY <2>1, <2>2, <1>0, <1>2, <1>goto, <1>fail
<1>8. ASSUME Tick
      PROVE  HoldsRow(v, r)
    <2>1. worker'[v] = IF worker[v].pc = "releasing"
                       THEN [worker[v] EXCEPT !.lag = @ + 1] ELSE worker[v]
        BY <1>8 DEF Tick
    <2>2. worker'[v].pc = worker[v].pc /\ worker'[v].job = worker[v].job
        BY <2>1, <1>0 DEF Worker
    <2> QED
        BY <2>2
<1>9. ASSUME NEW q \in Recordings, User(q)
      PROVE  HoldsRow(v, r)
    BY <1>1, <1>9 DEF User, Create, Requeue, Remove
<1> QED
    BY <1>1, <1>2, <1>5, <1>6, <1>7, <1>8, <1>9 DEF Next, Crash, vars

\* Nobody but the worker that holds a row changes its state, and the worker
\* either lets go of it or leaves it in flight.
LEMMA ShieldHolds ==
    ASSUME Exclusive, [Next]_vars, NEW v \in Workers, NEW r \in Recordings,
           HoldsRow(v, r), HoldsRow(v, r)'
    PROVE  Shielded(r)'
<1> USE DEF HoldsRow, IsHolding, At
<1>0. /\ worker \in [Workers -> Worker] /\ row \in [Recordings -> Row]
      /\ row[r] \in Row
    BY DEF Exclusive, WellTyped, TypeOK
<1>s. Shielded(r) /\ row[r].status \notin CLAIMABLE \cup Requeueable
    BY DEF Exclusive, HeldRowIsShielded, Shielded
<1>only. \A w \in Workers : IsHolding(w) /\ worker[w].job = r => w = v
    BY DEF Exclusive, OneWorkerPerRow
<1>idle. \A w \in Workers : GoIdle(w) => w # v
    BY <1>0 DEF GoIdle, Idle
<1>frame. row'[r] = row[r] => Shielded(r)'
    BY <1>s DEF Shielded
<1>other. ASSUME NEW q, q # r, NEW x, row' = [row EXCEPT ![q] = x]
          PROVE  row'[r] = row[r]
    BY <1>0, <1>other
<1>touch. ASSUME row'[r].status = row[r].status, row'[r].silence = 0
          PROVE  Shielded(r)'
    BY <1>s, <1>touch, SilenceAssumption DEF Shielded
<1>1. ASSUME NEW w \in Workers, ReleaseStalled(w)
      PROVE  Shielded(r)'
    <2>1. PICK q \in worker[w].stalled :
            IF IsStalled(q, worker[w].lag)
            THEN WriteFailure(q, Interrotta(q, worker[w].lag))
            ELSE UNCHANGED row
        BY <1>1 DEF ReleaseStalled
    <2>2. worker[w].lag \in Nat /\ row[r].silence \in Nat
        BY <1>0, CapsAssumption, SilenceAssumption DEF Worker, Row, SilenceCap
    <2>3. ~IsStalled(r, worker[w].lag)
        BY <1>s, <2>2, SilenceAssumption DEF Shielded, IsStalled
    <2> QED
        BY <2>1, <2>3, <1>other, <1>frame DEF WriteFailure
<1>2. ASSUME NEW w \in Workers, Claim(w)
      PROVE  Shielded(r)'
    BY <1>2, <1>s, <1>other, <1>frame DEF Claim
<1>3. ASSUME NEW w \in Workers, SaveTranscript(w) \/ SaveExtraction(w)
      PROVE  Shielded(r)'
    <2>1. CASE worker[w].job # r
        BY <2>1, <1>3, <1>other, <1>frame DEF SaveTranscript, SaveExtraction
    <2>2. CASE worker[w].job = r
        <3> DEFINE heard == [row[r] EXCEPT !.transcript = TRUE, !.silence = 0]
                   asked == [row[r] EXCEPT !.silence = 0]
        <3>1. /\ heard.status = row[r].status /\ heard.silence = 0
              /\ asked.status = row[r].status /\ asked.silence = 0
            BY <1>0 DEF Row
        <3>2. \/ row' = [row EXCEPT ![r] = heard]
              \/ row' = [row EXCEPT ![r] = asked]
            BY <2>2, <1>3 DEF SaveTranscript, SaveExtraction
        <3> HIDE DEF heard, asked
        <3> QED
            BY <3>1, <3>2, <1>0, <1>touch
    <2> QED
        BY <2>1, <2>2
<1>4. ASSUME NEW w \in Workers, MarkDuplicate(w) \/ MarkFailed(w)
      PROVE  Shielded(r)'
    <2>1. worker[w].job # r
        BY <1>4, <1>only, <1>idle DEF MarkDuplicate, MarkFailed
    <2> QED
        BY <2>1, <1>4, <1>other, <1>frame DEF MarkDuplicate, MarkFailed, WriteFailure
<1>5. ASSUME NEW w \in Workers, PersistProcedure(w)
      PROVE  Shielded(r)'
    <2>1. CASE worker[w].job # r
        BY <2>1, <1>5, <1>other, <1>frame DEF PersistProcedure
    <2>2. CASE worker[w].job = r
        <3>1. CommitMayBeLost
            BY <2>2, <1>5, <1>only, <1>idle DEF PersistProcedure
        <3>2. row'[r].status = "ESTRATTO"
            BY <2>2, <1>0, <1>5 DEF PersistProcedure, Row
        <3> QED
            BY <3>1, <3>2 DEF Shielded
    <2> QED
        BY <2>1, <2>2
<1>6. ASSUME NEW q \in Recordings, User(q)
      PROVE  Shielded(r)'
    <2>1. CASE q # r
        BY <2>1, <1>6, <1>other, <1>frame DEF User, Create, Requeue, Remove
    <2>2. CASE q = r
        <3>1. Remove(r) /\ row[r].status = "ESTRATTO" /\ CommitMayBeLost
            BY <2>2, <1>6, <1>s DEF User, Create, Requeue, Remove, Shielded
        <3>2. row'[r].status = "CANCELLATA"
            BY <3>1, <1>0 DEF Remove, NewRow
        <3> QED
            BY <3>1, <3>2 DEF Shielded
    <2> QED
        BY <2>1, <2>2
<1>7. CASE Tick
    <2>1. /\ row'[r].status = row[r].status
          /\ row'[r].silence = IF row[r].status = "IN_ELABORAZIONE"
                                  /\ row[r].silence < SilenceCap
                               THEN row[r].silence + 1 ELSE row[r].silence
        BY <1>7, <1>0 DEF Tick, Row
    <2>2. row[r].silence < MaxSilence
        BY <1>7 DEF Tick
    <2>3. row[r].silence \in Nat
        BY <1>0, CapsAssumption, SilenceAssumption DEF Row, SilenceCap
    <2>4. row'[r].silence <= MaxSilence
        BY <2>1, <2>2, <2>3, SilenceAssumption
    <2> QED
        BY <2>1, <2>4, <1>s DEF Shielded
<1>8. ASSUME UNCHANGED row
      PROVE  Shielded(r)'
    BY <1>8, <1>frame
<1>9. ASSUME NEW w \in Workers,
             \/ FindStalled(w) \/ FindNext(w) \/ Transcribe(w)
             \/ FindMostSimilar(w) \/ StageThrows(w) \/ Crash(w)
      PROVE  Shielded(r)'
    BY <1>8, <1>9 DEF FindStalled, FindNext, Transcribe, FindMostSimilar, StageThrows, Crash
<1> QED
    BY <1>1, <1>2, <1>3, <1>4, <1>5, <1>6, <1>7, <1>8, <1>9
       DEF Next, Poll, Process, vars

LEMMA ExclusiveInit == Init => Exclusive
    BY WellTypedInit
    DEF Init, Exclusive, OneWorkerPerRow, HeldRowIsShielded, HoldsRow, IsHolding, Idle

LEMMA ExclusiveNext ==
    ASSUME Exclusive, [Next]_vars
    PROVE  Exclusive'
<1>0. WellTyped /\ WellTyped'
    BY WellTypedNext DEF Exclusive
<1>1. ASSUME NEW v \in Workers, NEW r \in Recordings,
             ~HoldsRow(v, r), HoldsRow(v, r)'
      PROVE  /\ \A w \in Workers : ~HoldsRow(w, r)
             /\ \A w \in Workers : HoldsRow(w, r)' => w = v
             /\ Shielded(r)'
    <2>1. Claim(v) /\ worker[v].job = r /\ row[r].status \in CLAIMABLE
        BY <1>0, <1>1, HoldsByClaiming
    <2>2. \A w \in Workers : ~HoldsRow(w, r)
        BY <2>1 DEF Exclusive, HeldRowIsShielded, Shielded
    <2>3. \A w \in Workers : w # v => worker'[w] = worker[w]
        BY <2>1, <1>0 DEF Claim, Goto, GoIdle, WellTyped, TypeOK
    <2>4. \A w \in Workers : HoldsRow(w, r)' => w = v
        BY <2>2, <2>3 DEF HoldsRow, IsHolding
    <2>5. row[r] \in Row /\ row \in [Recordings -> Row]
        BY <1>0 DEF WellTyped, TypeOK
    <2>6. row'[r].status = "IN_ELABORAZIONE" /\ row'[r].silence = 0
        <3> DEFINE x == [row[r] EXCEPT !.status = "IN_ELABORAZIONE", !.wait = 0,
                                       !.silence = 0]
        <3>1. x.status = "IN_ELABORAZIONE" /\ x.silence = 0
            BY <2>5 DEF Row
        <3>2. row' = [row EXCEPT ![r] = x]
            BY <2>1 DEF Claim
        <3> HIDE DEF x
        <3> QED
            BY <3>1, <3>2, <2>5
    <2>7. Shielded(r)'
        BY <2>6, SilenceAssumption DEF Shielded
    <2> QED
        BY <2>2, <2>4, <2>7
<1>2. OneWorkerPerRow'
    <2> SUFFICES ASSUME NEW v \in Workers, NEW w \in Workers, NEW r \in Recordings,
                        HoldsRow(v, r)', HoldsRow(w, r)'
                 PROVE  v = w
        BY DEF OneWorkerPerRow
    <2>1. CASE HoldsRow(v, r) /\ HoldsRow(w, r)
        BY <2>1 DEF Exclusive, OneWorkerPerRow
    <2>2. CASE ~HoldsRow(v, r) \/ ~HoldsRow(w, r)
        BY <2>2, <1>1
    <2> QED
        BY <2>1, <2>2
<1>3. HeldRowIsShielded'
    BY <1>1, ShieldHolds DEF HeldRowIsShielded
<1> QED
    BY <1>0, <1>2, <1>3 DEF Exclusive

\* However many replicas poll, die and recover each other's rows, a row is
\* processed by one worker at a time.
THEOREM ExclusiveProcessing == Spec => []OneWorkerPerRow
<1>1. Spec => []Exclusive
    BY ExclusiveInit, ExclusiveNext, PTL DEF Spec
<1>2. Exclusive => OneWorkerPerRow
    BY DEF Exclusive
<1> QED
    BY <1>1, <1>2, PTL

\* A worker that lets go of its row has nothing left of it.
LEMMA LetsGo ==
    ASSUME WellTyped, [Next]_vars, NEW v \in Workers, NEW r \in Recordings,
           HoldsRow(v, r), ~HoldsRow(v, r)'
    PROVE  worker'[v] = Idle
<1> USE DEF HoldsRow, IsHolding, At
<1>0. worker \in [Workers -> Worker] /\ \A w \in Workers : worker[w] \in Worker
    BY DEF WellTyped, TypeOK
<1>1. ASSUME NEW w \in Workers, GoIdle(w)
      PROVE  worker'[v] = Idle
    BY <1>0, <1>1 DEF GoIdle
<1>2. ASSUME NEW w \in Workers, NEW pc \in Holding, Goto(w, pc)
      PROVE  worker'[v] = Idle
    BY <1>0, <1>2 DEF Goto
<1>3. ASSUME NEW w \in Workers, NEW failTo \in Backlog, Fail(w, failTo)
      PROVE  worker'[v] = Idle
    BY <1>0, <1>3 DEF Fail
<1>4. ASSUME NEW w \in Workers, NEW x \in Worker, x.job = worker[w].job,
             x.pc \in Holding, worker' = [worker EXCEPT ![w] = x]
      PROVE  worker'[v] = Idle
    BY <1>0, <1>4
<1>5. ASSUME NEW w \in Workers, worker[w].pc \notin Holding,
             NEW x, worker' = [worker EXCEPT ![w] = x]
      PROVE  worker'[v] = Idle
    BY <1>0, <1>5
<1>6. ASSUME NEW w \in Workers, Poll(w)
      PROVE  worker'[v] = Idle
    BY <1>1, <1>5, <1>6 DEF Poll, FindStalled, ReleaseStalled, FindNext, Claim, Goto
<1>7. ASSUME NEW w \in Workers, Process(w)
      PROVE  worker'[v] = Idle
    <2>1. \/ GoIdle(w)
          \/ \E pc \in Holding : Goto(w, pc)
          \/ \E failTo \in Backlog : Fail(w, failTo)
          \/ \E x : /\ x.job = worker[w].job /\ x.pc \in Holding
                    /\ worker' = [worker EXCEPT ![w] = x]
        BY <1>7, <1>0
        DEF Process, Transcribe, SaveTranscript, SaveExtraction, StageThrows,
            FindMostSimilar, MarkDuplicate, PersistProcedure, MarkFailed, Worker
    <2> QED
        BY <2>1, <1>0, <1>1, <1>2, <1>3
<1>8. ASSUME Tick
      PROVE  FALSE
    <2>1. worker'[v] = IF worker[v].pc = "releasing"
                       THEN [worker[v] EXCEPT !.lag = @ + 1] ELSE worker[v]
        BY <1>8 DEF Tick
    <2> QED
        BY <2>1, <1>0 DEF Worker
<1>9. ASSUME UNCHANGED worker
      PROVE  FALSE
    BY <1>9
<1> QED
    BY <1>1, <1>6, <1>7, <1>8, <1>9
       DEF Next, Crash, User, Create, Requeue, Remove, vars

\* Recovery never takes a row from a live worker, at any pace of the clock the
\* timeouts allow.
THEOREM RecoverySafe == Spec => RecoveryIsNotTheft
<1>1. Spec => []Exclusive
    BY ExclusiveInit, ExclusiveNext, PTL DEF Spec
<1>2. ASSUME Exclusive, [Next]_vars, NEW r \in Recordings, NEW w \in Workers,
             HoldsRow(w, r), row'[r].status \in Backlog
      PROVE  worker'[w] = Idle
    <2>1. ~Shielded(r)'
        BY <1>2 DEF Shielded
    <2>2. ~HoldsRow(w, r)'
        BY <2>1, <1>2, ShieldHolds
    <2> QED
        BY <2>2, <1>2, LetsGo DEF Exclusive
<1>3. Exclusive /\ [Next]_vars
      => [\A r \in Recordings : \A w \in Workers :
            /\ HoldsRow(w, r)
            /\ row[r].status = "IN_ELABORAZIONE"
            /\ row'[r].status \in Backlog
            => worker'[w] = Idle]_vars
    BY <1>2
<1> QED
    BY <1>1, <1>3, PTL DEF Spec, RecoveryIsNotTheft

(***************************************************************************)
(* One card per recording, and the lifecycle.  Every step is one of three: *)
(* it leaves the states alone, it moves one row along a legal transition,  *)
(* or it publishes the card of a row in flight.                            *)
(***************************************************************************)

BecomesOnly(r, to) ==
    \A q \in Recordings : row'[q].status = IF q = r THEN to ELSE row[q].status

Legal(from, to) ==
    \/ from = "NON_CARICATA" /\ to = "BOZZA_AUDIO"
    \/ from \in CLAIMABLE /\ to = "IN_ELABORAZIONE"
    \/ from = "IN_ELABORAZIONE" /\ to \in Backlog \cup {"DUPLICATO_SOSPETTO"}
    \/ from \in Requeueable /\ to = "BOZZA_AUDIO"
    \/ from \in Stored \ {"IN_ELABORAZIONE"} /\ to = "CANCELLATA"

Still == born' = born /\ \A r \in Recordings : row'[r].status = row[r].status
Moves(r, to) == born' = born /\ Legal(row[r].status, to) /\ BecomesOnly(r, to)
Publishes(r) ==
    /\ row[r].status = "IN_ELABORAZIONE"
    /\ BecomesOnly(r, "ESTRATTO")
    /\ born' = [born EXCEPT ![r] = @ + 1]

LEMMA Effect ==
    ASSUME Exclusive, ~CommitMayBeLost, [Next]_vars
    PROVE  \/ Still
           \/ \E r \in Recordings, to \in Stored \cup NotStored : Moves(r, to)
           \/ \E r \in Recordings : Publishes(r)
<1> DEFINE Goal == \/ Still
                   \/ \E r \in Recordings, to \in Stored \cup NotStored : Moves(r, to)
                   \/ \E r \in Recordings : Publishes(r)
<1>0. /\ row \in [Recordings -> Row] /\ worker \in [Workers -> Worker]
      /\ \A r \in Recordings : row[r] \in Row
      /\ \A w \in Workers : worker[w] \in Worker
    BY DEF Exclusive, WellTyped, TypeOK
<1>job. ASSUME NEW w \in Workers, worker[w].pc \in Holding
        PROVE  /\ worker[w].job \in Recordings
               /\ row[worker[w].job].status = "IN_ELABORAZIONE"
    BY <1>job DEF Exclusive, WellTyped, JobKnown, HeldRowIsShielded, Shielded,
                  HoldsRow, IsHolding
<1>set. ASSUME NEW r \in Recordings, NEW x, row' = [row EXCEPT ![r] = x]
        PROVE  BecomesOnly(r, x.status)
    BY <1>0, <1>set DEF BecomesOnly
<1>same. ASSUME NEW r \in Recordings, BecomesOnly(r, row[r].status), born' = born
         PROVE  Goal
    BY <1>same DEF BecomesOnly, Still
<1>fails. ASSUME NEW r \in Recordings, row[r].status = "IN_ELABORAZIONE",
                 NEW o, o.status \in Backlog, WriteFailure(r, o), born' = born
          PROVE  Goal
    <2> DEFINE x == [row[r] EXCEPT !.status = o.status, !.wait = o.wait,
                                   !.retryCount = @ + 1, !.silence = 0]
    <2>1. x.status = o.status
        BY <1>0 DEF Row
    <2>2. row' = [row EXCEPT ![r] = x]
        BY <1>fails DEF WriteFailure
    <2> HIDE DEF x
    <2>3. Moves(r, o.status)
        BY <2>1, <2>2, <1>set, <1>fails DEF Moves, Legal
    <2> QED
        BY <2>3, <1>fails
<1>1. ASSUME row' = row, born' = born
      PROVE  Goal
    BY <1>1 DEF Still
<1>2. ASSUME NEW w \in Workers, ReleaseStalled(w)
      PROVE  Goal
    <2>1. PICK r \in worker[w].stalled :
            IF IsStalled(r, worker[w].lag)
            THEN WriteFailure(r, Interrotta(r, worker[w].lag))
            ELSE UNCHANGED row
        BY <1>2 DEF ReleaseStalled
    <2>2. r \in Recordings /\ worker[w].lag \in Nat
        BY <1>0, CapsAssumption DEF Worker
    <2>3. Interrotta(r, worker[w].lag).status \in Backlog
        BY <2>2, InterrottaType DEF Exclusive, WellTyped
    <2> QED
        BY <2>1, <2>2, <2>3, <1>fails, <1>1, <1>2 DEF ReleaseStalled, IsStalled
<1>3. ASSUME NEW w \in Workers, Claim(w)
      PROVE  Goal
    <2>1. CASE UNCHANGED row
        BY <2>1, <1>1, <1>3 DEF Claim
    <2>2. CASE ~UNCHANGED row
        <3> DEFINE r == worker[w].job
                   x == [row[r] EXCEPT !.status = "IN_ELABORAZIONE", !.wait = 0,
                                       !.silence = 0]
        <3>1. row[r].status \in CLAIMABLE /\ row' = [row EXCEPT ![r] = x]
            BY <2>2, <1>3 DEF Claim
        <3>2. r \in Recordings /\ x.status = "IN_ELABORAZIONE"
            BY <1>0, <1>3 DEF Claim, At, Exclusive, WellTyped, JobKnown, Row
        <3> HIDE DEF x
        <3>3. Moves(r, "IN_ELABORAZIONE")
            <4>1. born' = born
                BY <1>3 DEF Claim
            <4>2. BecomesOnly(r, "IN_ELABORAZIONE")
                BY <3>1, <3>2, <1>set
            <4>3. Legal(row[r].status, "IN_ELABORAZIONE")
                BY <3>1 DEF Legal
            <4> QED
                BY <4>1, <4>2, <4>3 DEF Moves
        <3> QED
            BY <3>2, <3>3
    <2> QED
        BY <2>1, <2>2
<1>4. ASSUME NEW w \in Workers, SaveTranscript(w) \/ SaveExtraction(w)
      PROVE  Goal
    <2> DEFINE r == worker[w].job
               heard == [row[r] EXCEPT !.transcript = TRUE, !.silence = 0]
               asked == [row[r] EXCEPT !.silence = 0]
    <2>1. r \in Recordings
        BY <1>4, <1>job DEF SaveTranscript, SaveExtraction, At
    <2>2. heard.status = row[r].status /\ asked.status = row[r].status
        BY <2>1, <1>0 DEF Row
    <2>3. /\ born' = born
          /\ row' = [row EXCEPT ![r] = heard] \/ row' = [row EXCEPT ![r] = asked]
        BY <1>4 DEF SaveTranscript, SaveExtraction
    <2> HIDE DEF heard, asked
    <2>4. BecomesOnly(r, row[r].status)
        BY <2>1, <2>2, <2>3, <1>set
    <2> QED
        BY <2>1, <2>3, <2>4, <1>same
<1>5. ASSUME NEW w \in Workers, MarkDuplicate(w)
      PROVE  Goal
    <2> DEFINE r == worker[w].job
               x == [row[r] EXCEPT !.status = "DUPLICATO_SOSPETTO",
                                   !.duplicateOf = worker[w].twin, !.silence = 0]
    <2>1. r \in Recordings /\ row[r].status = "IN_ELABORAZIONE"
        BY <1>5, <1>job DEF MarkDuplicate, At
    <2>2. row' = [row EXCEPT ![r] = x] /\ born' = born
        BY <1>5 DEF MarkDuplicate
    <2>3. x.status = "DUPLICATO_SOSPETTO"
        BY <2>1, <1>0 DEF Row
    <2> HIDE DEF x
    <2>4. Moves(r, "DUPLICATO_SOSPETTO")
        BY <2>1, <2>2, <2>3, <1>set DEF Moves, Legal
    <2> QED
        BY <2>1, <2>4
<1>6. ASSUME NEW w \in Workers, PersistProcedure(w)
      PROVE  Goal
    <2> DEFINE r == worker[w].job
               x == [row[r] EXCEPT !.status = "ESTRATTO", !.silence = 0]
    <2>1. r \in Recordings /\ row[r].status = "IN_ELABORAZIONE"
        BY <1>6, <1>job DEF PersistProcedure, At
    <2>2. row' = [row EXCEPT ![r] = x] /\ born' = [born EXCEPT ![r] = @ + 1]
        BY <1>6 DEF PersistProcedure
    <2>3. x.status = "ESTRATTO"
        BY <2>1, <1>0 DEF Row
    <2> HIDE DEF x
    <2>4. Publishes(r)
        BY <2>1, <2>2, <2>3, <1>set DEF Publishes
    <2> QED
        BY <2>1, <2>4
<1>7. ASSUME NEW w \in Workers, MarkFailed(w)
      PROVE  Goal
    <2>1. /\ worker[w].job \in Recordings
          /\ row[worker[w].job].status = "IN_ELABORAZIONE"
        BY <1>7, <1>job DEF MarkFailed, At
    <2>2. Ricaduta(worker[w].retryCount, worker[w].failTo).status \in Backlog
        BY <1>0, RicadutaType DEF Worker
    <2> QED
        BY <2>1, <2>2, <1>7, <1>fails, <1>1 DEF MarkFailed
<1>8. ASSUME NEW r \in Recordings, Create(r) \/ Remove(r)
      PROVE  Goal
    <2>1. /\ NewRow("BOZZA_AUDIO").status = "BOZZA_AUDIO"
          /\ NewRow("CANCELLATA").status = "CANCELLATA"
        BY DEF NewRow
    <2>2. Moves(r, "BOZZA_AUDIO") \/ Moves(r, "CANCELLATA")
        BY <2>1, <1>8, <1>set DEF Create, Remove, Moves, Legal
    <2> QED
        BY <2>2
<1>9. ASSUME NEW r \in Recordings, Requeue(r)
      PROVE  Goal
    <2> DEFINE x == [row[r] EXCEPT !.status = "BOZZA_AUDIO", !.wait = 0,
                                   !.duplicateOf = NoRow, !.retryCount = @ + 1]
    <2>1. x.status = "BOZZA_AUDIO"
        BY <1>0 DEF Row
    <2>2. row' = [row EXCEPT ![r] = x] /\ born' = born /\ row[r].status \in Requeueable
        BY <1>9 DEF Requeue
    <2> HIDE DEF x
    <2>3. Moves(r, "BOZZA_AUDIO")
        BY <2>1, <2>2, <1>set DEF Moves, Legal
    <2> QED
        BY <2>3
<1>10. ASSUME Tick
       PROVE  Goal
    <2>1. \A r \in Recordings : row'[r].status = row[r].status
        BY <1>10, <1>0 DEF Tick, Row
    <2> QED
        BY <2>1, <1>10 DEF Tick, Still
<1>11. ASSUME NEW w \in Workers,
              \/ FindStalled(w) \/ FindNext(w) \/ Transcribe(w)
              \/ FindMostSimilar(w) \/ StageThrows(w) \/ Crash(w)
       PROVE  Goal
    BY <1>1, <1>11
    DEF FindStalled, FindNext, Transcribe, FindMostSimilar, StageThrows, Crash
<1> HIDE DEF Goal
<1>12. Goal
    BY <1>1, <1>2, <1>3, <1>4, <1>5, <1>6, <1>7, <1>8, <1>9, <1>10, <1>11
       DEF Next, Poll, Process, User, vars
<1> QED
    BY <1>12 DEF Goal

\* What is known of the cards when no COMMIT gets lost.
NoCardYet == \A r \in Recordings : row[r].status = "NON_CARICATA" => born[r] = 0
Published == NoCardYet /\ OneCardPerRecording /\ CardIffExtracted

LEMMA PublishedInit == Init => Published
    BY DEF Init, Published, NoCardYet, OneCardPerRecording, CardIffExtracted,
           IsStored, NewRow

LEMMA PublishedNext ==
    ASSUME Exclusive, Published, ~CommitMayBeLost, [Next]_vars
    PROVE  Published'
<1> USE DEF Published, NoCardYet, OneCardPerRecording, CardIffExtracted, IsStored
<1>0. /\ born \in [Recordings -> Nat]
      /\ \A r \in Recordings : row[r].status \in Stored \cup NotStored
    BY DEF Exclusive, WellTyped, TypeOK, Row
<1>1. CASE Still
    BY <1>1 DEF Still
<1>2. ASSUME NEW r \in Recordings, NEW to \in Stored \cup NotStored, Moves(r, to)
      PROVE  Published'
    <2>1. \A q \in Recordings : row'[q].status = IF q = r THEN to ELSE row[q].status
        BY <1>2 DEF Moves, BecomesOnly
    <2>2. born' = born /\ Legal(row[r].status, to)
        BY <1>2 DEF Moves
    <2>3. /\ to # "NON_CARICATA"
          /\ to \in Stored => born[r] = 0 /\ to # "ESTRATTO"
        BY <2>2, <1>0 DEF Legal
    <2> QED
        BY <2>1, <2>2, <2>3, <1>0
<1>3. ASSUME NEW r \in Recordings, Publishes(r)
      PROVE  Published'
    <2>1. \A q \in Recordings :
            row'[q].status = IF q = r THEN "ESTRATTO" ELSE row[q].status
        BY <1>3 DEF Publishes, BecomesOnly
    <2>2. born[r] = 0
        BY <1>3, <1>0 DEF Publishes
    <2>3. \A q \in Recordings : born'[q] = IF q = r THEN 1 ELSE born[q]
        BY <1>3, <1>0, <2>2 DEF Publishes
    <2> QED
        BY <2>1, <2>3, <1>0
<1> QED
    BY <1>1, <1>2, <1>3, Effect

LEMMA PublishedAlways == ASSUME ~CommitMayBeLost PROVE Spec => [](Exclusive /\ Published)
<1>1. Init => Exclusive /\ Published
    BY ExclusiveInit, PublishedInit
<1>2. Exclusive /\ Published /\ [Next]_vars => (Exclusive /\ Published)'
    BY ExclusiveNext, PublishedNext
<1> QED
    BY <1>1, <1>2, PTL DEF Spec

\* A recording never produces two cards, whatever fails and is retried, as long
\* as a COMMIT that succeeded is known to have succeeded.
THEOREM AtMostOneCard == ASSUME ~CommitMayBeLost PROVE Spec => []OneCardPerRecording
<1>1. Exclusive /\ Published => OneCardPerRecording
    BY DEF Published
<1> QED
    BY <1>1, PublishedAlways, PTL

\* A failed attempt leaves no card behind, and a finished one always has one.
THEOREM NoHalfCard == ASSUME ~CommitMayBeLost PROVE Spec => []CardIffExtracted
<1>1. Exclusive /\ Published => CardIffExtracted
    BY DEF Published
<1> QED
    BY <1>1, PublishedAlways, PTL

\* What a worker holds is in flight and below the threshold of the recovery.
THEOREM HeldInFlight == ASSUME ~CommitMayBeLost PROVE Spec => []HeldRowIsInFlight
<1>1. Exclusive => HeldRowIsInFlight
    BY DEF Exclusive, HeldRowIsShielded, Shielded, HeldRowIsInFlight
<1>2. Spec => []Exclusive
    BY ExclusiveInit, ExclusiveNext, PTL DEF Spec
<1> QED
    BY <1>1, <1>2, PTL

\* The pipeline implements the lifecycle of a recording.
THEOREM Refinement == ASSUME ~CommitMayBeLost PROVE Spec => ImplementsLifecycle
<1> DEFINE phase == [r \in Recordings |-> PhaseOf(row[r].status)]
<1> USE DEF Lifecycle!Move
<1>1. Init => Lifecycle!LifecycleInit
    BY DEF Init, NewRow, PhaseOf, Lifecycle!LifecycleInit
<1>2. ASSUME Exclusive, Published, [Next]_vars
      PROVE  [Lifecycle!LifecycleNext]_(Lifecycle!lifecycleVars)
    <2>0. /\ \A r \in Recordings : row[r].status \in Stored \cup NotStored
          /\ born \in [Recordings -> Nat]
        BY <1>2 DEF Exclusive, WellTyped, TypeOK, Row
    <2>1. CASE Still
        BY <2>1 DEF Still, Lifecycle!lifecycleVars
    <2>2. ASSUME NEW r \in Recordings, NEW to, BecomesOnly(r, to)
          PROVE  phase' = [phase EXCEPT ![r] = PhaseOf(to)]
        BY <2>2 DEF BecomesOnly
    <2>3. ASSUME NEW r \in Recordings, NEW to \in Stored \cup NotStored, Moves(r, to)
          PROVE  [Lifecycle!LifecycleNext]_(Lifecycle!lifecycleVars)
        <3>1. phase' = [phase EXCEPT ![r] = PhaseOf(to)] /\ born' = born
            BY <2>2, <2>3 DEF Moves
        <3>2. Legal(row[r].status, to)
            BY <2>3 DEF Moves
        <3>3. CASE phase' = phase
            BY <3>1, <3>3 DEF Lifecycle!lifecycleVars
        <3>4. CASE phase' # phase
            <4>0. phase[r] = PhaseOf(row[r].status)
                OBVIOUS
            <4> HIDE DEF phase
            <4>1. CASE row[r].status = "NON_CARICATA" /\ to = "BOZZA_AUDIO"
                <5>1. phase[r] = "absent" /\ PhaseOf(to) = "queued"
                    BY <4>0, <4>1 DEF PhaseOf
                <5> QED
                    BY <5>1, <3>1 DEF phase, Lifecycle!Enter, Lifecycle!LifecycleNext
            <4>2. CASE row[r].status \in CLAIMABLE /\ to = "IN_ELABORAZIONE"
                <5>1. phase[r] \in {"queued", "parked"} /\ PhaseOf(to) = "working"
                    BY <4>0, <4>2 DEF PhaseOf
                <5> QED
                    BY <5>1, <3>1 DEF phase, Lifecycle!Take, Lifecycle!LifecycleNext
            <4>3. CASE /\ row[r].status = "IN_ELABORAZIONE"
                       /\ to \in Backlog \cup {"DUPLICATO_SOSPETTO"}
                <5>1. phase[r] = "working" /\ PhaseOf(to) \in {"queued", "parked", "suspect"}
                    BY <4>0, <4>3 DEF PhaseOf
                <5> QED
                    BY <5>1, <3>1 DEF phase, Lifecycle!GiveBack, Lifecycle!LifecycleNext
            <4>4. CASE row[r].status \in Requeueable /\ to = "BOZZA_AUDIO"
                <5>1. /\ phase[r] \in {"queued", "parked", "suspect"}
                      /\ PhaseOf(to) = "queued"
                    BY <4>0, <4>4 DEF PhaseOf
                <5>2. phase[r] # "queued"
                    BY <5>1, <3>1, <3>4 DEF phase
                <5> QED
                    BY <5>1, <5>2, <3>1 DEF phase, Lifecycle!Reopen, Lifecycle!LifecycleNext
            <4>5. CASE row[r].status \in Stored \ {"IN_ELABORAZIONE"} /\ to = "CANCELLATA"
                <5>1. /\ phase[r] \in {"queued", "parked", "suspect", "published"}
                      /\ PhaseOf(to) = "erased"
                    BY <4>0, <4>5 DEF PhaseOf
                <5> QED
                    BY <5>1, <3>1 DEF phase, Lifecycle!Erase, Lifecycle!LifecycleNext
            <4> QED
                BY <3>2, <4>1, <4>2, <4>3, <4>4, <4>5 DEF Legal
        <3> QED
            BY <3>3, <3>4
    <2>4. ASSUME NEW r \in Recordings, Publishes(r)
          PROVE  [Lifecycle!LifecycleNext]_(Lifecycle!lifecycleVars)
        <3>1. phase' = [phase EXCEPT ![r] = PhaseOf("ESTRATTO")]
            BY <2>2, <2>4 DEF Publishes
        <3>2. born[r] = 0
            BY <2>0, <2>4, <1>2 DEF Publishes, Published, CardIffExtracted, IsStored
        <3>3. born' = [born EXCEPT ![r] = 1]
            BY <2>0, <2>4, <3>2 DEF Publishes
        <3>4. phase[r] = "working" /\ PhaseOf("ESTRATTO") = "published"
            BY <2>4 DEF Publishes, PhaseOf
        <3>5. Lifecycle!Publish(r)
            BY <3>1, <3>2, <3>3, <3>4 DEF Lifecycle!Publish
        <3> QED
            BY <3>5 DEF Lifecycle!LifecycleNext
    <2> QED
        BY <2>1, <2>3, <2>4, <1>2, Effect
<1>3. Exclusive /\ Published /\ [Next]_vars
      => [Lifecycle!LifecycleNext]_(Lifecycle!lifecycleVars)
    BY <1>2
<1> QED
    BY <1>1, <1>3, PublishedAlways, PTL
       DEF Spec, ImplementsLifecycle, Lifecycle!LifecycleSpec

(***************************************************************************)
(* One worker leaves no twins.                                             *)
(***************************************************************************)

\* Similarity is a distance: it does not say which came first.  The search and
\* the transaction are two accesses, and nothing but the absence of another
\* worker keeps a twin from being published between them.
OnlyWorker == \A v, w \in Workers : v = w
SimilarIsMutual == \A r, q \in Recordings : <<r, q>> \in Similar => <<q, r>> \in Similar

\* What the search found out still holds when the card is written.
SearchHolds ==
    \A w \in Workers : \A q \in Recordings :
        /\ At(w, "persisting")
        /\ <<worker[w].job, q>> \in Similar
        => card[q] # "viva"

NoTwins == WellTyped /\ NoTwinCards /\ SearchHolds

\* A card goes live only in the transaction of a worker, and a worker comes to that
\* transaction only from a search that found nothing.
LEMMA CardsByPublication ==
    ASSUME WellTyped, [Next]_vars
    PROVE  \/ \A q \in Recordings : card'[q] = "viva" => card[q] = "viva"
           \/ \E w \in Workers : PersistProcedure(w)
<1>1. ASSUME NEW r \in Recordings, Remove(r)
      PROVE  \A q \in Recordings : card'[q] = "viva" => card[q] = "viva"
    BY <1>1 DEF Remove, WellTyped, TypeOK
<1> QED
    BY <1>1 DEF Next, vars, Poll, Process, FindStalled, ReleaseStalled, FindNext, Claim,
       Transcribe, SaveTranscript, SaveExtraction, FindMostSimilar, MarkDuplicate,
       StageThrows, MarkFailed, Crash, User, Create, Requeue, Tick

LEMMA PersistingBySearch ==
    ASSUME WellTyped, [Next]_vars, NEW v \in Workers, At(v, "persisting")'
    PROVE  /\ worker'[v].job = worker[v].job
           /\ \/ At(v, "persisting")
              \/ FindMostSimilar(v) /\ SimilarCards(worker[v].job) = {}
<1> DEFINE Goal == /\ worker'[v].job = worker[v].job
                   /\ \/ At(v, "persisting")
                      \/ FindMostSimilar(v) /\ SimilarCards(worker[v].job) = {}
<1>0. worker \in [Workers -> Worker] /\ \A w \in Workers : worker[w] \in Worker
    BY DEF WellTyped, TypeOK
<1>1. ASSUME NEW w \in Workers, NEW x, x.pc # "persisting",
             worker' = [worker EXCEPT ![w] = x]
      PROVE  Goal
    BY <1>0, <1>1 DEF At
<1>2. ASSUME NEW w \in Workers, GoIdle(w) PROVE Goal
    BY <1>1, <1>2 DEF GoIdle, Idle
<1>3. ASSUME NEW w \in Workers, NEW failTo, Fail(w, failTo) PROVE Goal
    <2> DEFINE x == [worker[w] EXCEPT !.pc = "failing", !.failTo = failTo]
    <2>1. x.pc = "failing" /\ worker' = [worker EXCEPT ![w] = x]
        BY <1>0, <1>3 DEF Fail, Worker
    <2> HIDE DEF x
    <2> QED
        BY <1>1, <2>1
<1>4. ASSUME NEW w \in Workers, NEW pc, pc # "persisting", Goto(w, pc) PROVE Goal
    <2> DEFINE x == [worker[w] EXCEPT !.pc = pc]
    <2>1. x.pc = pc /\ worker' = [worker EXCEPT ![w] = x]
        BY <1>0, <1>4 DEF Goto, Worker
    <2> HIDE DEF x
    <2> QED
        BY <1>1, <1>4, <2>1
<1>5. ASSUME NEW w \in Workers, Poll(w) PROVE Goal
    <2>1. \/ GoIdle(w) \/ Goto(w, "claimed")
          \/ \E x : x.pc # "persisting" /\ worker' = [worker EXCEPT ![w] = x]
        BY <1>0, <1>5 DEF Poll, FindStalled, ReleaseStalled, FindNext, Claim, At, Worker, Idle
    <2> QED
        BY <2>1, <1>1, <1>2, <1>4
<1>6. ASSUME NEW w \in Workers, FindMostSimilar(w) PROVE Goal
    <2>1. CASE SimilarCards(worker[w].job) = {} /\ Goto(w, "persisting")
        BY <1>0, <1>6, <2>1 DEF Goto, At, Worker
    <2>2. ASSUME NEW q, worker' = [worker EXCEPT ![w] =
                    [worker[w] EXCEPT !.pc = "duplicate", !.twin = q]]
          PROVE  Goal
        <3> DEFINE x == [worker[w] EXCEPT !.pc = "duplicate", !.twin = q]
        <3>1. x.pc = "duplicate" /\ worker' = [worker EXCEPT ![w] = x]
            BY <1>0, <2>2 DEF Worker
        <3> HIDE DEF x
        <3> QED
            BY <1>1, <3>1
    <2> QED
        BY <1>6, <2>1, <2>2 DEF FindMostSimilar
<1>7. ASSUME NEW w \in Workers, Process(w) PROVE Goal
    <2>1. \/ GoIdle(w) \/ FindMostSimilar(w) \/ Goto(w, "matching")
          \/ \E failTo : Fail(w, failTo)
          \/ \E x : x.pc # "persisting" /\ worker' = [worker EXCEPT ![w] = x]
        BY <1>0, <1>7
        DEF Process, Transcribe, SaveTranscript, SaveExtraction, StageThrows,
            MarkDuplicate, PersistProcedure, MarkFailed, At, Worker
    <2> QED
        BY <2>1, <1>1, <1>2, <1>3, <1>4, <1>6
<1>8. ASSUME Tick PROVE Goal
    <2>1. worker'[v] = IF worker[v].pc = "releasing"
                       THEN [worker[v] EXCEPT !.lag = @ + 1] ELSE worker[v]
        BY <1>8 DEF Tick, At
    <2> QED
        BY <2>1, <1>0 DEF Worker, At
<1>9. ASSUME UNCHANGED worker PROVE Goal
    BY <1>9 DEF At
<1> QED
    BY <1>2, <1>5, <1>7, <1>8, <1>9 DEF Next, Crash, User, Create, Requeue, Remove, vars

\* Two recordings of the same thing do not both end as live cards, while one worker
\* empties the queue: it searches and publishes with nobody in between.
THEOREM OneWorkerLeavesNoTwins ==
    ASSUME OnlyWorker, SimilarIsMutual
    PROVE  Spec => []NoTwinCards
<1>1. Init => NoTwins
    BY WellTypedInit DEF Init, NoTwins, NoTwinCards, SearchHolds, At, Idle
<1>2. ASSUME NoTwins, [Next]_vars PROVE NoTwins'
    <2>0. WellTyped /\ WellTyped' /\ worker \in [Workers -> Worker]
        BY <1>2, WellTypedNext DEF NoTwins, WellTyped, TypeOK
    <2>1. CASE \A q \in Recordings : card'[q] = "viva" => card[q] = "viva"
        <3>1. NoTwinCards'
            BY <1>2, <2>1 DEF NoTwins, NoTwinCards
        <3>2. ASSUME NEW w \in Workers, At(w, "persisting")', NEW q \in Recordings,
                     <<worker'[w].job, q>> \in Similar
              PROVE  card'[q] # "viva"
            <4>1. card[q] # "viva"
                BY <1>2, <2>0, <3>2, PersistingBySearch
                   DEF NoTwins, SearchHolds, SimilarCards
            <4> QED
                BY <2>1, <4>1
        <3> QED
            BY <2>0, <3>1, <3>2 DEF NoTwins, SearchHolds
    <2>2. ASSUME NEW w \in Workers, PersistProcedure(w) PROVE NoTwins'
        <3> DEFINE r == worker[w].job
        <3>1. At(w, "persisting") /\ r \in Recordings
            BY <2>0, <2>2 DEF PersistProcedure, WellTyped, JobKnown, At
        <3>2. \A q \in Recordings : card'[q] = "viva" => q = r \/ card[q] = "viva"
            BY <2>0, <2>2 DEF PersistProcedure, WellTyped, TypeOK
        <3>3. \A q \in Recordings :
                <<r, q>> \in Similar \/ <<q, r>> \in Similar => card[q] # "viva"
            BY <1>2, <3>1 DEF NoTwins, SearchHolds, SimilarIsMutual
        <3>4. NoTwinCards'
            BY <1>2, <3>2, <3>3 DEF NoTwins, NoTwinCards
        <3>5. ~At(w, "persisting")'
            <4>1. worker'[w] = Idle \/ worker'[w].pc = "failing"
                BY <2>0, <2>2 DEF PersistProcedure, GoIdle, Fail, Worker
            <4> QED
                BY <4>1 DEF At, Idle
        <3>6. SearchHolds'
            BY <3>5 DEF SearchHolds, OnlyWorker
        <3> QED
            BY <2>0, <3>4, <3>6 DEF NoTwins
    <2> QED
        BY <1>2, <2>0, <2>1, <2>2, CardsByPublication
<1>3. NoTwins => NoTwinCards
    BY DEF NoTwins
<1>4. NoTwins /\ [Next]_vars => NoTwins'
    BY <1>2
<1> QED
    BY <1>1, <1>3, <1>4, PTL DEF Spec

------------------------------------------------------------------------------
(***************************************************************************)
(* CardTrash.                                                              *)
(***************************************************************************)

\* A recording that has a card was uploaded and published.
CardsWereBorn ==
    \A q \in Recordings : card[q] # "nessuna" =>
        born[q] > 0 /\ row[q].status # "NON_CARICATA"

\* What a deletion has read of its own card: while the recording the card was
\* born from is there, it is in the list of the ones to delete.
PurgeKnowsItsRow ==
    \A q \in Recordings : purge[q].open =>
        card[q] # "nessuna" /\ (IsStored(q) => q \in purge[q].nati)

TrashInv ==
    /\ WellTyped /\ TrashTypeOK
    /\ CardsWereBorn /\ PurgeKnowsItsRow /\ ExtractedHasCard

LEMMA TrashInvInit == TrashInit => TrashInv
<1> SUFFICES ASSUME TrashInit PROVE TrashInv
    OBVIOUS
<1>1. WellTyped
    BY WellTypedInit DEF TrashInit
<1>2. TrashTypeOK
    BY <1>1 DEF TrashInit, TrashTypeOK, WellTyped, Purge, NotPurging
<1>3. \A r \in Recordings : card[r] = "nessuna" /\ row[r].status = "NON_CARICATA"
    BY DEF TrashInit, Init, NewRow
<1>4. \A q \in Recordings : ~purge[q].open
    BY DEF TrashInit, NotPurging
<1> QED
    BY <1>1, <1>2, <1>3, <1>4
    DEF TrashInv, CardsWereBorn, PurgeKnowsItsRow, ExtractedHasCard

(***************************************************************************)
(* What a step of the pipeline may do to a recording and to its card.      *)
(***************************************************************************)

KeepsCard(r) == card'[r] = card[r] /\ (row'[r].status = "ESTRATTO" => row[r].status = "ESTRATTO")
GivesCard(r) == card'[r] = "viva" /\ born'[r] > 0 /\ row'[r].status = "ESTRATTO"
TrashesCard(r) == card[r] = "viva" /\ card'[r] = "archiviata" /\ row'[r].status = "CANCELLATA"

Gentle(r) ==
    /\ KeepsCard(r) \/ GivesCard(r) \/ TrashesCard(r)
    /\ born[r] > 0 => born'[r] > 0
    /\ row'[r].status = "NON_CARICATA" => row[r].status = "NON_CARICATA"
    /\ row'[r].status \in Stored => row[r].status \in Stored \cup {"NON_CARICATA"}

\* A step that writes at most one row, and neither cards nor births.
LEMMA OneRow ==
    ASSUME TypeOK, NEW q \in Recordings, NEW x,
           row' = [row EXCEPT ![q] = x],
           x.status \in (Stored \cup {"CANCELLATA"}) \ {"ESTRATTO"}
               \/ x.status = row[q].status,
           x.status \in Stored => row[q].status \in Stored \cup {"NON_CARICATA"},
           UNCHANGED <<card, born>>, NEW r \in Recordings
    PROVE  Gentle(r)
<1>1. row'[r] = IF r = q THEN x ELSE row[r]
    BY DEF TypeOK
<1>2. row[r].status \in Stored \cup NotStored
    BY DEF TypeOK, Row
<1> QED
    BY <1>1, <1>2 DEF Gentle, KeepsCard

LEMMA PipelineIsGentle ==
    ASSUME WellTyped, Next, NEW r \in Recordings
    PROVE  Gentle(r)
<1>0. /\ TypeOK /\ \A q \in Recordings : row[q] \in Row
      /\ \A w \in Workers : worker[w] \in Worker
      /\ row \in [Recordings -> Row] /\ born \in [Recordings -> Nat]
      /\ card \in [Recordings -> Card]
    BY DEF WellTyped, TypeOK
<1>job. ASSUME NEW w \in Workers, worker[w].pc \in Holding \cup {"claiming"}
        PROVE  worker[w].job \in Recordings
    BY <1>job DEF WellTyped, JobKnown
<1>1. ASSUME UNCHANGED <<row, card, born>> PROVE Gentle(r)
    BY <1>0, <1>1 DEF Gentle, KeepsCard, Row
<1>fails. ASSUME NEW q \in Recordings, IsStored(q), UNCHANGED <<card, born>>,
                 NEW o, o.status \in Backlog, WriteFailure(q, o)
          PROVE  Gentle(r)
    <2> DEFINE x == [row[q] EXCEPT !.status = o.status, !.wait = o.wait,
                                   !.retryCount = @ + 1, !.silence = 0]
    <2>1. x.status = o.status
        BY <1>0 DEF Row
    <2>2. row' = [row EXCEPT ![q] = x]
        BY <1>fails DEF WriteFailure
    <2> HIDE DEF x
    <2> QED
        BY <1>0, <1>fails, <2>1, <2>2, OneRow DEF IsStored
<1>2. ASSUME NEW w \in Workers, ReleaseStalled(w) PROVE Gentle(r)
    <2>1. PICK q \in worker[w].stalled :
            IF IsStalled(q, worker[w].lag)
            THEN WriteFailure(q, Interrotta(q, worker[w].lag))
            ELSE UNCHANGED row
        BY <1>2 DEF ReleaseStalled
    <2>2. q \in Recordings /\ worker[w].lag \in Nat
        BY <1>0, CapsAssumption DEF Worker
    <2>3. Interrotta(q, worker[w].lag).status \in Backlog
        BY <1>0, <2>2, InterrottaType
    <2> QED
        BY <2>1, <2>2, <2>3, <1>fails, <1>1, <1>2 DEF ReleaseStalled, IsStalled, IsStored
<1>3. ASSUME NEW w \in Workers, Claim(w) PROVE Gentle(r)
    <2> DEFINE q == worker[w].job
               x == [row[q] EXCEPT !.status = "IN_ELABORAZIONE", !.wait = 0, !.silence = 0]
    <2>1. UNCHANGED <<card, born>> /\ q \in Recordings
        BY <1>3, <1>job DEF Claim, At
    <2>2. x.status = "IN_ELABORAZIONE"
        BY <1>0, <2>1 DEF Row
    <2>3. \/ row[q].status \in CLAIMABLE /\ row' = [row EXCEPT ![q] = x]
          \/ UNCHANGED row
        BY <1>3 DEF Claim
    <2> HIDE DEF x
    <2> QED
        BY <1>0, <1>1, <2>1, <2>2, <2>3, OneRow
<1>4. ASSUME NEW w \in Workers, SaveTranscript(w) \/ SaveExtraction(w) PROVE Gentle(r)
    <2> DEFINE q == worker[w].job
               heard == [row[q] EXCEPT !.transcript = TRUE, !.silence = 0]
               asked == [row[q] EXCEPT !.silence = 0]
    <2>1. q \in Recordings /\ IsStored(q) /\ UNCHANGED <<card, born>>
        BY <1>4, <1>job DEF SaveTranscript, SaveExtraction, At
    <2>2. heard.status = row[q].status /\ asked.status = row[q].status
        BY <2>1, <1>0 DEF Row
    <2>3. row' = [row EXCEPT ![q] = heard] \/ row' = [row EXCEPT ![q] = asked]
        BY <1>4 DEF SaveTranscript, SaveExtraction
    <2> HIDE DEF heard, asked
    <2> QED
        BY <1>0, <2>1, <2>2, <2>3, OneRow DEF IsStored
<1>5. ASSUME NEW w \in Workers, MarkDuplicate(w) PROVE Gentle(r)
    <2> DEFINE q == worker[w].job
               x == [row[q] EXCEPT !.status = "DUPLICATO_SOSPETTO",
                                   !.duplicateOf = worker[w].twin, !.silence = 0]
    <2>1. q \in Recordings /\ IsStored(q) /\ UNCHANGED <<card, born>>
        BY <1>5, <1>job DEF MarkDuplicate, At
    <2>2. x.status = "DUPLICATO_SOSPETTO"
        BY <2>1, <1>0 DEF Row
    <2>3. row' = [row EXCEPT ![q] = x]
        BY <1>5 DEF MarkDuplicate
    <2> HIDE DEF x
    <2> QED
        BY <1>0, <2>1, <2>2, <2>3, OneRow DEF IsStored
<1>6. ASSUME NEW w \in Workers, PersistProcedure(w) PROVE Gentle(r)
    <2> DEFINE q == worker[w].job
               x == [row[q] EXCEPT !.status = "ESTRATTO", !.silence = 0]
    <2>1. q \in Recordings /\ IsStored(q)
        BY <1>6, <1>job DEF PersistProcedure, At
    <2>2. x.status = "ESTRATTO"
        BY <2>1, <1>0 DEF Row
    <2>3. row' = [row EXCEPT ![q] = x] /\ card' = [card EXCEPT ![q] = "viva"]
        BY <1>6 DEF PersistProcedure
    <2>4. born' = [born EXCEPT ![q] = @ + 1]
        BY <1>6 DEF PersistProcedure
    <2> HIDE DEF x
    <2>5. CASE r = q
        <3>1. born'[r] > 0 /\ card'[r] = "viva" /\ row'[r].status = "ESTRATTO"
            BY <1>0, <2>2, <2>3, <2>4, <2>5
        <3> QED
            BY <2>1, <2>5, <3>1 DEF Gentle, GivesCard, IsStored
    <2>6. CASE r # q
        <3>1. born'[r] = born[r] /\ card'[r] = card[r] /\ row'[r] = row[r]
            BY <1>0, <2>3, <2>4, <2>6
        <3> QED
            BY <1>0, <3>1 DEF Gentle, KeepsCard, Row
    <2> QED
        BY <2>5, <2>6
<1>7. ASSUME NEW w \in Workers, MarkFailed(w) PROVE Gentle(r)
    <2>1. worker[w].job \in Recordings /\ UNCHANGED <<card, born>>
        BY <1>7, <1>job DEF MarkFailed, At
    <2>2. Ricaduta(worker[w].retryCount, worker[w].failTo).status \in Backlog
        BY <1>0, RicadutaType DEF Worker
    <2> QED
        BY <2>1, <2>2, <1>7, <1>fails, <1>1 DEF MarkFailed
<1>8. ASSUME NEW q \in Recordings, Create(q) PROVE Gentle(r)
    <2>1. NewRow("BOZZA_AUDIO").status = "BOZZA_AUDIO"
        BY DEF NewRow
    <2> QED
        BY <1>0, <1>8, <2>1, OneRow DEF Create
<1>9. ASSUME NEW q \in Recordings, Remove(q) PROVE Gentle(r)
    <2>1. NewRow("CANCELLATA").status = "CANCELLATA"
        BY DEF NewRow
    <2>2. CASE UNCHANGED card
        BY <1>0, <1>9, <2>1, <2>2, OneRow DEF Remove
    <2>3. CASE card[q] = "viva" /\ card' = [card EXCEPT ![q] = "archiviata"]
        <3>1. /\ born' = born
              /\ row'[r] = IF r = q THEN NewRow("CANCELLATA") ELSE row[r]
              /\ card'[r] = IF r = q THEN "archiviata" ELSE card[r]
            BY <1>0, <1>9, <2>3 DEF Remove
        <3> QED
            BY <1>0, <2>1, <2>3, <3>1 DEF Gentle, KeepsCard, TrashesCard, Row
    <2> QED
        BY <1>9, <2>2, <2>3 DEF Remove
<1>10. ASSUME NEW q \in Recordings, Requeue(q) PROVE Gentle(r)
    <2> DEFINE x == [row[q] EXCEPT !.status = "BOZZA_AUDIO", !.wait = 0,
                                   !.duplicateOf = NoRow, !.retryCount = @ + 1]
    <2>1. x.status = "BOZZA_AUDIO"
        BY <1>0 DEF Row
    <2>2. row' = [row EXCEPT ![q] = x] /\ UNCHANGED <<card, born>>
        BY <1>10 DEF Requeue
    <2>3. row[q].status \in Stored
        BY <1>10 DEF Requeue
    <2> HIDE DEF x
    <2> QED
        BY <1>0, <2>1, <2>2, <2>3, OneRow
<1>11. ASSUME Tick PROVE Gentle(r)
    <2>1. row'[r].status = row[r].status /\ UNCHANGED <<card, born>>
        BY <1>11, <1>0 DEF Tick, Row
    <2> QED
        BY <1>0, <2>1 DEF Gentle, KeepsCard, Row
<1>12. ASSUME NEW w \in Workers,
              \/ FindStalled(w) \/ FindNext(w) \/ Transcribe(w)
              \/ FindMostSimilar(w) \/ StageThrows(w) \/ Crash(w)
       PROVE  Gentle(r)
    BY <1>1, <1>12
    DEF FindStalled, FindNext, Transcribe, FindMostSimilar, StageThrows, Crash
<1> QED
    BY <1>2, <1>3, <1>4, <1>5, <1>6, <1>7, <1>8, <1>9, <1>10, <1>11, <1>12
       DEF Next, Poll, Process, User

(***************************************************************************)
(* The deletion itself.                                                    *)
(***************************************************************************)

\* What is left of a row is a row, and only a deletion or the queue awaits it.
LEMMA PurgedType ==
    ASSUME TypeOK, NEW q \in Recordings, NEW r \in Recordings
    PROVE  /\ Purged(q, r) \in Row
           /\ Purged(q, r).status \in {row[r].status, "CANCELLATA", "BOZZA_AUDIO"}
           /\ ~IsStored(r) => Purged(q, r) = row[r]
           /\ IsStored(r) => Purged(q, r).status # "NON_CARICATA"
           /\ IsStored(r) /\ r \in purge[q].nati => Purged(q, r).status = "CANCELLATA"
<1>1. row[r] \in Row /\ row[r].status \in Stored \cup NotStored
    BY DEF TypeOK, Row
<1>2. NewRow("CANCELLATA") \in Row /\ NewRow("CANCELLATA").status = "CANCELLATA"
    BY NewRowType DEF NewRow
<1>3. 0 \in 0 .. SilenceCap
    BY SilenceAssumption, CapsAssumption DEF SilenceCap
<1> DEFINE queued == [row[r] EXCEPT !.status = "BOZZA_AUDIO", !.duplicateOf = NoRow,
                                    !.wait = 0, !.silence = 0]
           freed == [row[r] EXCEPT !.duplicateOf = IF @ = q THEN NoRow ELSE @]
<1>4. queued \in Row /\ queued.status = "BOZZA_AUDIO"
    BY <1>1, <1>3 DEF Row
<1>5. freed \in Row /\ freed.status = row[r].status
    BY <1>1 DEF Row
<1>6. Purged(q, r) = IF ~IsStored(r) THEN row[r]
                     ELSE IF r \in purge[q].nati THEN NewRow("CANCELLATA")
                     ELSE IF r \in purge[q].sospetti THEN queued ELSE freed
    BY DEF Purged
<1> HIDE DEF queued, freed
<1> QED
    BY <1>1, <1>2, <1>4, <1>5, <1>6 DEF IsStored

LEMMA TrashTypeNext ==
    ASSUME TrashInv, [TrashNext]_trashVars
    PROVE  WellTyped' /\ TrashTypeOK'
<1>0. /\ WellTyped /\ TypeOK /\ JobKnown
      /\ card \in [Recordings -> Card]
      /\ purge \in [Recordings -> Purge] /\ emptying \in SUBSET Recordings
    BY DEF TrashInv, WellTyped, TrashTypeOK, TypeOK
<1>1. ASSUME Next, UNCHANGED <<purge, emptying>> PROVE WellTyped' /\ TrashTypeOK'
    <2>1. WellTyped'
        BY <1>0, <1>1, WellTypedNext
    <2>2. TypeOK'
        BY <2>1 DEF WellTyped
    <2> QED
        BY <1>0, <1>1, <2>1, <2>2 DEF TrashTypeOK
<1>2. ASSUME NEW q \in Recordings, Archive(q) \/ Restore(q)
      PROVE  WellTyped' /\ TrashTypeOK'
    <2>1. card' \in [Recordings -> Card]
        BY <1>0, <1>2 DEF Archive, Restore, Card
    <2> QED
        BY <1>0, <1>2, <2>1 DEF Archive, Restore, WellTyped, TypeOK, JobKnown, TrashTypeOK
<1>3. ASSUME NEW q \in Recordings, PurgeRead(q) PROVE WellTyped' /\ TrashTypeOK'
    <2>1. [open |-> TRUE, nati |-> Born(q), sospetti |-> SuspectsOf(q)] \in Purge
        BY DEF Purge, Born, SuspectsOf
    <2>2. purge' \in [Recordings -> Purge]
        BY <1>0, <1>3, <2>1 DEF PurgeRead
    <2> QED
        BY <1>0, <1>3, <2>2
        DEF PurgeRead, vars, WellTyped, TypeOK, JobKnown, TrashTypeOK
<1>4. ASSUME NEW q \in Recordings, PurgeCommit(q) PROVE WellTyped' /\ TrashTypeOK'
    <2>0. \A r \in Recordings : Purged(q, r) \in Row
        BY <1>0, PurgedType
    <2>1. row' \in [Recordings -> Row] /\ card' \in [Recordings -> Card]
        <3>1. CASE card[q] = "archiviata"
            BY <1>0, <1>4, <2>0, <3>1 DEF PurgeCommit, Card
        <3>2. CASE card[q] # "archiviata"
            BY <1>0, <1>4, <3>2 DEF PurgeCommit, TypeOK
        <3> QED
            BY <3>1, <3>2
    <2>2. purge' \in [Recordings -> Purge] /\ emptying' \in SUBSET Recordings
        BY <1>0, <1>4 DEF PurgeCommit, Purge, NotPurging
    <2> QED
        BY <1>0, <1>4, <2>1, <2>2
        DEF PurgeCommit, WellTyped, TypeOK, JobKnown, TrashTypeOK
<1>5. ASSUME EmptyTrash \/ \E q \in Recordings : SkipCard(q)
      PROVE  WellTyped' /\ TrashTypeOK'
    <2>1. purge' = purge /\ emptying' \in SUBSET Recordings /\ UNCHANGED vars
        BY <1>0, <1>5 DEF EmptyTrash, SkipCard, InTrash
    <2> QED
        BY <1>0, <2>1 DEF vars, WellTyped, TypeOK, JobKnown, TrashTypeOK
<1>6. CASE UNCHANGED trashVars
    BY <1>0, <1>6 DEF trashVars, vars, WellTyped, TypeOK, JobKnown, TrashTypeOK
<1> QED
    BY <1>1, <1>2, <1>3, <1>4, <1>5, <1>6 DEF TrashNext

LEMMA TrashInvNext ==
    ASSUME TrashInv, [TrashNext]_trashVars
    PROVE  TrashInv'
<1>0. /\ WellTyped /\ TypeOK
      /\ card \in [Recordings -> Card] /\ row \in [Recordings -> Row]
      /\ \A r \in Recordings : row[r].status \in Stored \cup NotStored
      /\ purge \in [Recordings -> Purge]
      /\ CardsWereBorn /\ PurgeKnowsItsRow /\ ExtractedHasCard
    BY DEF TrashInv, WellTyped, TrashTypeOK, TypeOK, Row
<1> DEFINE Rest == CardsWereBorn /\ PurgeKnowsItsRow /\ ExtractedHasCard
<1>1. ASSUME Next, UNCHANGED <<purge, emptying>> PROVE Rest'
    <2>1. \A r \in Recordings : Gentle(r)
        BY <1>0, <1>1, PipelineIsGentle
    <2>2. CardsWereBorn'
        BY <1>0, <2>1 DEF CardsWereBorn, Gentle, KeepsCard, GivesCard, TrashesCard
    <2>3. PurgeKnowsItsRow'
        BY <1>0, <1>1, <2>1
        DEF PurgeKnowsItsRow, CardsWereBorn, IsStored, Gentle, KeepsCard, GivesCard,
            TrashesCard
    <2>4. ExtractedHasCard'
        BY <1>0, <2>1 DEF ExtractedHasCard, Gentle, KeepsCard, GivesCard, TrashesCard
    <2> QED
        BY <2>2, <2>3, <2>4
<1>2. ASSUME NEW q \in Recordings, Archive(q) \/ Restore(q) PROVE Rest'
    <2>1. /\ UNCHANGED <<row, born, purge>>
          /\ card[q] \in {"viva", "archiviata"}
          /\ \A r \in Recordings : r # q => card'[r] = card[r]
          /\ card'[q] \in {"viva", "archiviata"}
        BY <1>0, <1>2 DEF Archive, Restore
    <2> QED
        BY <1>0, <2>1 DEF CardsWereBorn, PurgeKnowsItsRow, ExtractedHasCard, IsStored
<1>3. ASSUME NEW q \in Recordings, PurgeRead(q) PROVE Rest'
    <2>1. /\ UNCHANGED <<row, born, card>> /\ card[q] = "archiviata"
          /\ purge' = [purge EXCEPT ![q] =
                [open |-> TRUE, nati |-> Born(q), sospetti |-> SuspectsOf(q)]]
        BY <1>3 DEF PurgeRead, vars
    <2>2. IsStored(q) => q \in Born(q)
        BY <1>0, <2>1 DEF CardsWereBorn, Born
    <2>3. CardsWereBorn' /\ ExtractedHasCard'
        BY <1>0, <2>1 DEF CardsWereBorn, ExtractedHasCard
    <2>4. PurgeKnowsItsRow'
        BY <1>0, <2>1, <2>2 DEF PurgeKnowsItsRow, IsStored
    <2> QED
        BY <2>3, <2>4
<1>4. ASSUME NEW q \in Recordings, PurgeCommit(q) PROVE Rest'
    <2>1. /\ born' = born /\ purge[q].open
          /\ \A r \in Recordings : r # q => purge'[r] = purge[r] /\ card'[r] = card[r]
          /\ ~purge'[q].open
        BY <1>0, <1>4 DEF PurgeCommit, NotPurging
    <2>2. CASE card[q] # "archiviata"
        BY <1>0, <1>4, <2>1, <2>2
        DEF PurgeCommit, CardsWereBorn, PurgeKnowsItsRow, ExtractedHasCard, IsStored
    <2>3. CASE card[q] = "archiviata"
        <3>1. /\ \A r \in Recordings : row'[r] = Purged(q, r)
              /\ card'[q] = "eliminata"
            BY <1>0, <1>4, <2>3 DEF PurgeCommit
        <3>2. \A r \in Recordings :
                /\ row'[r].status \in {row[r].status, "CANCELLATA", "BOZZA_AUDIO"}
                /\ row'[r].status \in Stored => row[r].status \in Stored
                /\ row'[r].status = "NON_CARICATA" => row[r].status = "NON_CARICATA"
            BY <1>0, <3>1, PurgedType DEF IsStored
        <3>3. row'[q].status \in NotStored
            <4>1. IsStored(q) => q \in purge[q].nati
                BY <1>0, <2>1 DEF PurgeKnowsItsRow
            <4> QED
                BY <1>0, <3>1, <4>1, PurgedType DEF IsStored
        <3>4. CardsWereBorn'
            BY <1>0, <2>1, <2>3, <3>1, <3>2 DEF CardsWereBorn
        <3>5. PurgeKnowsItsRow'
            BY <1>0, <2>1, <3>2 DEF PurgeKnowsItsRow, IsStored
        <3>6. ExtractedHasCard'
            BY <1>0, <2>1, <3>2, <3>3 DEF ExtractedHasCard
        <3> QED
            BY <3>4, <3>5, <3>6
    <2> QED
        BY <2>2, <2>3
<1>5. ASSUME UNCHANGED <<row, born, card, purge>> PROVE Rest'
    BY <1>0, <1>5 DEF CardsWereBorn, PurgeKnowsItsRow, ExtractedHasCard, IsStored
<1>6. Rest'
    BY <1>1, <1>2, <1>3, <1>4, <1>5
    DEF TrashNext, EmptyTrash, SkipCard, trashVars, vars
<1> QED
    BY <1>6, TrashTypeNext DEF TrashInv

LEMMA TrashInvAlways == TrashSpec => []TrashInv
    BY TrashInvInit, TrashInvNext, PTL DEF TrashSpec

\* The variables keep their types.
THEOREM TrashTypeCorrectness == TrashSpec => []TrashTypeOK
<1>1. TrashInv => TrashTypeOK
    BY DEF TrashInv
<1> QED
    BY <1>1, TrashInvAlways, PTL

\* No recording says it became a card that deleteForUser deleted.
THEOREM ExtractedKeepsItsCard == TrashSpec => []ExtractedHasCard
<1>1. TrashInv => ExtractedHasCard
    BY DEF TrashInv
<1> QED
    BY <1>1, TrashInvAlways, PTL

\* A card is deleted only from the trash, and with the recording it came from,
\* although everybody may run between the SELECTs of deleteForUser and its DELETE.
THEOREM DeletionIsFromTrash == TrashSpec => DeletedOnlyFromTrash
<1>1. ASSUME TrashInv, [TrashNext]_trashVars, NEW q \in Recordings,
             card'[q] = "eliminata", card[q] # "eliminata"
      PROVE  card[q] = "archiviata" /\ row'[q].status \in NotStored
    <2>0. /\ WellTyped /\ TypeOK /\ card \in [Recordings -> Card]
          /\ \A r \in Recordings : row[r].status \in Stored \cup NotStored
          /\ PurgeKnowsItsRow
        BY <1>1 DEF TrashInv, WellTyped, TypeOK, Row
    <2>1. ASSUME Next PROVE FALSE
        <3>1. Gentle(q)
            BY <2>0, <2>1, PipelineIsGentle
        <3> QED
            BY <1>1, <3>1 DEF Gentle, KeepsCard, GivesCard, TrashesCard
    <2>2. PICK p \in Recordings : PurgeCommit(p)
        BY <1>1, <2>0, <2>1
        DEF TrashNext, Archive, Restore, PurgeRead, EmptyTrash, SkipCard, trashVars, vars
    <2>3. p = q /\ card[q] = "archiviata" /\ purge[q].open
        BY <1>1, <2>0, <2>2 DEF PurgeCommit
    <2>4. row'[q] = Purged(q, q)
        BY <2>2, <2>3 DEF PurgeCommit
    <2>5. IsStored(q) => q \in purge[q].nati
        BY <2>0, <2>3 DEF PurgeKnowsItsRow
    <2> QED
        BY <2>0, <2>3, <2>4, <2>5, PurgedType DEF IsStored
<1>2. TrashInv /\ [TrashNext]_trashVars =>
        [\A q \in Recordings :
            card'[q] = "eliminata" /\ card[q] # "eliminata" =>
                card[q] = "archiviata" /\ row'[q].status \in NotStored]_trashVars
    BY <1>1
<1> QED
    BY <1>2, TrashInvAlways, PTL DEF TrashSpec, DeletedOnlyFromTrash

==============================================================================
