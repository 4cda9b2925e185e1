----------------------------- MODULE Worker_proofs -----------------------------
(***************************************************************************)
(* Worker for any replicas, intervals, windows, skews and bounds: types,   *)
(* the stop that waits for no timer, how long an expired window may stay   *)
(* in the table of a worker that runs, and how many requests two windows   *)
(* let through.                                                            *)
(***************************************************************************)
EXTENDS Worker, TLAPS

LEMMA Numbers ==
    /\ MAX_BATCH \in Nat \ {0} /\ POLL_INTERVAL_MS \in Nat \ {0}
    /\ PULIZIA_IP_OGNI_MS \in Nat \ {0} /\ SweepEvery \in Nat \ {0}
    /\ WindowMs \in Nat \ {0} /\ Max \in Nat \ {0} /\ CLEANUP_EVERY \in Nat \ {0}
    /\ MaxSkew \in Nat /\ MaxDelay \in Nat /\ MaxRound \in Nat /\ MaxBacklog \in Nat
    /\ MaxFaults \in Nat /\ MaxDelay < WindowMs
BY WorkerNumbers

\* The ends of the ranges of Process and of Request.
LEMMA Ends ==
    /\ 0 \in 0 .. MAX_BATCH /\ 0 \in 0 .. PULIZIA_IP_OGNI_MS /\ 0 \in 0 .. SweepEvery
    /\ 0 \in 0 .. POLL_INTERVAL_MS /\ 0 \in 0 .. MaxRound /\ 0 \in 0 .. MaxDelay
    /\ PULIZIA_IP_OGNI_MS \in 0 .. PULIZIA_IP_OGNI_MS /\ SweepEvery \in 0 .. SweepEvery
    /\ POLL_INTERVAL_MS \in 0 .. POLL_INTERVAL_MS
BY Numbers

LEMMA StretchFacts == Stretch \in Nat /\ Stretch >= WindowMs - MaxSkew - MaxDelay
BY Numbers DEF Stretch

\* A request that is let through comes before the others, which keep their order.
LEMMA AdmitFacts ==
    ASSUME NEW ages \in [Recent -> 0 .. Stretch]
    PROVE  /\ Admit(ages) \in [Recent -> 0 .. Stretch]
           /\ Admit(ages)[1] = 0
           /\ \A i \in Recent : i + 1 \in Recent => Admit(ages)[i + 1] = ages[i]
<1>1. 1 \in Recent /\ \A i \in Recent : i # 1 => i - 1 \in Recent
  BY Numbers DEF Recent
<1>2. \A i \in Recent : i + 1 # 1 /\ (i + 1) - 1 = i
  BY Numbers DEF Recent
<1> QED
  BY <1>1, <1>2, StretchFacts DEF Admit

------------------------------------------------------------------------------
(* The invariant. *)

\* Where the loop may be: a batch is never full at a job, a worker that was asked to
\* stop is not asleep, and a purge began at the last check.
Loop ==
    /\ worker.pc = "spento" => worker = Off
    /\ worker.pc = "elabora" => worker.processed < MAX_BATCH
    /\ worker.pc = "dorme" => worker.running
    /\ worker.pc = "pulisce" => worker.age <= worker.round

\* The row counted here has expired.
Expired == bucket.count > 0 /\ bucket.left <= 0

\* A row has waited for as long as it has been expired, unless that is longer than
\* any clock needs to be sure of it.
WaitsSinceItExpired == Expired => history.waited <= -bucket.left \/ bucket.left = LongPast

\* How long an expired row may have waited, by what the worker is at: a purge under way
\* began at most an interval and two rounds after it expired; one that is armed was armed
\* by a purge that began before it expired; one that is due begins at the next check.
Patience(w) ==
    IF w.pc = "pulisce" THEN PULIZIA_IP_OGNI_MS + 2 * MaxRound + w.age
    ELSE IF w.purgeIn > 0 THEN MaxRound + PULIZIA_IP_OGNI_MS - w.purgeIn
    ELSE MaxRound + PULIZIA_IP_OGNI_MS + w.round
InTime ==
    worker.running /\ ~history.purgeFailed /\ Expired => history.waited <= Patience(worker)

Punctual == WorkerTypeOK /\ Loop /\ WaitsSinceItExpired /\ InTime

------------------------------------------------------------------------------
(* What the loop goes on to, as a function of the state it is in. *)

LoopOf(w) ==
    /\ w.pc = "spento" => w = Off
    /\ w.pc = "elabora" => w.processed < MAX_BATCH
    /\ w.pc = "dorme" => w.running
    /\ w.pc = "pulisce" => w.age <= w.round

\* v comes after w, at an await where a row that waited long enough for w has not
\* waited too long.
Follows(v, w) ==
    /\ v \in Process /\ LoopOf(v)
    /\ ~w.running => v = Off
    /\ v.running => w.running /\ (w.pc # "pulisce" => Patience(v) >= Patience(w))

LEMMA OffFacts == Off \in Process /\ LoopOf(Off) /\ ~Off.running
BY Numbers DEF Off, Process, LoopOf

\* A round that begins, a sleep, a pass and a purge that is not due leave the purge as
\* it is armed.
LEMMA RoundFollows ==
    ASSUME NEW w \in Process, w.pc # "spento"
    PROVE  /\ Follows(NewRound(w), w) /\ Follows(AfterSweep(w), w) /\ Follows(AfterPurge(w), w)
           /\ w.running => AfterPurge(w).purgeIn = w.purgeIn /\ AfterPurge(w).pc # "pulisce"
<1> DEFINE s == [w EXCEPT !.pc = "dorme", !.sleep = POLL_INTERVAL_MS]
           n == [w EXCEPT !.pc = "elabora", !.processed = 0]
           z == [w EXCEPT !.pc = "spazza"]
<1>1. /\ n \in Process /\ n.pc = "elabora" /\ n.processed = 0 /\ n.running = w.running
      /\ n.purgeIn = w.purgeIn /\ n.round = w.round
  BY Ends DEF Process
<1>2. /\ s \in Process /\ s.pc = "dorme" /\ s.running = w.running
      /\ s.purgeIn = w.purgeIn /\ s.round = w.round
  BY Ends DEF Process
<1>3. /\ z \in Process /\ z.pc = "spazza" /\ z.running = w.running
      /\ z.purgeIn = w.purgeIn /\ z.round = w.round
  BY DEF Process
<1>4. NewRound(w) = IF w.running THEN n ELSE Off
  BY DEF NewRound
<1>5. AfterSweep(w) = IF w.running /\ w.processed = 0 THEN s ELSE NewRound(w)
  BY DEF AfterSweep
<1>6. AfterPurge(w) = IF w.running /\ SweepIsDue(w) THEN z ELSE AfterSweep(w)
  BY DEF AfterPurge
<1> HIDE DEF s, n, z
<1>7. ASSUME NEW v \in {n, s, z}, w.running PROVE Follows(v, w) /\ LoopOf(v)
  <2>1. /\ v \in Process /\ v.pc \in {"elabora", "dorme", "spazza"} /\ v.running
        /\ v.purgeIn = w.purgeIn /\ v.round = w.round
        /\ v.pc = "elabora" => v.processed = 0
    BY <1>1, <1>2, <1>3, <1>7
  <2>2. LoopOf(v)
    BY <2>1, Numbers DEF LoopOf
  <2>3. w.pc # "pulisce" => Patience(v) = Patience(w)
    BY <2>1 DEF Patience
  <2>4. Patience(v) \in Int
    BY <2>1, Numbers DEF Patience, Process
  <2> QED
    BY <1>7, <2>1, <2>2, <2>3, <2>4 DEF Follows
<1>8. ~w.running => Follows(Off, w)
  BY OffFacts DEF Follows
<1>9. Follows(NewRound(w), w)
  BY <1>4, <1>7, <1>8
<1>10. Follows(AfterSweep(w), w)
  BY <1>5, <1>7, <1>9
<1>11. Follows(AfterPurge(w), w)
  BY <1>6, <1>7, <1>10
<1> QED
  BY <1>1, <1>2, <1>3, <1>4, <1>5, <1>6, <1>9, <1>10, <1>11

\* A check of the purge starts the one that is due.
LEMMA CheckFollows ==
    ASSUME NEW w \in Process, w.pc \notin {"spento", "pulisce"}
    PROVE  Follows(AfterBatch(w), w)
<1> DEFINE v == [w EXCEPT !.round = 0]
           q == [v EXCEPT !.pc = "pulisce", !.age = 0]
<1>1. /\ v \in Process /\ v.pc = w.pc /\ v.running = w.running
      /\ v.purgeIn = w.purgeIn /\ v.round = 0
  BY Numbers DEF Process
<1>2. AfterBatch(w) = IF w.running /\ w.purgeIn = 0 THEN q ELSE AfterPurge(v)
  BY DEF AfterBatch
<1>3. CASE w.running /\ w.purgeIn = 0
  <2> HIDE DEF v
  <2>1. /\ q \in Process /\ q.pc = "pulisce" /\ q.age = 0 /\ q.round = 0
        /\ q.running = w.running
    BY <1>1, Numbers DEF Process
  <2> HIDE DEF q
  <2>2. Patience(q) = PULIZIA_IP_OGNI_MS + 2 * MaxRound
    BY <2>1, Numbers DEF Patience
  <2>3. Patience(w) = MaxRound + PULIZIA_IP_OGNI_MS + w.round /\ w.round \in 0 .. MaxRound
    BY <1>3, Numbers DEF Patience, Process
  <2>4. Patience(q) >= Patience(w)
    BY <2>2, <2>3, Numbers
  <2>5. LoopOf(q)
    BY <2>1 DEF LoopOf
  <2> QED
    BY <1>2, <1>3, <2>1, <2>4, <2>5 DEF Follows
<1>4. CASE ~(w.running /\ w.purgeIn = 0)
  <2>1. Follows(AfterPurge(v), v)
    BY <1>1, RoundFollows
  <2>2. w.running => w.purgeIn > 0
    BY <1>4 DEF Process
  <2>3. w.running => Patience(v) = Patience(w)
    BY <1>1, <2>2 DEF Patience
  <2> HIDE DEF v
  <2> QED
    BY <1>1, <1>2, <1>4, <2>1, <2>3 DEF Follows
<1> QED
  BY <1>3, <1>4

------------------------------------------------------------------------------
(* The row of the window. *)

\* A purge takes the row away or leaves it alone.
LEMMA PurgedFacts ==
    ASSUME bucket \in Bucket, NEW at \in Int
    PROVE  /\ Purged(at) \in Bucket
           /\ Purged(at).count > 0 => Purged(at) = bucket /\ bucket.left > at
BY Numbers DEF Purged, Bucket, NoBucket, LongPast

\* A hit counts in the row that is there or opens a window that has not expired.
LEMMA CountedFacts ==
    ASSUME bucket \in Bucket, NEW at \in (-MaxDelay) .. MaxSkew
    PROVE  /\ Counted(at) \in Bucket
           /\ Counted(at).left > 0 \/ (bucket.count > 0 /\ Counted(at).left = bucket.left)
<1> DEFINE c == [bucket EXCEPT !.count = IF @ > Max THEN @ ELSE @ + 1]
           n == [count |-> 1, left |-> at + WindowMs]
<1>1. n \in Bucket /\ n.left > 0
  BY Numbers DEF Bucket, LongPast
<1>2. c \in Bucket /\ c.left = bucket.left
  BY Numbers DEF Bucket
<1>3. Counted(at) = IF bucket.count = 0 \/ bucket.left <= at THEN n ELSE c
  BY DEF Counted
<1>4. bucket.count # 0 => bucket.count > 0
  BY Numbers DEF Bucket
<1> HIDE DEF c, n
<1> QED
  BY <1>1, <1>2, <1>3, <1>4

\* A clock, read when the call it is for began.
LEMMA ClockFacts ==
    ASSUME WorkerTypeOK
    PROVE  /\ At("worker", worker.age) \in Int /\ At("worker", worker.age) >= -worker.age
           /\ \A r \in Replicas : At(r, req[r].age) \in (-MaxDelay) .. MaxSkew
<1>1. /\ skew["worker"] \in 0 .. MaxSkew /\ worker.age \in 0 .. MaxRound
      /\ \A r \in Replicas : skew[r] \in 0 .. MaxSkew /\ req[r].age \in 0 .. MaxDelay
  BY DEF WorkerTypeOK, Process, Request
<1> QED
  BY <1>1, Numbers DEF At

------------------------------------------------------------------------------
(* The steps. *)

\* A step that leaves the row alone, or takes it away, or counts in it, and does not
\* touch the worker.
LEMMA RowStep ==
    ASSUME Punctual, worker' = worker, skew' = skew, WorkerTypeOK',
           bucket'.left > 0 \/ bucket'.count = 0 \/
                (bucket.count > 0 /\ bucket'.left = bucket.left),
           history'.waited = history.waited, history'.purgeFailed = history.purgeFailed
    PROVE  Punctual'
<1>1. bucket'.left \in Int /\ bucket'.count \in Nat
  BY Numbers DEF WorkerTypeOK, Bucket, LongPast
<1>2. Expired' => Expired /\ bucket'.left = bucket.left
  BY <1>1 DEF Expired
<1>3. Patience(worker)' = Patience(worker)
  BY DEF Patience
<1>4. WaitsSinceItExpired' /\ InTime'
  BY <1>2, <1>3 DEF Punctual, WaitsSinceItExpired, InTime
<1> QED
  BY <1>4 DEF Punctual, Loop

\* A step of the worker that leaves the row alone.
LEMMA LoopStep ==
    ASSUME Punctual, bucket' = bucket, skew' = skew, req' = req, history' = history,
           worker' \in Process, LoopOf(worker'), backlog' \in 0 .. MaxBacklog,
           faults' \in 0 .. MaxFaults,
           worker'.running => worker.running /\ Patience(worker)' >= Patience(worker)
    PROVE  Punctual'
<1>1. WorkerTypeOK'
  BY DEF Punctual, WorkerTypeOK
<1>2. history.waited \in Int /\ worker \in Process
  BY DEF Punctual, WorkerTypeOK
<1>3. Patience(worker) \in Int /\ Patience(worker)' \in Int
  BY <1>2, Numbers DEF Patience, Process
<1>4. InTime'
  BY <1>2, <1>3 DEF Punctual, InTime, Expired
<1> QED
  BY <1>1, <1>4 DEF Punctual, WaitsSinceItExpired, Expired, Loop, LoopOf

LEMMA FaultType == ASSUME WorkerTypeOK, Fault PROVE faults' \in 0 .. MaxFaults
BY Numbers DEF Fault, WorkerTypeOK

LEMMA RequestStep ==
    ASSUME Punctual, NEW r \in Replicas, Arrive(r) \/ Cleanup(r) \/ Hit(r) \/ HitFails(r)
    PROVE  Punctual'
<1>1. /\ WorkerTypeOK /\ bucket \in Bucket /\ req \in [Replicas -> Request]
      /\ req[r] \in Request
  BY DEF Punctual, WorkerTypeOK
<1>2. CASE Arrive(r)
  <2> DEFINE q == [pc |-> IF req[r].sinceCleanup + 1 >= CLEANUP_EVERY THEN "pulisce" ELSE "conta",
                   age |-> 0,
                   sinceCleanup |-> IF req[r].sinceCleanup + 1 >= CLEANUP_EVERY THEN 0
                                    ELSE req[r].sinceCleanup + 1]
  <2>1. q \in Request
    BY <1>1, Ends, Numbers DEF Request
  <2>2. req' = [req EXCEPT ![r] = q]
    BY <1>2 DEF Arrive
  <2> HIDE DEF q
  <2>3. WorkerTypeOK'
    BY <1>1, <1>2, <2>1, <2>2 DEF Arrive, WorkerTypeOK
  <2>4. bucket' = bucket /\ worker' = worker /\ skew' = skew /\ history' = history
    BY <1>2 DEF Arrive
  <2>5. bucket.left > 0 \/ bucket.count = 0 \/ (bucket.count > 0 /\ bucket.left = bucket.left)
    BY <1>1 DEF Bucket
  <2> QED
    BY <2>3, <2>4, <2>5, RowStep
<1>3. CASE Cleanup(r)
  <2>1. [req[r] EXCEPT !.pc = "conta"] \in Request
    BY <1>1 DEF Request
  <2>2. req' \in [Replicas -> Request]
    BY <1>1, <1>3, <2>1 DEF Cleanup
  <2>3. bucket' \in Bucket /\ (bucket'.count > 0 => bucket' = bucket)
    BY <1>1, <1>3, PurgedFacts, ClockFacts DEF Cleanup
  <2>4. faults' \in 0 .. MaxFaults
    BY <1>1, <1>3, FaultType DEF Cleanup, WorkerTypeOK
  <2>5. worker' = worker /\ skew' = skew /\ history' = history /\ backlog' = backlog
    BY <1>3 DEF Cleanup
  <2>6. WorkerTypeOK'
    BY <1>1, <2>2, <2>3, <2>4, <2>5 DEF WorkerTypeOK
  <2>7. bucket'.count = 0 \/ bucket' = bucket
    BY <2>3 DEF Bucket
  <2>8. bucket.count = 0 \/ bucket.count > 0
    BY <1>1 DEF Bucket
  <2> QED
    BY <2>5, <2>6, <2>7, <2>8, RowStep
<1>4. CASE Hit(r) \/ HitFails(r)
  <2>1. [req[r] EXCEPT !.pc = "libera", !.age = 0] \in Request
    BY <1>1, Ends DEF Request
  <2>2. req' \in [Replicas -> Request]
    BY <1>1, <1>4, <2>1 DEF Hit, HitFails, Served
  <2>3. /\ bucket' \in Bucket
        /\ bucket'.left > 0 \/ (bucket.count > 0 /\ bucket'.left = bucket.left)
           \/ bucket' = bucket
    BY <1>1, <1>4, CountedFacts, ClockFacts DEF Hit, HitFails
  <2>4. faults' \in 0 .. MaxFaults
    BY <1>1, <1>4, FaultType DEF Hit, HitFails, WorkerTypeOK
  <2>5. /\ history' \in [admitted : [Recent -> 0 .. Stretch],
                         waited : 0 .. (LongestWait + 1), purgeFailed : BOOLEAN]
        /\ history'.waited = history.waited /\ history'.purgeFailed = history.purgeFailed
    <3> DEFINE A == [Recent -> 0 .. Stretch]
               a == Admit(history.admitted)
    <3>1. history \in [admitted : A, waited : 0 .. (LongestWait + 1), purgeFailed : BOOLEAN]
      BY <1>1 DEF WorkerTypeOK
    <3>2. history.admitted \in A
      BY <3>1
    <3>4. a \in A
      BY <3>2, AdmitFacts
    <3>5. history' = history \/ history' = [history EXCEPT !.admitted = a]
      BY <1>4 DEF Hit, HitFails
    <3> HIDE DEF a, A
    <3> QED
      BY <3>1, <3>4, <3>5 DEF A
  <2>6. worker' = worker /\ skew' = skew /\ backlog' = backlog
    BY <1>4 DEF Hit, HitFails
  <2>7. WorkerTypeOK'
    BY <1>1, <2>2, <2>3, <2>4, <2>5, <2>6 DEF WorkerTypeOK
  <2>8. bucket.count = 0 \/ bucket.count > 0
    BY <1>1 DEF Bucket
  <2> QED
    BY <2>3, <2>5, <2>6, <2>7, <2>8, RowStep
<1> QED
  BY <1>2, <1>3, <1>4

LEMMA ElaboraStep ==
    ASSUME Punctual, Elabora
    PROVE  Punctual'
<1>1. /\ WorkerTypeOK /\ worker \in Process /\ worker.pc = "elabora"
      /\ worker.processed < MAX_BATCH
  BY DEF Punctual, WorkerTypeOK, Loop, Elabora
<1>2. /\ bucket' = bucket /\ skew' = skew /\ req' = req /\ history' = history
  BY DEF Elabora
<1>3. faults' \in 0 .. MaxFaults /\ backlog' \in 0 .. MaxBacklog
  <2>1. backlog \in 0 .. MaxBacklog /\ faults \in 0 .. MaxFaults
    BY <1>1 DEF WorkerTypeOK
  <2>2. backlog > 0 => backlog - 1 \in 0 .. MaxBacklog
    BY <2>1, Numbers
  <2> QED
    BY <1>1, <2>1, <2>2, FaultType DEF Elabora
<1>4. CASE worker' = AfterBatch(worker)
  BY <1>1, <1>2, <1>3, <1>4, CheckFollows, LoopStep DEF Follows
<1>5. CASE worker' = AfterJob([worker EXCEPT !.processed = @ + 1])
  <2> DEFINE w == [worker EXCEPT !.processed = @ + 1]
  <2>1. /\ w \in Process /\ w.pc = "elabora" /\ w.running = worker.running
        /\ w.purgeIn = worker.purgeIn /\ w.round = worker.round
    BY <1>1, Numbers DEF Process
  <2>2. worker' = IF w.running /\ w.processed < MAX_BATCH THEN w ELSE AfterBatch(w)
    BY <1>5 DEF AfterJob
  <2> HIDE DEF w
  <2>3. Patience(w) = Patience(worker)
    BY <1>1, <2>1 DEF Patience
  <2>4. Patience(w) \in Int
    BY <2>1, Numbers DEF Patience, Process
  <2>5. Follows(AfterBatch(w), w)
    BY <2>1, CheckFollows
  <2>6. w.processed < MAX_BATCH => LoopOf(w)
    BY <2>1 DEF LoopOf
  <2>7. /\ worker' \in Process /\ LoopOf(worker')
        /\ worker'.running => worker.running /\ Patience(worker)' >= Patience(worker)
    BY <1>1, <2>1, <2>2, <2>3, <2>4, <2>5, <2>6 DEF Follows
  <2> QED
    BY <1>2, <1>3, <2>7, LoopStep
<1> QED
  BY <1>4, <1>5 DEF Elabora

\* A purge that leaves an expired row began before it expired.
LEMMA PulisceStep ==
    ASSUME Punctual, Pulisce
    PROVE  Punctual'
<1>1. /\ WorkerTypeOK /\ worker \in Process /\ worker.pc = "pulisce" /\ bucket \in Bucket
  BY DEF Punctual, WorkerTypeOK, Pulisce
<1> DEFINE w == [worker EXCEPT !.purgeIn = PULIZIA_IP_OGNI_MS, !.age = 0]
<1>2. w \in Process /\ w.pc = "pulisce" /\ w.purgeIn = PULIZIA_IP_OGNI_MS
  BY <1>1, Ends DEF Process
<1>3. worker' = AfterPurge(w)
  BY DEF Pulisce
<1> HIDE DEF w
<1>4. /\ worker' \in Process /\ LoopOf(worker')
      /\ worker'.running => worker'.pc # "pulisce" /\ worker'.purgeIn = PULIZIA_IP_OGNI_MS
  BY <1>2, <1>3, RoundFollows DEF Follows
<1>5. bucket' \in Bucket /\ (bucket'.count > 0 => bucket' = bucket)
  BY <1>1, PurgedFacts, ClockFacts DEF Pulisce
<1>6. /\ faults' \in 0 .. MaxFaults
      /\ history' \in [admitted : [Recent -> 0 .. Stretch],
                       waited : 0 .. (LongestWait + 1), purgeFailed : BOOLEAN]
      /\ history'.waited = history.waited
  BY <1>1, FaultType DEF Pulisce, WorkerTypeOK
<1>7. WorkerTypeOK'
  BY <1>1, <1>4, <1>5, <1>6 DEF Pulisce, WorkerTypeOK
<1>8. WaitsSinceItExpired'
  BY <1>5, <1>6 DEF Punctual, WaitsSinceItExpired, Expired
<1>9. ASSUME worker'.running, ~history'.purgeFailed, Expired'
      PROVE  history'.waited <= Patience(worker)'
  <2>1. bucket' = Purged(At("worker", worker.age)) /\ history' = history
    BY <1>1, <1>9 DEF Pulisce, WorkerTypeOK
  <2>2. bucket'.count > 0
    BY <1>9 DEF Expired
  <2>3. bucket.left > At("worker", worker.age) /\ bucket' = bucket
    BY <1>1, <2>1, <2>2, PurgedFacts, ClockFacts
  <2>4. worker.age \in 0 .. MaxRound /\ bucket.left \in Int
    BY <1>1, Numbers DEF Process, Bucket, LongPast
  <2>5. bucket.left > -worker.age
    BY <1>1, <2>3, <2>4, ClockFacts
  <2>6. bucket.left # LongPast
    BY <2>4, <2>5, Numbers DEF LongPast
  <2>7. history.waited <= -bucket.left
    BY <1>9, <2>3, <2>6 DEF Punctual, WaitsSinceItExpired, Expired
  <2>8. history.waited \in Int
    BY <1>1 DEF WorkerTypeOK
  <2>9. Patience(worker)' = MaxRound
    BY <1>4, <1>9, Numbers DEF Patience
  <2> QED
    BY <1>6, <2>4, <2>5, <2>7, <2>8, <2>9, Numbers
<1> QED
  BY <1>4, <1>7, <1>8, <1>9 DEF Punctual, InTime, Loop, LoopOf

\* The pass, the sleep, and what comes from outside.
LEMMA OtherSteps ==
    ASSUME Punctual, Spazza \/ Wake \/ Start \/ Stop \/ Kill \/ NewRecording
    PROVE  Punctual'
<1>1. /\ WorkerTypeOK /\ worker \in Process /\ Loop
      /\ backlog \in 0 .. MaxBacklog /\ faults \in 0 .. MaxFaults
  BY DEF Punctual, WorkerTypeOK
<1>2. CASE Spazza
  <2> DEFINE w == [worker EXCEPT !.sweepIn = SweepEvery]
  <2>1. /\ w \in Process /\ w.pc = "spazza" /\ w.running = worker.running
        /\ w.purgeIn = worker.purgeIn /\ w.round = worker.round /\ worker.pc = "spazza"
    BY <1>1, <1>2, Numbers DEF Process, Spazza
  <2>2. worker' = AfterSweep(w)
    BY <1>2 DEF Spazza
  <2> HIDE DEF w
  <2>3. Follows(AfterSweep(w), w) /\ Patience(w) = Patience(worker)
    BY <2>1, RoundFollows DEF Patience
  <2> QED
    BY <1>1, <1>2, <2>1, <2>2, <2>3, LoopStep DEF Follows, Spazza
<1>3. CASE Wake
  <2>1. Follows(NewRound(worker), worker)
    BY <1>1, <1>3, RoundFollows DEF Wake
  <2> QED
    BY <1>1, <1>3, <2>1, LoopStep DEF Follows, Wake
<1>4. CASE Start
  <2> DEFINE w == [Off EXCEPT !.pc = "elabora", !.running = TRUE, !.purgeIn = 0,
                              !.sweepIn = SweepEvery]
  <2>1. w \in Process /\ w.pc = "elabora" /\ w.processed = 0 /\ w.purgeIn = 0 /\ w.round = 0
    BY Ends DEF Process, Off
  <2>2. worker' = w
    BY <1>4 DEF Start
  <2> HIDE DEF w
  <2>3. /\ bucket' = bucket /\ skew' = skew /\ req' = req /\ backlog' = backlog
        /\ faults' = faults /\ history' = [history EXCEPT !.waited = 0]
    BY <1>4 DEF Start
  <2>4. LongestWait \in Nat
    BY Numbers DEF LongestWait
  <2>5. /\ history' \in [admitted : [Recent -> 0 .. Stretch],
                         waited : 0 .. (LongestWait + 1), purgeFailed : BOOLEAN]
        /\ history'.waited = 0
    BY <1>1, <2>3, <2>4 DEF WorkerTypeOK
  <2>6. WorkerTypeOK'
    BY <1>1, <2>1, <2>2, <2>3, <2>5 DEF WorkerTypeOK
  <2>7. WaitsSinceItExpired'
    <3>1. bucket.left \in Int
      BY <1>1, Numbers DEF WorkerTypeOK, Bucket, LongPast
    <3> QED
      BY <2>3, <2>5, <3>1 DEF WaitsSinceItExpired, Expired
  <2>8. Patience(worker)' = MaxRound + PULIZIA_IP_OGNI_MS
    BY <2>1, <2>2, Numbers DEF Patience
  <2>9. InTime'
    BY <2>5, <2>8, Numbers DEF InTime
  <2> QED
    BY <2>1, <2>2, <2>6, <2>7, <2>9, Numbers DEF Punctual, Loop
<1>5. CASE Stop
  <2> DEFINE s == [worker EXCEPT !.running = FALSE]
  <2>1. /\ s \in Process /\ s.pc = worker.pc /\ ~s.running /\ s.processed = worker.processed
        /\ s.age = worker.age /\ s.round = worker.round
    BY <1>1 DEF Process
  <2>2. worker' = IF worker.pc = "dorme" THEN NewRound(s) ELSE s
    BY <1>5 DEF Stop
  <2> HIDE DEF s
  <2>3. worker.pc # "spento"
    BY <1>1, <1>5 DEF Stop, Loop, Off
  <2>4. Follows(NewRound(s), s)
    BY <2>1, <2>3, RoundFollows
  <2>5. worker.pc # "dorme" => LoopOf(s)
    BY <1>1, <2>1, <2>3 DEF Loop, LoopOf
  <2>6. worker' \in Process /\ LoopOf(worker') /\ ~worker'.running
    BY <2>1, <2>2, <2>4, <2>5, OffFacts DEF Follows
  <2> QED
    BY <1>1, <1>5, <2>6, LoopStep DEF Stop
<1>6. CASE Kill
  BY <1>1, <1>6, OffFacts, FaultType, LoopStep DEF Kill
<1>7. CASE NewRecording
  <2>1. Patience(worker)' = Patience(worker) /\ Patience(worker) \in Int
    BY <1>1, <1>7, Numbers DEF NewRecording, Patience, Process
  <2>2. backlog' \in 0 .. MaxBacklog
    BY <1>1, <1>7, Numbers DEF NewRecording
  <2>3. LoopOf(worker)
    BY <1>1 DEF Loop, LoopOf
  <2> QED
    BY <1>1, <1>7, <2>1, <2>2, <2>3, LoopStep DEF NewRecording
<1> QED
  BY <1>2, <1>3, <1>4, <1>5, <1>6, <1>7

\* A tick makes the row and the patience older alike.
LEMMA TickStep ==
    ASSUME Punctual, Tick
    PROVE  Punctual'
<1>1. /\ WorkerTypeOK /\ worker \in Process /\ Loop /\ bucket \in Bucket
      /\ req \in [Replicas -> Request]
  BY DEF Punctual, WorkerTypeOK
<1> DEFINE w == [worker EXCEPT !.purgeIn = Nearer(@, 0), !.sweepIn = Nearer(@, 0),
                               !.sleep = Nearer(@, 0), !.round = @ + 1,
                               !.age = IF worker.pc = "pulisce" THEN @ + 1 ELSE @]
<1>2. ASSUME worker.pc # "spento"
      PROVE  /\ worker' \in Process /\ LoopOf(worker') /\ worker'.running = worker.running
             /\ Patience(worker') >= Patience(worker) + 1
  <2>1. worker.round < MaxRound
    BY <1>2 DEF Tick
  <2>2. \A c \in Nat : \A n \in 0 .. c : Nearer(n, 0) \in 0 .. c
    BY DEF Nearer
  <2>3. /\ Nearer(worker.purgeIn, 0) \in 0 .. PULIZIA_IP_OGNI_MS
        /\ Nearer(worker.sweepIn, 0) \in 0 .. SweepEvery
        /\ Nearer(worker.sleep, 0) \in 0 .. POLL_INTERVAL_MS
        /\ worker.round + 1 \in 0 .. MaxRound
        /\ (IF worker.pc = "pulisce" THEN worker.age + 1 ELSE worker.age) \in 0 .. MaxRound
    BY <1>1, <2>1, <2>2, Numbers DEF Process, Loop
  <2>4. /\ w \in Process /\ w.pc = worker.pc /\ w.running = worker.running
        /\ w.purgeIn = Nearer(worker.purgeIn, 0) /\ w.round = worker.round + 1
        /\ w.age = (IF worker.pc = "pulisce" THEN worker.age + 1 ELSE worker.age)
        /\ w.processed = worker.processed
    BY <1>1, <2>3 DEF Process
  <2> HIDE DEF w
  <2>5. LoopOf(w)
    BY <1>1, <1>2, <2>4, Numbers DEF Loop, LoopOf, Process
  <2>6. Patience(w) >= Patience(worker) + 1
    BY <1>1, <2>4, Numbers DEF Patience, Nearer, Process
  <2>7. worker' = w
    BY <1>2 DEF Tick, w
  <2> QED
    BY <1>2, <2>4, <2>5, <2>6, <2>7
<1>3. ASSUME worker.pc = "spento" PROVE worker = Off /\ worker' = Off
  BY <1>1, <1>3 DEF Tick, Loop
<1>4. /\ worker' \in Process /\ LoopOf(worker')
      /\ worker'.running => worker.running /\ Patience(worker)' >= Patience(worker) + 1
  <2>1. /\ worker' \in Process /\ LoopOf(worker') /\ worker'.running = worker.running
        /\ worker.running => Patience(worker') >= Patience(worker) + 1
    <3>1. CASE worker.pc = "spento"
      BY <1>3, <3>1, OffFacts
    <3>2. CASE worker.pc # "spento"
      BY <1>2, <3>2
    <3> QED
      BY <3>1, <3>2
  <2>2. Patience(worker)' = Patience(worker')
    BY DEF Patience
  <2> QED
    BY <2>1, <2>2
<1> HIDE DEF w
<1>5. /\ bucket' \in Bucket /\ bucket'.count = bucket.count
      /\ bucket.count > 0 => bucket'.left = Nearer(bucket.left, LongPast)
  <2>1. Nearer(bucket.left, LongPast) \in LongPast .. (WindowMs + MaxSkew)
    BY <1>1, Numbers DEF Bucket, Nearer, LongPast
  <2>2. bucket' = IF bucket.count = 0 THEN bucket
                  ELSE [bucket EXCEPT !.left = Nearer(bucket.left, LongPast)]
    BY DEF Tick
  <2> QED
    BY <1>1, <2>1, <2>2 DEF Bucket
<1>6. req' \in [Replicas -> Request]
  <2>1. ASSUME NEW r \in Replicas, req[r].pc # "libera"
        PROVE  [req[r] EXCEPT !.age = @ + 1] \in Request
    <3>1. req[r].age < MaxDelay
      BY <2>1 DEF Tick
    <3>2. req[r] \in Request /\ req[r].age + 1 \in 0 .. MaxDelay
      BY <1>1, <3>1, Numbers DEF Request
    <3> QED
      BY <3>2 DEF Request
  <2> QED
    BY <1>1, <2>1 DEF Tick
<1>7. /\ history' \in [admitted : [Recent -> 0 .. Stretch],
                       waited : 0 .. (LongestWait + 1), purgeFailed : BOOLEAN]
      /\ history'.waited = IF Expired THEN Older(history.waited, LongestWait + 1) ELSE 0
      /\ history'.purgeFailed = history.purgeFailed
  <2> DEFINE A == [Recent -> 0 .. Stretch]
             a == [i \in Recent |-> Older(history.admitted[i], Stretch)]
             n == IF Expired THEN Older(history.waited, LongestWait + 1) ELSE 0
  <2>1. history \in [admitted : A, waited : 0 .. (LongestWait + 1), purgeFailed : BOOLEAN]
    BY <1>1 DEF WorkerTypeOK
  <2>2. history.admitted \in A /\ history.waited \in 0 .. (LongestWait + 1)
    BY <2>1
  <2>4. a \in A
    BY <2>2, StretchFacts DEF Older
  <2>5. n \in 0 .. (LongestWait + 1)
    <3>1. LongestWait \in Nat
      BY Numbers DEF LongestWait
    <3> QED
      BY <2>2, <3>1 DEF Older
  <2>6. history' = [history EXCEPT !.waited = n, !.admitted = a]
    BY DEF Tick, Expired
  <2> HIDE DEF A, a, n
  <2>7. /\ history' \in [admitted : A, waited : 0 .. (LongestWait + 1), purgeFailed : BOOLEAN]
        /\ history'.waited = n /\ history'.purgeFailed = history.purgeFailed
    BY <2>1, <2>4, <2>5, <2>6
  <2> QED
    BY <2>7 DEF A, n
<1>8. WorkerTypeOK'
  BY <1>1, <1>4, <1>5, <1>6, <1>7 DEF Tick, WorkerTypeOK
<1>9. /\ history.waited \in Nat /\ bucket.left \in Int /\ bucket.left >= LongPast
      /\ bucket.count \in Nat /\ LongestWait \in Nat /\ LongPast \in Int /\ LongPast <= 0
  BY <1>1, Numbers DEF WorkerTypeOK, Bucket, LongPast, LongestWait
<1>10. /\ Expired => history'.waited <= history.waited + 1
       /\ ~Expired => history'.waited = 0
       /\ history'.waited \in Nat
  BY <1>7, <1>9 DEF Older
<1>11. ASSUME Expired' PROVE history'.waited <= -bucket'.left \/ bucket'.left = LongPast
  <2>1. bucket.count > 0 /\ bucket'.left = Nearer(bucket.left, LongPast) /\ bucket'.left <= 0
    BY <1>5, <1>11 DEF Expired
  <2>2. CASE Expired
    <3>1. history.waited <= -bucket.left \/ bucket.left = LongPast
      BY <2>2 DEF Punctual, WaitsSinceItExpired
    <3> QED
      BY <1>9, <1>10, <2>1, <2>2, <3>1 DEF Nearer
  <2>3. CASE ~Expired
    BY <1>5, <1>9, <1>10, <2>1, <2>3 DEF Nearer
  <2> QED
    BY <2>2, <2>3
<1>12. ASSUME worker'.running, ~history'.purgeFailed, Expired'
       PROVE  history'.waited <= Patience(worker)'
  <2>1. /\ worker.running /\ ~history.purgeFailed /\ Patience(worker)' >= Patience(worker) + 1
    BY <1>4, <1>7, <1>12
  <2>2. Patience(worker) \in Nat
    BY <1>1, Numbers DEF Patience, Process
  <2>3. Patience(worker)' \in Nat
    BY <1>4, Numbers DEF Patience, Process
  <2>4. Expired => history.waited <= Patience(worker)
    BY <2>1 DEF Punctual, InTime
  <2> QED
    BY <1>9, <1>10, <2>1, <2>2, <2>3, <2>4
<1>13. WaitsSinceItExpired' /\ InTime'
  BY <1>11, <1>12 DEF WaitsSinceItExpired, InTime
<1> QED
  BY <1>4, <1>8, <1>13 DEF Punctual, Loop, LoopOf

LEMMA PunctualInit == Init => Punctual
<1> SUFFICES ASSUME Init PROVE Punctual
  OBVIOUS
<1>1. WorkerTypeOK
  <2>1. NoBucket \in Bucket
    BY Numbers DEF NoBucket, Bucket, LongPast
  <2>2. req \in [Replicas -> Request]
    <3>1. [pc |-> "libera", age |-> 0, sinceCleanup |-> 0] \in Request
      BY Numbers DEF Request
    <3> QED
      BY <3>1 DEF Init
  <2>3. history \in [admitted : [Recent -> 0 .. Stretch],
                     waited : 0 .. (LongestWait + 1), purgeFailed : BOOLEAN]
    <3>1. Stretch \in 0 .. Stretch /\ 0 \in 0 .. (LongestWait + 1)
      BY Numbers, StretchFacts DEF LongestWait
    <3> QED
      BY <3>1 DEF Init
  <2>4. 0 \in 0 .. MaxBacklog /\ 0 \in 0 .. MaxFaults
    BY Numbers
  <2> QED
    BY <2>1, <2>2, <2>3, <2>4, OffFacts DEF Init, WorkerTypeOK
<1>2. bucket.count = 0
  BY DEF Init, NoBucket
<1> QED
  BY <1>1, <1>2 DEF Init, Off, Punctual, Loop, WaitsSinceItExpired, InTime, Expired

LEMMA PunctualNext == Punctual /\ [Next]_vars => Punctual'
<1> SUFFICES ASSUME Punctual, [Next]_vars PROVE Punctual'
  OBVIOUS
<1>1. CASE UNCHANGED vars
  <2>1. /\ skew' = skew /\ bucket' = bucket /\ req' = req /\ worker' = worker
        /\ backlog' = backlog /\ faults' = faults /\ history' = history
    BY <1>1 DEF vars
  <2> QED
    BY <2>1 DEF Punctual, WorkerTypeOK, Loop, WaitsSinceItExpired, InTime, Expired, Patience
<1> QED
  BY <1>1, RequestStep, ElaboraStep, PulisceStep, OtherSteps, TickStep DEF Next

LEMMA PunctualAlways == Spec => []Punctual
BY PunctualInit, PunctualNext, PTL DEF Spec

------------------------------------------------------------------------------
(* The windows: two of them begin at least a Stretch apart, because the first one *)
(* ends by the clock of whoever ends it.                                          *)

\* The requests let through by the window that is open.
Within == IF bucket.count > Max THEN Max ELSE bucket.count

\* The window began with the earliest of them, by a clock that was late by MaxDelay at most.
BeganThen ==
    bucket.count > 0 =>
        history.admitted[Within] = Stretch
            \/ bucket.left + history.admitted[Within] >= WindowMs - MaxDelay

Ordered == \A i, j \in Recent : i <= j => history.admitted[i] <= history.admitted[j]

\* What came before the window before this one is old.
Spaced == Ordered /\ BeganThen /\ history.admitted[Within + Max + 1] = Stretch

LEMMA WithinFacts ==
    ASSUME WorkerTypeOK
    PROVE  /\ Within \in 0 .. Max /\ Within + Max + 1 \in Recent /\ Max + 1 \in Recent
           /\ bucket.count > 0 => Within \in 1 .. Max /\ Within \in Recent
           /\ bucket.count = 0 => Within = 0
           /\ bucket.count \in 0 .. (Max + 1) /\ bucket.left \in Int
           /\ history.admitted \in [Recent -> 0 .. Stretch]
<1>1. bucket.count \in 0 .. (Max + 1) /\ bucket.left \in Int
  BY Numbers DEF WorkerTypeOK, Bucket, LongPast
<1>2. history.admitted \in [Recent -> 0 .. Stretch]
  BY DEF WorkerTypeOK
<1> QED
  BY <1>1, <1>2, Numbers DEF Within, Recent

\* Whoever takes the row for expired is at least a Stretch after its beginning.
LEMMA ExpiredIsOld ==
    ASSUME WorkerTypeOK, Spaced, NEW at \in Int, at <= MaxSkew,
           bucket.count = 0 \/ bucket.left <= at
    PROVE  history.admitted[Max + 1] = Stretch
<1>0. /\ Within \in 0 .. Max /\ Within + Max + 1 \in Recent /\ Max + 1 \in Recent
      /\ bucket.count > 0 => Within \in 1 .. Max /\ Within \in Recent
      /\ bucket.count = 0 => Within = 0
      /\ bucket.count \in 0 .. (Max + 1) /\ bucket.left \in Int
      /\ history.admitted \in [Recent -> 0 .. Stretch]
  BY WithinFacts
<1>1. CASE bucket.count = 0
  BY <1>0, <1>1, Numbers DEF Spaced
<1>2. CASE bucket.count > 0
  <2>1. history.admitted[Within] \in 0 .. Stretch /\ history.admitted[Max + 1] \in 0 .. Stretch
    BY <1>0, <1>2
  <2>2. history.admitted[Within] <= history.admitted[Max + 1]
    BY <1>0, <1>2, Numbers DEF Spaced, Ordered
  <2>3. history.admitted[Within] >= Stretch
    BY <1>0, <1>2, <2>1, Numbers, StretchFacts DEF Spaced, BeganThen, Stretch
  <2> QED
    BY <2>1, <2>2, <2>3, StretchFacts
<1> QED
  BY <1>0, <1>1, <1>2

LEMMA PurgeKeepsSpaced ==
    ASSUME WorkerTypeOK, WorkerTypeOK', Spaced, NEW at \in Int, at <= MaxSkew,
           bucket' = Purged(at), history'.admitted = history.admitted
    PROVE  Spaced'
<1>1. CASE bucket' = bucket
  BY <1>1 DEF Spaced, Ordered, BeganThen, Within
<1>2. CASE bucket' = NoBucket /\ bucket.left <= at
  <2>1. history.admitted[Max + 1] = Stretch
    BY <1>2, ExpiredIsOld
  <2>2. bucket'.count = 0 /\ Within' = 0
    BY <1>2, Numbers DEF NoBucket, Within
  <2> QED
    BY <2>1, <2>2, Numbers DEF Spaced, Ordered, BeganThen
<1> QED
  BY <1>1, <1>2 DEF Purged

LEMMA HitKeepsSpaced ==
    ASSUME WorkerTypeOK, WorkerTypeOK', Spaced, NEW r \in Replicas, Hit(r)
    PROVE  Spaced'
<1> DEFINE at == At(r, req[r].age)
           ages == history.admitted
<1>0. /\ Within \in 0 .. Max /\ Within + Max + 1 \in Recent /\ Max + 1 \in Recent
      /\ bucket.count > 0 => Within \in 1 .. Max /\ Within \in Recent
      /\ bucket.count = 0 => Within = 0
      /\ bucket.count \in 0 .. (Max + 1) /\ bucket.left \in Int
      /\ ages \in [Recent -> 0 .. Stretch]
  BY WithinFacts
<1>1. at \in (-MaxDelay) .. MaxSkew /\ bucket \in Bucket
  BY ClockFacts DEF WorkerTypeOK
<1>2. bucket' = Counted(at)
  BY DEF Hit
<1>3. bucket'.count > Max => history' = history
  BY DEF Hit
<1>4. bucket'.count <= Max => history'.admitted = Admit(ages)
  <2>1. bucket'.count \in Int
    BY Numbers DEF WorkerTypeOK, Bucket
  <2>2. history \in [admitted : [Recent -> 0 .. Stretch], waited : 0 .. (LongestWait + 1),
                     purgeFailed : BOOLEAN]
    BY DEF WorkerTypeOK
  <2> QED
    BY <2>1, <2>2, Numbers DEF Hit
<1> HIDE DEF at
<1>5. ASSUME history'.admitted = Admit(ages)
      PROVE  Ordered' /\ history'.admitted[1] = 0
             /\ \A i \in Recent : i + 1 \in Recent => history'.admitted[i + 1] = ages[i]
  <2>1. /\ history'.admitted \in [Recent -> 0 .. Stretch] /\ history'.admitted[1] = 0
        /\ \A i \in Recent : i + 1 \in Recent => history'.admitted[i + 1] = ages[i]
    BY <1>0, <1>5, AdmitFacts
  <2>2. ASSUME NEW i \in Recent, NEW j \in Recent, i <= j
        PROVE  history'.admitted[i] <= history'.admitted[j]
    <3>1. history'.admitted[j] \in 0 .. Stretch
      BY <2>1, <2>2
    <3>2. CASE i = 1
      BY <2>1, <3>1, <3>2, StretchFacts
    <3>3. CASE i # 1
      <4>1. i - 1 \in Recent /\ j - 1 \in Recent /\ i - 1 <= j - 1
            /\ (i - 1) + 1 = i /\ (j - 1) + 1 = j
        BY <2>2, <3>3, Numbers DEF Recent
      <4>2. ages[i - 1] <= ages[j - 1]
        BY <4>1 DEF Spaced, Ordered
      <4>3. history'.admitted[i] = ages[i - 1] /\ history'.admitted[j] = ages[j - 1]
        BY <2>1, <2>2, <4>1
      <4> QED
        BY <4>2, <4>3
    <3> QED
      BY <3>2, <3>3
  <2> QED
    BY <2>1, <2>2 DEF Ordered
<1>6. CASE bucket.count = 0 \/ bucket.left <= at
  <2>1. bucket'.count = 1 /\ bucket'.left = at + WindowMs
    BY <1>2, <1>6 DEF Counted
  <2>2. Within' = 1 /\ history'.admitted = Admit(ages)
    BY <1>4, <2>1, Numbers DEF Within
  <2>3. ages[Max + 1] = Stretch
    BY <1>1, <1>6, ExpiredIsOld, Numbers
  <2>4. Max + 1 \in Recent /\ (Max + 1) + 1 \in Recent /\ 1 + Max + 1 = (Max + 1) + 1
    BY Numbers DEF Recent
  <2>5. history'.admitted[1 + Max + 1] = Stretch
    BY <1>5, <2>2, <2>3, <2>4
  <2>6. BeganThen'
    BY <1>1, <1>5, <2>1, <2>2, Numbers DEF BeganThen
  <2> QED
    BY <1>5, <2>2, <2>5, <2>6 DEF Spaced
<1>7. CASE bucket.count > 0 /\ ~(bucket.left <= at)
  <2>1. /\ bucket'.left = bucket.left
        /\ bucket'.count = IF bucket.count > Max THEN bucket.count ELSE bucket.count + 1
    BY <1>0, <1>1, <1>2, <1>7 DEF Counted, Bucket
  <2>2. CASE bucket.count >= Max
    <3>1. Within' = Within /\ bucket'.count > Max /\ bucket'.count > 0
      BY <1>0, <2>1, <2>2, Numbers DEF Within
    <3>2. history' = history
      BY <1>3, <3>1
    <3> QED
      BY <1>7, <2>1, <3>1, <3>2 DEF Spaced, Ordered, BeganThen
  <2>3. CASE bucket.count < Max
    <3>1. Within' = Within + 1 /\ bucket'.count <= Max /\ Within = bucket.count
      BY <1>0, <2>1, <2>3, Numbers DEF Within
    <3>2. history'.admitted = Admit(ages)
      BY <1>4, <3>1
    <3>3. /\ Within + 1 \in Recent /\ (Within + Max + 1) + 1 \in Recent
          /\ (Within + 1) + Max + 1 = (Within + Max + 1) + 1
      <4>1. Within \in Int /\ 0 <= Within /\ Within < Max
        BY <1>0, <2>3, <3>1
      <4>2. ASSUME NEW w \in Int, 0 <= w, w < Max
            PROVE  /\ w + 1 \in Recent /\ (w + Max + 1) + 1 \in Recent
                   /\ (w + 1) + Max + 1 = (w + Max + 1) + 1
        BY <4>2, Numbers DEF Recent
      <4> QED
        BY <4>1, <4>2
    <3>4. history'.admitted[Within + 1] = ages[Within]
      BY <1>0, <1>5, <1>7, <3>2, <3>3
    <3>5. history'.admitted[Within' + Max + 1] = Stretch
      BY <1>0, <1>5, <3>1, <3>2, <3>3 DEF Spaced
    <3>6. BeganThen'
      BY <1>7, <2>1, <3>1, <3>4 DEF Spaced, BeganThen
    <3> QED
      BY <1>5, <3>2, <3>5, <3>6 DEF Spaced
  <2> QED
    BY <1>0, <2>2, <2>3, Numbers
<1> QED
  BY <1>0, <1>6, <1>7

\* Whatever the clock, a tick takes from the row what it adds to the ages.
LEMMA TickKeepsSpaced ==
    ASSUME WorkerTypeOK, WorkerTypeOK', Spaced, Tick
    PROVE  Spaced'
<1> DEFINE ages == history.admitted
<1>0. /\ Within \in 0 .. Max /\ Within + Max + 1 \in Recent
      /\ bucket.count > 0 => Within \in Recent
      /\ bucket.count \in 0 .. (Max + 1) /\ bucket.left \in Int
      /\ ages \in [Recent -> 0 .. Stretch]
  BY WithinFacts
<1>1. /\ bucket'.count = bucket.count
      /\ bucket.count > 0 => bucket'.left = Nearer(bucket.left, LongPast)
  <2>1. bucket \in Bucket
    BY DEF WorkerTypeOK
  <2> QED
    BY <2>1 DEF Tick, Bucket
<1>2. \A i \in Recent : history'.admitted[i] = Older(ages[i], Stretch)
  <2>1. history'.admitted = [i \in Recent |-> Older(ages[i], Stretch)]
    <3> DEFINE a == [i \in Recent |-> Older(ages[i], Stretch)]
               n == IF bucket.count > 0 /\ bucket.left <= 0
                    THEN Older(history.waited, LongestWait + 1) ELSE 0
    <3>1. history' = [history EXCEPT !.waited = n, !.admitted = a]
      BY DEF Tick
    <3>2. history \in [admitted : [Recent -> 0 .. Stretch], waited : 0 .. (LongestWait + 1),
                       purgeFailed : BOOLEAN]
      BY DEF WorkerTypeOK
    <3> HIDE DEF a, n
    <3>3. history'.admitted = a
      BY <3>1, <3>2
    <3> QED
      BY <3>3 DEF a
  <2> QED
    BY <2>1
<1>3. \A i \in Recent : ages[i] \in 0 .. Stretch
  BY <1>0
<1>4. Ordered'
  BY <1>2, <1>3, StretchFacts DEF Spaced, Ordered, Older
<1>5. Within' = Within
  BY <1>1 DEF Within
<1>6. history'.admitted[Within + Max + 1] = Stretch
  BY <1>0, <1>2, StretchFacts DEF Spaced, Older
<1>7. BeganThen'
  <2>1. ASSUME bucket.count > 0
        PROVE  \/ history'.admitted[Within] = Stretch
               \/ bucket'.left + history'.admitted[Within] >= WindowMs - MaxDelay
    <3>1. history'.admitted[Within] = Older(ages[Within], Stretch) /\ ages[Within] \in 0 .. Stretch
      BY <1>0, <1>2, <1>3, <2>1
    <3>2. bucket'.left >= bucket.left - 1 /\ bucket'.left \in Int
      BY <1>0, <1>1, <2>1 DEF Nearer
    <3>3. ages[Within] = Stretch \/ bucket.left + ages[Within] >= WindowMs - MaxDelay
      BY <2>1 DEF Spaced, BeganThen
    <3> QED
      BY <1>0, <3>1, <3>2, <3>3, StretchFacts, Numbers DEF Older
  <2> QED
    BY <1>1, <1>5, <2>1 DEF BeganThen
<1> QED
  BY <1>4, <1>5, <1>6, <1>7 DEF Spaced

LEMMA SpacedNext ==
    ASSUME WorkerTypeOK, WorkerTypeOK', Spaced, [Next]_vars
    PROVE  Spaced'
<1>1. CASE bucket' = bucket /\ history'.admitted = history.admitted
  BY <1>1 DEF Spaced, Ordered, BeganThen, Within
<1>2. ASSUME NEW r \in Replicas, Arrive(r) \/ HitFails(r)
      PROVE  Spaced'
  BY <1>1, <1>2 DEF Arrive, HitFails
<1>3. ASSUME NEW r \in Replicas, Cleanup(r)
      PROVE  Spaced'
  <2>1. At(r, req[r].age) \in Int /\ At(r, req[r].age) <= MaxSkew
    BY ClockFacts, Numbers
  <2>2. history' = history /\ (bucket' = Purged(At(r, req[r].age)) \/ bucket' = bucket)
    BY <1>3 DEF Cleanup
  <2> QED
    BY <1>1, <2>1, <2>2, PurgeKeepsSpaced
<1>4. CASE Pulisce
  <2>1. At("worker", worker.age) \in Int /\ At("worker", worker.age) <= MaxSkew
    <3>1. skew["worker"] \in 0 .. MaxSkew /\ worker.age \in 0 .. MaxRound
      BY DEF WorkerTypeOK, Process
    <3> QED
      BY <3>1, Numbers DEF At
  <2>2. /\ history'.admitted = history.admitted
        /\ bucket' = Purged(At("worker", worker.age)) \/ bucket' = bucket
    BY <1>4 DEF Pulisce, WorkerTypeOK
  <2> QED
    BY <1>1, <2>1, <2>2, PurgeKeepsSpaced
<1>5. CASE Elabora \/ Spazza \/ Wake \/ Start \/ Stop \/ Kill \/ NewRecording \/ UNCHANGED vars
  <2>1. bucket' = bucket /\ history'.admitted = history.admitted
    BY <1>5 DEF Elabora, Spazza, Wake, Start, Stop, Kill, NewRecording, vars, WorkerTypeOK
  <2> QED
    BY <1>1, <2>1
<1> QED
  BY <1>2, <1>3, <1>4, <1>5, HitKeepsSpaced, TickKeepsSpaced DEF Next

------------------------------------------------------------------------------
(* Theorems. *)

\* The windows, the requests in hand and the loop keep their types, for any limits,
\* intervals and skews.
THEOREM WorkerTypeCorrectness == Spec => []WorkerTypeOK
<1>1. Punctual => WorkerTypeOK
  BY DEF Punctual
<1> QED
  BY <1>1, PunctualAlways, PTL

\* pulizie.ts promises an expired address waits an interval at most.  With a worker that
\* runs and whose purges do not fail it is an interval and three rounds of its loop, and
\* no clock that is ahead makes it longer.
THEOREM ExpiredAddressesGo == Spec => []ExpiredAddressesLeave
<1>1. ASSUME Punctual, worker.running, ~history.purgeFailed, bucket.count > 0, bucket.left <= 0
      PROVE  history.waited <= LongestWait
  <2>1. history.waited <= Patience(worker)
    BY <1>1 DEF Punctual, InTime, Expired
  <2>2. worker \in Process /\ history.waited \in Int
    BY <1>1 DEF Punctual, WorkerTypeOK
  <2>3. Patience(worker) \in Int /\ Patience(worker) <= LongestWait
    BY <2>2, Numbers DEF Patience, Process, LongestWait
  <2>4. LongestWait \in Int
    BY Numbers DEF LongestWait
  <2> QED
    BY <2>1, <2>2, <2>3, <2>4
<1>2. Punctual => ExpiredAddressesLeave
  BY <1>1 DEF ExpiredAddressesLeave
<1> QED
  BY <1>2, PunctualAlways, PTL

\* From the loop to its exit: with the stop asked for, NewRound is the end, and no
\* await but the one in hand comes before it.  Nothing but a stop or the end of the
\* process clears `running'.
LEMMA StoppedLoop ==
    ASSUME NEW w \in Process
    PROVE  /\ ~w.running => /\ NewRound(w) = Off /\ AfterSweep(w) = Off /\ AfterPurge(w) = Off
                            /\ AfterBatch(w) = Off /\ AfterJob(w) = Off
           /\ w.running => /\ NewRound(w).running /\ AfterSweep(w).running
                           /\ AfterPurge(w).running /\ AfterBatch(w).running
                           /\ AfterJob(w).running
<1> DEFINE v == [w EXCEPT !.round = 0]
           q == [v EXCEPT !.pc = "pulisce", !.age = 0]
<1>1. v \in Process /\ v.running = w.running /\ q.running = w.running
  BY Ends DEF Process
<1>2. AfterBatch(w) = IF w.running /\ w.purgeIn = 0 THEN q ELSE AfterPurge(v)
  BY DEF AfterBatch
<1> HIDE DEF v, q
<1>3. \A u \in Process : ~u.running =>
            NewRound(u) = Off /\ AfterSweep(u) = Off /\ AfterPurge(u) = Off
  BY DEF NewRound, AfterSweep, AfterPurge
<1>4. ASSUME NEW u \in Process, u.running
      PROVE  NewRound(u).running /\ AfterSweep(u).running /\ AfterPurge(u).running
  <2>1. /\ [u EXCEPT !.pc = "elabora", !.processed = 0].running
        /\ [u EXCEPT !.pc = "dorme", !.sleep = POLL_INTERVAL_MS].running
        /\ [u EXCEPT !.pc = "spazza"].running
    BY <1>4 DEF Process
  <2> QED
    BY <1>4, <2>1 DEF NewRound, AfterSweep, AfterPurge
<1>5. CASE w.running
  BY <1>1, <1>2, <1>4, <1>5 DEF AfterJob
<1>6. CASE ~w.running
  BY <1>1, <1>2, <1>3, <1>6 DEF AfterJob
<1> QED
  BY <1>5, <1>6

\* After a stop request the worker ends what it has in hand and begins nothing: shutdown
\* ends a sleep, and every check of the loop asks for `running'.
THEOREM StopsPromptly == Spec => StopIsPrompt
<1> DEFINE Prompt == \/ worker' = Off
                     \/ /\ worker.pc # "dorme" /\ worker'.pc = worker.pc
                        /\ worker'.processed = worker.processed
<1>1. ASSUME Punctual, [Next]_vars, worker.pc # "spento", ~worker'.running PROVE Prompt
  <2>1. worker \in Process /\ Loop
    BY <1>1 DEF Punctual, WorkerTypeOK
  <2>2. ASSUME NEW w \in Process, w.running = worker.running,
               \/ worker' = NewRound(w) \/ worker' = AfterSweep(w) \/ worker' = AfterPurge(w)
               \/ worker' = AfterBatch(w) \/ worker' = AfterJob(w)
        PROVE  Prompt
    BY <1>1, <2>2, StoppedLoop
  <2>3. CASE Elabora
    <3> DEFINE w == [worker EXCEPT !.processed = @ + 1]
    <3>1. /\ worker.pc = "elabora"
          /\ worker' = AfterJob(w) \/ worker' = AfterBatch(worker)
      BY <2>3 DEF Elabora
    <3>2. w \in Process /\ w.running = worker.running
      BY <2>1, <3>1, Numbers DEF Process, Loop
    <3> HIDE DEF w, Prompt
    <3> QED
      BY <2>1, <2>2, <3>1, <3>2
  <2>4. CASE Pulisce
    <3> DEFINE w == [worker EXCEPT !.purgeIn = PULIZIA_IP_OGNI_MS, !.age = 0]
    <3>1. w \in Process /\ w.running = worker.running
      BY <2>1, Ends DEF Process
    <3>2. worker' = AfterPurge(w)
      BY <2>4 DEF Pulisce
    <3> HIDE DEF w, Prompt
    <3> QED
      BY <2>2, <3>1, <3>2
  <2>5. CASE Spazza
    <3> DEFINE w == [worker EXCEPT !.sweepIn = SweepEvery]
    <3>1. w \in Process /\ w.running = worker.running
      BY <2>1, Ends DEF Process
    <3>2. worker' = AfterSweep(w)
      BY <2>5 DEF Spazza
    <3> HIDE DEF w, Prompt
    <3> QED
      BY <2>2, <3>1, <3>2
  <2>6. CASE Wake
    BY <2>1, <2>2, <2>6 DEF Wake
  <2>7. CASE Stop
    <3> DEFINE s == [worker EXCEPT !.running = FALSE]
    <3>1. /\ s \in Process /\ ~s.running /\ s.pc = worker.pc
          /\ s.processed = worker.processed
      BY <2>1 DEF Process
    <3>2. worker' = IF worker.pc = "dorme" THEN NewRound(s) ELSE s
      BY <2>7 DEF Stop
    <3> HIDE DEF s
    <3> QED
      BY <3>1, <3>2, StoppedLoop
  <2>8. CASE Tick
    <3> DEFINE w == [worker EXCEPT !.purgeIn = Nearer(@, 0), !.sweepIn = Nearer(@, 0),
                            !.sleep = Nearer(@, 0), !.round = @ + 1,
                            !.age = IF worker.pc = "pulisce" THEN @ + 1 ELSE @]
    <3>1. w.pc = worker.pc /\ w.processed = worker.processed /\ w.running = worker.running
      BY <2>1 DEF Process
    <3>2. worker' = w
      BY <1>1, <2>8 DEF Tick
    <3> HIDE DEF w
    <3> QED
      BY <1>1, <2>1, <3>1, <3>2 DEF Loop
  <2>9. CASE Start \/ Kill
    BY <1>1, <2>9 DEF Start, Kill
  <2>10. CASE worker' = worker
    BY <1>1, <2>1, <2>10 DEF Loop
  <2> QED
    BY <1>1, <2>3, <2>4, <2>5, <2>6, <2>7, <2>8, <2>9, <2>10
       DEF Next, vars, Arrive, Cleanup, Hit, HitFails, NewRecording
<1>2. Punctual /\ [Next]_vars =>
        [worker.pc # "spento" /\ ~worker'.running => Prompt]_vars
  BY <1>1
<1> QED
  BY <1>2, PunctualAlways, PTL DEF Spec, StopIsPrompt

\* The limiter of rateLimit.ts counts by fixed windows, on the clocks of many processes, with
\* purges and late hits between them.  In any stretch shorter than a window by the skew and the
\* delay, it counts and lets through the requests of two windows at most.
THEOREM LimitHolds == Spec => []TwoWindowsAtMost
<1>1. Init => Spaced
  <2> SUFFICES ASSUME Init PROVE Spaced
    OBVIOUS
  <2>1. bucket.count = 0 /\ Within = 0 /\ history.admitted = [i \in Recent |-> Stretch]
    BY Numbers DEF Init, NoBucket, Within
  <2>2. Max + 1 \in Recent
    BY Numbers DEF Recent
  <2> QED
    BY <2>1, <2>2, Numbers, StretchFacts DEF Spaced, Ordered, BeganThen
<1>2. Punctual => WorkerTypeOK
  BY DEF Punctual
<1>3. WorkerTypeOK /\ WorkerTypeOK' /\ Spaced /\ [Next]_vars => Spaced'
  BY SpacedNext
<1>4. WorkerTypeOK /\ Spaced => TwoWindowsAtMost
  <2> SUFFICES ASSUME WorkerTypeOK, Spaced PROVE TwoWindowsAtMost
    OBVIOUS
  <2>1. /\ Within \in 0 .. Max /\ Within + Max + 1 \in Recent /\ 2 * Max + 1 \in Recent
        /\ Within + Max + 1 <= 2 * Max + 1
        /\ history.admitted \in [Recent -> 0 .. Stretch]
    BY WithinFacts, Numbers DEF Recent
  <2>2. history.admitted[Within + Max + 1] <= history.admitted[2 * Max + 1]
    BY <2>1 DEF Spaced, Ordered
  <2>3. history.admitted[2 * Max + 1] \in 0 .. Stretch
    BY <2>1
  <2> QED
    BY <2>2, <2>3, StretchFacts DEF Spaced, TwoWindowsAtMost
<1> QED
  BY <1>1, <1>2, <1>3, <1>4, PunctualAlways, PTL DEF Spec
================================================================================
