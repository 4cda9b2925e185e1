-------------------------------- MODULE Worker --------------------------------
(***************************************************************************)
(* The loop of the worker, with its two periodic jobs, and the windows of  *)
(* the rate limit, which replicas of the API open and the worker purges.   *)
(*                                                                         *)
(* Time is discrete, and kept as time left or time gone, so that it has no *)
(* bound: a process reads its own clock, ahead of the time by its skew.    *)
(* JavaScript runs to the next await, and a signal is handled between two  *)
(* of them: a step of the worker goes from one await to the next with      *)
(* every check between them.                                               *)
(***************************************************************************)
EXTENDS Integers

CONSTANTS
    Replicas,            \* of the API; each has one limited request in hand at most
    MAX_BATCH,           \* jobs in a row
    POLL_INTERVAL_MS,
    PULIZIA_IP_OGNI_MS,  \* from the end of a purge to the next one
    SweepEvery,          \* config.sweep.everyMs
    WindowMs, Max,       \* of the rate limit
    CLEANUP_EVERY,       \* requests of a replica between two purges of its own
    MaxSkew,             \* assumption: clocks differ by this at most
    MaxDelay,            \* assumption: from a request's arrival to its hit
    MaxRound,            \* assumption: from one check of the purge to the next
    MaxBacklog,          \* bound: recordings waiting at once
    MaxFaults            \* bound: crashes and calls the database does not answer

ASSUME WorkerNumbers ==
    /\ {MAX_BATCH, POLL_INTERVAL_MS, PULIZIA_IP_OGNI_MS, SweepEvery, WindowMs, Max, CLEANUP_EVERY}
         \subseteq Nat \ {0}
    /\ {MaxSkew, MaxDelay, MaxRound, MaxBacklog, MaxFaults} \subseteq Nat
    /\ MaxDelay < WindowMs

VARIABLES
    skew,     \* how far ahead the clock of each process is
    bucket,   \* the row of the one key counted here
    req,      \* the request each replica has in hand, and its purge counter
    worker,
    backlog,  \* recordings claimable now
    faults,
    history   \* read by the properties only: how long ago each of the last requests was
              \* counted and let through, the latest first; how long since the row expired
              \* under this worker

vars == <<skew, bucket, req, worker, backlog, faults, history>>

------------------------------------------------------------------------------
LongestWait == PULIZIA_IP_OGNI_MS + 3 * MaxRound

\* No two windows begin closer than this.
Stretch == LET least == WindowMs - MaxSkew - MaxDelay IN IF least > 0 THEN least ELSE 0

\* Two windows full of requests, and one more.
Recent == 1 .. (2 * Max + 1)

Older(age, cap) == IF age < cap THEN age + 1 ELSE age
Nearer(left, floor) == IF left > floor THEN left - 1 ELSE left

\* A row of RateLimitBucket, with the time left to resetAt; count 0 stands for no row.
\* Counts above Max are alike, and so are ends no clock places in the future.
LongPast == -(MaxDelay + MaxRound)
Bucket == [count : 0 .. (Max + 1), left : LongPast .. (WindowMs + MaxSkew)]
NoBucket == [count |-> 0, left |-> 0]

\* `age': how long ago the request arrived and read the clock.
Request == [pc : {"libera", "pulisce", "conta"}, age : 0 .. MaxDelay,
            sinceCleanup : 0 .. (CLEANUP_EVERY - 1)]

\* What the worker awaits: a job, the purge, the pass, the timer; and the time left to the
\* next purge, to the next pass and to the end of the sleep.  `age': of the purge under way;
\* `round': since the last check of the purge, for the bound on it.
Process == [pc : {"spento", "elabora", "pulisce", "spazza", "dorme"}, running : BOOLEAN,
            processed : 0 .. MAX_BATCH, purgeIn : 0 .. PULIZIA_IP_OGNI_MS,
            sweepIn : 0 .. SweepEvery, sleep : 0 .. POLL_INTERVAL_MS,
            age : 0 .. MaxRound, round : 0 .. MaxRound]

WorkerTypeOK ==
    /\ skew \in [Replicas \cup {"worker"} -> 0 .. MaxSkew]
    /\ bucket \in Bucket
    /\ req \in [Replicas -> Request]
    /\ worker \in Process
    /\ backlog \in 0 .. MaxBacklog
    /\ faults \in 0 .. MaxFaults
    /\ history \in [admitted : [Recent -> 0 .. Stretch],
                    waited : 0 .. (LongestWait + 1), purgeFailed : BOOLEAN]

Off == [pc |-> "spento", running |-> FALSE, processed |-> 0, purgeIn |-> 0, sweepIn |-> 0,
        sleep |-> 0, age |-> 0, round |-> 0]

Init ==
    /\ skew \in [Replicas \cup {"worker"} -> 0 .. MaxSkew]
    /\ bucket = NoBucket
    /\ req = [r \in Replicas |-> [pc |-> "libera", age |-> 0, sinceCleanup |-> 0]]
    /\ worker = Off
    /\ backlog = 0
    /\ faults = 0
    /\ history = [admitted |-> [i \in Recent |-> Stretch], waited |-> 0, purgeFailed |-> FALSE]

Fault == faults < MaxFaults /\ faults' = faults + 1

------------------------------------------------------------------------------
(* The deposit of the windows.                                              *)

\* What process p read on its clock `age' ago, counted from now.
At(p, age) == skew[p] - age

\* Mutant: the comparison the other way round.
PurgedMutant(at) == IF bucket.left > at THEN NoBucket ELSE bucket

\* purgeExpired
Purged(at) == IF bucket.left <= at THEN NoBucket ELSE bucket

\* hit, one statement: an expired window starts again from one.
Counted(at) ==
    IF bucket.count = 0 \/ bucket.left <= at
    THEN [count |-> 1, left |-> at + WindowMs]
    ELSE [bucket EXCEPT !.count = IF @ > Max THEN @ ELSE @ + 1]

------------------------------------------------------------------------------
(* A limited request, on a replica.                                         *)

Arrive(r) ==
    LET cleanup == req[r].sinceCleanup + 1 >= CLEANUP_EVERY IN
    /\ req[r].pc = "libera"
    /\ req' = [req EXCEPT ![r] = [pc |-> IF cleanup THEN "pulisce" ELSE "conta",
                                  age |-> 0,
                                  sinceCleanup |-> IF cleanup THEN 0 ELSE @.sinceCleanup + 1]]
    /\ UNCHANGED <<skew, bucket, worker, backlog, faults, history>>

\* A failed purge is not a matter of this request.
Cleanup(r) ==
    /\ req[r].pc = "pulisce"
    /\ req' = [req EXCEPT ![r].pc = "conta"]
    /\ \/ bucket' = Purged(At(r, req[r].age)) /\ UNCHANGED faults
       \/ Fault /\ UNCHANGED bucket
    /\ UNCHANGED <<skew, worker, backlog, history>>

Served(r) == req' = [req EXCEPT ![r] = [@ EXCEPT !.pc = "libera", !.age = 0]]

Admit(ages) == [i \in Recent |-> IF i = 1 THEN 0 ELSE ages[i - 1]]

Hit(r) ==
    /\ req[r].pc = "conta"
    /\ bucket' = Counted(At(r, req[r].age))
    /\ history' = IF bucket'.count > Max THEN history
                  ELSE [history EXCEPT !.admitted = Admit(@)]
    /\ Served(r)
    /\ UNCHANGED <<skew, worker, backlog, faults>>

\* The deposit does not answer: the request passes uncounted.
HitFails(r) ==
    /\ req[r].pc = "conta" /\ Fault
    /\ Served(r)
    /\ UNCHANGED <<skew, bucket, worker, backlog, history>>

------------------------------------------------------------------------------
(* The loop, from one await to the next.                                    *)

NewRound(w) == IF w.running THEN [w EXCEPT !.pc = "elabora", !.processed = 0] ELSE Off

AfterSweep(w) ==
    IF w.running /\ w.processed = 0
    THEN [w EXCEPT !.pc = "dorme", !.sleep = POLL_INTERVAL_MS]
    ELSE NewRound(w)

\* toccaSpazzare, with the pass on
SweepIsDue(w) == w.processed = 0 /\ w.sweepIn = 0

AfterPurge(w) == IF w.running /\ SweepIsDue(w) THEN [w EXCEPT !.pc = "spazza"] ELSE AfterSweep(w)

\* Mutant: the purge waits for an empty queue, like the pass.
AfterBatchMutant(w) ==
    LET v == [w EXCEPT !.round = 0] IN
    IF w.running /\ w.processed = 0 /\ w.purgeIn = 0
    THEN [v EXCEPT !.pc = "pulisce", !.age = 0]
    ELSE AfterPurge(v)

\* forse
AfterBatch(w) ==
    LET v == [w EXCEPT !.round = 0] IN
    IF w.running /\ w.purgeIn = 0
    THEN [v EXCEPT !.pc = "pulisce", !.age = 0]
    ELSE AfterPurge(v)

AfterJob(w) == IF w.running /\ w.processed < MAX_BATCH THEN w ELSE AfterBatch(w)

Start ==
    /\ worker.pc = "spento"
    /\ worker' = [Off EXCEPT !.pc = "elabora", !.running = TRUE, !.purgeIn = 0, !.sweepIn = SweepEvery]
    /\ history' = [history EXCEPT !.waited = 0]
    /\ UNCHANGED <<skew, bucket, req, backlog, faults>>

\* processNext: a job, an empty queue, or a database that does not answer.
Elabora ==
    /\ worker.pc = "elabora"
    /\ \/ /\ backlog > 0
          /\ backlog' = backlog - 1
          /\ worker' = AfterJob([worker EXCEPT !.processed = @ + 1])
          /\ UNCHANGED faults
       \/ /\ backlog = 0
          /\ worker' = AfterBatch(worker)
          /\ UNCHANGED <<backlog, faults>>
       \/ /\ Fault
          /\ worker' = AfterBatch(worker)
          /\ UNCHANGED backlog
    /\ UNCHANGED <<skew, bucket, req, history>>

\* Armed again whatever happened, from the end.
Pulisce ==
    /\ worker.pc = "pulisce"
    /\ worker' = AfterPurge([worker EXCEPT !.purgeIn = PULIZIA_IP_OGNI_MS, !.age = 0])
    /\ \/ bucket' = Purged(At("worker", worker.age)) /\ UNCHANGED <<faults, history>>
       \/ Fault /\ history' = [history EXCEPT !.purgeFailed = TRUE] /\ UNCHANGED bucket
    /\ UNCHANGED <<skew, req, backlog>>

\* The pass ends: its objects are over, an error, or the stop.
Spazza ==
    /\ worker.pc = "spazza"
    /\ worker' = AfterSweep([worker EXCEPT !.sweepIn = SweepEvery])
    /\ UNCHANGED <<skew, bucket, req, backlog, faults, history>>

Wake ==
    /\ worker.pc = "dorme" /\ worker.sleep = 0
    /\ worker' = NewRound(worker)
    /\ UNCHANGED <<skew, bucket, req, backlog, faults, history>>

\* Mutant: nobody rings the alarm.
StopMutant ==
    /\ worker.running
    /\ worker' = [worker EXCEPT !.running = FALSE]
    /\ UNCHANGED <<skew, bucket, req, backlog, faults, history>>

\* shutdown: what is in hand goes on, a sleep ends.
Stop ==
    LET stopped == [worker EXCEPT !.running = FALSE] IN
    /\ worker.running
    /\ worker' = IF worker.pc = "dorme" THEN NewRound(stopped) ELSE stopped
    /\ UNCHANGED <<skew, bucket, req, backlog, faults, history>>

\* SIGKILL, or the machine.
Kill ==
    /\ worker.pc # "spento" /\ Fault
    /\ worker' = Off
    /\ UNCHANGED <<skew, bucket, req, backlog, history>>

------------------------------------------------------------------------------
NewRecording ==
    /\ backlog < MaxBacklog
    /\ backlog' = backlog + 1
    /\ UNCHANGED <<skew, bucket, req, worker, faults, history>>

\* Time passes, within the three assumptions.
Tick ==
    /\ \A r \in Replicas : req[r].pc # "libera" => req[r].age < MaxDelay
    /\ worker.pc # "spento" => worker.round < MaxRound
    /\ bucket' = IF bucket.count = 0 THEN bucket ELSE [bucket EXCEPT !.left = Nearer(@, LongPast)]
    /\ req' = [r \in Replicas |-> IF req[r].pc = "libera" THEN req[r]
                                  ELSE [req[r] EXCEPT !.age = @ + 1]]
    /\ worker' = IF worker.pc = "spento" THEN worker
                 ELSE [worker EXCEPT !.purgeIn = Nearer(@, 0), !.sweepIn = Nearer(@, 0),
                                     !.sleep = Nearer(@, 0), !.round = @ + 1,
                                     !.age = IF worker.pc = "pulisce" THEN @ + 1 ELSE @]
    /\ history' = [history EXCEPT
                     !.waited = IF bucket.count > 0 /\ bucket.left <= 0
                                THEN Older(@, LongestWait + 1) ELSE 0,
                     !.admitted = [i \in Recent |-> Older(@[i], Stretch)]]
    /\ UNCHANGED <<skew, backlog, faults>>

Next ==
    \/ \E r \in Replicas : Arrive(r) \/ Cleanup(r) \/ Hit(r) \/ HitFails(r)
    \/ Elabora \/ Pulisce \/ Spazza \/ Wake \/ Start \/ Stop \/ Kill \/ NewRecording \/ Tick

Spec == Init /\ [][Next]_vars

------------------------------------------------------------------------------
\* After a stop request the worker ends what it has in hand, and waits for no timer: it
\* begins no job, no purge, no pass and no sleep, and an ongoing sleep is over.
StopIsPrompt ==
    [][worker.pc # "spento" /\ ~worker'.running =>
          \/ worker' = Off
          \/ worker.pc # "dorme" /\ worker'.pc = worker.pc /\ worker'.processed = worker.processed]_vars

\* "la riga aspetta al piu' questo intervallo" (pulizie.ts:33), and a few rounds of the loop:
\* with a worker that runs and no failed purge, a window leaves the table in time.
ExpiredAddressesLeave ==
    worker.running /\ ~history.purgeFailed /\ bucket.count > 0 /\ bucket.left <= 0 =>
        history.waited <= LongestWait

\* However clocks, late hits and purges fall, the requests counted and let through are
\* those of two windows at most in any stretch as long as a window, but for skew and delay:
\* of one more than two windows full, the first is at least that old.
TwoWindowsAtMost == history.admitted[2 * Max + 1] = Stretch

================================================================================
