------------------------------ MODULE AudioStore ------------------------------
(***************************************************************************)
(* The audio objects in the bucket and the rows that name them: the upload *)
(* (object first, row second), the deletions (row first, object second),   *)
(* the deletion of an account, and the sweep that reconciles the two.      *)
(*                                                                         *)
(* Database and bucket share no commit, so every access to either is a     *)
(* step of its own.  The account transaction runs under READ COMMITTED:    *)
(* its SELECTs and its DELETE are two steps.  age[k] is the time since the *)
(* object was written, sweeper[s].lag the time since a pass read its clock.*)
(***************************************************************************)
EXTENDS Integers, FiniteSets

CONSTANTS
    Keys,        \* names of objects, in the order the bucket lists them
    Foreign,     \* the ones that do not look like ours (CHIAVE_NOSTRA)
    Sweepers,    \* processes that may sweep
    BLOCCO,      \* keys per query of the database
    PAGE,        \* objects per page of the bucket
    GRACE,       \* SWEEP_GRACE_MS, in ticks
    MaxUpload,   \* longest time between the object and its row
    MaxPass,     \* bound: ticks a pass may last
    MaxFaults    \* bound: passes aborted and deletions refused

ASSUME KeysAssumption ==
    Keys \subseteq Nat \ {0} /\ IsFiniteSet(Keys) /\ Foreign \subseteq Keys
ASSUME BlockAssumption == BLOCCO \in Nat \ {0} /\ PAGE \in Nat \ {0}
\* A request outlives neither its timeouts nor, by far, the day of grace.
ASSUME GraceAssumption ==
    /\ GRACE \in Nat
    /\ MaxUpload \in Nat
    /\ MaxPass \in Nat
    /\ MaxUpload < GRACE
ASSUME FaultsAssumption == MaxFaults \in Nat

VARIABLES
    bucket,    \* the objects there are
    age,       \* how long ago each was written
    row,       \* the Recording that names the key
    upload,    \* the request that uploads it
    pending,   \* keys a request still has to delete, their row being gone
    account,   \* the owner of the keys, and the keys its deletion has read
    sweeper,   \* the pass of each sweeper
    faults     \* bound: faults so far

audioVars == <<bucket, age, row, upload, pending, account, sweeper, faults>>

------------------------------------------------------------------------------
Ours == Keys \ Foreign
AgeCap == GRACE + MaxPass

AtRest == [running |-> FALSE, cursor |-> 0, last |-> FALSE,
           candidates |-> {}, orphans |-> {}, lag |-> 0]

Sweeper == [running    : BOOLEAN,
            cursor     : Nat,
            last       : BOOLEAN,
            candidates : SUBSET Ours,
            orphans    : SUBSET Ours,
            lag        : 0 .. MaxPass]

AudioTypeOK ==
    /\ bucket \subseteq Keys
    /\ age \in [Keys -> 0 .. AgeCap]
    /\ row \in [Keys -> {"assente", "ferma", "inLavorazione"}]
    /\ upload \in [Keys -> {"nuovo", "scritto", "finito"}]
    /\ pending \subseteq Ours
    /\ account \in [state : {"vivo", "lette", "cancellato"}, keys : SUBSET Ours]
    /\ sweeper \in [Sweepers -> Sweeper]
    /\ faults \in Nat

AudioInit ==
    /\ bucket = Foreign
    /\ age = [k \in Keys |-> IF k \in Foreign THEN AgeCap ELSE 0]
    /\ row = [k \in Keys |-> "assente"]
    /\ upload = [k \in Keys |-> "nuovo"]
    /\ pending = {}
    /\ account = [state |-> "vivo", keys |-> {}]
    /\ sweeper = [s \in Sweepers |-> AtRest]
    /\ faults = 0

Named == {k \in Keys : row[k] # "assente"}

\* The n smallest members of S: a page, or a block of candidates.
FirstOf(n, S) == {k \in S : Cardinality({j \in S : j < k}) < n}

(* The bucket: objects are listed in the order of their names, a page after *)
(* the one the caller has seen last, and the page says whether more follow. *)
Ahead(cursor) == {k \in bucket : k > cursor}
List(cursor) == FirstOf(PAGE, Ahead(cursor))
IsLast(cursor) == List(cursor) = Ahead(cursor)

PutObject(k) ==
    /\ bucket' = bucket \cup {k}
    /\ age' = [age EXCEPT ![k] = 0]

\* Deleting an object that is not there succeeds too.
DeleteObject(k) == bucket' = bucket \ {k}

\* An error is reported as an orphan and swallowed, and a process that dies here
\* never gets to it.
TogliDalBucket(k) == DeleteObject(k) \/ UNCHANGED bucket

------------------------------------------------------------------------------
(* recordings.service: create and remove; the rest of the life of a row. *)

Put(k) ==
    /\ k \in Ours
    /\ upload[k] = "nuovo"
    /\ PutObject(k)
    /\ upload' = [upload EXCEPT ![k] = "scritto"]
    /\ UNCHANGED <<row, pending, account, sweeper, faults>>

\* The foreign key refuses the row of an account that is gone.
CreateRow(k) ==
    /\ upload[k] = "scritto"
    /\ account.state # "cancellato"
    /\ row' = [row EXCEPT ![k] = "ferma"]
    /\ upload' = [upload EXCEPT ![k] = "finito"]
    /\ UNCHANGED <<bucket, age, pending, account, sweeper, faults>>

\* The row is refused, or the process dies after the put.
UploadFails(k) ==
    /\ upload[k] = "scritto"
    /\ upload' = [upload EXCEPT ![k] = "finito"]
    /\ UNCHANGED <<bucket, age, row, pending, account, sweeper, faults>>

\* A worker claims the row, and leaves it.
Work(k) ==
    /\ \/ row[k] = "ferma" /\ row' = [row EXCEPT ![k] = "inLavorazione"]
       \/ row[k] = "inLavorazione" /\ row' = [row EXCEPT ![k] = "ferma"]
    /\ UNCHANGED <<bucket, age, upload, pending, account, sweeper, faults>>

\* The row goes, by itself or with the card it became; its object follows.
Remove(k) ==
    /\ row[k] = "ferma"
    /\ row' = [row EXCEPT ![k] = "assente"]
    /\ pending' = pending \cup {k}
    /\ UNCHANGED <<bucket, age, upload, account, sweeper, faults>>

DeleteAudio(k) ==
    /\ k \in pending
    /\ pending' = pending \ {k}
    /\ TogliDalBucket(k)
    /\ UNCHANGED <<age, row, upload, account, sweeper, faults>>

------------------------------------------------------------------------------
(* deleteAccount *)

\* The count of the rows in flight, which refuses, and the list of the keys.
AccountRead ==
    /\ account.state = "vivo"
    /\ \A k \in Keys : row[k] # "inLavorazione"
    /\ account' = [state |-> "lette", keys |-> Named]
    /\ UNCHANGED <<bucket, age, row, upload, pending, sweeper, faults>>

\* DELETE of the user: every row goes by cascade, the keys read are returned.
AccountDelete ==
    /\ account.state = "lette"
    /\ account' = [state |-> "cancellato", keys |-> {}]
    /\ row' = [k \in Keys |-> "assente"]
    /\ pending' = pending \cup account.keys
    /\ UNCHANGED <<bucket, age, upload, sweeper, faults>>

AccountRollback ==
    /\ account.state = "lette"
    /\ account' = [state |-> "vivo", keys |-> {}]
    /\ UNCHANGED <<bucket, age, row, upload, pending, sweeper, faults>>

------------------------------------------------------------------------------
(* storageSweep.esegui, with SWEEP_MODE = cancella. *)

Set(s, pass) == sweeper' = [sweeper EXCEPT ![s] = pass]

\* The clock is read once, here.
StartPass(s) ==
    /\ ~sweeper[s].running
    /\ Set(s, [AtRest EXCEPT !.running = TRUE])
    /\ UNCHANGED <<bucket, age, row, upload, pending, account, faults>>

BlockReady(s) ==
    LET waiting == sweeper[s].candidates IN
    Cardinality(waiting) >= BLOCCO \/ (sweeper[s].last /\ waiting # {})

\* The page after the bookmark, which names an object and not a position.
ListPage(s) ==
    LET page == List(sweeper[s].cursor)
    IN  /\ sweeper[s].running
        /\ ~sweeper[s].last
        /\ sweeper[s].orphans = {}
        /\ ~BlockReady(s)
        /\ \E cursor \in page \cup {sweeper[s].cursor} :
            /\ \A k \in page : k <= cursor
            /\ Set(s, [sweeper[s] EXCEPT !.candidates = @ \cup (page \cap Ours),
                                         !.cursor = cursor,
                                         !.last = IsLast(sweeper[s].cursor)])
        /\ UNCHANGED <<bucket, age, row, upload, pending, account, faults>>

\* Mutant: the age of the object is not looked at.
ConfrontaMutant(s) ==
    LET block == FirstOf(BLOCCO, sweeper[s].candidates) IN
    /\ sweeper[s].running
    /\ sweeper[s].orphans = {}
    /\ BlockReady(s)
    /\ Set(s, [sweeper[s] EXCEPT !.candidates = @ \ block,
                                 !.orphans = block \ Named])
    /\ UNCHANGED <<bucket, age, row, upload, pending, account, faults>>
\* Mutant: a query that fails names nothing, instead of ending the pass.
ConfrontaErrorMutant(s) ==
    LET block == FirstOf(BLOCCO, sweeper[s].candidates) IN
    /\ sweeper[s].running
    /\ sweeper[s].orphans = {}
    /\ BlockReady(s)
    /\ \E named \in {Named, {}} :
        Set(s, [sweeper[s] EXCEPT
                    !.candidates = @ \ block,
                    !.orphans = {k \in block \ named :
                                    age[k] >= GRACE + sweeper[s].lag}])
    /\ UNCHANGED <<bucket, age, row, upload, pending, account, faults>>
\* Mutant: what is left after the last full block is forgotten.
ConfrontaRestMutant(s) ==
    LET block == FirstOf(BLOCCO, sweeper[s].candidates) IN
    /\ sweeper[s].running
    /\ sweeper[s].orphans = {}
    /\ BlockReady(s)
    /\ Set(s, [sweeper[s] EXCEPT
                    !.candidates = @ \ block,
                    !.orphans = IF Cardinality(block) < BLOCCO THEN {}
                                ELSE {k \in block \ Named :
                                        age[k] >= GRACE + sweeper[s].lag}])
    /\ UNCHANGED <<bucket, age, row, upload, pending, account, faults>>
\* findExistingAudioKeys on a block; an orphan is unnamed and old enough.
Confronta(s) ==
    LET block == FirstOf(BLOCCO, sweeper[s].candidates) IN
    /\ sweeper[s].running
    /\ sweeper[s].orphans = {}
    /\ BlockReady(s)
    /\ Set(s, [sweeper[s] EXCEPT
                    !.candidates = @ \ block,
                    !.orphans = {k \in block \ Named :
                                    age[k] >= GRACE + sweeper[s].lag}])
    /\ UNCHANGED <<bucket, age, row, upload, pending, account, faults>>

\* One orphan of the block; one the bucket refuses is left to the next pass.
DeleteOrphan(s) ==
    \E k \in sweeper[s].orphans :
        /\ Set(s, [sweeper[s] EXCEPT !.orphans = @ \ {k}])
        /\ \/ DeleteObject(k) /\ UNCHANGED faults
           \/ faults < MaxFaults /\ faults' = faults + 1 /\ UNCHANGED bucket
        /\ UNCHANGED <<age, row, upload, pending, account>>

EndPass(s) ==
    /\ sweeper[s].running
    /\ sweeper[s].last
    /\ sweeper[s].candidates = {}
    /\ sweeper[s].orphans = {}
    /\ Set(s, AtRest)
    /\ UNCHANGED <<bucket, age, row, upload, pending, account, faults>>

\* A listing or a query that fails, a shutdown between blocks, a crash.
AbortPass(s) ==
    /\ sweeper[s].running
    /\ faults < MaxFaults
    /\ faults' = faults + 1
    /\ Set(s, AtRest)
    /\ UNCHANGED <<bucket, age, row, upload, pending, account>>

------------------------------------------------------------------------------
Tick ==
    /\ \A k \in Keys : upload[k] = "scritto" => age[k] < MaxUpload
    /\ \A s \in Sweepers : sweeper[s].running => sweeper[s].lag < MaxPass
    /\ age' = [k \in Keys |->
                IF k \in bucket /\ age[k] < AgeCap THEN age[k] + 1 ELSE age[k]]
    /\ sweeper' = [s \in Sweepers |->
                    IF sweeper[s].running THEN [sweeper[s] EXCEPT !.lag = @ + 1]
                                          ELSE sweeper[s]]
    /\ UNCHANGED <<bucket, row, upload, pending, account, faults>>

EndUpload(k) == CreateRow(k) \/ UploadFails(k)

SweepStep(s) ==
    \/ StartPass(s) \/ ListPage(s) \/ Confronta(s)
    \/ DeleteOrphan(s) \/ EndPass(s)

AudioNext ==
    \/ \E k \in Keys : \/ Put(k) \/ EndUpload(k) \/ Work(k)
                       \/ Remove(k) \/ DeleteAudio(k)
    \/ AccountRead \/ AccountDelete \/ AccountRollback
    \/ \E s \in Sweepers : SweepStep(s) \/ AbortPass(s)
    \/ Tick

AudioSpec == AudioInit /\ [][AudioNext]_audioVars

\* A request that wrote its object ends, the worker comes back to the sweep
\* whenever its queue is empty, and faults are finitely many.
AudioFairSpec ==
    /\ AudioSpec
    /\ \A k \in Keys : WF_audioVars(EndUpload(k))
    /\ \A s \in Sweepers : WF_audioVars(SweepStep(s))
    /\ WF_audioVars(Tick)

------------------------------------------------------------------------------
(* Properties. *)

\* What a row names is there to be played and transcribed, through uploads,
\* deletions and passes that overlap.
NamedAudioExists == Named \subseteq bucket

\* Whoever deletes an object, a request or the sweep, no row names it, nobody
\* is uploading it, and it is one of ours.
OnlyOrphansVanish ==
    [][\A k \in bucket \ bucket' :
        k \in Ours /\ row[k] = "assente" /\ upload[k] = "finito"]_audioVars

\* An object nobody will ever name does not stay: deletions that failed,
\* uploads cut in half and keys an account's deletion missed are all swept.
OrphansAreSwept ==
    \A k \in Ours :
        (k \in bucket /\ row[k] = "assente" /\ upload[k] = "finito")
        ~> k \notin bucket

==============================================================================
