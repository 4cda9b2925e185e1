-------------------------------- MODULE Capture --------------------------------
(***************************************************************************)
(* The recordings of one device, from the microphone to the server: the    *)
(* draft a live recording writes second by second, the queue of what waits *)
(* for the network, the uploader that empties it and the recovery of the   *)
(* drafts nobody finished.  Draft and queue are IndexedDB stores that all  *)
(* the pages of the device share; everything else dies with its page.      *)
(*                                                                         *)
(* The audio of a recording is the set of its pieces, one per second; a    *)
(* piece carries its number, so their order on the disk does not matter.   *)
(* Id of a draft, of a row of the queue and of a recording are the same.   *)
(***************************************************************************)
EXTENDS Integers, FiniteSets

CONSTANTS
    Pages,         \* tabs of the browser, or windows of the app
    Recordings,    \* ids of the recordings, drawn when they start
    NoRecording,
    MaxPieces,     \* bound: pieces of a recording
    MAX_ATTEMPTS,  \* failures after which the uploader leaves a row alone
    MaxFaults,     \* bound: writes refused, uploads that fail
    MaxOpens,      \* bound: times a page is opened
    WritesAreQuick \* the writes of a draft end before a person answers a notice

ASSUME MaxPiecesAssumption == MaxPieces \in Nat
ASSUME AttemptsAssumption == MAX_ATTEMPTS \in Nat \ {0}
ASSUME BoundsAssumption == MaxFaults \in Nat /\ MaxOpens \in Nat
ASSUME NoRecordingAssumption == NoRecording \notin Recordings

VARIABLES
    draft,     \* IndexedDB: the pieces of each draft
    silent,    \* the last piece of the draft is older than SILENZIO_BOZZA_MS
    queue,     \* IndexedDB: the row of each recording, if it has one
    server,    \* the audio the server accepted for each recording
    online,    \* navigator.onLine
    recorder,  \* each recording in the memory of the page that makes it
    page,      \* what each page is doing
    given,     \* recordings somebody gave up: cancelled, discarded, emptied
    faults, opens,
    seen       \* history, read by the properties only

vars == <<draft, silent, queue, server, online, recorder, page, given, faults,
          opens, seen>>

------------------------------------------------------------------------------
Pieces == 0 .. (MaxPieces - 1)

\* `in': the row exists.  A row is never empty of audio.
Row == [in : BOOLEAN, audio : SUBSET Pieces, attempts : Nat]
NoRow == [in |-> FALSE, audio |-> {}, attempts |-> 0]

\* `reading': pieces whose bytes are being read; `pending': writes in the fila;
\* `closed': chiusa; `toss': the discard that butta put at the end of the fila.
Recorder == [mic     : {"mai", "chiede", "viva", "ferma"},
             page    : Pages,
             made    : 0 .. MaxPieces,
             reading : SUBSET Pieces,
             pending : SUBSET Pieces,
             closed  : BOOLEAN,
             toss    : BOOLEAN]

\* `session' is the recorder's session and its draft writer, `saving' the stop
\* under way, `unsaved' what inSospeso holds.  `dead': the drafts that were silent at
\* the `adesso' of the recovery.  `found' and `items' are the drafts and the rows that
\* were listed, with their audio; `rescued' and `current' are the ones in hand.
Page == [open    : BOOLEAN,
         session : Recordings \cup {NoRecording},
         saving  : Recordings \cup {NoRecording},
         unsaved : Recordings \cup {NoRecording},
         recover : {"elenca", "accoda", "butta", "fatto"},
         dead    : SUBSET Recordings,
         found   : [Recordings -> SUBSET Pieces],
         rescued : Recordings \cup {NoRecording},
         drain   : {"fermo", "elenca", "invia", "toglie", "segna"},
         items   : [Recordings -> SUBSET Pieces],
         current : Recordings \cup {NoRecording}]

NoAudio == [r \in Recordings |-> {}]
Closed == [open |-> FALSE, session |-> NoRecording, saving |-> NoRecording,
           unsaved |-> NoRecording, recover |-> "fatto", dead |-> {}, found |-> NoAudio,
           rescued |-> NoRecording, drain |-> "fermo", items |-> NoAudio,
           current |-> NoRecording]

\* All the audio of a recording that its page has in memory.
Spoken(r) == {k \in Pieces : k < recorder[r].made}

CaptureTypeOK ==
    /\ draft \in [Recordings -> SUBSET Pieces]
    /\ silent \in [Recordings -> BOOLEAN]
    /\ queue \in [Recordings -> Row]
    /\ server \in [Recordings -> SUBSET (SUBSET Pieces)]
    /\ online \in BOOLEAN
    /\ recorder \in [Recordings -> Recorder]
    /\ page \in [Pages -> Page]
    /\ given \subseteq Recordings
    /\ faults \in 0 .. MaxFaults
    /\ opens \in 0 .. MaxOpens
    /\ seen \in [written   : [Recordings -> SUBSET Pieces],
                 discarded : SUBSET Recordings,
                 saved     : [Recordings -> SUBSET Pieces],
                 uploads   : [Recordings -> 0 .. 2],
                 rough     : BOOLEAN]

Init ==
    /\ draft = NoAudio
    /\ silent = [r \in Recordings |-> FALSE]
    /\ queue = [r \in Recordings |-> NoRow]
    /\ server = [r \in Recordings |-> {}]
    /\ online \in BOOLEAN
    /\ recorder \in [Recordings -> {[mic |-> "mai", page |-> p, made |-> 0,
                                     reading |-> {}, pending |-> {},
                                     closed |-> FALSE, toss |-> FALSE] : p \in Pages}]
    /\ page = [p \in Pages |-> Closed]
    /\ given = {}
    /\ faults = 0
    /\ opens = 0
    /\ seen = [written |-> NoAudio, discarded |-> {}, saved |-> NoAudio,
               uploads |-> [r \in Recordings |-> 0], rough |-> FALSE]

------------------------------------------------------------------------------
(* The writes of the two stores: each a transaction, that a refusal leaves   *)
(* without effect.                                                           *)

Fault == faults < MaxFaults /\ faults' = faults + 1
NoFault == UNCHANGED faults

\* enqueue puts: an id that is already there is overwritten, attempts and all.
Enqueued(r, audio) == [in |-> TRUE, audio |-> audio, attempts |-> 0]

Enqueue(r, audio) == queue' = [queue EXCEPT ![r] = Enqueued(r, audio)]

IsExhausted(r) == queue[r].attempts >= MAX_ATTEMPTS

\* The rows that are worth another attempt, with their audio.
Listed == [r \in Recordings |-> IF queue[r].in /\ ~IsExhausted(r) THEN queue[r].audio ELSE {}]

\* One transaction each: a store is emptied whole or not at all.
ClearQueue(done) == queue' = IF done THEN [r \in Recordings |-> NoRow] ELSE queue
ClearDrafts(done) ==
    /\ draft' = IF done THEN NoAudio ELSE draft
    /\ silent' = IF done THEN [r \in Recordings |-> FALSE] ELSE silent

Discard(r) ==
    /\ draft' = [draft EXCEPT ![r] = {}]
    /\ silent' = [silent EXCEPT ![r] = FALSE]

\* drain returns the round that is running, if one is; a round off line lists nothing.
Drained(q) == IF q.drain = "fermo" /\ online THEN [q EXCEPT !.drain = "elenca"] ELSE q

------------------------------------------------------------------------------
(* A page opens: the recovery, and then a first round of the uploader.      *)

\* morta, of the drafts that have a piece.
Dead == {r \in Recordings : draft[r] # {} /\ silent[r]}

Open(p) ==
    /\ ~page[p].open /\ opens < MaxOpens
    /\ opens' = opens + 1
    /\ page' = [page EXCEPT ![p] = [Closed EXCEPT !.open = TRUE, !.recover = "elenca",
                                              !.dead = Dead]]
    /\ seen' = [seen EXCEPT !.rough = @ \/ \E o \in Pages : page[o].open]
    /\ UNCHANGED <<draft, silent, queue, server, online, recorder, given, faults>>

RecoverList(p) ==
    /\ page[p].open /\ page[p].recover = "elenca"
    /\ page' = [page EXCEPT ![p].recover = "accoda",
                            ![p].found = [r \in Recordings |-> IF r \in page[p].dead \cap Dead
                                                     THEN draft[r] ELSE {}],
                            ![p].dead = {}]
    /\ UNCHANGED <<draft, silent, queue, server, online, recorder, given, faults, opens, seen>>

RecoverEnqueue(p, r) ==
    /\ page[p].open /\ page[p].recover = "accoda" /\ page[p].found[r] # {}
    /\ \/ /\ Enqueue(r, page[p].found[r])
          /\ page' = [page EXCEPT ![p].found[r] = {}, ![p].recover = "butta", ![p].rescued = r]
          /\ NoFault
       \/ /\ page' = [page EXCEPT ![p].found[r] = {}]
          /\ Fault
          /\ UNCHANGED queue
    /\ UNCHANGED <<draft, silent, server, online, recorder, given, opens, seen>>

RecoverDiscard(p) ==
    /\ page[p].open /\ page[p].recover = "butta"
    /\ LET r == page[p].rescued IN
       \/ /\ Discard(r)
          /\ NoFault
          /\ seen' = [seen EXCEPT !.discarded = @ \cup {r}]
       \/ /\ Fault
          /\ seen' = [seen EXCEPT !.rough = TRUE]
          /\ UNCHANGED <<draft, silent>>
    /\ page' = [page EXCEPT ![p].recover = "accoda", ![p].rescued = NoRecording]
    /\ UNCHANGED <<queue, server, online, recorder, given, opens>>

RecoverEnd(p) ==
    /\ page[p].open /\ page[p].recover = "accoda" /\ page[p].found = NoAudio
    /\ page' = [page EXCEPT ![p] = Drained([@ EXCEPT !.recover = "fatto"])]
    /\ UNCHANGED <<draft, silent, queue, server, online, recorder, given, faults, opens, seen>>

------------------------------------------------------------------------------
(* The uploader: one round of one page.                                     *)

DrainList(p) ==
    /\ page[p].open /\ page[p].drain = "elenca"
    /\ page' = [page EXCEPT ![p].drain = "invia",
                            ![p].items = Listed]
    /\ UNCHANGED <<draft, silent, queue, server, online, recorder, given, faults, opens, seen>>

Accepted(r, audio) ==
    /\ server' = [server EXCEPT ![r] = @ \cup {audio}]
    /\ seen' = [seen EXCEPT !.uploads[r] = IF @ < 2 THEN @ + 1 ELSE @]

\* createRecording: accepted and answered, accepted with the answer lost, or refused.
\* Without the network it cannot be accepted, and the failure is no fault of anybody.
Upload(p, r) ==
    /\ page[p].open /\ page[p].drain = "invia" /\ page[p].items[r] # {}
    /\ \/ /\ online /\ NoFault
          /\ Accepted(r, page[p].items[r])
          /\ page' = [page EXCEPT ![p].items[r] = {}, ![p].current = r, ![p].drain = "toglie"]
       \/ /\ online /\ Fault
          /\ server' = [server EXCEPT ![r] = @ \cup {page[p].items[r]}]
          /\ seen' = [seen EXCEPT !.uploads[r] = IF @ < 2 THEN @ + 1 ELSE @, !.rough = TRUE]
          /\ page' = [page EXCEPT ![p].items[r] = {}, ![p].current = r, ![p].drain = "segna"]
       \/ /\ IF online THEN Fault ELSE NoFault
          /\ page' = [page EXCEPT ![p].items[r] = {}, ![p].current = r, ![p].drain = "segna"]
          /\ UNCHANGED <<server, seen>>
    /\ UNCHANGED <<draft, silent, queue, online, recorder, given, opens>>

Remove(p) ==
    /\ page[p].open /\ page[p].drain = "toglie"
    /\ \/ /\ queue' = [queue EXCEPT ![page[p].current] = NoRow]
          /\ page' = [page EXCEPT ![p].drain = "invia", ![p].current = NoRecording]
          /\ NoFault
          /\ UNCHANGED seen
       \/ /\ page' = [page EXCEPT ![p].drain = "segna"]
          /\ Fault
          /\ seen' = [seen EXCEPT !.rough = TRUE]
          /\ UNCHANGED queue
    /\ UNCHANGED <<draft, silent, server, online, recorder, given, opens>>

\* Nothing comes back because its upload failed: the row may be gone.
Failed(row) == IF row.in THEN [row EXCEPT !.attempts = @ + 1] ELSE row

\* A round that finds itself off line stops; one that cannot mark ends with an error.
MarkFailed(p) ==
    /\ page[p].open /\ page[p].drain = "segna"
    /\ LET after(q) == IF online THEN [q EXCEPT !.drain = "invia", !.current = NoRecording]
                       ELSE [q EXCEPT !.drain = "fermo", !.current = NoRecording, !.items = NoAudio]
           broken(q) == [q EXCEPT !.drain = "fermo", !.current = NoRecording, !.items = NoAudio]
       IN \/ /\ queue' = [queue EXCEPT ![page[p].current] = Failed(@)]
             /\ page' = [page EXCEPT ![p] = after(@)]
             /\ NoFault
          \/ /\ page' = [page EXCEPT ![p] = broken(@)]
             /\ Fault
             /\ UNCHANGED queue
    /\ UNCHANGED <<draft, silent, server, online, recorder, given, opens, seen>>

DrainEnd(p) ==
    /\ page[p].open /\ page[p].drain = "invia" /\ page[p].items = NoAudio
    /\ page' = [page EXCEPT ![p].drain = "fermo"]
    /\ UNCHANGED <<draft, silent, queue, server, online, recorder, given, faults, opens, seen>>

\* riprova
Riprova(p) ==
    /\ page[p].open /\ Drained(page[p]) # page[p]
    /\ page' = [page EXCEPT ![p] = Drained(@)]
    /\ UNCHANGED <<draft, silent, queue, server, online, recorder, given, faults, opens, seen>>

\* The event `online' starts a round in every page.
GoOnline ==
    /\ ~online
    /\ online' = TRUE
    /\ page' = [p \in Pages |-> IF page[p].open /\ page[p].drain = "fermo"
                                THEN [page[p] EXCEPT !.drain = "elenca"] ELSE page[p]]
    /\ UNCHANGED <<draft, silent, queue, server, recorder, given, faults, opens, seen>>

GoOffline ==
    /\ online
    /\ online' = FALSE
    /\ UNCHANGED <<draft, silent, queue, server, recorder, page, given, faults, opens, seen>>

------------------------------------------------------------------------------
(* The recorder and the writer of its draft.                                *)

Live(r) == recorder[r].mic = "viva" /\ page[recorder[r].page].open

\* RecordScreen: the button starts when this page is not recording, and is disabled
\* while an audio is put in the queue; the same button stops, and so does `Annulla'.
InCorso(p) == page[p].open /\ page[p].session # NoRecording
Premibile(p) == page[p].open /\ page[p].saving = NoRecording

\* start up to getUserMedia: what it reads may be old when the microphone is granted.
StartAsk(p, r) ==
    /\ Premibile(p) /\ ~InCorso(p)
    /\ recorder[r].page = p /\ recorder[r].mic = "mai" /\ page[p].unsaved = NoRecording
    /\ recorder' = [recorder EXCEPT ![r].mic = "chiede"]
    /\ UNCHANGED <<draft, silent, queue, server, online, page, given, faults, opens, seen>>

\* A second start that asked meanwhile takes the place of the first one's session.
StartGranted(p, r) ==
    /\ page[p].open /\ recorder[r].page = p /\ recorder[r].mic = "chiede"
    /\ recorder' = [recorder EXCEPT ![r].mic = "viva"]
    /\ page' = [page EXCEPT ![p].session = r]
    /\ UNCHANGED <<draft, silent, queue, server, online, given, faults, opens, seen>>

\* ondataavailable: the number is given now, the bytes are read later.
Emitted(c) == [c EXCEPT !.made = @ + 1, !.reading = @ \cup {c.made}]

Emit(r) ==
    /\ Live(r) /\ recorder[r].made < MaxPieces
    /\ recorder' = [recorder EXCEPT ![r] = Emitted(@)]
    /\ UNCHANGED <<draft, silent, queue, server, online, page, given, faults, opens, seen>>

\* A piece that is read after chiudi or butta is ignored.
Accepts(c) == ~c.closed

\* pezzo
Pezzo(r, k) ==
    /\ page[recorder[r].page].open /\ k \in recorder[r].reading
    /\ recorder' = [recorder EXCEPT
         ![r].reading = @ \ {k},
         ![r].pending = IF Accepts(recorder[r]) THEN @ \cup {k} ELSE @]
    /\ UNCHANGED <<draft, silent, queue, server, online, page, given, faults, opens, seen>>

\* A write of the fila; one that fails does not stop the ones behind it.
Append(r, k) ==
    /\ page[recorder[r].page].open /\ k \in recorder[r].pending
    /\ recorder' = [recorder EXCEPT ![r].pending = @ \ {k}]
    /\ \/ /\ draft' = [draft EXCEPT ![r] = @ \cup {k}]
          /\ silent' = [silent EXCEPT ![r] = FALSE]
          /\ seen' = [seen EXCEPT !.written[r] = @ \cup {k}]
          /\ NoFault
       \/ /\ Fault
          /\ UNCHANGED <<draft, silent, seen>>
    /\ UNCHANGED <<queue, server, online, page, given, opens>>

LastOfTheFilaMutant(c) == c.toss

\* The discard of butta comes behind every write.
LastOfTheFila(c) == c.toss /\ c.pending = {}

Toss(r) ==
    /\ page[recorder[r].page].open /\ LastOfTheFila(recorder[r])
    /\ recorder' = [recorder EXCEPT ![r].toss = FALSE]
    /\ \/ /\ Discard(r)
          /\ NoFault
          /\ seen' = [seen EXCEPT !.discarded = @ \cup {r}]
       \/ /\ Fault
          /\ seen' = [seen EXCEPT !.rough = TRUE]
          /\ UNCHANGED <<draft, silent>>
    /\ UNCHANGED <<queue, server, online, page, given, opens>>

ButtaMutant(c) == [c EXCEPT !.closed = TRUE]
ChiudiMutant(c) == [c EXCEPT !.closed = TRUE, !.toss = TRUE]

Butta(c) == [c EXCEPT !.closed = TRUE, !.toss = TRUE]
Chiudi(c) == [c EXCEPT !.closed = TRUE]

\* stop: the recorder gives its last piece, if any, before the audio is put together.
Stop(p) ==
    LET r == page[p].session IN
    /\ Premibile(p) /\ InCorso(p)
    /\ \E c \in {recorder[r]} \cup (IF recorder[r].made < MaxPieces
                                    THEN {Emitted(recorder[r])} ELSE {}) :
         recorder' = [recorder EXCEPT ![r] = [c EXCEPT !.mic = "ferma"]]
    /\ page' = [page EXCEPT ![p].session = NoRecording, ![p].saving = r]
    /\ UNCHANGED <<draft, silent, queue, server, online, given, faults, opens, seen>>

\* A recording with no byte is put in the queue as well; here it has nothing to lose.
StopEnqueued(p) ==
    LET r == page[p].saving IN
    /\ page[p].open /\ r # NoRecording
    /\ Enqueue(r, Spoken(r))
    /\ recorder' = [recorder EXCEPT ![r] = Butta(@)]
    /\ page' = [page EXCEPT ![p] = Drained([@ EXCEPT !.saving = NoRecording])]
    /\ seen' = [seen EXCEPT !.saved[r] = Spoken(r)]
    /\ UNCHANGED <<draft, silent, server, online, given, faults, opens>>

\* The queue refuses: the page keeps the audio and the draft stays where it is.
StopRefused(p) ==
    LET r == page[p].saving IN
    /\ page[p].open /\ r # NoRecording
    /\ Fault
    /\ recorder' = [recorder EXCEPT ![r] = Chiudi(@)]
    /\ page' = [page EXCEPT ![p].saving = NoRecording, ![p].unsaved = r]
    /\ UNCHANGED <<draft, silent, queue, server, online, given, opens, seen>>

Cancel(p) ==
    LET r == page[p].session IN
    /\ InCorso(p)
    /\ \E c \in {recorder[r]} \cup (IF recorder[r].made < MaxPieces
                                    THEN {Emitted(recorder[r])} ELSE {}) :
         recorder' = [recorder EXCEPT ![r] = Butta([c EXCEPT !.mic = "ferma"])]
    /\ page' = [page EXCEPT ![p].session = NoRecording]
    /\ given' = given \cup {r}
    /\ UNCHANGED <<draft, silent, queue, server, online, faults, opens, seen>>

\* riscrivi and scarta discard the draft beside the fila, not at its end.
Answered(r) == WritesAreQuick => recorder[r].pending = {}

\* The discard may be refused without a fault of its own: this disk refused once.
Riscrivi(p) ==
    LET r == page[p].unsaved IN
    /\ page[p].open /\ r # NoRecording /\ Answered(r)
    /\ \/ /\ Enqueue(r, Spoken(r))
          /\ page' = [page EXCEPT ![p] = Drained([@ EXCEPT !.unsaved = NoRecording])]
          /\ seen' = [seen EXCEPT !.saved[r] = Spoken(r), !.discarded = @ \cup {r}]
          /\ Discard(r)
          /\ NoFault
       \/ /\ Enqueue(r, Spoken(r))
          /\ page' = [page EXCEPT ![p] = Drained([@ EXCEPT !.unsaved = NoRecording])]
          /\ seen' = [seen EXCEPT !.saved[r] = Spoken(r), !.rough = TRUE]
          /\ NoFault
          /\ UNCHANGED <<draft, silent>>
    /\ UNCHANGED <<server, online, recorder, given, opens>>

Scarta(p) ==
    LET r == page[p].unsaved IN
    /\ page[p].open /\ r # NoRecording /\ Answered(r)
    /\ page' = [page EXCEPT ![p].unsaved = NoRecording]
    /\ given' = given \cup {r}
    /\ \/ /\ Discard(r)
          /\ seen' = [seen EXCEPT !.discarded = @ \cup {r}]
          /\ NoFault
       \/ /\ Fault
          /\ UNCHANGED <<draft, silent, seen>>
    /\ UNCHANGED <<queue, server, online, recorder, opens>>

\* svuotaCoda, for the account that was just deleted: two stores, either may refuse.
SvuotaCoda(p) ==
    /\ page[p].open
    /\ \E rows, pieces \in BOOLEAN :
         /\ IF rows /\ pieces THEN NoFault ELSE Fault
         /\ ClearQueue(rows) /\ ClearDrafts(pieces)
    /\ page' = [page EXCEPT ![p].unsaved = NoRecording]
    /\ given' = {r \in Recordings : recorder[r].mic # "mai"}
    /\ UNCHANGED <<server, online, recorder, opens, seen>>

------------------------------------------------------------------------------
(* The device.                                                              *)

\* Something the page had begun on the disk or on the network is cut short.
MidWork(p) ==
    \/ page[p].current # NoRecording \/ page[p].rescued # NoRecording
    \/ \E r \in Recordings : recorder[r].page = p /\ recorder[r].toss

\* Closed by its user, discarded by the system, or crashed: the memory is gone.
Close(p) ==
    /\ page[p].open
    /\ page' = [page EXCEPT ![p] = Closed]
    /\ recorder' = [r \in Recordings |->
         IF recorder[r].page = p /\ recorder[r].mic # "mai"
         THEN [recorder[r] EXCEPT !.mic = "ferma", !.reading = {}, !.pending = {},
                                  !.closed = TRUE, !.toss = FALSE]
         ELSE recorder[r]]
    /\ seen' = [seen EXCEPT !.rough = @ \/ MidWork(p)]
    /\ UNCHANGED <<draft, silent, queue, server, online, given, faults, opens>>

\* Half a minute without a piece: a recorder that lives writes one every second.
FallSilent(r) ==
    /\ draft[r] # {} /\ ~silent[r]
    /\ ~Live(r) /\ recorder[r].reading = {} /\ recorder[r].pending = {}
    /\ ~recorder[r].toss /\ page[recorder[r].page].saving # r
    /\ silent' = [silent EXCEPT ![r] = TRUE]
    /\ UNCHANGED <<draft, queue, server, online, recorder, page, given, faults, opens, seen>>

Next ==
    \/ \E p \in Pages :
         \/ Open(p) \/ RecoverList(p) \/ RecoverDiscard(p) \/ RecoverEnd(p)
         \/ DrainList(p) \/ Remove(p) \/ MarkFailed(p) \/ DrainEnd(p) \/ Riprova(p)
         \/ Stop(p) \/ StopEnqueued(p) \/ StopRefused(p) \/ Cancel(p)
         \/ Riscrivi(p) \/ Scarta(p) \/ SvuotaCoda(p) \/ Close(p)
         \/ \E r \in Recordings :
              \/ RecoverEnqueue(p, r) \/ Upload(p, r)
              \/ StartAsk(p, r) \/ StartGranted(p, r)
    \/ \E r \in Recordings :
         \/ Emit(r) \/ Toss(r) \/ FallSilent(r)
         \/ \E k \in Pieces : Pezzo(r, k) \/ Append(r, k)
    \/ GoOnline \/ GoOffline

Spec == Init /\ [][Next]_vars

------------------------------------------------------------------------------
(* A copy of the audio that does not depend on a page staying alive.        *)
Kept(r) == draft[r] \cup queue[r].audio \cup UNION server[r]

\* Every second that was written in a draft stays on the device or reaches the server,
\* whatever closes, fails or is opened twice, until somebody gives the recording up.
\* (bozze.ts: a recovery throws a draft away only after its audio is in the queue.)
\* Of the audio that a stop put in the queue it says nothing: see CalmDeviceSendsAllOnce.
DraftedSecondsSurvive ==
    \A r \in Recordings : r \notin given => seen.written[r] \subseteq Kept(r)

\* What bozze.ts puts the writes in a fila for: once a draft was thrown away none of
\* its pieces comes back, to be recovered later as an audio without its beginning.
DiscardIsTheLastWrite ==
    \A r \in seen.discarded : draft[r] = {}

\* A device with one page at a time, on which no write and no answer was lost and
\* no page died in the middle of one, sends each recording once, and every second that
\* was put in the queue stays on it or reaches the server, the last ones, that no draft
\* has, among them.  (CaptureProvider.tsx says that after enqueue the audio is safe.  A
\* page that dies before the discard, or a second page that recovers the draft, puts the
\* shorter draft over the row: such a device is rough.)
CalmDeviceSendsAllOnce ==
    ~seen.rough => \A r \in Recordings : /\ seen.uploads[r] <= 1
                                         /\ r \notin given => seen.saved[r] \subseteq Kept(r)
================================================================================
