----------------------------- MODULE Capture_proofs -----------------------------
(***************************************************************************)
(* What a device cannot do to a recording, whatever closes, fails or is    *)
(* opened twice, for any number of pages, recordings and pieces.           *)
(*                                                                         *)
(* The argument has one pivot, Shut: a recorder that is closed and has no  *)
(* write left never writes again.  A draft is thrown away only then        *)
(* (Finished), and only when the queue or the server holds at least what   *)
(* was written (Safe); what is listed, rescued or in hand is whole in the  *)
(* same sense (Whole), so no order of pages replaces it with less.         *)
(*                                                                         *)
(* That a calm device sends each recording once, and whole, rests on a     *)
(* second one, Gone: a recording that was queued has no draft that can be  *)
(* found again.                                                            *)
(***************************************************************************)
EXTENDS Capture, TLAPS

Shut(r) == recorder[r].closed /\ recorder[r].pending = {}

\* The audio has every piece that was written, or will be, by a recorder that is closed.
Whole(r, audio) ==
    recorder[r].closed /\ seen.written[r] \cup recorder[r].pending \subseteq audio

Safe(r) == Whole(r, queue[r].audio \cup UNION server[r])

------------------------------------------------------------------------------
(* Who holds what.                                                         *)

\* The life of a recorder, and the page that makes it.
Making(r) ==
    LET c == recorder[r] IN
    /\ c.pending \cup c.reading \subseteq Spoken(r)
    /\ c.mic \in {"mai", "chiede"} => c.made = 0
    /\ c.mic \in {"mai", "chiede", "viva"} => ~c.closed
    /\ c.mic \in {"chiede", "viva"} => page[c.page].open
    /\ c.mic = "ferma" => c.closed \/ page[c.page].saving = r
    /\ c.toss => c.closed
    /\ r \in given => c.mic # "mai"

Holding(p) ==
    LET q == page[p] IN
    /\ ~q.open => q = Closed
    /\ q.session # NoRecording => recorder[q.session].page = p /\ recorder[q.session].mic = "viva"
    /\ q.saving # NoRecording => /\ recorder[q.saving].page = p
                                 /\ recorder[q.saving].mic = "ferma"
                                 /\ ~recorder[q.saving].closed
    /\ q.unsaved # NoRecording => recorder[q.unsaved].closed

Desk == /\ \A r \in Recordings : Making(r)
        /\ \A p \in Pages : Holding(p)

\* Only a recorder that writes no more is silent, recovered, or about to be discarded.
Resting ==
    /\ \A r \in Recordings : /\ seen.written[r] \cup draft[r] \subseteq Spoken(r)
                             /\ silent[r] => Shut(r)
    /\ \A p \in Pages :
         /\ \A r \in Recordings : page[p].found[r] # {} => Shut(r)
         /\ page[p].recover = "butta" => page[p].rescued \in Recordings /\ Shut(page[p].rescued)
         /\ page[p].drain = "toglie" => page[p].current \in Recordings

Orderly == CaptureTypeOK /\ Desk /\ Resting

------------------------------------------------------------------------------
(* What a step may do to the copies of a recording.                        *)

\* A closed recorder stays closed and writes at most what it had to; the server forgets nothing.
Steady(r) ==
    /\ server[r] \subseteq server'[r]
    /\ recorder[r].made <= recorder'[r].made
    /\ recorder[r].closed => /\ recorder'[r].closed
                             /\ recorder'[r].pending \subseteq recorder[r].pending
                             /\ seen'.written[r] \subseteq seen.written[r] \cup recorder[r].pending

\* All the audio is in the row, and no more is to come.
Stored(r) ==
    /\ recorder'[r].closed /\ recorder'[r].made = recorder[r].made
    /\ queue'[r] = Enqueued(r, Spoken(r))

\* The three reasons for which a draft is thrown away.
Finishes(r) ==
    \/ recorder[r].toss /\ recorder[r].pending = {}
    \/ \E p \in Pages : page[p].recover = "butta" /\ page[p].rescued = r
    \/ /\ \E p \in Pages : page[p].unsaved = r
       /\ Answered(r)
       /\ r \in given' \/ Stored(r)

DraftMove(r) ==
    \/ draft'[r] = draft[r] /\ seen'.written[r] = seen.written[r]
    \/ \E k \in recorder[r].pending : /\ draft'[r] = draft[r] \cup {k}
                                      /\ seen'.written[r] = seen.written[r] \cup {k}
    \/ /\ draft'[r] = {} /\ seen'.written[r] = seen.written[r]
       /\ Finishes(r) \/ (recorder[r].mic # "mai" => r \in given')

QueueMove(r) ==
    \/ queue'[r].in = queue[r].in /\ queue'[r].audio = queue[r].audio
    \/ \E p \in Pages : page[p].found[r] # {} /\ queue'[r] = Enqueued(r, page[p].found[r])
    \/ Stored(r)
    \/ /\ queue'[r] = NoRow
       /\ \/ \E p \in Pages : page[p].drain = "toglie" /\ page[p].current = r
          \/ recorder[r].mic # "mai" => r \in given'

RecordingMove(r) ==
    /\ Steady(r) /\ DraftMove(r) /\ QueueMove(r)
    /\ silent'[r] => silent[r] \/ Shut(r)
    /\ r \in seen'.discarded => r \in seen.discarded \/ (draft'[r] = {} /\ Finishes(r))
    /\ r \in given => r \in given' \/ recorder[r].mic = "mai"
    /\ recorder'[r].toss => recorder[r].toss \/ r \in given' \/ Stored(r)

PageMove(p) ==
    LET q == page[p]
        n == page'[p]
    IN
    /\ \A r \in Recordings :
         /\ n.found[r] # {} => n.found[r] = q.found[r] \/ (silent[r] /\ n.found[r] = draft[r])
         /\ n.items[r] # {} => n.items[r] = q.items[r] \/ (queue[r].in /\ n.items[r] = queue[r].audio)
    /\ n.recover = "butta" =>
         \/ q.recover = "butta" /\ n.rescued = q.rescued
         \/ /\ n.rescued \in Recordings /\ q.found[n.rescued] # {}
            /\ queue'[n.rescued] = Enqueued(n.rescued, q.found[n.rescued])
    /\ n.drain = "toglie" =>
         \/ q.drain = "toglie" /\ n.current = q.current
         \/ /\ n.current \in Recordings /\ q.items[n.current] # {}
            /\ q.items[n.current] \in server'[n.current]

Moves == /\ \A r \in Recordings : RecordingMove(r)
         /\ \A p \in Pages : PageMove(p)

------------------------------------------------------------------------------
(* A copy of the audio that nobody gave up is whole wherever it counts.     *)

KeptOnDisk(r) ==
    /\ \/ seen.written[r] \subseteq draft[r]
       \/ draft[r] = {} /\ Shut(r) /\ Safe(r)
    /\ queue[r].in => Whole(r, queue[r].audio)
    /\ recorder[r].toss => Safe(r)

KeptBy(p, r) ==
    /\ page[p].found[r] # {} => Whole(r, page[p].found[r])
    /\ page[p].recover = "butta" /\ page[p].rescued = r => Safe(r)
    /\ page[p].items[r] # {} => Whole(r, page[p].items[r])
    /\ page[p].drain = "toglie" /\ page[p].current = r => Whole(r, UNION server[r])

SurvivalInv ==
    \A r \in Recordings : r \notin given => KeptOnDisk(r) /\ \A p \in Pages : KeptBy(p, r)

Finished == \A r \in seen.discarded : draft[r] = {} /\ Shut(r)

------------------------------------------------------------------------------
(* The invariants follow from the moves.                                   *)

\* What is whole stays so, and so does what contains it.
LEMMA WholeStays ==
    ASSUME NEW r \in Recordings, Steady(r), NEW audio, NEW more, Whole(r, audio), audio \subseteq more
    PROVE  recorder'[r].closed /\ seen'.written[r] \cup recorder'[r].pending \subseteq more
BY DEF Steady, Whole

LEMMA ShutStays ==
    ASSUME NEW r \in Recordings, Steady(r), Shut(r)
    PROVE  Shut(r)'
BY DEF Steady, Shut

LEMMA SpokenGrows ==
    ASSUME CaptureTypeOK, CaptureTypeOK', NEW r \in Recordings, Steady(r)
    PROVE  Spoken(r) \subseteq Spoken(r)'
<1>1. recorder[r].made \in Int /\ recorder'[r].made \in Int
    BY MaxPiecesAssumption DEF CaptureTypeOK, Recorder
<1> QED
    BY <1>1 DEF Steady, Spoken, Pieces

LEMMA StoredIsWhole ==
    ASSUME Orderly', NEW r \in Recordings, Stored(r)
    PROVE  Whole(r, queue[r].audio)' /\ Safe(r)'
<1>1. Spoken(r)' = Spoken(r) /\ queue'[r].audio = Spoken(r)
    BY DEF Stored, Enqueued, Spoken
<1>2. seen'.written[r] \subseteq Spoken(r)' /\ recorder'[r].pending \subseteq Spoken(r)'
    BY DEF Orderly, Desk, Resting, Making
<1> QED
    BY <1>1, <1>2 DEF Stored, Whole, Safe

LEMMA MovesKeepResting ==
    ASSUME Orderly, Moves, CaptureTypeOK', Desk'
    PROVE  Resting'
<1>1. ASSUME NEW r \in Recordings
      PROVE  (seen.written[r] \cup draft[r] \subseteq Spoken(r))' /\ (silent[r] => Shut(r))'
    <2>1. Steady(r) /\ RecordingMove(r)
        BY DEF Moves, RecordingMove
    <2>2. Spoken(r) \subseteq Spoken(r)'
        BY <2>1, SpokenGrows DEF Orderly
    <2>3. seen.written[r] \cup draft[r] \cup recorder[r].pending \subseteq Spoken(r)
        BY DEF Orderly, Desk, Making, Resting
    <2>4. seen'.written[r] \cup draft'[r] \subseteq Spoken(r)
        BY <2>1, <2>3 DEF RecordingMove, DraftMove
    <2>5. silent'[r] => Shut(r)
        BY <2>1 DEF RecordingMove, Orderly, Resting
    <2> QED
        BY <2>1, <2>2, <2>4, <2>5, ShutStays
<1>2. ASSUME NEW p \in Pages
      PROVE  /\ \A r \in Recordings : (page[p].found[r] # {} => Shut(r))'
             /\ (page[p].recover = "butta" => page[p].rescued \in Recordings /\ Shut(page[p].rescued))'
             /\ (page[p].drain = "toglie" => page[p].current \in Recordings)'
    <2>1. PageMove(p) /\ \A r \in Recordings : Steady(r)
        BY DEF Moves, RecordingMove
    <2>2. \A r \in Recordings : Shut(r) => Shut(r)'
        BY <2>1, ShutStays
    <2>3. \A r \in Recordings : page'[p].found[r] # {} => Shut(r)
        BY <2>1 DEF PageMove, Orderly, Resting
    <2>4. page'[p].recover = "butta" => page'[p].rescued \in Recordings /\ Shut(page'[p].rescued)
        BY <2>1 DEF PageMove, Orderly, Resting
    <2>5. page'[p].drain = "toglie" => page'[p].current \in Recordings
        BY <2>1 DEF PageMove, Orderly, Resting
    <2> HIDE DEF Shut
    <2>6. page'[p].recover = "butta" => Shut(page[p].rescued)'
        BY <2>2, <2>4 DEF Shut
    <2> QED
        BY <2>2, <2>3, <2>4, <2>5, <2>6
<1> QED
    BY <1>1, <1>2 DEF Resting

\* Whatever replaces the row of a closed recording is whole; when the row goes, the server is.
LEMMA SafeStays ==
    ASSUME Orderly, Orderly', SurvivalInv, Moves, NEW r \in Recordings, r \notin given, r \notin given',
           Safe(r)
    PROVE  Safe(r)'
<1>1. Steady(r) /\ QueueMove(r)
    BY DEF Moves, RecordingMove
<1>2. \A p \in Pages : KeptBy(p, r)
    BY DEF SurvivalInv
<1>3. UNION server[r] \subseteq UNION server'[r]
    BY <1>1 DEF Steady
<1>4. recorder[r].mic # "mai"
    BY DEF Orderly, Desk, Making, Safe, Whole
<1>5. CASE queue'[r].audio = queue[r].audio
    <2> DEFINE old == queue[r].audio \cup UNION server[r]
               new == queue'[r].audio \cup UNION server'[r]
    <2>1. Whole(r, old) /\ old \subseteq new
        BY <1>3, <1>5 DEF Safe
    <2> HIDE DEF old, new
    <2>2. recorder'[r].closed /\ seen'.written[r] \cup recorder'[r].pending \subseteq new
        BY <2>1, <1>1, WholeStays
    <2> QED
        BY <2>2 DEF Safe, Whole, new
<1>6. ASSUME NEW p \in Pages, page[p].found[r] # {}, queue'[r] = Enqueued(r, page[p].found[r])
      PROVE  Safe(r)'
    <2>1. Whole(r, page[p].found[r])
        BY <1>2, <1>6 DEF KeptBy
    <2> QED
        <3>1. page[p].found[r] \subseteq queue'[r].audio \cup UNION server'[r]
            BY <1>6 DEF Enqueued
        <3>2. recorder'[r].closed /\ seen'.written[r] \cup recorder'[r].pending
                                       \subseteq queue'[r].audio \cup UNION server'[r]
            BY <2>1, <3>1, <1>1, WholeStays
        <3> QED
            BY <3>2 DEF Safe, Whole
<1>7. CASE Stored(r)
    BY <1>7, StoredIsWhole
<1>8. ASSUME NEW p \in Pages, page[p].drain = "toglie", page[p].current = r
      PROVE  Safe(r)'
    <2>1. Whole(r, UNION server[r])
        BY <1>2, <1>8 DEF KeptBy
    <2> QED
        <3>1. UNION server[r] \subseteq queue'[r].audio \cup UNION server'[r]
            BY <1>3
        <3>2. recorder'[r].closed /\ seen'.written[r] \cup recorder'[r].pending
                                       \subseteq queue'[r].audio \cup UNION server'[r]
            BY <2>1, <3>1, <1>1, WholeStays
        <3> QED
            BY <3>2 DEF Safe, Whole
<1> QED
    BY <1>1, <1>4, <1>5, <1>6, <1>7, <1>8 DEF QueueMove

LEMMA MovesKeepDisk ==
    ASSUME WritesAreQuick, Orderly, Orderly', SurvivalInv, Moves,
           NEW r \in Recordings, r \notin given, r \notin given'
    PROVE  KeptOnDisk(r)'
<1>1. Steady(r) /\ RecordingMove(r) /\ KeptOnDisk(r) /\ \A p \in Pages : KeptBy(p, r)
    BY DEF Moves, RecordingMove, SurvivalInv
<1>2. Safe(r) => Safe(r)'
    BY SafeStays
<1>3. Shut(r) => Shut(r)'
    BY <1>1, ShutStays
<1>4. Stored(r) => Whole(r, queue[r].audio)' /\ Safe(r)'
    BY StoredIsWhole
<1>5. (seen.written[r] \subseteq draft[r] \/ (draft[r] = {} /\ Shut(r) /\ Safe(r)))'
    <2>1. CASE draft'[r] = draft[r] /\ seen'.written[r] = seen.written[r]
        BY <2>1, <1>1, <1>2, <1>3 DEF KeptOnDisk
    <2>2. ASSUME NEW k \in recorder[r].pending, draft'[r] = draft[r] \cup {k},
                 seen'.written[r] = seen.written[r] \cup {k}
          PROVE  seen'.written[r] \subseteq draft'[r]
        BY <2>2, <1>1 DEF KeptOnDisk, Shut
    <2>3. CASE draft'[r] = {} /\ Finishes(r)
        <3>1. CASE recorder[r].toss /\ recorder[r].pending = {}
            <4>1. Shut(r) /\ Safe(r)
                BY <3>1, <1>1 DEF Shut, KeptOnDisk, Safe, Whole
            <4> QED
                BY <4>1, <2>3, <1>2, <1>3
        <3>2. ASSUME NEW p \in Pages, page[p].recover = "butta", page[p].rescued = r
              PROVE  draft'[r] = {} /\ Shut(r)' /\ Safe(r)'
            <4>1. Shut(r) /\ Safe(r)
                BY <3>2, <1>1 DEF KeptBy, Orderly, Resting
            <4> QED
                BY <4>1, <2>3, <1>2, <1>3
        <3>3. ASSUME NEW p \in Pages, page[p].unsaved = r, Answered(r), Stored(r)
              PROVE  draft'[r] = {} /\ Shut(r)' /\ Safe(r)'
            <4>1. Shut(r)
                BY <3>3, NoRecordingAssumption DEF Shut, Answered, Orderly, Desk, Holding
            <4> QED
                BY <4>1, <3>3, <2>3, <1>3, <1>4
        <3> QED
            BY <3>1, <3>2, <3>3, <2>3 DEF Finishes
    <2>4. CASE seen'.written[r] = seen.written[r] /\ recorder[r].mic = "mai"
        <3>1. recorder[r].made = 0 /\ seen.written[r] \subseteq Spoken(r)
            BY <2>4 DEF Orderly, Desk, Making, Resting
        <3>2. Spoken(r) = {}
            BY <3>1, MaxPiecesAssumption DEF Spoken, Pieces
        <3> QED
            BY <3>1, <3>2, <2>4
    <2> QED
        BY <2>1, <2>2, <2>3, <2>4, <1>1 DEF RecordingMove, DraftMove
<1>6. (queue[r].in => Whole(r, queue[r].audio))'
    <2>1. CASE queue'[r].in = queue[r].in /\ queue'[r].audio = queue[r].audio
        <3>1. ASSUME queue[r].in
              PROVE  recorder'[r].closed /\ seen'.written[r] \cup recorder'[r].pending
                                              \subseteq queue'[r].audio
            <4>1. Whole(r, queue[r].audio)
                BY <3>1, <1>1 DEF KeptOnDisk
            <4> QED
                BY <4>1, <2>1, <1>1, WholeStays
        <3> QED
            BY <3>1, <2>1 DEF Whole
    <2>2. ASSUME NEW p \in Pages, page[p].found[r] # {}, queue'[r] = Enqueued(r, page[p].found[r])
          PROVE  Whole(r, queue[r].audio)'
        <3>1. Whole(r, page[p].found[r]) /\ queue'[r].audio = page[p].found[r]
            BY <2>2, <1>1 DEF KeptBy, Enqueued
        <3>2. recorder'[r].closed /\ seen'.written[r] \cup recorder'[r].pending
                                       \subseteq queue'[r].audio
            BY <3>1, <1>1, WholeStays
        <3> QED
            BY <3>2 DEF Whole
    <2>3. queue'[r] = NoRow => ~queue'[r].in
        BY DEF NoRow
    <2> QED
        BY <2>1, <2>2, <2>3, <1>1, <1>4 DEF RecordingMove, QueueMove
<1>7. (recorder[r].toss => Safe(r))'
    BY <1>1, <1>2, <1>4 DEF RecordingMove, KeptOnDisk
<1> QED
    BY <1>5, <1>6, <1>7 DEF KeptOnDisk

LEMMA MovesKeepPage ==
    ASSUME Orderly, Orderly', SurvivalInv, Moves,
           NEW r \in Recordings, r \notin given, r \notin given', NEW p \in Pages
    PROVE  KeptBy(p, r)'
<1>1. Steady(r) /\ KeptOnDisk(r) /\ KeptBy(p, r) /\ PageMove(p)
    BY DEF Moves, RecordingMove, SurvivalInv
<1>2. Safe(r) => Safe(r)'
    BY SafeStays
<1>3. ASSUME NEW audio, NEW more, Whole(r, audio), audio \subseteq more
      PROVE  recorder'[r].closed /\ seen'.written[r] \cup recorder'[r].pending \subseteq more
    BY <1>1, <1>3, WholeStays
<1>4. (page[p].found[r] # {} => Whole(r, page[p].found[r]))'
    <2>1. page'[p].found[r] # {} => Whole(r, page'[p].found[r])
        <3>1. silent[r] /\ draft[r] # {} => Whole(r, draft[r])
            BY <1>1 DEF Orderly, Resting, KeptOnDisk, Shut, Whole
        <3> QED
            BY <3>1, <1>1 DEF PageMove, KeptBy
    <2> QED
        BY <2>1, <1>3 DEF Whole
<1>5. (page[p].recover = "butta" /\ page[p].rescued = r => Safe(r))'
    <2>1. ASSUME page[p].found[r] # {}, queue'[r] = Enqueued(r, page[p].found[r])
          PROVE  Safe(r)'
        <3>1. Whole(r, page[p].found[r])
            BY <2>1, <1>1 DEF KeptBy
        <3>2. page[p].found[r] \subseteq queue'[r].audio \cup UNION server'[r]
            BY <2>1 DEF Enqueued
        <3>3. recorder'[r].closed /\ seen'.written[r] \cup recorder'[r].pending
                                       \subseteq queue'[r].audio \cup UNION server'[r]
            BY <3>1, <3>2, <1>3
        <3> QED
            BY <3>3 DEF Safe, Whole
    <2> QED
        BY <2>1, <1>1, <1>2 DEF PageMove, KeptBy
<1>6. (page[p].items[r] # {} => Whole(r, page[p].items[r]))'
    <2>1. page'[p].items[r] # {} => Whole(r, page'[p].items[r])
        BY <1>1 DEF PageMove, KeptBy, KeptOnDisk
    <2> QED
        BY <2>1, <1>3 DEF Whole
<1>7. (page[p].drain = "toglie" /\ page[p].current = r => Whole(r, UNION server[r]))'
    <2>1. UNION server[r] \subseteq UNION server'[r]
        BY <1>1 DEF Steady
    <2>2. ASSUME page[p].drain = "toglie", page[p].current = r
          PROVE  recorder'[r].closed /\ seen'.written[r] \cup recorder'[r].pending
                                          \subseteq UNION server'[r]
        BY <2>1, <2>2, <1>1, <1>3 DEF KeptBy
    <2>3. ASSUME page[p].items[r] # {}, page[p].items[r] \in server'[r]
          PROVE  recorder'[r].closed /\ seen'.written[r] \cup recorder'[r].pending
                                          \subseteq UNION server'[r]
        <3>1. Whole(r, page[p].items[r]) /\ page[p].items[r] \subseteq UNION server'[r]
            BY <2>3, <1>1 DEF KeptBy
        <3> QED
            BY <3>1, <1>3
    <2> QED
        BY <2>2, <2>3, <1>1 DEF PageMove, Whole
<1> QED
    BY <1>4, <1>5, <1>6, <1>7 DEF KeptBy

LEMMA MovesKeepSurvival ==
    ASSUME WritesAreQuick, Orderly, Orderly', SurvivalInv, Moves
    PROVE  SurvivalInv'
<1> SUFFICES ASSUME NEW r \in Recordings, r \notin given'
             PROVE  KeptOnDisk(r)' /\ \A p \in Pages : KeptBy(p, r)'
    BY DEF SurvivalInv
<1>1. r \notin given
    BY DEF Moves, RecordingMove, Orderly, Desk, Making
<1> QED
    BY <1>1, MovesKeepDisk, MovesKeepPage

LEMMA MovesKeepFinished ==
    ASSUME WritesAreQuick, Orderly, Orderly', Finished, Moves
    PROVE  Finished'
<1> SUFFICES ASSUME NEW r \in seen'.discarded
             PROVE  draft'[r] = {} /\ Shut(r)'
    BY DEF Finished
<1>1. r \in Recordings
    BY DEF Orderly, CaptureTypeOK
<1>2. Steady(r) /\ RecordingMove(r)
    BY <1>1 DEF Moves, RecordingMove
<1>3. CASE r \in seen.discarded
    <2>1. draft[r] = {} /\ Shut(r)
        BY <1>3 DEF Finished
    <2> QED
        BY <2>1, <1>1, <1>2, ShutStays DEF RecordingMove, DraftMove, Shut
<1>4. CASE draft'[r] = {} /\ Finishes(r)
    <2>1. Shut(r)
        BY <1>1, <1>4, NoRecordingAssumption
           DEF Finishes, Answered, Shut, Orderly, Desk, Resting, Making, Holding
    <2> QED
        BY <2>1, <1>1, <1>2, <1>4, ShutStays
<1> QED
    BY <1>2, <1>3, <1>4 DEF RecordingMove

------------------------------------------------------------------------------
(* Every step is such a move.                                              *)

Fine == CaptureTypeOK' /\ Desk' /\ Moves

SeenType == [written   : [Recordings -> SUBSET Pieces],
             discarded : SUBSET Recordings,
             saved     : [Recordings -> SUBSET Pieces],
             uploads   : [Recordings -> 0 .. 2],
             rough     : BOOLEAN]

\* The page goes on with the recordings it has, if not with the one it kept for its user.
SameDesk(p) ==
    /\ page'[p].open = page[p].open
    /\ page'[p].session = page[p].session /\ page'[p].saving = page[p].saving
    /\ page'[p].unsaved \in {page[p].unsaved, NoRecording}
    /\ ~page[p].open => page'[p] = page[p]

LEMMA PageBecomes ==
    ASSUME CaptureTypeOK, NEW p \in Pages, NEW n \in Page, page' = [page EXCEPT ![p] = n]
    PROVE  /\ page' \in [Pages -> Page]
           /\ page'[p] = n
           /\ \A q \in Pages : q # p => page'[q] = page[q]
BY DEF CaptureTypeOK

LEMMA RecorderBecomes ==
    ASSUME CaptureTypeOK, NEW r \in Recordings, NEW c \in Recorder,
           recorder' = [recorder EXCEPT ![r] = c]
    PROVE  /\ recorder' \in [Recordings -> Recorder]
           /\ recorder'[r] = c
           /\ \A s \in Recordings : s # r => recorder'[s] = recorder[s]
BY DEF CaptureTypeOK

LEMMA PageFields ==
    ASSUME CaptureTypeOK, NEW p \in Pages
    PROVE  /\ page[p] \in Page
           /\ page[p].found \in [Recordings -> SUBSET Pieces]
           /\ page[p].items \in [Recordings -> SUBSET Pieces]
           /\ page[p].current \in Recordings \cup {NoRecording}
           /\ page[p].rescued \in Recordings \cup {NoRecording}
           /\ page[p].session \in Recordings \cup {NoRecording}
           /\ page[p].saving \in Recordings \cup {NoRecording}
           /\ page[p].unsaved \in Recordings \cup {NoRecording}
BY DEF CaptureTypeOK, Page

LEMMA PageRests ==
    ASSUME NEW p \in Pages, page'[p] = page[p]
    PROVE  PageMove(p) /\ SameDesk(p)
BY DEF PageMove, SameDesk

\* A recording that a step leaves alone.
LEMMA RecordingRests ==
    ASSUME CaptureTypeOK, NEW r \in Recordings,
           recorder'[r] = recorder[r], draft'[r] = draft[r], silent'[r] = silent[r],
           queue'[r].in = queue[r].in, queue'[r].audio = queue[r].audio,
           server[r] \subseteq server'[r],
           seen'.written[r] = seen.written[r], r \in seen'.discarded => r \in seen.discarded,
           r \in given => r \in given'
    PROVE  RecordingMove(r)
<1>1. recorder[r].made \in Int
    BY MaxPiecesAssumption DEF CaptureTypeOK, Recorder
<1> QED
    BY <1>1 DEF RecordingMove, Steady, DraftMove, QueueMove

LEMMA DeskRests ==
    ASSUME Orderly, UNCHANGED recorder, \A p \in Pages : SameDesk(p),
           \A r \in Recordings : r \in given' => r \in given \/ recorder[r].mic # "mai"
    PROVE  Desk'
<1>1. ASSUME NEW r \in Recordings
      PROVE  Making(r)'
    <2>1. Making(r) /\ recorder[r].page \in Pages
        BY DEF Orderly, Desk, CaptureTypeOK, Recorder
    <2> QED
        BY <2>1 DEF Making, SameDesk, Spoken
<1>2. ASSUME NEW p \in Pages
      PROVE  Holding(p)'
    <2>1. Holding(p) /\ SameDesk(p)
        BY DEF Orderly, Desk
    <2> QED
        BY <2>1 DEF Holding, SameDesk
<1> QED
    BY <1>1, <1>2 DEF Desk

\* The steps of a page on its own memory.
LEMMA PageStep ==
    ASSUME Orderly, NEW p \in Pages, NEW n \in Page, page' = [page EXCEPT ![p] = n],
           SameDesk(p), PageMove(p),
           UNCHANGED <<draft, silent, queue, server, online, recorder, given, faults, opens, seen>>
    PROVE  Fine
<1>1. /\ page' \in [Pages -> Page]
      /\ \A q \in Pages : q # p => page'[q] = page[q]
    BY PageBecomes DEF Orderly
<1>2. \A q \in Pages : PageMove(q) /\ SameDesk(q)
    BY <1>1, PageRests
<1>3. \A r \in Recordings : RecordingMove(r)
    BY RecordingRests DEF Orderly
<1>4. Desk'
    BY <1>2, DeskRests
<1>5. CaptureTypeOK'
    BY <1>1 DEF Orderly, CaptureTypeOK
<1> QED
    BY <1>2, <1>3, <1>4, <1>5 DEF Fine, Moves

LEMMA RecoverListMoves ==
    ASSUME Orderly, NEW p \in Pages, RecoverList(p)
    PROVE  Fine
<1> DEFINE f == [r \in Recordings |-> IF r \in page[p].dead \cap Dead THEN draft[r] ELSE {}]
           n == [page[p] EXCEPT !.recover = "accoda", !.found = f, !.dead = {}]
<1>0. page[p] \in Page /\ draft \in [Recordings -> SUBSET Pieces]
    BY DEF Orderly, CaptureTypeOK
<1>1. f \in [Recordings -> SUBSET Pieces]
    BY <1>0
<1>2. \A r \in Recordings : f[r] # {} => silent[r] /\ f[r] = draft[r]
    BY DEF Dead
<1>3. page' = [page EXCEPT ![p] = n]
    BY DEF RecoverList
<1> HIDE DEF f
<1>4. /\ n \in Page /\ n.recover = "accoda" /\ n.found = f
      /\ n.open = page[p].open /\ n.session = page[p].session /\ n.saving = page[p].saving
      /\ n.unsaved = page[p].unsaved /\ n.items = page[p].items /\ n.drain = page[p].drain
      /\ n.current = page[p].current
    BY <1>0, <1>1 DEF Page
<1> HIDE DEF n
<1>5. page'[p] = n
    BY <1>3, <1>4, PageBecomes DEF Orderly
<1>6. SameDesk(p) /\ PageMove(p)
    BY <1>2, <1>4, <1>5 DEF SameDesk, PageMove, RecoverList
<1> QED
    BY <1>3, <1>4, <1>6, PageStep DEF RecoverList

LEMMA DrainedPage ==
    ASSUME NEW q \in Page
    PROVE  /\ Drained(q) \in Page
           /\ Drained(q).open = q.open /\ Drained(q).session = q.session
           /\ Drained(q).saving = q.saving /\ Drained(q).unsaved = q.unsaved
           /\ Drained(q).found = q.found /\ Drained(q).items = q.items
           /\ Drained(q).recover = q.recover /\ Drained(q).rescued = q.rescued
           /\ Drained(q).drain = "toglie" => q.drain = "toglie"
           /\ Drained(q).current = q.current /\ Drained(q).dead = q.dead
BY DEF Drained, Page

LEMMA RecoverEndMoves ==
    ASSUME Orderly, NEW p \in Pages, RecoverEnd(p)
    PROVE  Fine
<1> DEFINE m == [page[p] EXCEPT !.recover = "fatto"]
           n == Drained(m)
<1>0. page[p] \in Page
    BY DEF Orderly, CaptureTypeOK
<1>1. /\ m \in Page /\ m.recover = "fatto"
      /\ m.open = page[p].open /\ m.session = page[p].session /\ m.saving = page[p].saving
      /\ m.unsaved = page[p].unsaved /\ m.items = page[p].items /\ m.drain = page[p].drain
      /\ m.current = page[p].current /\ m.found = page[p].found
    BY <1>0 DEF Page
<1>2. page' = [page EXCEPT ![p] = n]
    BY DEF RecoverEnd
<1> HIDE DEF m
<1>3. /\ n \in Page /\ n.recover = "fatto"
      /\ n.open = page[p].open /\ n.session = page[p].session /\ n.saving = page[p].saving
      /\ n.unsaved = page[p].unsaved /\ n.items = page[p].items
      /\ n.drain = "toglie" => page[p].drain = "toglie"
      /\ n.current = page[p].current /\ n.found = page[p].found
    BY <1>1, DrainedPage
<1> HIDE DEF n
<1>4. page'[p] = n
    BY <1>2, <1>3, PageBecomes DEF Orderly
<1>5. SameDesk(p) /\ PageMove(p)
    BY <1>3, <1>4 DEF SameDesk, PageMove, RecoverEnd
<1> QED
    BY <1>2, <1>3, <1>5, PageStep DEF RecoverEnd

LEMMA DrainMoves ==
    ASSUME Orderly, NEW p \in Pages, DrainList(p) \/ DrainEnd(p) \/ Riprova(p)
    PROVE  Fine
<1>0. page[p] \in Page /\ queue \in [Recordings -> Row]
    BY DEF Orderly, CaptureTypeOK
<1>1. CASE DrainList(p)
    <2> DEFINE n == [page[p] EXCEPT !.drain = "invia", !.items = Listed]
    <2>1. Listed \in [Recordings -> SUBSET Pieces]
        BY <1>0 DEF Listed, Row
    <2>2. \A r \in Recordings : Listed[r] # {} => queue[r].in /\ Listed[r] = queue[r].audio
        BY DEF Listed
    <2>3. page' = [page EXCEPT ![p] = n]
        BY <1>1 DEF DrainList
    <2>4. /\ n \in Page /\ n.items = Listed /\ n.drain = "invia"
          /\ n.open = page[p].open /\ n.session = page[p].session /\ n.saving = page[p].saving
          /\ n.unsaved = page[p].unsaved /\ n.recover = page[p].recover
          /\ n.rescued = page[p].rescued /\ n.found = page[p].found
        BY <1>0, <2>1 DEF Page
    <2> HIDE DEF n
    <2>5. page'[p] = n
        BY <2>3, <2>4, PageBecomes DEF Orderly
    <2>6. SameDesk(p) /\ PageMove(p)
        BY <1>1, <2>2, <2>4, <2>5 DEF SameDesk, PageMove, DrainList
    <2> QED
        BY <1>1, <2>3, <2>4, <2>6, PageStep DEF DrainList
<1>2. CASE DrainEnd(p)
    <2> DEFINE n == [page[p] EXCEPT !.drain = "fermo"]
    <2>1. page' = [page EXCEPT ![p] = n]
        BY <1>2 DEF DrainEnd
    <2>2. /\ n \in Page /\ n.items = page[p].items /\ n.drain = "fermo"
          /\ n.open = page[p].open /\ n.session = page[p].session /\ n.saving = page[p].saving
          /\ n.unsaved = page[p].unsaved /\ n.recover = page[p].recover
          /\ n.rescued = page[p].rescued /\ n.found = page[p].found
        BY <1>0 DEF Page
    <2> HIDE DEF n
    <2>3. page'[p] = n
        BY <2>1, <2>2, PageBecomes DEF Orderly
    <2>4. SameDesk(p) /\ PageMove(p)
        BY <1>2, <2>2, <2>3 DEF SameDesk, PageMove, DrainEnd
    <2> QED
        BY <1>2, <2>1, <2>2, <2>4, PageStep DEF DrainEnd
<1>3. CASE Riprova(p)
    <2> DEFINE n == Drained(page[p])
    <2>1. page' = [page EXCEPT ![p] = n]
        BY <1>3 DEF Riprova
    <2>2. /\ n \in Page /\ n.items = page[p].items /\ (n.drain = "toglie" => page[p].drain = "toglie")
          /\ n.open = page[p].open /\ n.session = page[p].session /\ n.saving = page[p].saving
          /\ n.unsaved = page[p].unsaved /\ n.recover = page[p].recover
          /\ n.rescued = page[p].rescued /\ n.found = page[p].found /\ n.current = page[p].current
        BY <1>0, DrainedPage
    <2> HIDE DEF n
    <2>3. page'[p] = n
        BY <2>1, <2>2, PageBecomes DEF Orderly
    <2>4. SameDesk(p) /\ PageMove(p)
        BY <1>3, <2>2, <2>3 DEF SameDesk, PageMove, Riprova
    <2> QED
        BY <1>3, <2>1, <2>2, <2>4, PageStep DEF Riprova
<1> QED
    BY <1>1, <1>2, <1>3

\* The steps that touch the copies of one recording.
DiskTypes ==
    /\ draft' \in [Recordings -> SUBSET Pieces]
    /\ silent' \in [Recordings -> BOOLEAN]
    /\ queue' \in [Recordings -> Row]
    /\ server' \in [Recordings -> SUBSET (SUBSET Pieces)]
    /\ online' \in BOOLEAN
    /\ given' \subseteq Recordings
    /\ faults' \in 0 .. MaxFaults
    /\ opens' \in 0 .. MaxOpens
    /\ seen' \in SeenType

OthersRest(r) ==
    \A s \in Recordings : s # r =>
        /\ draft'[s] = draft[s] /\ silent'[s] = silent[s] /\ queue'[s] = queue[s]
        /\ server'[s] = server[s] /\ seen'.written[s] = seen.written[s]
        /\ s \in seen'.discarded => s \in seen.discarded

LEMMA TypesHold ==
    ASSUME DiskTypes, page' \in [Pages -> Page], recorder' \in [Recordings -> Recorder]
    PROVE  CaptureTypeOK'
BY DEF DiskTypes, SeenType, CaptureTypeOK

LEMMA OneRecordingMoves ==
    ASSUME Orderly, NEW r \in Recordings, RecordingMove(r), OthersRest(r), given \subseteq given',
           \A s \in Recordings : s # r => recorder'[s] = recorder[s]
    PROVE  \A s \in Recordings : RecordingMove(s)
<1> SUFFICES ASSUME NEW s \in Recordings, s # r
             PROVE  RecordingMove(s)
    OBVIOUS
<1> QED
    BY RecordingRests DEF OthersRest, Orderly

LEMMA DiskStep ==
    ASSUME Orderly, NEW p \in Pages, NEW n \in Page, page' = [page EXCEPT ![p] = n],
           SameDesk(p), PageMove(p), UNCHANGED recorder, given \subseteq given',
           \A s \in Recordings : s \in given' => s \in given \/ recorder[s].mic # "mai",
           DiskTypes, NEW r \in Recordings, RecordingMove(r), OthersRest(r)
    PROVE  Fine
<1>1. /\ page' \in [Pages -> Page]
      /\ \A q \in Pages : q # p => page'[q] = page[q]
    BY PageBecomes DEF Orderly
<1>2. \A q \in Pages : PageMove(q) /\ SameDesk(q)
    BY <1>1, PageRests
<1>3. \A s \in Recordings : RecordingMove(s)
    BY OneRecordingMoves
<1>4. Desk'
    BY <1>2, DeskRests
<1>5. CaptureTypeOK'
    BY <1>1, TypesHold DEF Orderly, CaptureTypeOK
<1> QED
    BY <1>2, <1>3, <1>4, <1>5 DEF Fine, Moves

LEMMA FaultIsCounted ==
    ASSUME CaptureTypeOK, Fault \/ NoFault
    PROVE  faults' \in 0 .. MaxFaults
BY BoundsAssumption DEF Fault, NoFault, CaptureTypeOK

LEMMA EnqueueChangesOne ==
    ASSUME CaptureTypeOK, NEW r \in Recordings, NEW audio \in SUBSET Pieces, Enqueue(r, audio)
    PROVE  /\ queue' \in [Recordings -> Row]
           /\ queue'[r] = Enqueued(r, audio)
           /\ \A s \in Recordings : s # r => queue'[s] = queue[s]
<1>1. Enqueued(r, audio) \in Row
    BY DEF Enqueued, Row
<1> QED
    BY <1>1 DEF Enqueue, CaptureTypeOK

LEMMA DiscardChangesOne ==
    ASSUME CaptureTypeOK, NEW r \in Recordings, Discard(r)
    PROVE  /\ draft' \in [Recordings -> SUBSET Pieces] /\ silent' \in [Recordings -> BOOLEAN]
           /\ draft'[r] = {} /\ ~silent'[r]
           /\ \A s \in Recordings : s # r => draft'[s] = draft[s] /\ silent'[s] = silent[s]
BY DEF Discard, CaptureTypeOK

LEMMA SeenFields ==
    ASSUME CaptureTypeOK
    PROVE  seen \in SeenType
BY DEF CaptureTypeOK, SeenType

LEMMA SeenDiscards ==
    ASSUME CaptureTypeOK, NEW r \in Recordings, seen' = [seen EXCEPT !.discarded = @ \cup {r}]
    PROVE  /\ seen' \in SeenType /\ seen'.written = seen.written
           /\ seen'.discarded = seen.discarded \cup {r}
           /\ seen'.uploads = seen.uploads /\ seen'.rough = seen.rough
BY DEF CaptureTypeOK, SeenType

LEMMA SeenRough ==
    ASSUME CaptureTypeOK, NEW b \in BOOLEAN, seen' = [seen EXCEPT !.rough = b]
    PROVE  /\ seen' \in SeenType /\ seen'.written = seen.written
           /\ seen'.discarded = seen.discarded
           /\ seen'.uploads = seen.uploads /\ seen'.rough = b
BY DEF CaptureTypeOK, SeenType

LEMMA RecoverEnqueueMoves ==
    ASSUME Orderly, NEW p \in Pages, NEW r \in Recordings, RecoverEnqueue(p, r)
    PROVE  Fine
<1> DEFINE f == [page[p].found EXCEPT ![r] = {}]
           m == [page[p] EXCEPT !.found = f]
           n == [page[p] EXCEPT !.found = f, !.recover = "butta", !.rescued = r]
<1>0. /\ CaptureTypeOK /\ page[p] \in Page /\ page[p].found \in [Recordings -> SUBSET Pieces]
      /\ page[p].found[r] \in SUBSET Pieces
    BY PageFields DEF Orderly
<1>1. f \in [Recordings -> SUBSET Pieces] /\ \A s \in Recordings : f[s] # {} => f[s] = page[p].found[s]
    BY <1>0
<1>2. /\ page[p].found[r] # {}
      /\ \/ Enqueue(r, page[p].found[r]) /\ page' = [page EXCEPT ![p] = n] /\ NoFault
         \/ UNCHANGED queue /\ page' = [page EXCEPT ![p] = m] /\ Fault
      /\ UNCHANGED <<draft, silent, server, online, recorder, given, opens, seen>>
    BY DEF RecoverEnqueue
<1> HIDE DEF f
<1>3. /\ n \in Page /\ m \in Page
      /\ n.open = page[p].open /\ n.session = page[p].session /\ n.saving = page[p].saving
      /\ n.unsaved = page[p].unsaved /\ n.items = page[p].items /\ n.drain = page[p].drain
      /\ n.current = page[p].current /\ n.found = f /\ n.rescued = r
      /\ m.open = page[p].open /\ m.session = page[p].session /\ m.saving = page[p].saving
      /\ m.unsaved = page[p].unsaved /\ m.items = page[p].items /\ m.drain = page[p].drain
      /\ m.current = page[p].current /\ m.found = f /\ m.rescued = page[p].rescued
      /\ m.recover = page[p].recover
    BY <1>0, <1>1 DEF Page
<1> HIDE DEF n, m
<1>4. faults' \in 0 .. MaxFaults
    BY <1>0, <1>2, FaultIsCounted
<1>5. CASE Enqueue(r, page[p].found[r]) /\ page' = [page EXCEPT ![p] = n]
    <2>1. /\ queue' \in [Recordings -> Row]
          /\ queue'[r] = Enqueued(r, page[p].found[r])
          /\ \A s \in Recordings : s # r => queue'[s] = queue[s]
        BY <1>0, <1>5, EnqueueChangesOne
    <2>2. page'[p] = n
        BY <1>0, <1>3, <1>5, PageBecomes
    <2>3. SameDesk(p)
        BY <1>3, <2>2 DEF SameDesk, RecoverEnqueue
    <2>4. PageMove(p)
        BY <1>1, <1>2, <1>3, <2>1, <2>2 DEF PageMove
    <2>5. recorder[r].made \in Int
        BY <1>0, MaxPiecesAssumption DEF CaptureTypeOK, Recorder
    <2>6. RecordingMove(r)
        BY <1>2, <2>1, <2>5 DEF RecordingMove, Steady, DraftMove, QueueMove
    <2>7. OthersRest(r)
        BY <1>2, <2>1 DEF OthersRest
    <2>8. DiskTypes
        BY <1>0, <1>2, <1>4, <2>1 DEF DiskTypes, SeenType, CaptureTypeOK
    <2> QED
        BY <1>2, <1>3, <1>5, <2>3, <2>4, <2>6, <2>7, <2>8, DiskStep
<1>6. CASE UNCHANGED queue /\ page' = [page EXCEPT ![p] = m]
    <2>1. page'[p] = m
        BY <1>0, <1>3, <1>6, PageBecomes
    <2>2. SameDesk(p) /\ PageMove(p)
        BY <1>1, <1>2, <1>3, <2>1 DEF SameDesk, PageMove, RecoverEnqueue
    <2>3. RecordingMove(r) /\ OthersRest(r)
        BY <1>0, <1>2, <1>6, RecordingRests DEF OthersRest
    <2>4. DiskTypes
        BY <1>0, <1>2, <1>4, <1>6 DEF DiskTypes, SeenType, CaptureTypeOK
    <2> QED
        BY <1>2, <1>3, <1>6, <2>2, <2>3, <2>4, DiskStep
<1> QED
    BY <1>2, <1>5, <1>6

LEMMA RecoverDiscardMoves ==
    ASSUME Orderly, NEW p \in Pages, RecoverDiscard(p)
    PROVE  Fine
<1> DEFINE r == page[p].rescued
           n == [page[p] EXCEPT !.recover = "accoda", !.rescued = NoRecording]
<1>0. CaptureTypeOK /\ page[p] \in Page
    BY PageFields DEF Orderly
<1>1. /\ r \in Recordings /\ page[p].recover = "butta"
      /\ page' = [page EXCEPT ![p] = n]
      /\ UNCHANGED <<queue, server, online, recorder, given, opens>>
      /\ \/ Discard(r) /\ NoFault /\ seen' = [seen EXCEPT !.discarded = @ \cup {r}]
         \/ Fault /\ seen' = [seen EXCEPT !.rough = TRUE] /\ UNCHANGED <<draft, silent>>
    BY DEF RecoverDiscard, Orderly, Resting
<1>2. /\ n \in Page /\ n.recover = "accoda"
      /\ n.open = page[p].open /\ n.session = page[p].session /\ n.saving = page[p].saving
      /\ n.unsaved = page[p].unsaved /\ n.items = page[p].items /\ n.drain = page[p].drain
      /\ n.current = page[p].current /\ n.found = page[p].found
    BY <1>0 DEF Page
<1> HIDE DEF n
<1>3. page'[p] = n
    BY <1>0, <1>1, <1>2, PageBecomes
<1>4. SameDesk(p) /\ PageMove(p)
    BY <1>2, <1>3 DEF SameDesk, PageMove, RecoverDiscard
<1>5. faults' \in 0 .. MaxFaults
    BY <1>0, <1>1, FaultIsCounted
<1>6. seen' \in SeenType /\ seen'.written = seen.written
    BY <1>0, <1>1, SeenDiscards, SeenRough
<1>7. recorder[r].made \in Int
    BY <1>0, <1>1, MaxPiecesAssumption DEF CaptureTypeOK, Recorder
<1>8. Finishes(r)
    BY <1>1 DEF Finishes
<1> HIDE DEF r
<1>9. CASE Discard(r) /\ seen' = [seen EXCEPT !.discarded = @ \cup {r}]
    <2>1. /\ draft' \in [Recordings -> SUBSET Pieces] /\ silent' \in [Recordings -> BOOLEAN]
          /\ draft'[r] = {} /\ ~silent'[r]
          /\ \A s \in Recordings : s # r => draft'[s] = draft[s] /\ silent'[s] = silent[s]
        BY <1>0, <1>1, <1>9, DiscardChangesOne
    <2>2. seen'.discarded = seen.discarded \cup {r}
        BY <1>0, <1>1, <1>9, SeenDiscards
    <2>3. RecordingMove(r)
        BY <1>1, <1>6, <1>7, <1>8, <2>1 DEF RecordingMove, Steady, DraftMove, QueueMove
    <2>4. OthersRest(r)
        BY <1>1, <1>6, <2>1, <2>2 DEF OthersRest
    <2>5. DiskTypes
        BY <1>0, <1>1, <1>5, <1>6, <2>1 DEF DiskTypes, CaptureTypeOK
    <2> QED
        BY <1>1, <1>2, <1>4, <2>3, <2>4, <2>5, DiskStep
<1>10. CASE seen' = [seen EXCEPT !.rough = TRUE] /\ UNCHANGED <<draft, silent>>
    <2>1. seen'.discarded = seen.discarded
        BY <1>0, <1>10, SeenRough
    <2>2. RecordingMove(r) /\ OthersRest(r)
        BY <1>0, <1>1, <1>6, <1>10, <2>1, RecordingRests DEF OthersRest
    <2>3. DiskTypes
        BY <1>0, <1>1, <1>5, <1>6, <1>10 DEF DiskTypes, CaptureTypeOK
    <2> QED
        BY <1>1, <1>2, <1>4, <2>2, <2>3, DiskStep
<1> QED
    BY <1>1, <1>9, <1>10

LEMMA UploadMoves ==
    ASSUME Orderly, NEW p \in Pages, NEW r \in Recordings, Upload(p, r)
    PROVE  Fine
<1> DEFINE i == [page[p].items EXCEPT ![r] = {}]
           n == [page[p] EXCEPT !.items = i, !.current = r, !.drain = "toglie"]
           m == [page[p] EXCEPT !.items = i, !.current = r, !.drain = "segna"]
           up == [seen.uploads EXCEPT ![r] = IF @ < 2 THEN @ + 1 ELSE @]
           sent == [server EXCEPT ![r] = @ \cup {page[p].items[r]}]
<1>0. /\ CaptureTypeOK /\ page[p] \in Page /\ page[p].items \in [Recordings -> SUBSET Pieces]
      /\ page[p].items[r] \in SUBSET Pieces /\ server \in [Recordings -> SUBSET (SUBSET Pieces)]
    BY PageFields DEF Orderly, CaptureTypeOK
<1>1. i \in [Recordings -> SUBSET Pieces] /\ \A s \in Recordings : i[s] # {} => i[s] = page[p].items[s]
    BY <1>0
<1>2. /\ page[p].items[r] # {}
      /\ \/ /\ page' = [page EXCEPT ![p] = n] /\ NoFault
            /\ server' = sent
            /\ seen' = [seen EXCEPT !.uploads = up]
         \/ /\ page' = [page EXCEPT ![p] = m] /\ (Fault \/ NoFault)
            /\ \/ server' = sent /\ seen' = [seen EXCEPT !.uploads = up, !.rough = TRUE]
               \/ UNCHANGED <<server, seen>>
      /\ UNCHANGED <<draft, silent, queue, online, recorder, given, opens>>
    BY DEF Upload, Accepted
<1>3. /\ sent \in [Recordings -> SUBSET (SUBSET Pieces)]
      /\ sent[r] = server[r] \cup {page[p].items[r]}
      /\ \A s \in Recordings : s # r => sent[s] = server[s]
    BY <1>0
<1>4. up \in [Recordings -> 0 .. 2]
    BY <1>0 DEF CaptureTypeOK
<1> HIDE DEF i, sent, up
<1>5. /\ seen' \in SeenType /\ seen'.written = seen.written /\ seen'.discarded = seen.discarded
    BY <1>0, <1>2, <1>4 DEF CaptureTypeOK, SeenType
<1>6. /\ n \in Page /\ m \in Page
      /\ n.open = page[p].open /\ n.session = page[p].session /\ n.saving = page[p].saving
      /\ n.unsaved = page[p].unsaved /\ n.items = i /\ n.drain = "toglie" /\ n.current = r
      /\ n.found = page[p].found /\ n.rescued = page[p].rescued /\ n.recover = page[p].recover
      /\ m.open = page[p].open /\ m.session = page[p].session /\ m.saving = page[p].saving
      /\ m.unsaved = page[p].unsaved /\ m.items = i /\ m.drain = "segna"
      /\ m.found = page[p].found /\ m.rescued = page[p].rescued /\ m.recover = page[p].recover
    BY <1>0, <1>1 DEF Page
<1> HIDE DEF n, m
<1>7. page'[p] = n \/ page'[p] = m
    BY <1>0, <1>2, <1>6, PageBecomes
<1>8. page'[p] = n => server' = sent
    <2>1. page' = [page EXCEPT ![p] = m] => page'[p] = m
        BY <1>0, <1>6, PageBecomes
    <2>2. n # m
        BY <1>6
    <2> QED
        BY <1>2, <2>1, <2>2
<1>9. SameDesk(p)
    BY <1>6, <1>7 DEF SameDesk, Upload
<1>10. PageMove(p)
    <2>1. CASE page'[p] = n
        <3>1. page[p].items[r] \in server'[r]
            BY <1>3, <1>8, <2>1
        <3> QED
            BY <3>1, <1>1, <1>2, <1>6, <2>1 DEF PageMove
    <2>2. CASE page'[p] = m
        BY <1>1, <1>6, <2>2 DEF PageMove
    <2> QED
        BY <2>1, <2>2, <1>7
<1>11. faults' \in 0 .. MaxFaults
    BY <1>0, <1>2, FaultIsCounted
<1>12. RecordingMove(r)
    BY <1>0, <1>2, <1>3, <1>5, RecordingRests
<1>13. OthersRest(r)
    BY <1>2, <1>3, <1>5 DEF OthersRest
<1>14. DiskTypes
    BY <1>0, <1>2, <1>3, <1>5, <1>11 DEF DiskTypes, CaptureTypeOK
<1> QED
    BY <1>2, <1>6, <1>9, <1>10, <1>12, <1>13, <1>14, DiskStep

LEMMA RemoveMoves ==
    ASSUME Orderly, NEW p \in Pages, Remove(p)
    PROVE  Fine
<1> DEFINE r == page[p].current
           n == [page[p] EXCEPT !.drain = "invia", !.current = NoRecording]
           m == [page[p] EXCEPT !.drain = "segna"]
<1>0. CaptureTypeOK /\ page[p] \in Page
    BY PageFields DEF Orderly
<1>1. r \in Recordings /\ page[p].drain = "toglie"
    BY DEF Remove, Orderly, Resting
<1>2. /\ \/ /\ queue' = [queue EXCEPT ![r] = NoRow] /\ page' = [page EXCEPT ![p] = n]
            /\ NoFault /\ UNCHANGED seen
         \/ /\ page' = [page EXCEPT ![p] = m]
            /\ Fault /\ seen' = [seen EXCEPT !.rough = TRUE] /\ UNCHANGED queue
      /\ UNCHANGED <<draft, silent, server, online, recorder, given, opens>>
    BY DEF Remove
<1>3. /\ n \in Page /\ m \in Page
      /\ n.open = page[p].open /\ n.session = page[p].session /\ n.saving = page[p].saving
      /\ n.unsaved = page[p].unsaved /\ n.items = page[p].items /\ n.drain = "invia"
      /\ n.found = page[p].found /\ n.rescued = page[p].rescued /\ n.recover = page[p].recover
      /\ m.open = page[p].open /\ m.session = page[p].session /\ m.saving = page[p].saving
      /\ m.unsaved = page[p].unsaved /\ m.items = page[p].items /\ m.drain = "segna"
      /\ m.found = page[p].found /\ m.rescued = page[p].rescued /\ m.recover = page[p].recover
    BY <1>0 DEF Page
<1> HIDE DEF n, m
<1>4. page'[p] = n \/ page'[p] = m
    BY <1>0, <1>2, <1>3, PageBecomes
<1>5. SameDesk(p) /\ PageMove(p)
    <2>1. page[p].open
        BY DEF Remove
    <2>2. SameDesk(p)
        BY <1>3, <1>4, <2>1 DEF SameDesk
    <2>3. PageMove(p)
        BY <1>3, <1>4 DEF PageMove
    <2> QED
        BY <2>2, <2>3
<1>6. seen' \in SeenType /\ seen'.written = seen.written /\ seen'.discarded = seen.discarded
    BY <1>0, <1>2, SeenRough, SeenFields
<1>7. faults' \in 0 .. MaxFaults
    BY <1>0, <1>2, FaultIsCounted
<1>8. NoRow \in Row /\ queue \in [Recordings -> Row]
    BY <1>0 DEF NoRow, Row, CaptureTypeOK
<1>9. /\ queue' \in [Recordings -> Row]
      /\ queue'[r] = queue[r] \/ queue'[r] = NoRow
      /\ \A s \in Recordings : s # r => queue'[s] = queue[s]
    BY <1>1, <1>2, <1>8
<1>10. recorder[r].made \in Int
    BY <1>0, <1>1, MaxPiecesAssumption DEF CaptureTypeOK, Recorder
<1>11. RecordingMove(r)
    BY <1>1, <1>2, <1>6, <1>9, <1>10 DEF RecordingMove, Steady, DraftMove, QueueMove
<1>12. OthersRest(r)
    BY <1>2, <1>6, <1>9 DEF OthersRest
<1>13. DiskTypes
    BY <1>0, <1>2, <1>6, <1>7, <1>9 DEF DiskTypes, CaptureTypeOK
<1> QED
    BY <1>1, <1>2, <1>3, <1>5, <1>11, <1>12, <1>13, DiskStep

\* An attempt that failed changes nothing but the count.
LEMMA FailedRow ==
    ASSUME NEW row \in Row
    PROVE  Failed(row) \in Row /\ Failed(row).in = row.in /\ Failed(row).audio = row.audio
<1>1. [row EXCEPT !.attempts = @ + 1] \in Row
    BY DEF Row
<1>2. [row EXCEPT !.attempts = @ + 1].in = row.in /\ [row EXCEPT !.attempts = @ + 1].audio = row.audio
    BY DEF Row
<1> QED
    BY <1>1, <1>2 DEF Failed

LEMMA MarkFailedMoves ==
    ASSUME Orderly, NEW p \in Pages, MarkFailed(p)
    PROVE  Fine
<1> DEFINE r == page[p].current
           n == [page[p] EXCEPT !.drain = "invia", !.current = NoRecording]
           m == [page[p] EXCEPT !.drain = "fermo", !.current = NoRecording, !.items = NoAudio]
<1>0. CaptureTypeOK /\ page[p] \in Page /\ NoAudio \in [Recordings -> SUBSET Pieces]
      /\ \A s \in Recordings : NoAudio[s] = {}
    BY PageFields DEF Orderly, NoAudio
<1>2. /\ \/ queue' = [queue EXCEPT ![r] = Failed(@)] /\ NoFault
         \/ UNCHANGED queue /\ Fault
      /\ page' = [page EXCEPT ![p] = n] \/ page' = [page EXCEPT ![p] = m]
      /\ UNCHANGED <<draft, silent, server, online, recorder, given, opens, seen>>
    BY DEF MarkFailed
<1>3. /\ n \in Page /\ m \in Page
      /\ n.open = page[p].open /\ n.session = page[p].session /\ n.saving = page[p].saving
      /\ n.unsaved = page[p].unsaved /\ n.items = page[p].items /\ n.drain = "invia"
      /\ n.found = page[p].found /\ n.rescued = page[p].rescued /\ n.recover = page[p].recover
      /\ m.open = page[p].open /\ m.session = page[p].session /\ m.saving = page[p].saving
      /\ m.unsaved = page[p].unsaved /\ m.items = NoAudio /\ m.drain = "fermo"
      /\ m.found = page[p].found /\ m.rescued = page[p].rescued /\ m.recover = page[p].recover
    BY <1>0 DEF Page
<1> HIDE DEF n, m
<1>4. page'[p] = n \/ page'[p] = m
    BY <1>0, <1>2, <1>3, PageBecomes
<1>5. SameDesk(p) /\ PageMove(p)
    BY <1>0, <1>3, <1>4 DEF SameDesk, PageMove, MarkFailed
<1>6. seen' \in SeenType
    BY <1>0, <1>2, SeenFields
<1>7. faults' \in 0 .. MaxFaults
    BY <1>0, <1>2, FaultIsCounted
<1>8. queue \in [Recordings -> Row] /\ \A s \in Recordings :
         Failed(queue[s]) \in Row /\ Failed(queue[s]).in = queue[s].in /\ Failed(queue[s]).audio = queue[s].audio
    BY <1>0, FailedRow DEF CaptureTypeOK
<1>9. /\ queue' \in [Recordings -> Row]
      /\ \A s \in Recordings : queue'[s].in = queue[s].in /\ queue'[s].audio = queue[s].audio
    BY <1>2, <1>8
<1>10. \A s \in Recordings : RecordingMove(s)
    BY <1>0, <1>2, <1>9, RecordingRests
<1>11. DiskTypes
    BY <1>0, <1>2, <1>6, <1>7, <1>9 DEF DiskTypes, CaptureTypeOK
<1>12. /\ page' \in [Pages -> Page]
       /\ \A q \in Pages : PageMove(q) /\ SameDesk(q)
    BY <1>0, <1>2, <1>3, <1>5, PageBecomes, PageRests
<1>13. Desk' /\ CaptureTypeOK'
    BY <1>0, <1>2, <1>11, <1>12, DeskRests, TypesHold DEF CaptureTypeOK
<1> QED
    BY <1>10, <1>12, <1>13 DEF Fine, Moves

LEMMA OnlineMoves ==
    ASSUME Orderly, GoOnline \/ GoOffline
    PROVE  Fine
<1>0. CaptureTypeOK
    BY DEF Orderly
<1>1. UNCHANGED <<draft, silent, queue, server, recorder, given, faults, opens, seen>> /\ online' \in BOOLEAN
    BY DEF GoOnline, GoOffline
<1>2. \A r \in Recordings : RecordingMove(r)
    BY <1>0, <1>1, RecordingRests
<1>3. ASSUME NEW p \in Pages
      PROVE  page'[p] \in Page /\ SameDesk(p) /\ PageMove(p)
    <2> DEFINE n == [page[p] EXCEPT !.drain = "elenca"]
    <2>1. page[p] \in Page
        BY <1>0 DEF CaptureTypeOK
    <2>2. page'[p] = page[p] \/ (page'[p] = n /\ page[p].open)
        BY <1>0 DEF GoOnline, GoOffline, CaptureTypeOK
    <2>3. /\ n \in Page
          /\ n.open = page[p].open /\ n.session = page[p].session /\ n.saving = page[p].saving
          /\ n.unsaved = page[p].unsaved /\ n.items = page[p].items /\ n.drain = "elenca"
          /\ n.found = page[p].found /\ n.rescued = page[p].rescued /\ n.recover = page[p].recover
        BY <2>1 DEF Page
    <2> HIDE DEF n
    <2> QED
        BY <2>1, <2>2, <2>3, PageRests DEF SameDesk, PageMove
<1>4. page' \in [Pages -> Page]
    <2>1. page' = [p \in Pages |-> page'[p]]
        BY <1>0 DEF GoOnline, GoOffline, CaptureTypeOK
    <2> QED
        BY <1>3, <2>1
<1>5. Desk'
    BY <1>1, <1>3, DeskRests
<1>6. DiskTypes
    BY <1>0, <1>1, SeenFields DEF DiskTypes, CaptureTypeOK
<1>7. CaptureTypeOK'
    BY <1>0, <1>1, <1>4, <1>6, TypesHold DEF CaptureTypeOK
<1> QED
    BY <1>2, <1>3, <1>5, <1>7 DEF Fine, Moves

------------------------------------------------------------------------------
(* The steps of a recorder, and of the person at the desk.                 *)

LEMMA RecorderFields ==
    ASSUME CaptureTypeOK, NEW r \in Recordings
    PROVE  /\ recorder[r] \in Recorder /\ recorder[r].page \in Pages
           /\ recorder[r].made \in 0 .. MaxPieces /\ recorder[r].made \in Int
           /\ recorder[r].pending \in SUBSET Pieces /\ recorder[r].reading \in SUBSET Pieces
           /\ Spoken(r) \in SUBSET Pieces
BY MaxPiecesAssumption DEF CaptureTypeOK, Recorder, Spoken

\* The desk, when one recorder and its page change.
LEMMA DeskOfOne ==
    ASSUME Orderly, NEW r \in Recordings, NEW p \in Pages,
           \A s \in Recordings : s # r => recorder'[s] = recorder[s],
           \A q \in Pages : q # p => page'[q] = page[q],
           recorder[r].page = p, recorder[r].closed => recorder'[r].closed,
           page'[p].open = page[p].open,
           page[p].saving \notin {r, NoRecording} => page'[p].saving = page[p].saving,
           given' \subseteq given \cup {r},
           Making(r)', Holding(p)'
    PROVE  Desk'
<1>1. ASSUME NEW s \in Recordings, s # r
      PROVE  Making(s)'
    <2>1. Making(s) /\ recorder[s].page \in Pages
        BY RecorderFields DEF Orderly, Desk
    <2>2. recorder'[s] = recorder[s] /\ Spoken(s)' = Spoken(s)
        BY <1>1 DEF Spoken
    <2>3. page'[recorder[s].page].open = page[recorder[s].page].open
        BY <2>1
    <2>4. page[recorder[s].page].saving = s => page'[recorder[s].page].saving = s
        BY <1>1, <2>1, NoRecordingAssumption
    <2> QED
        BY <1>1, <2>1, <2>2, <2>3, <2>4 DEF Making
<1>2. ASSUME NEW q \in Pages, q # p
      PROVE  Holding(q)'
    <2>1. Holding(q) /\ page'[q] = page[q]
        BY <1>2 DEF Orderly, Desk
    <2>2. page[q] \in Page
        BY DEF Orderly, CaptureTypeOK
    <2>3. \A s \in Recordings : recorder[s].closed => recorder'[s].closed
        OBVIOUS
    <2>4. \A s \in Recordings : recorder[s].page = q => recorder'[s] = recorder[s]
        BY <1>2
    <2> QED
        BY <2>1, <2>2, <2>3, <2>4 DEF Holding, Page
<1> QED
    BY <1>1, <1>2 DEF Desk

LEMMA DeskStep ==
    ASSUME Orderly, NEW r \in Recordings, NEW p \in Pages, recorder[r].page = p,
           NEW c \in Recorder, recorder' = [recorder EXCEPT ![r] = c], recorder[r].closed => c.closed,
           NEW n \in Page, page' = [page EXCEPT ![p] = n], n.open = page[p].open,
           page[p].saving \notin {r, NoRecording} => n.saving = page[p].saving,
           given \subseteq given', given' \subseteq given \cup {r},
           Making(r)', Holding(p)', PageMove(p), DiskTypes, RecordingMove(r), OthersRest(r)
    PROVE  Fine
<1>0. CaptureTypeOK
    BY DEF Orderly
<1>1. /\ page' \in [Pages -> Page] /\ page'[p] = n
      /\ \A q \in Pages : q # p => page'[q] = page[q]
    BY <1>0, PageBecomes
<1>2. /\ recorder' \in [Recordings -> Recorder] /\ recorder'[r] = c
      /\ \A s \in Recordings : s # r => recorder'[s] = recorder[s]
    BY <1>0, RecorderBecomes
<1>3. \A q \in Pages : PageMove(q)
    BY <1>1, PageRests
<1>4. \A s \in Recordings : RecordingMove(s)
    BY <1>2, OneRecordingMoves
<1>5. Desk'
    BY <1>1, <1>2, DeskOfOne
<1>6. CaptureTypeOK'
    BY <1>1, <1>2, TypesHold
<1> QED
    BY <1>3, <1>4, <1>5, <1>6 DEF Fine, Moves

\* The pages do not notice.
LEMMA RecorderStep ==
    ASSUME Orderly, NEW r \in Recordings, NEW c \in Recorder,
           recorder' = [recorder EXCEPT ![r] = c], c.page = recorder[r].page,
           c.closed = recorder[r].closed, c.mic = recorder[r].mic \/ recorder[r].mic = "mai",
           UNCHANGED <<page, given>>, Making(r)', DiskTypes, RecordingMove(r), OthersRest(r)
    PROVE  Fine
<1>0. CaptureTypeOK /\ recorder[r].page \in Pages
    BY RecorderFields DEF Orderly
<1>1. /\ recorder' \in [Recordings -> Recorder] /\ recorder'[r] = c
      /\ \A s \in Recordings : s # r => recorder'[s] = recorder[s]
    BY <1>0, RecorderBecomes
<1>2. \A q \in Pages : PageMove(q)
    BY PageRests
<1>3. \A s \in Recordings : RecordingMove(s)
    BY <1>1, OneRecordingMoves
<1>4. ASSUME NEW q \in Pages
      PROVE  Holding(q)'
    <2>1. Holding(q) /\ page[q] \in Page
        BY <1>0 DEF Orderly, Desk, CaptureTypeOK
    <2>2. \A s \in Recordings : /\ recorder'[s].closed = recorder[s].closed
                                /\ recorder'[s].page = recorder[s].page
                                /\ recorder[s].mic # "mai" => recorder'[s].mic = recorder[s].mic
        BY <1>1
    <2> QED
        BY <2>1, <2>2 DEF Holding, Page
<1>5. Desk'
    BY <1>0, <1>1, <1>4, DeskOfOne
<1>6. CaptureTypeOK'
    BY <1>0, <1>1, TypesHold DEF CaptureTypeOK
<1> QED
    BY <1>2, <1>3, <1>5, <1>6 DEF Fine, Moves

LEMMA EmittedRecorder ==
    ASSUME NEW c \in Recorder, c.made < MaxPieces
    PROVE  /\ Emitted(c) \in Recorder
           /\ Emitted(c).made = c.made + 1 /\ Emitted(c).reading = c.reading \cup {c.made}
           /\ Emitted(c).mic = c.mic /\ Emitted(c).page = c.page /\ Emitted(c).pending = c.pending
           /\ Emitted(c).closed = c.closed /\ Emitted(c).toss = c.toss
<1>1. c.made \in 0 .. MaxPieces
    BY DEF Recorder
<1>2. c.made \in Pieces /\ c.made + 1 \in 0 .. MaxPieces
    BY <1>1, MaxPiecesAssumption DEF Pieces
<1> DEFINE m == c.made + 1
           g == c.reading \cup {c.made}
<1>3. m \in 0 .. MaxPieces /\ g \in SUBSET Pieces
    BY <1>2 DEF Recorder
<1>4. Emitted(c) = [c EXCEPT !.made = m, !.reading = g]
    BY DEF Emitted
<1> HIDE DEF m, g
<1>5. /\ Emitted(c) \in Recorder /\ Emitted(c).made = m /\ Emitted(c).reading = g
      /\ Emitted(c).mic = c.mic /\ Emitted(c).page = c.page /\ Emitted(c).pending = c.pending
      /\ Emitted(c).closed = c.closed /\ Emitted(c).toss = c.toss
    BY <1>3, <1>4 DEF Recorder
<1> QED
    BY <1>5 DEF m, g

\* A further piece, or none: what a recorder says stays spoken.
LEMMA MoreIsSpoken ==
    ASSUME CaptureTypeOK, NEW r \in Recordings,
           recorder[r].pending \cup recorder[r].reading \subseteq Spoken(r),
           \/ recorder'[r].made = recorder[r].made /\ recorder'[r].reading \subseteq recorder[r].reading
           \/ /\ recorder[r].made < MaxPieces
              /\ recorder'[r].made = recorder[r].made + 1
              /\ recorder'[r].reading \subseteq recorder[r].reading \cup {recorder[r].made},
           recorder'[r].pending \subseteq recorder[r].pending \cup recorder[r].reading
    PROVE  /\ (recorder[r].pending \cup recorder[r].reading \subseteq Spoken(r))'
           /\ recorder[r].made <= recorder'[r].made
<1>1. recorder[r].made \in Nat
    BY MaxPiecesAssumption DEF CaptureTypeOK, Recorder
<1>2. Spoken(r) \subseteq Spoken(r)' /\ recorder[r].made <= recorder'[r].made
    BY <1>1, MaxPiecesAssumption DEF Spoken, Pieces
<1>3. recorder'[r].made = recorder[r].made + 1 /\ recorder[r].made < MaxPieces =>
          recorder[r].made \in Spoken(r)'
    BY <1>1, MaxPiecesAssumption DEF Spoken, Pieces
<1> QED
    BY <1>2, <1>3

LEMMA StartAskMoves ==
    ASSUME Orderly, NEW p \in Pages, NEW r \in Recordings, StartAsk(p, r)
    PROVE  Fine
<1> DEFINE c == [recorder[r] EXCEPT !.mic = "chiede"]
<1>0. CaptureTypeOK /\ recorder[r] \in Recorder /\ Making(r)
    BY RecorderFields DEF Orderly, Desk
<1>1. /\ recorder[r].mic = "mai" /\ recorder[r].page = p /\ page[p].open
      /\ recorder' = [recorder EXCEPT ![r] = c]
      /\ UNCHANGED <<draft, silent, queue, server, online, page, given, faults, opens, seen>>
    BY DEF StartAsk, Premibile
<1>2. /\ c \in Recorder /\ c.mic = "chiede" /\ c.page = p /\ c.made = recorder[r].made
      /\ c.reading = recorder[r].reading /\ c.pending = recorder[r].pending
      /\ c.closed = recorder[r].closed /\ c.toss = recorder[r].toss
    BY <1>0, <1>1 DEF Recorder
<1> HIDE DEF c
<1>3. recorder'[r] = c
    BY <1>0, <1>1, <1>2, RecorderBecomes
<1>4. /\ (recorder[r].pending \cup recorder[r].reading \subseteq Spoken(r))'
      /\ recorder[r].made <= recorder'[r].made
    BY <1>0, <1>2, <1>3, MoreIsSpoken DEF Making
<1>5. Making(r)'
    BY <1>0, <1>1, <1>2, <1>3, <1>4 DEF Making
<1>6. RecordingMove(r)
    BY <1>1, <1>2, <1>3, <1>4 DEF RecordingMove, Steady, DraftMove, QueueMove
<1>7. OthersRest(r) /\ DiskTypes
    BY <1>0, <1>1, SeenFields DEF OthersRest, DiskTypes, CaptureTypeOK
<1> QED
    BY <1>1, <1>2, <1>5, <1>6, <1>7, RecorderStep

LEMMA EmitMoves ==
    ASSUME Orderly, NEW r \in Recordings, Emit(r)
    PROVE  Fine
<1> DEFINE c == Emitted(recorder[r])
<1>0. CaptureTypeOK /\ recorder[r] \in Recorder /\ Making(r)
    BY RecorderFields DEF Orderly, Desk
<1>1. /\ recorder[r].mic = "viva" /\ recorder[r].made < MaxPieces
      /\ recorder' = [recorder EXCEPT ![r] = c]
      /\ UNCHANGED <<draft, silent, queue, server, online, page, given, faults, opens, seen>>
    BY DEF Emit, Live
<1>2. /\ c \in Recorder /\ c.mic = recorder[r].mic /\ c.page = recorder[r].page
      /\ c.made = recorder[r].made + 1
      /\ c.reading = recorder[r].reading \cup {recorder[r].made} /\ c.pending = recorder[r].pending
      /\ c.closed = recorder[r].closed /\ c.toss = recorder[r].toss
    BY <1>0, <1>1, EmittedRecorder
<1> HIDE DEF c
<1>3. recorder'[r] = c
    BY <1>0, <1>1, <1>2, RecorderBecomes
<1>4. /\ (recorder[r].pending \cup recorder[r].reading \subseteq Spoken(r))'
      /\ recorder[r].made <= recorder'[r].made
    BY <1>0, <1>1, <1>2, <1>3, MoreIsSpoken DEF Making
<1>5. Making(r)'
    BY <1>0, <1>1, <1>2, <1>3, <1>4 DEF Making
<1>6. RecordingMove(r)
    BY <1>1, <1>2, <1>3, <1>4 DEF RecordingMove, Steady, DraftMove, QueueMove
<1>7. OthersRest(r) /\ DiskTypes
    BY <1>0, <1>1, SeenFields DEF OthersRest, DiskTypes, CaptureTypeOK
<1> QED
    BY <1>1, <1>2, <1>5, <1>6, <1>7, RecorderStep

LEMMA PezzoMoves ==
    ASSUME Orderly, NEW r \in Recordings, NEW k \in Pieces, Pezzo(r, k)
    PROVE  Fine
<1> DEFINE pend == IF Accepts(recorder[r]) THEN recorder[r].pending \cup {k} ELSE recorder[r].pending
           c == [recorder[r] EXCEPT !.reading = @ \ {k}, !.pending = pend]
<1>0. CaptureTypeOK /\ recorder[r] \in Recorder /\ Making(r)
    BY RecorderFields DEF Orderly, Desk
<1>1. /\ k \in recorder[r].reading
      /\ recorder' = [recorder EXCEPT ![r] = c]
      /\ UNCHANGED <<draft, silent, queue, server, online, page, given, faults, opens, seen>>
    BY DEF Pezzo
<1>2. /\ pend \in SUBSET Pieces /\ pend \subseteq recorder[r].pending \cup {k}
      /\ recorder[r].closed => pend = recorder[r].pending
    BY <1>0 DEF Accepts, Recorder
<1> HIDE DEF pend
<1>3. /\ c \in Recorder /\ c.mic = recorder[r].mic /\ c.page = recorder[r].page
      /\ c.made = recorder[r].made
      /\ c.reading = recorder[r].reading \ {k} /\ c.pending = pend
      /\ c.closed = recorder[r].closed /\ c.toss = recorder[r].toss
    BY <1>0, <1>2 DEF Recorder
<1> HIDE DEF c
<1>4. recorder'[r] = c
    BY <1>0, <1>1, <1>3, RecorderBecomes
<1>5. /\ (recorder[r].pending \cup recorder[r].reading \subseteq Spoken(r))'
      /\ recorder[r].made <= recorder'[r].made
    BY <1>0, <1>1, <1>2, <1>3, <1>4, MoreIsSpoken DEF Making
<1>6. Making(r)'
    BY <1>0, <1>1, <1>3, <1>4, <1>5 DEF Making
<1>7. RecordingMove(r)
    BY <1>1, <1>2, <1>3, <1>4, <1>5 DEF RecordingMove, Steady, DraftMove, QueueMove
<1>8. OthersRest(r) /\ DiskTypes
    BY <1>0, <1>1, SeenFields DEF OthersRest, DiskTypes, CaptureTypeOK
<1> QED
    BY <1>1, <1>3, <1>6, <1>7, <1>8, RecorderStep

LEMMA AppendMoves ==
    ASSUME Orderly, NEW r \in Recordings, NEW k \in Pieces, Append(r, k)
    PROVE  Fine
<1> DEFINE c == [recorder[r] EXCEPT !.pending = @ \ {k}]
           w == [seen.written EXCEPT ![r] = @ \cup {k}]
<1>0. CaptureTypeOK /\ recorder[r] \in Recorder /\ Making(r)
    BY RecorderFields DEF Orderly, Desk
<1>1. /\ k \in recorder[r].pending
      /\ recorder' = [recorder EXCEPT ![r] = c]
      /\ UNCHANGED <<queue, server, online, page, given, opens>>
      /\ \/ /\ draft' = [draft EXCEPT ![r] = @ \cup {k}] /\ silent' = [silent EXCEPT ![r] = FALSE]
            /\ seen' = [seen EXCEPT !.written = w] /\ NoFault
         \/ Fault /\ UNCHANGED <<draft, silent, seen>>
    BY DEF Append
<1>2. /\ c \in Recorder /\ c.mic = recorder[r].mic /\ c.page = recorder[r].page
      /\ c.made = recorder[r].made
      /\ c.reading = recorder[r].reading /\ c.pending = recorder[r].pending \ {k}
      /\ c.closed = recorder[r].closed /\ c.toss = recorder[r].toss
    BY <1>0 DEF Recorder
<1> HIDE DEF c
<1>3. recorder'[r] = c
    BY <1>0, <1>1, <1>2, RecorderBecomes
<1>4. /\ (recorder[r].pending \cup recorder[r].reading \subseteq Spoken(r))'
      /\ recorder[r].made <= recorder'[r].made
    BY <1>0, <1>1, <1>2, <1>3, MoreIsSpoken DEF Making
<1>5. Making(r)'
    BY <1>0, <1>1, <1>2, <1>3, <1>4 DEF Making
<1>6. faults' \in 0 .. MaxFaults
    BY <1>0, <1>1, FaultIsCounted
<1>7. CASE /\ draft' = [draft EXCEPT ![r] = @ \cup {k}] /\ silent' = [silent EXCEPT ![r] = FALSE]
           /\ seen' = [seen EXCEPT !.written = w]
    <2>1. /\ w \in [Recordings -> SUBSET Pieces] /\ w[r] = seen.written[r] \cup {k}
          /\ \A s \in Recordings : s # r => w[s] = seen.written[s]
        BY <1>0 DEF CaptureTypeOK
    <2> HIDE DEF w
    <2>2. seen' \in SeenType /\ seen'.written = w /\ seen'.discarded = seen.discarded
        BY <1>0, <1>7, <2>1 DEF CaptureTypeOK, SeenType
    <2>3. /\ draft' \in [Recordings -> SUBSET Pieces] /\ silent' \in [Recordings -> BOOLEAN]
          /\ draft'[r] = draft[r] \cup {k} /\ ~silent'[r]
          /\ \A s \in Recordings : s # r => draft'[s] = draft[s] /\ silent'[s] = silent[s]
        BY <1>0, <1>7 DEF CaptureTypeOK
    <2>4. RecordingMove(r)
        BY <1>1, <1>2, <1>3, <1>4, <2>1, <2>2, <2>3 DEF RecordingMove, Steady, DraftMove, QueueMove
    <2>5. OthersRest(r)
        BY <1>1, <2>1, <2>2, <2>3 DEF OthersRest
    <2>6. DiskTypes
        BY <1>0, <1>1, <1>6, <2>2, <2>3 DEF DiskTypes, CaptureTypeOK
    <2> QED
        BY <1>1, <1>2, <1>5, <2>4, <2>5, <2>6, RecorderStep
<1>8. CASE UNCHANGED <<draft, silent, seen>>
    <2>1. RecordingMove(r)
        BY <1>1, <1>2, <1>3, <1>4, <1>8 DEF RecordingMove, Steady, DraftMove, QueueMove
    <2>2. OthersRest(r) /\ DiskTypes
        BY <1>0, <1>1, <1>6, <1>8, SeenFields DEF OthersRest, DiskTypes, CaptureTypeOK
    <2> QED
        BY <1>1, <1>2, <1>5, <2>1, <2>2, RecorderStep
<1> QED
    BY <1>1, <1>7, <1>8

LEMMA TossMoves ==
    ASSUME Orderly, NEW r \in Recordings, Toss(r)
    PROVE  Fine
<1> DEFINE c == [recorder[r] EXCEPT !.toss = FALSE]
<1>0. CaptureTypeOK /\ recorder[r] \in Recorder /\ Making(r)
    BY RecorderFields DEF Orderly, Desk
<1>1. /\ recorder[r].toss /\ recorder[r].pending = {}
      /\ recorder' = [recorder EXCEPT ![r] = c]
      /\ UNCHANGED <<queue, server, online, page, given, opens>>
      /\ \/ Discard(r) /\ NoFault /\ seen' = [seen EXCEPT !.discarded = @ \cup {r}]
         \/ Fault /\ seen' = [seen EXCEPT !.rough = TRUE] /\ UNCHANGED <<draft, silent>>
    BY DEF Toss, LastOfTheFila
<1>2. /\ c \in Recorder /\ c.mic = recorder[r].mic /\ c.page = recorder[r].page
      /\ c.made = recorder[r].made
      /\ c.reading = recorder[r].reading /\ c.pending = recorder[r].pending
      /\ c.closed = recorder[r].closed /\ ~c.toss
    BY <1>0 DEF Recorder
<1> HIDE DEF c
<1>3. recorder'[r] = c
    BY <1>0, <1>1, <1>2, RecorderBecomes
<1>4. /\ (recorder[r].pending \cup recorder[r].reading \subseteq Spoken(r))'
      /\ recorder[r].made <= recorder'[r].made
    BY <1>0, <1>1, <1>2, <1>3, MoreIsSpoken DEF Making
<1>5. Making(r)'
    BY <1>0, <1>1, <1>2, <1>3, <1>4 DEF Making
<1>6. faults' \in 0 .. MaxFaults
    BY <1>0, <1>1, FaultIsCounted
<1>7. Finishes(r)
    BY <1>1 DEF Finishes
<1>8. CASE Discard(r) /\ seen' = [seen EXCEPT !.discarded = @ \cup {r}]
    <2>1. /\ draft' \in [Recordings -> SUBSET Pieces] /\ silent' \in [Recordings -> BOOLEAN]
          /\ draft'[r] = {} /\ ~silent'[r]
          /\ \A s \in Recordings : s # r => draft'[s] = draft[s] /\ silent'[s] = silent[s]
        BY <1>0, <1>8, DiscardChangesOne
    <2>2. /\ seen' \in SeenType /\ seen'.written = seen.written
          /\ seen'.discarded = seen.discarded \cup {r}
        BY <1>0, <1>8, SeenDiscards
    <2>3. RecordingMove(r)
        BY <1>1, <1>2, <1>3, <1>4, <1>7, <2>1, <2>2
           DEF RecordingMove, Steady, DraftMove, QueueMove
    <2>4. OthersRest(r)
        BY <1>1, <2>1, <2>2 DEF OthersRest
    <2>5. DiskTypes
        BY <1>0, <1>1, <1>6, <2>1, <2>2 DEF DiskTypes, CaptureTypeOK
    <2> QED
        BY <1>1, <1>2, <1>5, <2>3, <2>4, <2>5, RecorderStep
<1>9. CASE seen' = [seen EXCEPT !.rough = TRUE] /\ UNCHANGED <<draft, silent>>
    <2>1. /\ seen' \in SeenType /\ seen'.written = seen.written
          /\ seen'.discarded = seen.discarded
        BY <1>0, <1>9, SeenRough
    <2>2. RecordingMove(r)
        BY <1>1, <1>2, <1>3, <1>4, <1>9, <2>1 DEF RecordingMove, Steady, DraftMove, QueueMove
    <2>3. OthersRest(r) /\ DiskTypes
        BY <1>0, <1>1, <1>6, <1>9, <2>1 DEF OthersRest, DiskTypes, CaptureTypeOK
    <2> QED
        BY <1>1, <1>2, <1>5, <2>2, <2>3, RecorderStep
<1> QED
    BY <1>1, <1>8, <1>9

LEMMA FallSilentMoves ==
    ASSUME Orderly, NEW r \in Recordings, FallSilent(r)
    PROVE  Fine
<1>0. CaptureTypeOK /\ recorder[r] \in Recorder /\ Making(r) /\ draft[r] \subseteq Spoken(r)
    BY RecorderFields DEF Orderly, Desk, Resting
<1>1. /\ draft[r] # {} /\ ~Live(r) /\ recorder[r].pending = {}
      /\ page[recorder[r].page].saving # r
      /\ silent' = [silent EXCEPT ![r] = TRUE]
      /\ UNCHANGED <<draft, queue, server, online, recorder, page, given, faults, opens, seen>>
    BY DEF FallSilent
<1>2. recorder[r].made # 0
    BY <1>0, <1>1, MaxPiecesAssumption DEF Spoken, Pieces
<1>3. Shut(r)
    BY <1>0, <1>1, <1>2 DEF Making, Live, Shut, Recorder
<1>4. silent' \in [Recordings -> BOOLEAN] /\ \A s \in Recordings : s # r => silent'[s] = silent[s]
    BY <1>0, <1>1 DEF CaptureTypeOK
<1>5. recorder[r].made \in Int
    BY <1>0, RecorderFields
<1>6. RecordingMove(r)
    BY <1>1, <1>3, <1>5 DEF RecordingMove, Steady, DraftMove, QueueMove
<1>7. OthersRest(r) /\ DiskTypes
    BY <1>0, <1>1, <1>4, SeenFields DEF OthersRest, DiskTypes, CaptureTypeOK
<1>8. \A s \in Recordings : RecordingMove(s)
    BY <1>1, <1>6, <1>7, OneRecordingMoves
<1>9. \A q \in Pages : PageMove(q) /\ SameDesk(q)
    BY <1>1, PageRests
<1>10. Desk'
    BY <1>1, <1>9, DeskRests
<1>11. CaptureTypeOK'
    BY <1>0, <1>1, <1>7, TypesHold DEF CaptureTypeOK
<1> QED
    BY <1>8, <1>9, <1>10, <1>11 DEF Fine, Moves

LEMMA StartGrantedMoves ==
    ASSUME Orderly, NEW p \in Pages, NEW r \in Recordings, StartGranted(p, r)
    PROVE  Fine
<1> DEFINE c == [recorder[r] EXCEPT !.mic = "viva"]
           n == [page[p] EXCEPT !.session = r]
<1>0. CaptureTypeOK /\ recorder[r] \in Recorder /\ Making(r) /\ page[p] \in Page /\ Holding(p)
    BY RecorderFields DEF Orderly, Desk, CaptureTypeOK
<1>1. /\ recorder[r].mic = "chiede" /\ recorder[r].page = p /\ page[p].open
      /\ recorder' = [recorder EXCEPT ![r] = c] /\ page' = [page EXCEPT ![p] = n]
      /\ UNCHANGED <<draft, silent, queue, server, online, given, faults, opens, seen>>
    BY DEF StartGranted
<1>2. /\ c \in Recorder /\ c.mic = "viva" /\ c.page = p /\ c.made = recorder[r].made
      /\ c.reading = recorder[r].reading /\ c.pending = recorder[r].pending
      /\ c.closed = recorder[r].closed /\ c.toss = recorder[r].toss
    BY <1>0, <1>1 DEF Recorder
<1>3. /\ n \in Page /\ n.open /\ n.session = r /\ n.saving = page[p].saving
      /\ n.unsaved = page[p].unsaved /\ n.items = page[p].items /\ n.drain = page[p].drain
      /\ n.found = page[p].found /\ n.rescued = page[p].rescued /\ n.recover = page[p].recover
      /\ n.current = page[p].current
    BY <1>0, <1>1 DEF Page
<1> HIDE DEF c, n
<1>4. recorder'[r] = c /\ \A s \in Recordings : s # r => recorder'[s] = recorder[s]
    BY <1>0, <1>1, <1>2, RecorderBecomes
<1>5. page'[p] = n
    BY <1>0, <1>1, <1>3, PageBecomes
<1>6. /\ (recorder[r].pending \cup recorder[r].reading \subseteq Spoken(r))'
      /\ recorder[r].made <= recorder'[r].made
    BY <1>0, <1>2, <1>4, MoreIsSpoken DEF Making
<1>7. Making(r)'
    BY <1>0, <1>1, <1>2, <1>3, <1>4, <1>5, <1>6 DEF Making
<1>8. Holding(p)'
    <2>1. page[p].saving # r
        BY <1>0, <1>1, NoRecordingAssumption DEF Holding
    <2>2. \A s \in Recordings : recorder'[s].closed = recorder[s].closed
        BY <1>2, <1>4
    <2>3. page[p].saving # NoRecording => recorder'[page[p].saving] = recorder[page[p].saving]
        BY <2>1, <1>0, <1>4 DEF Page
    <2>4. page[p].unsaved # NoRecording => recorder'[page[p].unsaved].closed
        BY <2>2, <1>0 DEF Page, Holding
    <2> QED
        BY <2>3, <2>4, <1>0, <1>2, <1>3, <1>4, <1>5 DEF Holding
<1>9. PageMove(p)
    BY <1>3, <1>5 DEF PageMove
<1>10. RecordingMove(r)
    BY <1>1, <1>2, <1>4, <1>6 DEF RecordingMove, Steady, DraftMove, QueueMove
<1>11. OthersRest(r) /\ DiskTypes
    BY <1>0, <1>1, SeenFields DEF OthersRest, DiskTypes, CaptureTypeOK
<1> QED
    BY <1>1, <1>2, <1>3, <1>7, <1>8, <1>9, <1>10, <1>11, DeskStep

\* What a recorder that stops is: with a last piece, or without.
Last(r) == {recorder[r]} \cup (IF recorder[r].made < MaxPieces THEN {Emitted(recorder[r])} ELSE {})

LEMMA LastRecorder ==
    ASSUME CaptureTypeOK, NEW r \in Recordings, NEW c \in Last(r)
    PROVE  /\ c \in Recorder
           /\ c.page = recorder[r].page /\ c.pending = recorder[r].pending
           /\ c.closed = recorder[r].closed /\ c.toss = recorder[r].toss
           /\ \/ c.made = recorder[r].made /\ c.reading = recorder[r].reading
              \/ /\ recorder[r].made < MaxPieces /\ c.made = recorder[r].made + 1
                 /\ c.reading = recorder[r].reading \cup {recorder[r].made}
BY EmittedRecorder, RecorderFields DEF Last

LEMMA StopMoves ==
    ASSUME Orderly, NEW p \in Pages, Stop(p)
    PROVE  Fine
<1> DEFINE n == [page[p] EXCEPT !.session = NoRecording, !.saving = page[p].session]
<1>0. CaptureTypeOK /\ page[p] \in Page /\ Holding(p)
    BY DEF Orderly, Desk, CaptureTypeOK
<1>r. PICK r \in Recordings : r = page[p].session
    BY <1>0 DEF Stop, Premibile, InCorso, Page
<1>1. /\ page[p].open /\ page[p].saving = NoRecording
      /\ page' = [page EXCEPT ![p] = n]
      /\ UNCHANGED <<draft, silent, queue, server, online, given, faults, opens, seen>>
    BY <1>r DEF Stop, Premibile, InCorso
<1>2. PICK l \in Last(r) : recorder' = [recorder EXCEPT ![r] = [l EXCEPT !.mic = "ferma"]]
    BY <1>r DEF Stop, Last
<1>3. n \in Page /\ n.open /\ n.session = NoRecording /\ n.saving = r
      /\ n.unsaved = page[p].unsaved /\ n.items = page[p].items /\ n.drain = page[p].drain
      /\ n.found = page[p].found /\ n.rescued = page[p].rescued /\ n.recover = page[p].recover
      /\ n.current = page[p].current
    BY <1>0, <1>1, <1>r DEF Page
<1>4. Making(r) /\ recorder[r].page = p /\ recorder[r].mic = "viva"
    BY <1>0, <1>r, NoRecordingAssumption DEF Orderly, Desk, Holding
<1> DEFINE c == [l EXCEPT !.mic = "ferma"]
<1>5. /\ l \in Recorder /\ l.page = p /\ l.pending = recorder[r].pending
      /\ l.closed = recorder[r].closed /\ l.toss = recorder[r].toss
      /\ \/ l.made = recorder[r].made /\ l.reading = recorder[r].reading
         \/ /\ recorder[r].made < MaxPieces /\ l.made = recorder[r].made + 1
            /\ l.reading = recorder[r].reading \cup {recorder[r].made}
    BY <1>0, <1>1, <1>2, <1>4, LastRecorder
<1>6. /\ c \in Recorder /\ c.mic = "ferma" /\ c.page = p /\ c.pending = recorder[r].pending
      /\ c.closed = recorder[r].closed /\ c.toss = recorder[r].toss
      /\ c.made = l.made /\ c.reading = l.reading
    BY <1>5 DEF Recorder
<1>7. recorder' = [recorder EXCEPT ![r] = c]
    BY <1>2
<1> HIDE DEF c, n
<1>8. page'[p] = n
    BY <1>0, <1>1, <1>3, PageBecomes
<1>9. recorder'[r] = c /\ \A s \in Recordings : s # r => recorder'[s] = recorder[s]
    BY <1>0, <1>1, <1>6, <1>7, RecorderBecomes
<1>10. /\ (recorder[r].pending \cup recorder[r].reading \subseteq Spoken(r))'
       /\ recorder[r].made <= recorder'[r].made
    BY <1>0, <1>1, <1>4, <1>5, <1>6, <1>9, MoreIsSpoken DEF Making
<1>11. Making(r)'
    BY <1>1, <1>3, <1>4, <1>6, <1>8, <1>9, <1>10 DEF Making
<1>12. Holding(p)'
    <2>1. recorder'[r].page = p /\ recorder'[r].mic = "ferma" /\ ~recorder'[r].closed
        BY <1>4, <1>6, <1>9 DEF Making
    <2>2. page[p].unsaved # NoRecording => recorder'[page[p].unsaved].closed
        BY <1>0, <1>6, <1>9 DEF Page, Holding
    <2> QED
        BY <2>1, <2>2, <1>3, <1>8 DEF Holding
<1>13. PageMove(p)
    BY <1>3, <1>8 DEF PageMove
<1>14. RecordingMove(r)
    BY <1>1, <1>6, <1>9, <1>10 DEF RecordingMove, Steady, DraftMove, QueueMove
<1>15. OthersRest(r) /\ DiskTypes
    BY <1>0, <1>1, SeenFields DEF OthersRest, DiskTypes, CaptureTypeOK
<1>16. page[p].saving \notin {r, NoRecording} => n.saving = page[p].saving
    BY <1>1
<1> QED
    BY <1>1, <1>3, <1>4, <1>6, <1>7, <1>11, <1>12, <1>13, <1>14, <1>15, <1>16, DeskStep

LEMMA CancelMoves ==
    ASSUME Orderly, NEW p \in Pages, Cancel(p)
    PROVE  Fine
<1> DEFINE n == [page[p] EXCEPT !.session = NoRecording]
<1>0. CaptureTypeOK /\ page[p] \in Page /\ Holding(p)
    BY DEF Orderly, Desk, CaptureTypeOK
<1>r. PICK r \in Recordings : r = page[p].session
    BY <1>0 DEF Cancel, InCorso, Page
<1>1. /\ page[p].open
      /\ page' = [page EXCEPT ![p] = n] /\ given' = given \cup {r}
      /\ UNCHANGED <<draft, silent, queue, server, online, faults, opens, seen>>
    BY <1>r DEF Cancel, InCorso
<1>2. PICK l \in Last(r) : recorder' = [recorder EXCEPT ![r] = Butta([l EXCEPT !.mic = "ferma"])]
    BY <1>r DEF Cancel, Last
<1>3. n \in Page /\ n.open /\ n.session = NoRecording /\ n.saving = page[p].saving
      /\ n.unsaved = page[p].unsaved /\ n.items = page[p].items /\ n.drain = page[p].drain
      /\ n.found = page[p].found /\ n.rescued = page[p].rescued /\ n.recover = page[p].recover
      /\ n.current = page[p].current
    BY <1>0, <1>1, <1>r DEF Page
<1>4. Making(r) /\ recorder[r].page = p /\ recorder[r].mic = "viva"
    BY <1>0, <1>r, NoRecordingAssumption DEF Orderly, Desk, Holding
<1> DEFINE c == Butta([l EXCEPT !.mic = "ferma"])
<1>5. /\ l \in Recorder /\ l.page = p /\ l.pending = recorder[r].pending
      /\ \/ l.made = recorder[r].made /\ l.reading = recorder[r].reading
         \/ /\ recorder[r].made < MaxPieces /\ l.made = recorder[r].made + 1
            /\ l.reading = recorder[r].reading \cup {recorder[r].made}
    BY <1>0, <1>1, <1>2, <1>4, LastRecorder
<1>6. /\ c \in Recorder /\ c.mic = "ferma" /\ c.page = p /\ c.pending = recorder[r].pending
      /\ c.closed /\ c.toss /\ c.made = l.made /\ c.reading = l.reading
    BY <1>5 DEF Recorder, Butta
<1>7. recorder' = [recorder EXCEPT ![r] = c]
    BY <1>2
<1> HIDE DEF c, n
<1>8. page'[p] = n
    BY <1>0, <1>1, <1>3, PageBecomes
<1>9. page[p].saving # r
    BY <1>0, <1>1, <1>4, NoRecordingAssumption DEF Holding
<1>10. recorder'[r] = c /\ \A s \in Recordings : s # r => recorder'[s] = recorder[s]
    BY <1>0, <1>1, <1>6, <1>7, RecorderBecomes
<1>11. /\ (recorder[r].pending \cup recorder[r].reading \subseteq Spoken(r))'
       /\ recorder[r].made <= recorder'[r].made
    BY <1>0, <1>1, <1>4, <1>5, <1>6, <1>10, MoreIsSpoken DEF Making
<1>12. Making(r)'
    BY <1>6, <1>10, <1>11 DEF Making
<1>13. Holding(p)'
    <2>1. page[p].saving # NoRecording => recorder'[page[p].saving] = recorder[page[p].saving]
        BY <1>0, <1>9, <1>10 DEF Page
    <2>2. page[p].unsaved # NoRecording => recorder'[page[p].unsaved].closed
        BY <1>0, <1>6, <1>10 DEF Page, Holding
    <2> QED
        BY <2>1, <2>2, <1>0, <1>3, <1>8 DEF Holding
<1>14. PageMove(p)
    BY <1>3, <1>8 DEF PageMove
<1>15. RecordingMove(r)
    BY <1>1, <1>4, <1>6, <1>10, <1>11 DEF RecordingMove, Steady, DraftMove, QueueMove, Making
<1>16. OthersRest(r) /\ DiskTypes
    BY <1>0, <1>1, SeenFields DEF OthersRest, DiskTypes, CaptureTypeOK
<1> QED
    BY <1>1, <1>3, <1>4, <1>6, <1>7, <1>12, <1>13, <1>14, <1>15, <1>16, DeskStep

LEMMA ClosedRecorder ==
    ASSUME NEW c \in Recorder
    PROVE  /\ Butta(c) \in Recorder /\ Chiudi(c) \in Recorder
           /\ Butta(c).closed /\ Butta(c).toss /\ Chiudi(c).closed /\ Chiudi(c).toss = c.toss
           /\ Butta(c).page = c.page /\ Butta(c).mic = c.mic /\ Butta(c).made = c.made
           /\ Butta(c).reading = c.reading /\ Butta(c).pending = c.pending
           /\ Chiudi(c).page = c.page /\ Chiudi(c).mic = c.mic /\ Chiudi(c).made = c.made
           /\ Chiudi(c).reading = c.reading /\ Chiudi(c).pending = c.pending
BY DEF Butta, Chiudi, Recorder

LEMMA SeenSaves ==
    ASSUME CaptureTypeOK, NEW r \in Recordings, NEW d \in SUBSET Recordings, NEW b \in BOOLEAN,
           seen' = [seen EXCEPT !.saved = [@ EXCEPT ![r] = Spoken(r)], !.discarded = d, !.rough = b]
    PROVE  /\ seen' \in SeenType /\ seen'.written = seen.written /\ seen'.discarded = d
           /\ seen'.uploads = seen.uploads /\ seen'.rough = b
<1> DEFINE v == [seen.saved EXCEPT ![r] = Spoken(r)]
<1>1. Spoken(r) \in SUBSET Pieces
    BY RecorderFields
<1>2. v \in [Recordings -> SUBSET Pieces]
    BY <1>1 DEF CaptureTypeOK
<1>3. seen' = [seen EXCEPT !.saved = v, !.discarded = d, !.rough = b]
    OBVIOUS
<1> HIDE DEF v
<1> QED
    BY <1>2, <1>3 DEF CaptureTypeOK, SeenType

LEMMA StopEnqueuedMoves ==
    ASSUME Orderly, NEW p \in Pages, StopEnqueued(p)
    PROVE  Fine
<1> DEFINE m == [page[p] EXCEPT !.saving = NoRecording]
           n == Drained(m)
<1>0. CaptureTypeOK /\ page[p] \in Page /\ Holding(p)
    BY DEF Orderly, Desk, CaptureTypeOK
<1>r. PICK r \in Recordings : r = page[p].saving
    BY <1>0 DEF StopEnqueued, Page
<1> DEFINE c == Butta(recorder[r])
<1>1. /\ page[p].open /\ Enqueue(r, Spoken(r))
      /\ recorder' = [recorder EXCEPT ![r] = c] /\ page' = [page EXCEPT ![p] = n]
      /\ seen' = [seen EXCEPT !.saved[r] = Spoken(r)]
      /\ UNCHANGED <<draft, silent, server, online, given, faults, opens>>
    BY <1>r DEF StopEnqueued
<1>2. recorder[r] \in Recorder /\ Spoken(r) \in SUBSET Pieces /\ Making(r)
    BY <1>0, RecorderFields DEF Orderly, Desk
<1>3. recorder[r].page = p /\ recorder[r].mic = "ferma"
    BY <1>0, <1>r, NoRecordingAssumption DEF Holding
<1>4. /\ m \in Page /\ m.open = page[p].open /\ m.session = page[p].session
      /\ m.saving = NoRecording /\ m.unsaved = page[p].unsaved /\ m.items = page[p].items
      /\ m.drain = page[p].drain /\ m.current = page[p].current /\ m.found = page[p].found
      /\ m.rescued = page[p].rescued /\ m.recover = page[p].recover
    BY <1>0 DEF Page
<1> HIDE DEF m
<1>5. /\ n \in Page /\ n.open = page[p].open /\ n.session = page[p].session
      /\ n.saving = NoRecording /\ n.unsaved = page[p].unsaved /\ n.items = page[p].items
      /\ n.drain = "toglie" => page[p].drain = "toglie"
      /\ n.current = page[p].current /\ n.found = page[p].found
      /\ n.rescued = page[p].rescued /\ n.recover = page[p].recover
    BY <1>4, DrainedPage
<1>6. /\ c \in Recorder /\ c.mic = "ferma" /\ c.page = p /\ c.made = recorder[r].made
      /\ c.reading = recorder[r].reading /\ c.pending = recorder[r].pending /\ c.closed /\ c.toss
    BY <1>2, <1>3, ClosedRecorder
<1> HIDE DEF n, c
<1>7. page'[p] = n
    BY <1>0, <1>1, <1>5, PageBecomes
<1>8. recorder'[r] = c /\ \A s \in Recordings : s # r => recorder'[s] = recorder[s]
    BY <1>0, <1>1, <1>6, RecorderBecomes
<1>9. /\ queue' \in [Recordings -> Row] /\ queue'[r] = Enqueued(r, Spoken(r))
      /\ \A s \in Recordings : s # r => queue'[s] = queue[s]
    BY <1>0, <1>1, <1>2, EnqueueChangesOne
<1>10. /\ seen' \in SeenType /\ seen'.written = seen.written /\ seen'.discarded = seen.discarded
    <2>1. /\ seen.discarded \in SUBSET Recordings /\ seen.rough \in BOOLEAN
          /\ seen' = [seen EXCEPT !.saved = [@ EXCEPT ![r] = Spoken(r)],
                                  !.discarded = seen.discarded, !.rough = seen.rough]
        BY <1>0, <1>1 DEF CaptureTypeOK
    <2> QED
        BY <1>0, <2>1, SeenSaves
<1>11. /\ (recorder[r].pending \cup recorder[r].reading \subseteq Spoken(r))'
       /\ recorder[r].made <= recorder'[r].made
    BY <1>0, <1>2, <1>6, <1>8, MoreIsSpoken DEF Making
<1>12. Making(r)'
    BY <1>6, <1>8, <1>11 DEF Making
<1>13. Holding(p)'
    <2>1. page[p].session # r
        BY <1>0, <1>3, NoRecordingAssumption DEF Holding
    <2>2. page[p].session # NoRecording => recorder'[page[p].session] = recorder[page[p].session]
        BY <2>1, <1>0, <1>8 DEF Page
    <2>3. page[p].unsaved # NoRecording => recorder'[page[p].unsaved].closed
        BY <1>0, <1>6, <1>8 DEF Page, Holding
    <2> QED
        BY <2>2, <2>3, <1>0, <1>1, <1>5, <1>7 DEF Holding
<1>14. PageMove(p)
    BY <1>5, <1>7 DEF PageMove
<1>15. Stored(r)
    BY <1>6, <1>8, <1>9 DEF Stored
<1>16. RecordingMove(r)
    BY <1>1, <1>6, <1>8, <1>10, <1>11, <1>15 DEF RecordingMove, Steady, DraftMove, QueueMove
<1>17. OthersRest(r)
    BY <1>1, <1>9, <1>10 DEF OthersRest
<1>18. DiskTypes
    BY <1>0, <1>1, <1>9, <1>10 DEF DiskTypes, CaptureTypeOK
<1>19. page[p].saving \notin {r, NoRecording} => n.saving = page[p].saving
    BY <1>r
<1> QED
    BY <1>1, <1>3, <1>5, <1>6, <1>12, <1>13, <1>14, <1>16, <1>17, <1>18, <1>19, DeskStep

LEMMA StopRefusedMoves ==
    ASSUME Orderly, NEW p \in Pages, StopRefused(p)
    PROVE  Fine
<1> DEFINE n == [page[p] EXCEPT !.saving = NoRecording, !.unsaved = page[p].saving]
<1>0. CaptureTypeOK /\ page[p] \in Page /\ Holding(p)
    BY DEF Orderly, Desk, CaptureTypeOK
<1>r. PICK r \in Recordings : r = page[p].saving
    BY <1>0 DEF StopRefused, Page
<1> DEFINE c == Chiudi(recorder[r])
<1>1. /\ page[p].open /\ Fault
      /\ recorder' = [recorder EXCEPT ![r] = c] /\ page' = [page EXCEPT ![p] = n]
      /\ UNCHANGED <<draft, silent, queue, server, online, given, opens, seen>>
    BY <1>r DEF StopRefused
<1>2. recorder[r] \in Recorder /\ Making(r)
    BY <1>0, RecorderFields DEF Orderly, Desk
<1>3. recorder[r].page = p /\ recorder[r].mic = "ferma"
    BY <1>0, <1>r, NoRecordingAssumption DEF Holding
<1>4. /\ n \in Page /\ n.open = page[p].open /\ n.session = page[p].session
      /\ n.saving = NoRecording /\ n.unsaved = r /\ n.items = page[p].items
      /\ n.drain = page[p].drain /\ n.current = page[p].current /\ n.found = page[p].found
      /\ n.rescued = page[p].rescued /\ n.recover = page[p].recover
    BY <1>0, <1>r DEF Page
<1>5. /\ c \in Recorder /\ c.mic = "ferma" /\ c.page = p /\ c.made = recorder[r].made
      /\ c.reading = recorder[r].reading /\ c.pending = recorder[r].pending /\ c.closed
      /\ c.toss = recorder[r].toss
    BY <1>2, <1>3, ClosedRecorder
<1> HIDE DEF n, c
<1>6. page'[p] = n
    BY <1>0, <1>1, <1>4, PageBecomes
<1>7. recorder'[r] = c /\ \A s \in Recordings : s # r => recorder'[s] = recorder[s]
    BY <1>0, <1>1, <1>5, RecorderBecomes
<1>8. faults' \in 0 .. MaxFaults
    BY <1>0, <1>1, FaultIsCounted
<1>9. /\ (recorder[r].pending \cup recorder[r].reading \subseteq Spoken(r))'
      /\ recorder[r].made <= recorder'[r].made
    BY <1>0, <1>2, <1>5, <1>7, MoreIsSpoken DEF Making
<1>10. Making(r)'
    BY <1>5, <1>7, <1>9 DEF Making
<1>11. Holding(p)'
    <2>1. page[p].session # r
        BY <1>0, <1>3, NoRecordingAssumption DEF Holding
    <2>2. page[p].session # NoRecording => recorder'[page[p].session] = recorder[page[p].session]
        BY <2>1, <1>0, <1>7 DEF Page
    <2>3. /\ page'[p].session = page[p].session /\ page'[p].saving = NoRecording
          /\ page'[p].unsaved = r /\ page'[p].open /\ recorder'[r].closed
        BY <1>1, <1>4, <1>5, <1>6, <1>7
    <2>4. page'[p].session # NoRecording =>
            recorder'[page'[p].session].page = p /\ recorder'[page'[p].session].mic = "viva"
        BY <2>2, <2>3, <1>0 DEF Holding
    <2> QED
        BY <2>3, <2>4 DEF Holding
<1>12. PageMove(p)
    BY <1>4, <1>6 DEF PageMove
<1>13. RecordingMove(r)
    BY <1>1, <1>5, <1>7, <1>9 DEF RecordingMove, Steady, DraftMove, QueueMove
<1>14. OthersRest(r)
    BY <1>1 DEF OthersRest
<1>15. DiskTypes
    BY <1>0, <1>1, <1>8, SeenFields DEF DiskTypes, CaptureTypeOK
<1>16. page[p].saving \notin {r, NoRecording} => n.saving = page[p].saving
    BY <1>r
<1> QED
    BY <1>1, <1>3, <1>4, <1>5, <1>10, <1>11, <1>12, <1>13, <1>14, <1>15, <1>16, DeskStep


\* The recording that a page kept for its user is closed, and so is its microphone.
LEMMA UnsavedIsClosed ==
    ASSUME Orderly, NEW p \in Pages, NEW r \in Recordings, page[p].unsaved = r
    PROVE  recorder[r].closed /\ recorder[r].mic # "mai"
BY NoRecordingAssumption DEF Orderly, Desk, Holding, Making

LEMMA RiscriviMoves ==
    ASSUME Orderly, NEW p \in Pages, Riscrivi(p)
    PROVE  Fine
<1> DEFINE m == [page[p] EXCEPT !.unsaved = NoRecording]
           n == Drained(m)
<1>0. CaptureTypeOK /\ page[p] \in Page
    BY DEF Orderly, CaptureTypeOK
<1>r. PICK r \in Recordings : r = page[p].unsaved
    BY <1>0 DEF Riscrivi, Page
<1>1. /\ page[p].open /\ Answered(r) /\ Enqueue(r, Spoken(r)) /\ page' = [page EXCEPT ![p] = n]
      /\ NoFault
      /\ UNCHANGED <<server, online, recorder, given, opens>>
      /\ \/ /\ Discard(r)
            /\ seen' = [seen EXCEPT !.saved[r] = Spoken(r), !.discarded = @ \cup {r}]
         \/ /\ UNCHANGED <<draft, silent>>
            /\ seen' = [seen EXCEPT !.saved[r] = Spoken(r), !.rough = TRUE]
    BY <1>r DEF Riscrivi
<1>2. recorder[r].closed /\ Spoken(r) \in SUBSET Pieces /\ recorder[r].made \in Int
    BY <1>0, <1>r, UnsavedIsClosed, RecorderFields
<1>3. /\ m \in Page /\ m.open = page[p].open /\ m.session = page[p].session
      /\ m.saving = page[p].saving /\ m.unsaved = NoRecording /\ m.items = page[p].items
      /\ m.drain = page[p].drain /\ m.current = page[p].current /\ m.found = page[p].found
      /\ m.rescued = page[p].rescued /\ m.recover = page[p].recover
    BY <1>0 DEF Page
<1> HIDE DEF m
<1>4. /\ n \in Page /\ n.open = page[p].open /\ n.session = page[p].session
      /\ n.saving = page[p].saving /\ n.unsaved = NoRecording /\ n.items = page[p].items
      /\ n.drain = "toglie" => page[p].drain = "toglie"
      /\ n.current = page[p].current /\ n.found = page[p].found
      /\ n.rescued = page[p].rescued /\ n.recover = page[p].recover
    BY <1>3, DrainedPage
<1> HIDE DEF n
<1>5. page'[p] = n
    BY <1>0, <1>1, <1>4, PageBecomes
<1>6. SameDesk(p) /\ PageMove(p)
    BY <1>1, <1>4, <1>5 DEF SameDesk, PageMove
<1>7. /\ queue' \in [Recordings -> Row] /\ queue'[r] = Enqueued(r, Spoken(r))
      /\ \A s \in Recordings : s # r => queue'[s] = queue[s]
    BY <1>0, <1>1, <1>2, EnqueueChangesOne
<1>8. Stored(r) /\ Finishes(r)
    BY <1>r, <1>1, <1>2, <1>7 DEF Stored, Finishes
<1>9. faults' \in 0 .. MaxFaults
    BY <1>0, <1>1, FaultIsCounted
<1>10. /\ draft' \in [Recordings -> SUBSET Pieces] /\ silent' \in [Recordings -> BOOLEAN]
       /\ seen' \in SeenType /\ seen'.written = seen.written
       /\ \A s \in Recordings : s # r => /\ draft'[s] = draft[s] /\ silent'[s] = silent[s]
                                         /\ s \in seen'.discarded => s \in seen.discarded
       /\ silent'[r] => silent[r]
       /\ \/ draft'[r] = draft[r] /\ (r \in seen'.discarded => r \in seen.discarded)
          \/ draft'[r] = {}
    <2>1. CASE Discard(r) /\ seen' = [seen EXCEPT !.saved[r] = Spoken(r), !.discarded = @ \cup {r}]
        <3> DEFINE d == seen.discarded \cup {r}
        <3>1. d \in SUBSET Recordings /\ seen.rough \in BOOLEAN
            BY <1>0 DEF CaptureTypeOK
        <3>2. seen' = [seen EXCEPT !.saved = [@ EXCEPT ![r] = Spoken(r)], !.discarded = d, !.rough = seen.rough]
            BY <1>0, <2>1 DEF CaptureTypeOK
        <3> HIDE DEF d
        <3>3. seen' \in SeenType /\ seen'.written = seen.written /\ seen'.discarded = d
            BY <1>0, <3>1, <3>2, SeenSaves
        <3> QED
            BY <1>0, <2>1, <3>3, DiscardChangesOne DEF d
    <2>2. CASE UNCHANGED <<draft, silent>> /\ seen' = [seen EXCEPT !.saved[r] = Spoken(r), !.rough = TRUE]
        <3>1. seen.discarded \in SUBSET Recordings
            BY <1>0 DEF CaptureTypeOK
        <3>2. seen' = [seen EXCEPT !.saved = [@ EXCEPT ![r] = Spoken(r)], !.discarded = seen.discarded, !.rough = TRUE]
            BY <1>0, <2>2 DEF CaptureTypeOK
        <3>3. seen' \in SeenType /\ seen'.written = seen.written /\ seen'.discarded = seen.discarded
            BY <1>0, <3>1, <3>2, SeenSaves
        <3> QED
            BY <1>0, <2>2, <3>3 DEF CaptureTypeOK
    <2> QED
        BY <1>1, <2>1, <2>2
<1>11. RecordingMove(r)
    BY <1>1, <1>2, <1>8, <1>10 DEF RecordingMove, Steady, DraftMove, QueueMove
<1>12. OthersRest(r)
    BY <1>1, <1>7, <1>10 DEF OthersRest
<1>13. DiskTypes
    BY <1>0, <1>1, <1>7, <1>9, <1>10 DEF DiskTypes, CaptureTypeOK
<1> QED
    BY <1>1, <1>4, <1>6, <1>11, <1>12, <1>13, DiskStep

LEMMA ScartaMoves ==
    ASSUME Orderly, NEW p \in Pages, Scarta(p)
    PROVE  Fine
<1> DEFINE n == [page[p] EXCEPT !.unsaved = NoRecording]
<1>0. CaptureTypeOK /\ page[p] \in Page
    BY DEF Orderly, CaptureTypeOK
<1>r. PICK r \in Recordings : r = page[p].unsaved
    BY <1>0 DEF Scarta, Page
<1>1. /\ page[p].open /\ Answered(r) /\ page' = [page EXCEPT ![p] = n]
      /\ given' = given \cup {r} /\ (Fault \/ NoFault)
      /\ UNCHANGED <<queue, server, online, recorder, opens>>
      /\ \/ Discard(r) /\ seen' = [seen EXCEPT !.discarded = @ \cup {r}]
         \/ UNCHANGED <<draft, silent, seen>>
    BY <1>r DEF Scarta
<1>2. recorder[r].closed /\ recorder[r].mic # "mai" /\ recorder[r].made \in Int
    BY <1>0, <1>r, UnsavedIsClosed, RecorderFields
<1>3. /\ n \in Page /\ n.open = page[p].open /\ n.session = page[p].session
      /\ n.saving = page[p].saving /\ n.unsaved = NoRecording /\ n.items = page[p].items
      /\ n.drain = page[p].drain /\ n.current = page[p].current /\ n.found = page[p].found
      /\ n.rescued = page[p].rescued /\ n.recover = page[p].recover
    BY <1>0 DEF Page
<1> HIDE DEF n
<1>4. page'[p] = n
    BY <1>0, <1>1, <1>3, PageBecomes
<1>5. SameDesk(p) /\ PageMove(p)
    BY <1>1, <1>3, <1>4 DEF SameDesk, PageMove
<1>6. Finishes(r)
    BY <1>r, <1>1 DEF Finishes
<1>7. faults' \in 0 .. MaxFaults
    BY <1>0, <1>1, FaultIsCounted
<1>8. /\ draft' \in [Recordings -> SUBSET Pieces] /\ silent' \in [Recordings -> BOOLEAN]
      /\ seen' \in SeenType /\ seen'.written = seen.written
      /\ \A s \in Recordings : s # r => /\ draft'[s] = draft[s] /\ silent'[s] = silent[s]
                                        /\ s \in seen'.discarded => s \in seen.discarded
      /\ silent'[r] => silent[r]
      /\ \/ draft'[r] = draft[r] /\ (r \in seen'.discarded => r \in seen.discarded)
         \/ draft'[r] = {}
    <2>1. CASE Discard(r) /\ seen' = [seen EXCEPT !.discarded = @ \cup {r}]
        <3>1. /\ seen' \in SeenType /\ seen'.written = seen.written
              /\ seen'.discarded = seen.discarded \cup {r}
            BY <1>0, <2>1, SeenDiscards
        <3> QED
            BY <1>0, <2>1, <3>1, DiscardChangesOne
    <2>2. CASE UNCHANGED <<draft, silent, seen>>
        BY <1>0, <2>2, SeenFields DEF CaptureTypeOK
    <2> QED
        BY <1>1, <2>1, <2>2
<1>9. RecordingMove(r)
    BY <1>1, <1>2, <1>6, <1>8 DEF RecordingMove, Steady, DraftMove, QueueMove
<1>10. OthersRest(r)
    BY <1>1, <1>8 DEF OthersRest
<1>11. DiskTypes
    BY <1>0, <1>1, <1>7, <1>8 DEF DiskTypes, CaptureTypeOK
<1>12. given \subseteq given' /\ \A s \in Recordings : s \in given' => s \in given \/ recorder[s].mic # "mai"
    BY <1>1, <1>2
<1> QED
    BY <1>1, <1>3, <1>5, <1>9, <1>10, <1>11, <1>12, DiskStep

LEMMA SvuotaCodaMoves ==
    ASSUME Orderly, NEW p \in Pages, SvuotaCoda(p)
    PROVE  Fine
<1> DEFINE n == [page[p] EXCEPT !.unsaved = NoRecording]
<1>0. CaptureTypeOK /\ page[p] \in Page
    BY DEF Orderly, CaptureTypeOK
<1>1. /\ page[p].open /\ page' = [page EXCEPT ![p] = n]
      /\ given' = {r \in Recordings : recorder[r].mic # "mai"}
      /\ Fault \/ NoFault
      /\ UNCHANGED <<server, online, recorder, opens, seen>>
    BY DEF SvuotaCoda
<1>2. PICK rows \in BOOLEAN, pieces \in BOOLEAN : ClearQueue(rows) /\ ClearDrafts(pieces)
    BY DEF SvuotaCoda
<1>3. /\ n \in Page /\ n.open = page[p].open /\ n.session = page[p].session
      /\ n.saving = page[p].saving /\ n.unsaved = NoRecording /\ n.items = page[p].items
      /\ n.drain = page[p].drain /\ n.current = page[p].current /\ n.found = page[p].found
      /\ n.rescued = page[p].rescued /\ n.recover = page[p].recover
    BY <1>0 DEF Page
<1> HIDE DEF n
<1>4. /\ page' \in [Pages -> Page] /\ page'[p] = n
      /\ \A q \in Pages : q # p => page'[q] = page[q]
    BY <1>0, <1>1, <1>3, PageBecomes
<1>5. SameDesk(p) /\ PageMove(p)
    BY <1>1, <1>3, <1>4 DEF SameDesk, PageMove
<1>6. \A q \in Pages : PageMove(q) /\ SameDesk(q)
    BY <1>4, <1>5, PageRests
<1>7. faults' \in 0 .. MaxFaults
    BY <1>0, <1>1, FaultIsCounted
<1>8. /\ queue' \in [Recordings -> Row]
      /\ \A r \in Recordings : queue'[r] = queue[r] \/ queue'[r] = NoRow
    <2>1. NoRow \in Row
        BY DEF NoRow, Row
    <2> QED
        BY <1>0, <1>2, <2>1 DEF ClearQueue, CaptureTypeOK
<1>9. /\ draft' \in [Recordings -> SUBSET Pieces] /\ silent' \in [Recordings -> BOOLEAN]
      /\ \A r \in Recordings : /\ draft'[r] = draft[r] \/ draft'[r] = {}
                               /\ silent'[r] => silent[r]
    BY <1>0, <1>2 DEF ClearDrafts, NoAudio, CaptureTypeOK
<1>10. ASSUME NEW r \in Recordings
       PROVE  RecordingMove(r)
    <2>1. recorder[r].made \in Int
        BY <1>0, RecorderFields
    <2>2. recorder[r].mic # "mai" => r \in given'
        BY <1>1
    <2>3. QueueMove(r) /\ DraftMove(r)
        BY <1>1, <1>8, <1>9, <2>2 DEF QueueMove, DraftMove
    <2> QED
        BY <1>1, <1>9, <2>1, <2>2, <2>3 DEF RecordingMove, Steady
<1>11. Desk'
    BY <1>1, <1>6, DeskRests
<1>12. DiskTypes
    BY <1>0, <1>1, <1>7, <1>8, <1>9, SeenFields DEF DiskTypes, CaptureTypeOK
<1>13. CaptureTypeOK'
    BY <1>0, <1>1, <1>4, <1>12, TypesHold DEF CaptureTypeOK
<1> QED
    BY <1>6, <1>10, <1>11, <1>13 DEF Fine, Moves

------------------------------------------------------------------------------
(* The device: pages come and go.                                          *)

LEMMA OpenMoves ==
    ASSUME Orderly, NEW p \in Pages, Open(p)
    PROVE  Fine
<1> DEFINE n == [Closed EXCEPT !.open = TRUE, !.recover = "elenca", !.dead = Dead]
           b == seen.rough \/ \E o \in Pages : page[o].open
<1>0. CaptureTypeOK /\ page[p] \in Page
    BY DEF Orderly, CaptureTypeOK
<1>1. /\ ~page[p].open /\ opens < MaxOpens /\ opens' = opens + 1
      /\ page' = [page EXCEPT ![p] = n]
      /\ seen' = [seen EXCEPT !.rough = b]
      /\ UNCHANGED <<draft, silent, queue, server, online, recorder, given, faults>>
    BY DEF Open
<1>2. page[p] = Closed
    BY <1>1 DEF Orderly, Desk, Holding
<1>3. Closed \in Page
    BY DEF Closed, Page, NoAudio
<1>4. /\ n \in Page /\ n.open /\ n.session = NoRecording /\ n.saving = NoRecording
      /\ n.unsaved = NoRecording /\ n.drain = "fermo" /\ n.recover = "elenca"
      /\ n.found = NoAudio /\ n.items = NoAudio
    BY <1>3 DEF Closed, Page, Dead
<1>5. seen' \in SeenType /\ seen'.written = seen.written /\ seen'.discarded = seen.discarded
    <2>1. b \in BOOLEAN
        BY <1>0 DEF CaptureTypeOK
    <2> HIDE DEF b
    <2> QED
        BY <1>0, <1>1, <2>1, SeenRough
<1> HIDE DEF n, b
<1>6. /\ page' \in [Pages -> Page] /\ page'[p] = n
      /\ \A q \in Pages : q # p => page'[q] = page[q]
    BY <1>0, <1>1, <1>4, PageBecomes
<1>7. \A q \in Pages : PageMove(q)
    <2>1. \A r \in Recordings : NoAudio[r] = {}
        BY DEF NoAudio
    <2>2. PageMove(p)
        BY <1>4, <1>6, <2>1 DEF PageMove
    <2> QED
        BY <1>6, <2>2, PageRests
<1>8. \A r \in Recordings : RecordingMove(r)
    BY <1>0, <1>1, <1>5, RecordingRests
<1>9. ASSUME NEW r \in Recordings
      PROVE  Making(r)'
    <2>1. Making(r) /\ recorder[r].page \in Pages
        BY <1>0, RecorderFields DEF Orderly, Desk
    <2>2. page[recorder[r].page].open => page'[recorder[r].page].open
        BY <1>4, <1>6, <2>1
    <2>3. page[recorder[r].page].saving = r => page'[recorder[r].page].saving = r
        BY <1>2, <1>6, <2>1, NoRecordingAssumption DEF Closed
    <2>4. Spoken(r)' = Spoken(r)
        BY <1>1 DEF Spoken
    <2> QED
        BY <1>1, <2>1, <2>2, <2>3, <2>4 DEF Making
<1>10. ASSUME NEW q \in Pages
       PROVE  Holding(q)'
    <2>1. CASE q = p
        BY <2>1, <1>4, <1>6 DEF Holding
    <2>2. CASE q # p
        BY <2>2, <1>1, <1>6 DEF Holding, Orderly, Desk
    <2> QED
        BY <2>1, <2>2
<1>11. opens' \in 0 .. MaxOpens
    BY <1>0, <1>1, BoundsAssumption DEF CaptureTypeOK
<1>12. DiskTypes
    BY <1>0, <1>1, <1>5, <1>11 DEF DiskTypes, CaptureTypeOK
<1>13. CaptureTypeOK'
    BY <1>0, <1>1, <1>6, <1>12, TypesHold DEF CaptureTypeOK
<1> QED
    BY <1>7, <1>8, <1>9, <1>10, <1>13 DEF Fine, Moves, Desk

LEMMA CloseMoves ==
    ASSUME Orderly, NEW p \in Pages, Close(p)
    PROVE  Fine
<1> DEFINE b == seen.rough \/ MidWork(p)
<1>0. CaptureTypeOK /\ page[p] \in Page
    BY DEF Orderly, CaptureTypeOK
<1>1. /\ page' = [page EXCEPT ![p] = Closed]
      /\ seen' = [seen EXCEPT !.rough = b]
      /\ UNCHANGED <<draft, silent, queue, server, online, given, faults, opens>>
    BY DEF Close
<1>2. ASSUME NEW r \in Recordings
      PROVE  /\ recorder'[r] \in Recorder
             /\ recorder'[r].page = recorder[r].page /\ recorder'[r].made = recorder[r].made
             /\ recorder[r].closed => recorder'[r].closed
             /\ recorder'[r].pending \subseteq recorder[r].pending
             /\ recorder'[r].reading \subseteq recorder[r].reading
             /\ recorder'[r].toss => recorder[r].toss
             /\ recorder[r].mic = "mai" \/ recorder[r].page # p => recorder'[r] = recorder[r]
             /\ recorder[r].mic # "mai" /\ recorder[r].page = p =>
                    recorder'[r].mic = "ferma" /\ recorder'[r].closed
    <2> DEFINE c == [recorder[r] EXCEPT !.mic = "ferma", !.reading = {}, !.pending = {},
                                        !.closed = TRUE, !.toss = FALSE]
    <2>1. recorder[r] \in Recorder
        BY <1>0, RecorderFields
    <2>2. /\ c \in Recorder /\ c.page = recorder[r].page /\ c.made = recorder[r].made /\ c.closed
          /\ c.mic = "ferma" /\ c.pending = {} /\ c.reading = {} /\ ~c.toss
        BY <2>1 DEF Recorder
    <2>3. recorder'[r] = IF recorder[r].page = p /\ recorder[r].mic # "mai" THEN c ELSE recorder[r]
        BY DEF Close
    <2> HIDE DEF c
    <2> QED
        BY <2>1, <2>2, <2>3
<1>3. recorder' \in [Recordings -> Recorder]
    <2>1. recorder' = [r \in Recordings |-> recorder'[r]]
        BY DEF Close
    <2> QED
        BY <1>2, <2>1
<1>4. /\ Closed \in Page /\ ~Closed.open /\ Closed.recover = "fatto" /\ Closed.drain = "fermo"
      /\ \A r \in Recordings : Closed.found[r] = {} /\ Closed.items[r] = {}
    BY DEF Closed, Page, NoAudio
<1>5. seen' \in SeenType /\ seen'.written = seen.written /\ seen'.discarded = seen.discarded
    <2>1. b \in BOOLEAN
        BY <1>0 DEF CaptureTypeOK
    <2> HIDE DEF b
    <2> QED
        BY <1>0, <1>1, <2>1, SeenRough
<1> HIDE DEF b
<1>6. /\ page' \in [Pages -> Page] /\ page'[p] = Closed
      /\ \A q \in Pages : q # p => page'[q] = page[q]
    BY <1>0, <1>1, <1>4, PageBecomes
<1>7. \A q \in Pages : PageMove(q)
    <2>1. PageMove(p)
        BY <1>4, <1>6 DEF PageMove
    <2> QED
        BY <1>6, <2>1, PageRests
<1>8. ASSUME NEW r \in Recordings
      PROVE  RecordingMove(r)
    <2>1. recorder[r].made \in Int
        BY <1>0, RecorderFields
    <2> QED
        BY <1>1, <1>2, <1>5, <2>1 DEF RecordingMove, Steady, DraftMove, QueueMove
<1>9. ASSUME NEW r \in Recordings
      PROVE  Making(r)'
    <2>1. Making(r) /\ recorder[r].page \in Pages
        BY <1>0, RecorderFields DEF Orderly, Desk
    <2>2. Spoken(r)' = Spoken(r)
        BY <1>2 DEF Spoken
    <2>3. CASE recorder[r].page # p
        BY <2>1, <2>2, <2>3, <1>1, <1>2, <1>6 DEF Making
    <2>4. CASE recorder[r].mic = "mai"
        BY <2>1, <2>2, <2>4, <1>1, <1>2 DEF Making
    <2>5. CASE recorder[r].mic # "mai" /\ recorder[r].page = p
        BY <2>1, <2>2, <2>5, <1>1, <1>2 DEF Making
    <2> QED
        BY <2>3, <2>4, <2>5
<1>10. ASSUME NEW q \in Pages
       PROVE  Holding(q)'
    <2>1. CASE q = p
        BY <2>1, <1>6 DEF Holding, Closed
    <2>2. CASE q # p
        <3>1. Holding(q) /\ page'[q] = page[q] /\ page[q] \in Page
            BY <1>0, <1>6, <2>2 DEF Orderly, Desk, CaptureTypeOK
        <3>2. page[q].session # NoRecording => recorder'[page[q].session] = recorder[page[q].session]
            BY <3>1, <1>2, <2>2 DEF Holding, Page
        <3>3. page[q].saving # NoRecording => recorder'[page[q].saving] = recorder[page[q].saving]
            BY <3>1, <1>2, <2>2 DEF Holding, Page
        <3>4. page[q].unsaved # NoRecording => recorder'[page[q].unsaved].closed
            BY <3>1, <1>2 DEF Holding, Page
        <3> QED
            BY <3>1, <3>2, <3>3, <3>4 DEF Holding
    <2> QED
        BY <2>1, <2>2
<1>11. DiskTypes
    BY <1>0, <1>1, <1>5 DEF DiskTypes, CaptureTypeOK
<1>12. CaptureTypeOK'
    BY <1>3, <1>6, <1>11, TypesHold
<1> QED
    BY <1>7, <1>8, <1>9, <1>10, <1>12 DEF Fine, Moves, Desk

LEMMA NextMoves ==
    ASSUME Orderly, Next
    PROVE  Fine
<1>1. ASSUME NEW p \in Pages,
             \/ Open(p) \/ RecoverList(p) \/ RecoverDiscard(p) \/ RecoverEnd(p)
             \/ DrainList(p) \/ Remove(p) \/ MarkFailed(p) \/ DrainEnd(p) \/ Riprova(p)
             \/ Stop(p) \/ StopEnqueued(p) \/ StopRefused(p) \/ Cancel(p)
             \/ Riscrivi(p) \/ Scarta(p) \/ SvuotaCoda(p) \/ Close(p)
      PROVE  Fine
    BY <1>1, OpenMoves, RecoverListMoves, RecoverDiscardMoves, RecoverEndMoves, DrainMoves,
       RemoveMoves, MarkFailedMoves, StopMoves, StopEnqueuedMoves, StopRefusedMoves, CancelMoves,
       RiscriviMoves, ScartaMoves, SvuotaCodaMoves, CloseMoves
<1>2. ASSUME NEW p \in Pages, NEW r \in Recordings,
             RecoverEnqueue(p, r) \/ Upload(p, r) \/ StartAsk(p, r) \/ StartGranted(p, r)
      PROVE  Fine
    BY <1>2, RecoverEnqueueMoves, UploadMoves, StartAskMoves, StartGrantedMoves
<1>3. ASSUME NEW r \in Recordings, Emit(r) \/ Toss(r) \/ FallSilent(r)
      PROVE  Fine
    BY <1>3, EmitMoves, TossMoves, FallSilentMoves
<1>4. ASSUME NEW r \in Recordings, NEW k \in Pieces, Pezzo(r, k) \/ Append(r, k)
      PROVE  Fine
    BY <1>4, PezzoMoves, AppendMoves
<1> QED
    BY <1>1, <1>2, <1>3, <1>4, OnlineMoves DEF Next

------------------------------------------------------------------------------
LEMMA InitHolds ==
    ASSUME Init
    PROVE  Orderly /\ SurvivalInv /\ Finished
<1>1. Closed \in Page
    BY DEF Closed, Page, NoAudio
<1>2. \A r \in Recordings :
         /\ recorder[r] \in Recorder /\ recorder[r].mic = "mai" /\ recorder[r].made = 0
         /\ recorder[r].reading = {} /\ recorder[r].pending = {} /\ ~recorder[r].closed
         /\ ~recorder[r].toss
    <2> TAKE r \in Recordings
    <2>1. PICK p \in Pages : recorder[r] = [mic |-> "mai", page |-> p, made |-> 0, reading |-> {},
                                            pending |-> {}, closed |-> FALSE, toss |-> FALSE]
        BY DEF Init
    <2>2. 0 \in 0 .. MaxPieces
        BY MaxPiecesAssumption
    <2> QED
        BY <2>1, <2>2 DEF Recorder
<1>3. recorder \in [Recordings -> Recorder]
    <2>1. recorder = [r \in Recordings |-> recorder[r]]
        BY DEF Init
    <2> QED
        BY <1>2, <2>1
<1>4. queue \in [Recordings -> Row] /\ \A r \in Recordings : ~queue[r].in
    BY DEF Init, NoRow, Row
<1>5. CaptureTypeOK
    <2>1. /\ draft \in [Recordings -> SUBSET Pieces] /\ silent \in [Recordings -> BOOLEAN]
          /\ server \in [Recordings -> SUBSET (SUBSET Pieces)] /\ online \in BOOLEAN
          /\ page \in [Pages -> Page] /\ given \subseteq Recordings
          /\ faults \in 0 .. MaxFaults /\ opens \in 0 .. MaxOpens
        BY <1>1, BoundsAssumption DEF Init, NoAudio
    <2>2. seen \in SeenType
        BY DEF Init, NoAudio, SeenType
    <2> QED
        BY <1>3, <1>4, <2>1, <2>2 DEF CaptureTypeOK, SeenType
<1>6. /\ page = [p \in Pages |-> Closed] /\ given = {} /\ seen.discarded = {}
      /\ \A r \in Recordings : seen.written[r] = {} /\ draft[r] = {} /\ ~silent[r]
    BY DEF Init, NoAudio
<1>7. \A r \in Recordings : Making(r)
    BY <1>2, <1>6 DEF Making
<1>8. \A p \in Pages : Holding(p)
    BY <1>6 DEF Holding, Closed
<1>9. Resting
    BY <1>6 DEF Resting, Closed, NoAudio
<1>10. \A r \in Recordings : KeptOnDisk(r) /\ \A p \in Pages : KeptBy(p, r)
    BY <1>2, <1>4, <1>6 DEF KeptOnDisk, KeptBy, Closed, NoAudio
<1> QED
    BY <1>5, <1>6, <1>7, <1>8, <1>9, <1>10 DEF Orderly, Desk, SurvivalInv, Finished

LEMMA OrderlyStays ==
    ASSUME Orderly, [Next]_vars
    PROVE  Orderly' /\ Moves
<1>1. CASE Next
    <2>1. CaptureTypeOK' /\ Desk' /\ Moves
        BY <1>1, NextMoves DEF Fine
    <2> QED
        BY <2>1, MovesKeepResting DEF Orderly
<1>2. CASE UNCHANGED vars
    <2>1. \A p \in Pages : PageMove(p)
        BY <1>2, PageRests DEF vars
    <2>2. \A r \in Recordings : RecordingMove(r)
        BY <1>2, RecordingRests DEF vars, Orderly
    <2>3. CaptureTypeOK'
        BY <1>2 DEF vars, Orderly, CaptureTypeOK
    <2>4. Desk'
        <3>1. \A p \in Pages : SameDesk(p)
            BY <1>2, PageRests DEF vars
        <3> QED
            BY <1>2, <3>1, DeskRests DEF vars
    <2> QED
        BY <2>1, <2>2, <2>3, <2>4, MovesKeepResting DEF Orderly, Moves
<1> QED
    BY <1>1, <1>2

\* The four stores and the memory of the pages stay of their types: no piece beyond what a
\* recorder made, no count beyond its bound.
THEOREM CaptureTypeCorrectness == Spec => []CaptureTypeOK
<1>1. Init => Orderly
    BY InitHolds
<1>2. Orderly /\ [Next]_vars => Orderly'
    BY OrderlyStays
<1>3. Orderly => CaptureTypeOK
    BY DEF Orderly
<1> QED
    BY <1>1, <1>2, <1>3, PTL DEF Spec

LEMMA SurvivalHolds ==
    ASSUME WritesAreQuick
    PROVE  Spec => [](Orderly /\ SurvivalInv /\ Finished)
<1>1. Init => Orderly /\ SurvivalInv /\ Finished
    BY InitHolds
<1>2. Orderly /\ SurvivalInv /\ Finished /\ [Next]_vars => (Orderly /\ SurvivalInv /\ Finished)'
    BY OrderlyStays, MovesKeepSurvival, MovesKeepFinished
<1> QED
    BY <1>1, <1>2, PTL DEF Spec

\* Every second that reached the disk is in a draft, in a row or on the server until somebody
\* gives the recording up, whatever pages close, open twice, recover or upload it, and
\* whichever writes and requests fail (bozze.ts, coda.ts, uploader.ts).
THEOREM SecondsSurvive ==
    ASSUME WritesAreQuick
    PROVE  Spec => []DraftedSecondsSurvive
<1>1. Orderly /\ SurvivalInv => DraftedSecondsSurvive
    BY DEF SurvivalInv, KeptOnDisk, Safe, Whole, Kept, DraftedSecondsSurvive
<1> QED
    BY <1>1, SurvivalHolds, PTL

\* A draft that was thrown away stays empty: the fila of bozze.ts lets no write pass after it.
THEOREM DiscardsAreLast ==
    ASSUME WritesAreQuick
    PROVE  Spec => []DiscardIsTheLastWrite
<1>1. Finished => DiscardIsTheLastWrite
    BY DEF Finished, DiscardIsTheLastWrite
<1> QED
    BY <1>1, SurvivalHolds, PTL

------------------------------------------------------------------------------
(* A calm device: one page at a time, no write and no answer lost, no page  *)
(* dead in the middle of one.  What a recording is still able to become is  *)
(* in one place at a time: its recorder, its draft, its row, the round.     *)

\* The recorder has nothing more to write, and nobody is asked what to do of it.
Ended(r) ==
    /\ recorder[r].closed /\ recorder[r].pending = {} /\ ~recorder[r].toss
    /\ \A p \in Pages : page[p].unsaved # r

\* It was put in the queue, and something of that is left.
Left(r) ==
    \/ queue[r].in \/ seen.uploads[r] # 0
    \/ \E p \in Pages : page[p].items[r] # {}

\* Nothing puts it in the queue again: its draft is empty, or its discard is under way.
Gone(r) ==
    /\ recorder[r].closed
    /\ \A p \in Pages : page[p].unsaved # r /\ r \notin page[p].dead /\ page[p].found[r] = {}
    /\ \/ draft[r] \cup recorder[r].pending = {}
       \/ recorder[r].toss
       \/ /\ recorder[r].pending = {}
          /\ \E p \in Pages : page[p].recover = "butta" /\ page[p].rescued = r

Once(r) ==
    /\ Left(r) => Gone(r)
    /\ seen.uploads[r] <= 1
    /\ seen.uploads[r] # 0 =>
          /\ \A p \in Pages : page[p].items[r] = {}
          /\ queue[r].in => \E p \in Pages : page[p].drain = "toglie" /\ page[p].current = r
    /\ recorder[r].toss => page[recorder[r].page].open

Recovery(p) ==
    /\ page[p].dead # {} => page[p].recover = "elenca"
    /\ \A r \in Recordings : r \in page[p].dead \/ page[p].found[r] # {} => Ended(r)

OnePage == \A p, q \in Pages : page[p].open /\ page[q].open => p = q

Calm == /\ OnePage
        /\ \A r \in Recordings : Once(r)
        /\ \A p \in Pages : Recovery(p)

\* What a step of a calm device may do to a recording.
QueuedBy(r) ==
    \/ ~recorder[r].closed /\ recorder'[r].toss
    \/ \E p \in Pages : /\ page[p].unsaved = r /\ page'[p].unsaved = NoRecording
                        /\ Answered(r) /\ draft'[r] = {}
    \/ \E p \in Pages : /\ page[p].recover = "accoda" /\ page[p].found[r] # {}
                        /\ page'[p].recover = "butta" /\ page'[p].rescued = r
                        /\ page'[p].found[r] = {}

SentBy(r) ==
    \E p \in Pages : /\ page[p].items[r] # {} /\ page'[p].items[r] = {}
                     /\ page'[p].drain = "toglie" /\ page'[p].current = r
                     /\ seen.uploads[r] = 0 => seen'.uploads[r] = 1

CalmRecording(r) ==
    /\ queue'[r].in => queue[r].in \/ QueuedBy(r)
    /\ seen'.uploads[r] = seen.uploads[r] \/ SentBy(r)
    /\ recorder[r].toss => recorder'[r].toss \/ (draft'[r] = {} /\ recorder[r].pending = {})
    /\ recorder'[r].toss => /\ recorder[r].toss \/ ~recorder[r].closed
                            /\ page'[recorder'[r].page].open

CalmPage(p) ==
    LET q == page[p]
        n == page'[p]
    IN
    /\ n.open => q.open \/ \A o \in Pages : ~page[o].open /\ (o # p => ~page'[o].open)
    /\ n.unsaved # NoRecording =>
          \/ n.unsaved = q.unsaved
          \/ ~recorder[n.unsaved].closed /\ queue'[n.unsaved].in = queue[n.unsaved].in
    /\ n.dead \subseteq q.dead \/ (n.dead \subseteq Dead /\ \A o \in Pages : ~page[o].open)
    /\ n.dead = {} \/ n.recover = "elenca" \/ (n.dead = q.dead /\ n.recover = q.recover)
    /\ \A r \in Recordings :
         /\ n.found[r] # {} => q.found[r] # {} \/ r \in q.dead
         /\ n.items[r] # {} => q.items[r] # {} \/ (q.drain = "elenca" /\ queue[r].in)
    /\ q.recover = "butta" =>
          \/ n.recover = "butta" /\ n.rescued = q.rescued
          \/ draft'[q.rescued] = {}
    /\ q.drain = "toglie" =>
          \/ n.drain = "toglie" /\ n.current = q.current
          \/ ~queue'[q.current].in

CalmStep == /\ \A r \in Recordings : CalmRecording(r)
            /\ \A p \in Pages : CalmPage(p)

\* A page that is not there holds nothing.
LEMMA ClosedHoldsNothing ==
    ASSUME Orderly, NEW p \in Pages, ~page[p].open
    PROVE  /\ page[p].unsaved = NoRecording /\ page[p].dead = {}
           /\ page[p].recover = "fatto" /\ page[p].drain = "fermo"
           /\ \A r \in Recordings : page[p].found[r] = {} /\ page[p].items[r] = {}
<1>1. page[p] = Closed
    BY DEF Orderly, Desk, Holding
<1> QED
    BY <1>1 DEF Closed, NoAudio

LEMMA EndedStays ==
    ASSUME Orderly, Moves, CalmStep, NEW r \in Recordings, Ended(r)
    PROVE  Ended(r)'
<1>1. Steady(r) /\ CalmRecording(r) /\ r # NoRecording
    BY NoRecordingAssumption DEF Moves, RecordingMove, CalmStep
<1>2. recorder'[r].closed /\ recorder'[r].pending = {} /\ ~recorder'[r].toss
    BY <1>1 DEF Ended, Steady, CalmRecording
<1>3. \A p \in Pages : page'[p].unsaved # r
    BY <1>1 DEF Ended, CalmStep, CalmPage
<1> QED
    BY <1>2, <1>3 DEF Ended

\* When no page is open, a draft that is silent is of a recorder that ended.
LEMMA DeadEnded ==
    ASSUME Orderly, Calm, NEW r \in Recordings, r \in Dead, \A p \in Pages : ~page[p].open
    PROVE  Ended(r) /\ ~Gone(r)
<1>1. draft[r] # {} /\ Shut(r)
    BY DEF Dead, Orderly, Resting
<1>2. recorder[r].page \in Pages /\ r # NoRecording
    BY NoRecordingAssumption DEF Orderly, CaptureTypeOK, Recorder
<1>3. ~recorder[r].toss
    BY <1>2 DEF Calm, Once
<1>4. \A p \in Pages : page[p].unsaved # r /\ page[p].recover # "butta"
    BY <1>2, ClosedHoldsNothing
<1> QED
    BY <1>1, <1>3, <1>4 DEF Ended, Gone, Shut

LEMMA GoneStays ==
    ASSUME Orderly, Moves, Calm, CalmStep, NEW r \in Recordings, Gone(r)
    PROVE  Gone(r)'
<1>1. Steady(r) /\ DraftMove(r) /\ CalmRecording(r) /\ r # NoRecording
    BY NoRecordingAssumption DEF Moves, RecordingMove, CalmStep
<1>2. recorder'[r].closed /\ recorder'[r].pending \subseteq recorder[r].pending
    BY <1>1 DEF Gone, Steady
<1>3. ASSUME NEW p \in Pages
      PROVE  page'[p].unsaved # r /\ r \notin page'[p].dead /\ page'[p].found[r] = {}
    <2>1. /\ CalmPage(p) /\ page[p].unsaved # r /\ r \notin page[p].dead /\ page[p].found[r] = {}
          /\ recorder[r].closed
        BY DEF Gone, CalmStep
    <2>2. page'[p].unsaved # r /\ page'[p].found[r] = {}
        BY <1>1, <2>1 DEF CalmPage
    <2>3. r \notin page'[p].dead
        BY <2>1, DeadEnded DEF CalmPage
    <2> QED
        BY <2>2, <2>3
<1>4. draft'[r] \subseteq draft[r] \cup recorder[r].pending
    BY <1>1 DEF DraftMove
<1>5. \/ draft'[r] \cup recorder'[r].pending = {}
      \/ recorder'[r].toss
      \/ /\ recorder'[r].pending = {}
         /\ \E p \in Pages : page'[p].recover = "butta" /\ page'[p].rescued = r
    <2>1. CASE draft[r] \cup recorder[r].pending = {}
        BY <2>1, <1>2, <1>4
    <2>2. CASE recorder[r].toss
        BY <2>2, <1>1, <1>2 DEF CalmRecording
    <2>3. ASSUME recorder[r].pending = {}, NEW p \in Pages,
                 page[p].recover = "butta", page[p].rescued = r
          PROVE  \/ draft'[r] \cup recorder'[r].pending = {}
                 \/ /\ recorder'[r].pending = {}
                    /\ \E o \in Pages : page'[o].recover = "butta" /\ page'[o].rescued = r
        BY <2>3, <1>2 DEF CalmStep, CalmPage
    <2> QED
        BY <2>1, <2>2, <2>3 DEF Gone
<1> QED
    BY <1>2, <1>3, <1>5 DEF Gone

\* A recording that was not in the queue, and is: from then on nothing else puts it there.
LEMMA QueuedIsGone ==
    ASSUME WritesAreQuick, Orderly, Orderly', Moves, Calm, CalmStep, NEW r \in Recordings,
           ~queue[r].in, queue'[r].in, QueuedBy(r)
    PROVE  Gone(r)'
<1>1. /\ Steady(r) /\ CalmRecording(r) /\ r # NoRecording
      /\ \A p \in Pages : CalmPage(p) /\ Recovery(p)
    BY NoRecordingAssumption DEF Moves, RecordingMove, CalmStep, Calm
<1>2. \A p \in Pages : page'[p].unsaved = r => page[p].unsaved = r
    BY <1>1 DEF CalmPage
<1>3. CASE ~recorder[r].closed /\ recorder'[r].toss
    <2>1. recorder'[r].closed
        BY <1>3 DEF Orderly, Desk, Making
    <2>2. \A p \in Pages : page[p].unsaved # r /\ r \notin page[p].dead /\ page[p].found[r] = {}
        BY <1>1, <1>3 DEF Recovery, Ended, Orderly, Desk, Holding
    <2>3. r \notin Dead
        BY <1>3 DEF Dead, Orderly, Resting, Shut
    <2>4. \A p \in Pages : page'[p].unsaved # r /\ r \notin page'[p].dead /\ page'[p].found[r] = {}
        BY <1>1, <1>2, <2>2, <2>3 DEF CalmPage
    <2> QED
        BY <1>3, <2>1, <2>4 DEF Gone
<1>4. ASSUME NEW p \in Pages, page[p].unsaved = r, page'[p].unsaved = NoRecording,
             Answered(r), draft'[r] = {}
      PROVE  Gone(r)'
    <2>1. page[p].open
        BY <1>1, <1>4, ClosedHoldsNothing
    <2>2. recorder[r].closed /\ recorder[r].pending = {}
        BY <1>1, <1>4 DEF Answered, Orderly, Desk, Holding
    <2>3. recorder'[r].closed /\ recorder'[r].pending = {}
        BY <1>1, <2>2 DEF Steady
    <2>4. \A q \in Pages : r \notin page[q].dead /\ page[q].found[r] = {}
        BY <1>1, <1>4 DEF Recovery, Ended
    <2>5. \A q \in Pages : r \notin page'[q].dead /\ page'[q].found[r] = {}
        BY <1>1, <2>1, <2>4 DEF CalmPage
    <2>6. \A q \in Pages : page'[q].unsaved # r
        <3>1. \A q \in Pages : page[q].unsaved = r => q = p
            BY <1>1, <2>1, ClosedHoldsNothing DEF Calm, OnePage
        <3> QED
            BY <1>1, <1>2, <1>4, <3>1
    <2> QED
        BY <1>4, <2>3, <2>5, <2>6 DEF Gone
<1>5. ASSUME NEW p \in Pages, page[p].recover = "accoda", page[p].found[r] # {},
             page'[p].recover = "butta", page'[p].rescued = r, page'[p].found[r] = {}
      PROVE  Gone(r)'
    <2>1. page[p].open
        BY <1>5, ClosedHoldsNothing
    <2>2. Ended(r)
        BY <1>1, <1>5 DEF Recovery
    <2>3. Ended(r)'
        BY <2>2, EndedStays
    <2>4. \A q \in Pages : r \notin page[q].dead /\ (page[q].found[r] # {} => q = p)
        <3>1. page[p].dead = {}
            BY <1>1, <1>5 DEF Recovery
        <3>2. \A q \in Pages : page[q].open => q = p
            BY <2>1 DEF Calm, OnePage
        <3> QED
            BY <3>1, <3>2, ClosedHoldsNothing
    <2>5. \A q \in Pages : r \notin page'[q].dead /\ page'[q].found[r] = {}
        BY <1>1, <1>5, <2>1, <2>4 DEF CalmPage
    <2> QED
        BY <1>5, <2>3, <2>5 DEF Gone, Ended
<1> QED
    BY <1>3, <1>4, <1>5 DEF QueuedBy

\* A recording that was sent is in no round, and its row is about to be removed.
LEMMA SentStaysSent ==
    ASSUME Orderly, Orderly', Moves, Calm, CalmStep, NEW r \in Recordings, seen'.uploads[r] # 0
    PROVE  /\ seen'.uploads[r] <= 1
           /\ \A p \in Pages : page'[p].items[r] = {}
           /\ queue'[r].in => \E p \in Pages : page'[p].drain = "toglie" /\ page'[p].current = r
<1>1. /\ CalmRecording(r) /\ Once(r)
      /\ \A p \in Pages : CalmPage(p)
    BY DEF CalmStep, Calm
<1>2. CASE seen'.uploads[r] = seen.uploads[r]
    <2>1. /\ Gone(r) /\ seen.uploads[r] <= 1
          /\ \A p \in Pages : page[p].items[r] = {}
          /\ queue[r].in => \E p \in Pages : page[p].drain = "toglie" /\ page[p].current = r
        BY <1>1, <1>2 DEF Once, Left
    <2>2. ASSUME NEW p \in Pages
          PROVE  page'[p].items[r] = {}
        <3>1. ASSUME page[p].drain = "elenca", queue[r].in
              PROVE  FALSE
            <4>1. PICK q \in Pages : page[q].drain = "toglie"
                BY <2>1, <3>1
            <4>2. page[p].open /\ page[q].open
                BY <3>1, <4>1, ClosedHoldsNothing
            <4> QED
                BY <3>1, <4>1, <4>2 DEF Calm, OnePage
        <3> QED
            BY <1>1, <2>1, <3>1 DEF CalmPage
    <2>3. ASSUME queue'[r].in
          PROVE  \E p \in Pages : page'[p].drain = "toglie" /\ page'[p].current = r
        <3>1. ~QueuedBy(r)
            BY <2>1 DEF QueuedBy, Gone
        <3>2. PICK p \in Pages : page[p].drain = "toglie" /\ page[p].current = r
            BY <1>1, <2>1, <2>3, <3>1 DEF CalmRecording
        <3> QED
            BY <1>1, <2>3, <3>2 DEF CalmPage
    <2> QED
        BY <1>2, <2>1, <2>2, <2>3
<1>3. CASE SentBy(r)
    <2>1. PICK p \in Pages : /\ page[p].items[r] # {} /\ page'[p].items[r] = {}
                             /\ page'[p].drain = "toglie" /\ page'[p].current = r
                             /\ seen.uploads[r] = 0 => seen'.uploads[r] = 1
        BY <1>3 DEF SentBy
    <2>2. seen'.uploads[r] = 1
        BY <1>1, <2>1 DEF Once
    <2>3. \A q \in Pages : page[q].open => q = p
        BY <2>1, ClosedHoldsNothing DEF Calm, OnePage
    <2>4. \A q \in Pages : page'[q].items[r] = {}
        BY <1>1, <2>1, <2>3, ClosedHoldsNothing DEF CalmPage
    <2> QED
        BY <2>1, <2>2, <2>4
<1> QED
    BY <1>1, <1>2, <1>3 DEF CalmRecording

LEMMA CalmStays ==
    ASSUME WritesAreQuick, Orderly, Orderly', Moves, Calm, CalmStep
    PROVE  Calm'
<1>1. OnePage'
    BY DEF OnePage, Calm, CalmStep, CalmPage
<1>2. ASSUME NEW r \in Recordings
      PROVE  Once(r)'
    <2>1. CalmRecording(r) /\ Once(r) /\ \A p \in Pages : CalmPage(p)
        BY DEF CalmStep, Calm
    <2>2. Left(r)' => Left(r) \/ (~queue[r].in /\ queue'[r].in /\ QueuedBy(r))
        BY <2>1 DEF Left, CalmRecording, SentBy, CalmPage
    <2>3. Left(r)' => Gone(r)'
        BY <2>1, <2>2, GoneStays, QueuedIsGone DEF Once
    <2>4. recorder'[r].toss => page'[recorder'[r].page].open
        BY <2>1 DEF CalmRecording
    <2>5. seen'.uploads[r] # 0 =>
            /\ seen'.uploads[r] <= 1
            /\ \A p \in Pages : page'[p].items[r] = {}
            /\ queue'[r].in => \E p \in Pages : page'[p].drain = "toglie" /\ page'[p].current = r
        BY SentStaysSent
    <2> HIDE DEF Left, Gone
    <2>6. seen'.uploads[r] <= 1
        BY <2>5
    <2> QED
        BY <2>3, <2>4, <2>5, <2>6 DEF Once
<1>3. ASSUME NEW p \in Pages
      PROVE  Recovery(p)'
    <2>1. CalmPage(p) /\ Recovery(p)
        BY DEF CalmStep, Calm
    <2>2. page'[p].dead # {} => page'[p].recover = "elenca"
        BY <2>1 DEF CalmPage, Recovery
    <2>3. ASSUME NEW r \in Recordings, r \in page'[p].dead \/ page'[p].found[r] # {}
          PROVE  Ended(r)'
        <3>1. Ended(r)
            BY <2>1, <2>3, DeadEnded DEF CalmPage, Recovery
        <3> QED
            BY <3>1, EndedStays
    <2> HIDE DEF Ended
    <2> QED
        BY <2>2, <2>3 DEF Recovery
<1> QED
    BY <1>1, <1>2, <1>3 DEF Calm

------------------------------------------------------------------------------
(* Every step of a calm device is one of these.                            *)

\* A page that a step leaves alone, and a recording.
LEMMA PageIsCalm ==
    ASSUME NEW p \in Pages, page'[p] = page[p]
    PROVE  CalmPage(p)
BY DEF CalmPage

LEMMA RecordingIsCalm ==
    ASSUME Orderly, Calm, NEW r \in Recordings,
           recorder'[r].page = recorder[r].page, recorder'[r].toss = recorder[r].toss,
           queue'[r].in => queue[r].in, seen'.uploads[r] = seen.uploads[r],
           \A p \in Pages : page[p].open /\ recorder[r].toss => page'[p].open
    PROVE  CalmRecording(r)
<1>1. Once(r) /\ recorder[r].page \in Pages
    BY DEF Calm, Orderly, CaptureTypeOK, Recorder
<1> QED
    BY <1>1 DEF Once, CalmRecording

\* The steps of the recorders: no page changes and no row comes.
LEMMA RecordersAreCalm ==
    ASSUME Orderly, Calm, UNCHANGED <<page, queue>>, seen'.uploads = seen.uploads,
           NEW r \in Recordings, NEW c \in Recorder, recorder' = [recorder EXCEPT ![r] = c],
           c.page = recorder[r].page,
           \/ c.toss = recorder[r].toss
           \/ ~c.toss /\ draft'[r] = {} /\ recorder[r].pending = {}
    PROVE  CalmStep
<1>1. recorder'[r] = c /\ \A s \in Recordings : s # r => recorder'[s] = recorder[s]
    BY RecorderBecomes DEF Orderly
<1>2. \A s \in Recordings : s # r => CalmRecording(s)
    BY <1>1, RecordingIsCalm
<1>3. CalmRecording(r)
    <2>1. CASE c.toss = recorder[r].toss
        BY <2>1, <1>1, RecordingIsCalm
    <2>2. CASE ~c.toss /\ draft'[r] = {} /\ recorder[r].pending = {}
        BY <2>2, <1>1 DEF CalmRecording
    <2> QED
        BY <2>1, <2>2
<1>4. \A p \in Pages : CalmPage(p)
    BY PageIsCalm
<1> QED
    BY <1>2, <1>3, <1>4 DEF CalmStep

\* The steps of one page, that touch at most one recording.
LEMMA OnePageIsCalm ==
    ASSUME Orderly, Calm, NEW p \in Pages, NEW n \in Page, page' = [page EXCEPT ![p] = n],
           page[p].open, n.open, CalmPage(p),
           \A s \in Recordings :
              \/ CalmRecording(s)
              \/ /\ recorder'[s] = recorder[s] /\ (queue'[s].in => queue[s].in)
                 /\ seen'.uploads[s] = seen.uploads[s]
    PROVE  CalmStep
<1>1. page'[p] = n /\ \A q \in Pages : q # p => page'[q] = page[q]
    BY PageBecomes DEF Orderly
<1>2. \A q \in Pages : CalmPage(q)
    BY <1>1, PageIsCalm
<1>3. \A q \in Pages : page[q].open => page'[q].open
    BY <1>1
<1>4. \A s \in Recordings : CalmRecording(s)
    BY <1>3, RecordingIsCalm
<1> QED
    BY <1>2, <1>4 DEF CalmStep

LEMMA RecorderStepsAreCalm ==
    ASSUME Orderly, Calm, ~seen'.rough, NEW r \in Recordings,
           \/ Emit(r) \/ Toss(r) \/ FallSilent(r)
           \/ \E p \in Pages : StartAsk(p, r)
           \/ \E k \in Pieces : Pezzo(r, k) \/ Append(r, k)
    PROVE  CalmStep
<1>0. CaptureTypeOK /\ recorder[r] \in Recorder
    BY DEF Orderly, CaptureTypeOK
<1>1. CASE Emit(r)
    <2>1. Emitted(recorder[r]) \in Recorder /\ Emitted(recorder[r]).page = recorder[r].page
          /\ Emitted(recorder[r]).toss = recorder[r].toss
        BY <1>0, <1>1, EmittedRecorder DEF Emit, Live
    <2>2. /\ UNCHANGED <<page, queue, seen>>
          /\ recorder' = [recorder EXCEPT ![r] = Emitted(recorder[r])]
        BY <1>1 DEF Emit
    <2> QED
        BY <2>1, <2>2, RecordersAreCalm
<1>2. CASE Toss(r)
    <2> DEFINE c == [recorder[r] EXCEPT !.toss = FALSE]
    <2>1. c \in Recorder /\ c.page = recorder[r].page /\ ~c.toss
        BY <1>0 DEF Recorder
    <2>2. UNCHANGED <<page, queue>> /\ recorder' = [recorder EXCEPT ![r] = c]
        BY <1>2 DEF Toss
    <2>3. recorder[r].pending = {}
        BY <1>2 DEF Toss, LastOfTheFila
    <2>4. seen' # [seen EXCEPT !.rough = TRUE]
        BY <1>0, SeenRough
    <2>5. Discard(r) /\ seen' = [seen EXCEPT !.discarded = @ \cup {r}]
        BY <1>2, <2>4 DEF Toss
    <2>6. draft'[r] = {} /\ seen'.uploads = seen.uploads
        BY <1>0, <2>5, DiscardChangesOne, SeenDiscards
    <2> HIDE DEF c
    <2> QED
        BY <2>1, <2>2, <2>3, <2>6, RecordersAreCalm
<1>3. CASE FallSilent(r)
    <2>1. UNCHANGED <<page, queue, seen>> /\ recorder' = [recorder EXCEPT ![r] = recorder[r]]
        BY <1>0, <1>3 DEF FallSilent, CaptureTypeOK
    <2> QED
        BY <1>0, <2>1, RecordersAreCalm
<1>4. ASSUME NEW p \in Pages, StartAsk(p, r)
      PROVE  CalmStep
    <2> DEFINE c == [recorder[r] EXCEPT !.mic = "chiede"]
    <2>1. c \in Recorder /\ c.page = recorder[r].page /\ c.toss = recorder[r].toss
        BY <1>0 DEF Recorder
    <2>2. UNCHANGED <<page, queue, seen>> /\ recorder' = [recorder EXCEPT ![r] = c]
        BY <1>4 DEF StartAsk
    <2> HIDE DEF c
    <2> QED
        BY <2>1, <2>2, RecordersAreCalm
<1>5. ASSUME NEW k \in Pieces, Pezzo(r, k)
      PROVE  CalmStep
    <2> DEFINE d == IF Accepts(recorder[r]) THEN recorder[r].pending \cup {k} ELSE recorder[r].pending
               c == [recorder[r] EXCEPT !.reading = @ \ {k}, !.pending = d]
    <2>1. d \in SUBSET Pieces
        BY <1>0 DEF Recorder
    <2>2. UNCHANGED <<page, queue, seen>> /\ recorder' = [recorder EXCEPT ![r] = c]
        BY <1>5 DEF Pezzo
    <2> HIDE DEF d
    <2>3. c \in Recorder /\ c.page = recorder[r].page /\ c.toss = recorder[r].toss
        BY <1>0, <2>1 DEF Recorder
    <2> HIDE DEF c
    <2> QED
        BY <2>2, <2>3, RecordersAreCalm
<1>6. ASSUME NEW k \in Pieces, Append(r, k)
      PROVE  CalmStep
    <2> DEFINE c == [recorder[r] EXCEPT !.pending = @ \ {k}]
    <2>1. c \in Recorder /\ c.page = recorder[r].page /\ c.toss = recorder[r].toss
        BY <1>0 DEF Recorder
    <2>2. UNCHANGED <<page, queue>> /\ recorder' = [recorder EXCEPT ![r] = c]
        BY <1>6 DEF Append
    <2>3. seen'.uploads = seen.uploads
        BY <1>0, <1>6 DEF Append, CaptureTypeOK
    <2> HIDE DEF c
    <2> QED
        BY <2>1, <2>2, <2>3, RecordersAreCalm
<1> QED
    BY <1>1, <1>2, <1>3, <1>4, <1>5, <1>6

\* Only a round that is resting starts.
LEMMA DrainedGoesOn ==
    ASSUME NEW q \in Page, q.drain = "toglie"
    PROVE  Drained(q).drain = "toglie"
BY DEF Drained

\* What the recovery does to its page.
LEMMA RecoveryStepsAreCalm ==
    ASSUME Orderly, Calm, NEW p \in Pages, RecoverList(p) \/ RecoverEnd(p)
    PROVE  CalmStep
<1>0. page[p] \in Page /\ draft \in [Recordings -> SUBSET Pieces]
    BY DEF Orderly, CaptureTypeOK
<1>1. CASE RecoverList(p)
    <2> DEFINE f == [r \in Recordings |-> IF r \in page[p].dead \cap Dead THEN draft[r] ELSE {}]
               n == [page[p] EXCEPT !.recover = "accoda", !.found = f, !.dead = {}]
    <2>1. f \in [Recordings -> SUBSET Pieces] /\ \A r \in Recordings : f[r] # {} => r \in page[p].dead
        BY <1>0
    <2>2. page' = [page EXCEPT ![p] = n]
        BY <1>1 DEF RecoverList
    <2> HIDE DEF f
    <2>3. /\ n \in Page /\ n.found = f /\ n.dead = {} /\ n.recover = "accoda"
          /\ n.open = page[p].open /\ n.unsaved = page[p].unsaved /\ n.items = page[p].items
          /\ n.drain = page[p].drain /\ n.current = page[p].current
        BY <1>0, <2>1 DEF Page
    <2> HIDE DEF n
    <2>4. page'[p] = n
        BY <2>2, <2>3, PageBecomes DEF Orderly
    <2>5. CalmPage(p)
        BY <1>1, <2>1, <2>3, <2>4 DEF CalmPage, RecoverList
    <2> QED
        BY <1>1, <2>2, <2>3, <2>5, OnePageIsCalm DEF RecoverList
<1>2. CASE RecoverEnd(p)
    <2> DEFINE m == [page[p] EXCEPT !.recover = "fatto"]
               n == Drained(m)
    <2>1. /\ m \in Page /\ m.recover = "fatto" /\ m.dead = page[p].dead
          /\ m.open = page[p].open /\ m.unsaved = page[p].unsaved /\ m.items = page[p].items
          /\ m.found = page[p].found /\ m.drain = page[p].drain /\ m.current = page[p].current
        BY <1>0 DEF Page
    <2>2. page' = [page EXCEPT ![p] = n]
        BY <1>2 DEF RecoverEnd
    <2> HIDE DEF m
    <2>3. /\ n \in Page /\ n.recover = "fatto" /\ n.dead = page[p].dead
          /\ n.open = page[p].open /\ n.unsaved = page[p].unsaved /\ n.items = page[p].items
          /\ n.found = page[p].found /\ n.current = page[p].current
          /\ page[p].drain = "toglie" => n.drain = "toglie"
        BY <2>1, DrainedPage, DrainedGoesOn
    <2> HIDE DEF n
    <2>4. page'[p] = n
        BY <2>2, <2>3, PageBecomes DEF Orderly
    <2>5. page[p].dead = {}
        BY <1>2 DEF RecoverEnd, Calm, Recovery
    <2>6. CalmPage(p)
        BY <1>2, <2>3, <2>4, <2>5 DEF CalmPage, RecoverEnd
    <2> QED
        BY <1>2, <2>2, <2>3, <2>6, OnePageIsCalm DEF RecoverEnd
<1> QED
    BY <1>1, <1>2

LEMMA RecoverEnqueueIsCalm ==
    ASSUME Orderly, Calm, NEW p \in Pages, NEW r \in Recordings, RecoverEnqueue(p, r)
    PROVE  CalmStep
<1> DEFINE f == [page[p].found EXCEPT ![r] = {}]
           n == [page[p] EXCEPT !.found = f, !.recover = "butta", !.rescued = r]
           m == [page[p] EXCEPT !.found = f]
<1>0. CaptureTypeOK /\ page[p] \in Page /\ page[p].found \in [Recordings -> SUBSET Pieces]
    BY PageFields DEF Orderly
<1>1. f \in [Recordings -> SUBSET Pieces] /\ f[r] = {} /\ \A s \in Recordings : f[s] # {} => page[p].found[s] # {}
    BY <1>0
<1>2. /\ page[p].open /\ page[p].recover = "accoda" /\ page[p].found[r] # {}
      /\ UNCHANGED <<recorder, seen>>
      /\ \/ page' = [page EXCEPT ![p] = n] /\ Enqueue(r, page[p].found[r])
         \/ page' = [page EXCEPT ![p] = m] /\ UNCHANGED queue
    BY DEF RecoverEnqueue
<1> HIDE DEF f
<1>3. /\ n \in Page /\ n.found = f /\ n.dead = page[p].dead /\ n.recover = "butta" /\ n.rescued = r
      /\ n.open = page[p].open /\ n.unsaved = page[p].unsaved /\ n.items = page[p].items
      /\ n.drain = page[p].drain /\ n.current = page[p].current
    BY <1>0, <1>1 DEF Page
<1>4. /\ m \in Page /\ m.found = f /\ m.dead = page[p].dead /\ m.recover = page[p].recover
      /\ m.open = page[p].open /\ m.unsaved = page[p].unsaved /\ m.items = page[p].items
      /\ m.drain = page[p].drain /\ m.current = page[p].current
    BY <1>0, <1>1 DEF Page
<1> HIDE DEF n, m
<1>5. page[p].dead = {}
    BY <1>2 DEF Calm, Recovery
<1>6. CASE page' = [page EXCEPT ![p] = n] /\ Enqueue(r, page[p].found[r])
    <2>1. page'[p] = n
        BY <1>0, <1>3, <1>6, PageBecomes
    <2>2. CalmPage(p)
        BY <1>1, <1>2, <1>3, <1>5, <2>1 DEF CalmPage
    <2>3. \A s \in Recordings : s # r => queue'[s] = queue[s]
        BY <1>0, <1>6 DEF Enqueue, CaptureTypeOK
    <2>4. QueuedBy(r)
        BY <1>1, <1>2, <1>3, <2>1 DEF QueuedBy
    <2>5. Once(r) /\ recorder[r].page \in Pages
        BY <1>0 DEF Calm, CaptureTypeOK, Recorder
    <2>6. CalmRecording(r)
        BY <1>0, <1>2, <1>3, <1>6, <2>4, <2>5, PageBecomes DEF CalmRecording, Once
    <2> QED
        BY <1>2, <1>3, <1>6, <2>2, <2>3, <2>6, OnePageIsCalm
<1>7. CASE page' = [page EXCEPT ![p] = m] /\ UNCHANGED queue
    <2>1. page'[p] = m
        BY <1>0, <1>4, <1>7, PageBecomes
    <2>2. CalmPage(p)
        BY <1>1, <1>2, <1>4, <1>5, <2>1 DEF CalmPage
    <2> QED
        BY <1>2, <1>4, <1>7, <2>2, OnePageIsCalm
<1> QED
    BY <1>2, <1>6, <1>7

LEMMA RecoverDiscardIsCalm ==
    ASSUME Orderly, Calm, ~seen'.rough, NEW p \in Pages, RecoverDiscard(p)
    PROVE  CalmStep
<1> DEFINE r == page[p].rescued
           n == [page[p] EXCEPT !.recover = "accoda", !.rescued = NoRecording]
<1>0. CaptureTypeOK /\ page[p] \in Page
    BY DEF Orderly, CaptureTypeOK
<1>1. /\ page[p].open /\ page[p].recover = "butta" /\ r \in Recordings
      /\ page' = [page EXCEPT ![p] = n] /\ UNCHANGED <<queue, recorder>>
    BY DEF RecoverDiscard, Orderly, Resting
<1>2. seen' # [seen EXCEPT !.rough = TRUE]
    BY <1>0, SeenRough
<1>3. Discard(r) /\ seen' = [seen EXCEPT !.discarded = @ \cup {r}]
    BY <1>2 DEF RecoverDiscard
<1>4. draft'[r] = {} /\ seen'.uploads = seen.uploads
    BY <1>0, <1>1, <1>3, DiscardChangesOne, SeenDiscards
<1>5. /\ n \in Page /\ n.recover = "accoda" /\ n.dead = page[p].dead /\ n.found = page[p].found
      /\ n.open = page[p].open /\ n.unsaved = page[p].unsaved /\ n.items = page[p].items
      /\ n.drain = page[p].drain /\ n.current = page[p].current
    BY <1>0 DEF Page
<1> HIDE DEF n
<1>6. page'[p] = n /\ page[p].dead = {}
    BY <1>0, <1>1, <1>5, PageBecomes DEF Calm, Recovery
<1>7. CalmPage(p)
    BY <1>4, <1>5, <1>6 DEF CalmPage
<1> QED
    BY <1>1, <1>4, <1>5, <1>7, OnePageIsCalm

LEMMA DrainStepsAreCalm ==
    ASSUME Orderly, Calm, NEW p \in Pages, DrainList(p) \/ DrainEnd(p) \/ Riprova(p)
    PROVE  CalmStep
<1>0. page[p] \in Page /\ queue \in [Recordings -> Row]
    BY DEF Orderly, CaptureTypeOK
<1>1. CASE DrainList(p)
    <2> DEFINE n == [page[p] EXCEPT !.drain = "invia", !.items = Listed]
    <2>1. /\ Listed \in [Recordings -> SUBSET Pieces]
          /\ \A r \in Recordings : Listed[r] # {} => queue[r].in
        BY <1>0 DEF Listed, Row
    <2>2. page' = [page EXCEPT ![p] = n]
        BY <1>1 DEF DrainList
    <2>3. /\ n \in Page /\ n.items = Listed /\ n.dead = page[p].dead
          /\ n.open = page[p].open /\ n.unsaved = page[p].unsaved /\ n.recover = page[p].recover
          /\ n.rescued = page[p].rescued /\ n.found = page[p].found
        BY <1>0, <2>1 DEF Page
    <2> HIDE DEF n
    <2>4. page'[p] = n
        BY <2>2, <2>3, PageBecomes DEF Orderly
    <2>5. CalmPage(p)
        BY <1>1, <2>1, <2>3, <2>4 DEF CalmPage, DrainList
    <2> QED
        BY <1>1, <2>2, <2>3, <2>5, OnePageIsCalm DEF DrainList
<1>2. CASE DrainEnd(p)
    <2> DEFINE n == [page[p] EXCEPT !.drain = "fermo"]
    <2>1. page' = [page EXCEPT ![p] = n]
        BY <1>2 DEF DrainEnd
    <2>2. /\ n \in Page /\ n.items = page[p].items /\ n.dead = page[p].dead
          /\ n.open = page[p].open /\ n.unsaved = page[p].unsaved /\ n.recover = page[p].recover
          /\ n.rescued = page[p].rescued /\ n.found = page[p].found
        BY <1>0 DEF Page
    <2> HIDE DEF n
    <2>3. page'[p] = n
        BY <2>1, <2>2, PageBecomes DEF Orderly
    <2>4. CalmPage(p)
        BY <1>2, <2>2, <2>3 DEF CalmPage, DrainEnd
    <2> QED
        BY <1>2, <2>1, <2>2, <2>4, OnePageIsCalm DEF DrainEnd
<1>3. CASE Riprova(p)
    <2> DEFINE n == Drained(page[p])
    <2>1. page' = [page EXCEPT ![p] = n]
        BY <1>3 DEF Riprova
    <2>2. /\ n \in Page /\ n.items = page[p].items /\ n.dead = page[p].dead
          /\ n.open = page[p].open /\ n.unsaved = page[p].unsaved /\ n.recover = page[p].recover
          /\ n.rescued = page[p].rescued /\ n.found = page[p].found /\ n.current = page[p].current
          /\ page[p].drain = "toglie" => n.drain = "toglie"
        BY <1>0, DrainedPage, DrainedGoesOn
    <2> HIDE DEF n
    <2>3. page'[p] = n
        BY <2>1, <2>2, PageBecomes DEF Orderly
    <2>4. CalmPage(p)
        BY <2>2, <2>3 DEF CalmPage
    <2> QED
        BY <1>3, <2>1, <2>2, <2>4, OnePageIsCalm DEF Riprova
<1> QED
    BY <1>1, <1>2, <1>3

LEMMA UploadIsCalm ==
    ASSUME Orderly, Calm, ~seen'.rough, NEW p \in Pages, NEW r \in Recordings, Upload(p, r)
    PROVE  CalmStep
<1> DEFINE i == [page[p].items EXCEPT ![r] = {}]
           n == [page[p] EXCEPT !.items = i, !.current = r, !.drain = "toglie"]
           m == [page[p] EXCEPT !.items = i, !.current = r, !.drain = "segna"]
           v == [seen.uploads EXCEPT ![r] = IF @ < 2 THEN @ + 1 ELSE @]
<1>0. /\ CaptureTypeOK /\ page[p] \in Page /\ page[p].items \in [Recordings -> SUBSET Pieces]
      /\ seen \in SeenType
    BY PageFields, SeenFields DEF Orderly
<1>1. i \in [Recordings -> SUBSET Pieces] /\ i[r] = {} /\ \A s \in Recordings : i[s] # {} => page[p].items[s] # {}
    BY <1>0
<1>2. v \in [Recordings -> 0 .. 2] /\ (seen.uploads[r] = 0 => v[r] = 1)
      /\ \A s \in Recordings : s # r => v[s] = seen.uploads[s]
    BY <1>0 DEF SeenType
<1>3. /\ page[p].open /\ page[p].drain = "invia" /\ page[p].items[r] # {}
      /\ UNCHANGED <<queue, recorder>>
      /\ \/ page' = [page EXCEPT ![p] = n] /\ seen' = [seen EXCEPT !.uploads = v]
         \/ seen' = [seen EXCEPT !.uploads = v, !.rough = TRUE]
         \/ page' = [page EXCEPT ![p] = m] /\ UNCHANGED seen
    BY DEF Upload, Accepted
<1> HIDE DEF i, v
<1>4. seen' # [seen EXCEPT !.uploads = v, !.rough = TRUE]
    BY <1>0, <1>2 DEF SeenType
<1>5. /\ n \in Page /\ n.items = i /\ n.dead = page[p].dead /\ n.current = r /\ n.drain = "toglie"
      /\ n.open = page[p].open /\ n.unsaved = page[p].unsaved /\ n.recover = page[p].recover
      /\ n.rescued = page[p].rescued /\ n.found = page[p].found
    BY <1>0, <1>1 DEF Page
<1>6. /\ m \in Page /\ m.items = i /\ m.dead = page[p].dead
      /\ m.open = page[p].open /\ m.unsaved = page[p].unsaved /\ m.recover = page[p].recover
      /\ m.rescued = page[p].rescued /\ m.found = page[p].found
    BY <1>0, <1>1 DEF Page
<1> HIDE DEF n, m
<1>7. CASE page' = [page EXCEPT ![p] = n] /\ seen' = [seen EXCEPT !.uploads = v]
    <2>1. page'[p] = n /\ seen'.uploads = v
        BY <1>0, <1>5, <1>7, PageBecomes DEF SeenType
    <2>2. CalmPage(p)
        BY <1>1, <1>3, <1>5, <2>1 DEF CalmPage
    <2>3. SentBy(r)
        BY <1>1, <1>2, <1>3, <1>5, <2>1 DEF SentBy
    <2>4. Once(r) /\ recorder[r].page \in Pages
        BY <1>0 DEF Calm, CaptureTypeOK, Recorder
    <2>5. CalmRecording(r)
        BY <1>0, <1>3, <1>5, <1>7, <2>3, <2>4, PageBecomes DEF CalmRecording, Once
    <2> QED
        BY <1>2, <1>3, <1>5, <1>7, <2>1, <2>2, <2>5, OnePageIsCalm
<1>8. CASE page' = [page EXCEPT ![p] = m] /\ UNCHANGED seen
    <2>1. page'[p] = m
        BY <1>0, <1>6, <1>8, PageBecomes
    <2>2. CalmPage(p)
        BY <1>1, <1>3, <1>6, <2>1 DEF CalmPage
    <2> QED
        BY <1>3, <1>6, <1>8, <2>2, OnePageIsCalm
<1> QED
    BY <1>3, <1>4, <1>7, <1>8

LEMMA RemoveIsCalm ==
    ASSUME Orderly, Calm, ~seen'.rough, NEW p \in Pages, Remove(p)
    PROVE  CalmStep
<1> DEFINE r == page[p].current
           n == [page[p] EXCEPT !.drain = "invia", !.current = NoRecording]
<1>0. CaptureTypeOK /\ page[p] \in Page
    BY DEF Orderly, CaptureTypeOK
<1>1. seen' # [seen EXCEPT !.rough = TRUE]
    BY <1>0, SeenRough
<1>2. /\ page[p].open /\ page[p].drain = "toglie" /\ r \in Recordings
      /\ page' = [page EXCEPT ![p] = n] /\ queue' = [queue EXCEPT ![r] = NoRow]
      /\ UNCHANGED <<recorder, seen>>
    BY <1>1 DEF Remove, Orderly, Resting
<1>3. /\ n \in Page /\ n.items = page[p].items /\ n.dead = page[p].dead
      /\ n.open = page[p].open /\ n.unsaved = page[p].unsaved /\ n.recover = page[p].recover
      /\ n.rescued = page[p].rescued /\ n.found = page[p].found
    BY <1>0 DEF Page
<1> HIDE DEF n
<1>4. page'[p] = n
    BY <1>0, <1>2, <1>3, PageBecomes
<1>5. ~queue'[r].in /\ \A s \in Recordings : queue'[s].in => queue[s].in
    BY <1>0, <1>2 DEF CaptureTypeOK, NoRow
<1>6. CalmPage(p)
    BY <1>3, <1>4, <1>5 DEF CalmPage
<1> QED
    BY <1>2, <1>3, <1>5, <1>6, OnePageIsCalm

LEMMA MarkFailedIsCalm ==
    ASSUME Orderly, Calm, NEW p \in Pages, MarkFailed(p)
    PROVE  CalmStep
<1> DEFINE r == page[p].current
           n == [page[p] EXCEPT !.drain = "invia", !.current = NoRecording]
           m == [page[p] EXCEPT !.drain = "fermo", !.current = NoRecording, !.items = NoAudio]
<1>0. CaptureTypeOK /\ page[p] \in Page /\ NoAudio \in [Recordings -> SUBSET Pieces]
      /\ \A s \in Recordings : NoAudio[s] = {}
    BY PageFields DEF Orderly, NoAudio
<1>1. /\ page[p].open /\ page[p].drain = "segna"
      /\ queue' = [queue EXCEPT ![r] = Failed(@)] \/ UNCHANGED queue
      /\ page' = [page EXCEPT ![p] = n] \/ page' = [page EXCEPT ![p] = m]
      /\ UNCHANGED <<recorder, seen>>
    BY DEF MarkFailed
<1>2. /\ n \in Page /\ m \in Page
      /\ n.open = page[p].open /\ n.unsaved = page[p].unsaved /\ n.items = page[p].items
      /\ n.found = page[p].found /\ n.rescued = page[p].rescued /\ n.recover = page[p].recover
      /\ n.dead = page[p].dead
      /\ m.open = page[p].open /\ m.unsaved = page[p].unsaved /\ m.items = NoAudio
      /\ m.found = page[p].found /\ m.rescued = page[p].rescued /\ m.recover = page[p].recover
      /\ m.dead = page[p].dead
    BY <1>0 DEF Page
<1> HIDE DEF n, m
<1>3. page'[p] = n \/ page'[p] = m
    BY <1>0, <1>1, <1>2, PageBecomes
<1>4. CalmPage(p)
    BY <1>0, <1>1, <1>2, <1>3 DEF CalmPage
<1>5. queue \in [Recordings -> Row] /\ \A s \in Recordings : Failed(queue[s]).in = queue[s].in
    BY <1>0 DEF Failed, Row, CaptureTypeOK
<1>6. \A s \in Recordings : queue'[s].in = queue[s].in
    BY <1>1, <1>5
<1> QED
    BY <1>1, <1>2, <1>4, <1>6, OnePageIsCalm

LEMMA OnlineIsCalm ==
    ASSUME Orderly, Calm, GoOnline \/ GoOffline
    PROVE  CalmStep
<1>1. CASE GoOnline
    <2>1. UNCHANGED <<queue, recorder, seen>>
        BY <1>1 DEF GoOnline
    <2>2. ASSUME NEW p \in Pages
          PROVE  CalmPage(p) /\ page'[p].open = page[p].open
        <3> DEFINE n == [page[p] EXCEPT !.drain = "elenca"]
        <3>0. page[p] \in Page
            BY DEF Orderly, CaptureTypeOK
        <3>1. page'[p] = page[p] \/ (page[p].drain = "fermo" /\ page'[p] = n)
            BY <1>1 DEF GoOnline
        <3>2. /\ n.open = page[p].open /\ n.unsaved = page[p].unsaved /\ n.items = page[p].items
              /\ n.found = page[p].found /\ n.rescued = page[p].rescued
              /\ n.recover = page[p].recover /\ n.dead = page[p].dead
            BY <3>0 DEF Page
        <3> HIDE DEF n
        <3> QED
            BY <3>1, <3>2, PageIsCalm DEF CalmPage
    <2> QED
        BY <2>1, <2>2, RecordingIsCalm DEF CalmStep
<1>2. CASE GoOffline
    BY <1>2, RecordingIsCalm, PageIsCalm DEF GoOffline, CalmStep
<1> QED
    BY <1>1, <1>2

\* The steps of a page on the recording it makes.
LEMMA MakingIsCalm ==
    ASSUME Orderly, Calm, NEW p \in Pages, NEW n \in Page, page' = [page EXCEPT ![p] = n],
           page[p].open, n.open, CalmPage(p),
           NEW r \in Recordings, NEW c \in Recorder, recorder' = [recorder EXCEPT ![r] = c],
           c.page = p,
           c.toss = recorder[r].toss \/ ~recorder[r].closed,
           recorder[r].toss => c.toss,
           queue'[r].in => queue[r].in \/ QueuedBy(r),
           \A s \in Recordings : s # r => queue'[s] = queue[s],
           seen'.uploads = seen.uploads
    PROVE  CalmStep
<1>1. recorder'[r] = c /\ \A s \in Recordings : s # r => recorder'[s] = recorder[s]
    BY RecorderBecomes DEF Orderly
<1>2. page'[p] = n
    BY PageBecomes DEF Orderly
<1>3. CalmRecording(r)
    BY <1>1, <1>2 DEF CalmRecording
<1> QED
    BY <1>1, <1>3, OnePageIsCalm

LEMMA StartGrantedIsCalm ==
    ASSUME Orderly, Calm, NEW p \in Pages, NEW r \in Recordings, StartGranted(p, r)
    PROVE  CalmStep
<1> DEFINE n == [page[p] EXCEPT !.session = r]
           c == [recorder[r] EXCEPT !.mic = "viva"]
<1>0. page[p] \in Page /\ recorder[r] \in Recorder
    BY DEF Orderly, CaptureTypeOK
<1>1. /\ page[p].open /\ recorder[r].page = p
      /\ page' = [page EXCEPT ![p] = n] /\ recorder' = [recorder EXCEPT ![r] = c]
      /\ UNCHANGED <<queue, seen>>
    BY DEF StartGranted
<1>2. /\ n \in Page /\ n.open = page[p].open /\ n.unsaved = page[p].unsaved
      /\ n.dead = page[p].dead /\ n.recover = page[p].recover /\ n.rescued = page[p].rescued
      /\ n.found = page[p].found /\ n.items = page[p].items /\ n.drain = page[p].drain
      /\ n.current = page[p].current
    BY <1>0 DEF Page
<1>3. c \in Recorder /\ c.page = p /\ c.toss = recorder[r].toss
    BY <1>0, <1>1 DEF Recorder
<1> HIDE DEF n, c
<1>4. page'[p] = n
    BY <1>1, <1>2, PageBecomes DEF Orderly
<1>5. CalmPage(p)
    BY <1>2, <1>4 DEF CalmPage
<1> QED
    BY <1>1, <1>2, <1>3, <1>5, MakingIsCalm

LEMMA StopIsCalm ==
    ASSUME Orderly, Calm, NEW p \in Pages, Stop(p) \/ Cancel(p)
    PROVE  CalmStep
<1> DEFINE r == page[p].session
           n == [page[p] EXCEPT !.session = NoRecording, !.saving = r]
           m == [page[p] EXCEPT !.session = NoRecording]
<1>0. CaptureTypeOK /\ page[p] \in Page /\ Holding(p)
    BY DEF Orderly, Desk, CaptureTypeOK
<1>1. /\ page[p].open /\ r \in Recordings /\ r # NoRecording
      /\ UNCHANGED <<queue, seen>>
      /\ page' = [page EXCEPT ![p] = n] \/ page' = [page EXCEPT ![p] = m]
    BY <1>0 DEF Stop, Cancel, InCorso, Page
<1>2. PICK l \in Last(r) : \/ recorder' = [recorder EXCEPT ![r] = [l EXCEPT !.mic = "ferma"]]
                           \/ recorder' = [recorder EXCEPT ![r] = Butta([l EXCEPT !.mic = "ferma"])]
    BY DEF Stop, Cancel, Last
<1>3. recorder[r].page = p /\ ~recorder[r].closed
    BY <1>1 DEF Orderly, Desk, Holding, Making
<1>4. l \in Recorder /\ l.page = p /\ l.toss = recorder[r].toss
    BY <1>0, <1>1, <1>3, LastRecorder
<1> HIDE DEF r
<1> DEFINE c == [l EXCEPT !.mic = "ferma"]
           d == Butta(c)
<1>5. c \in Recorder /\ c.page = p /\ c.toss = recorder[r].toss
    BY <1>4 DEF Recorder
<1>6. recorder' = [recorder EXCEPT ![r] = c] \/ recorder' = [recorder EXCEPT ![r] = d]
    BY <1>2
<1> HIDE DEF c
<1>7. d \in Recorder /\ d.page = p /\ d.toss
    BY <1>5, ClosedRecorder
<1>8. /\ n \in Page /\ n.open = page[p].open /\ n.unsaved = page[p].unsaved
      /\ n.dead = page[p].dead /\ n.recover = page[p].recover /\ n.rescued = page[p].rescued
      /\ n.found = page[p].found /\ n.items = page[p].items /\ n.drain = page[p].drain
      /\ n.current = page[p].current
    BY <1>0, <1>1 DEF Page
<1>9. /\ m \in Page /\ m.open = page[p].open /\ m.unsaved = page[p].unsaved
      /\ m.dead = page[p].dead /\ m.recover = page[p].recover /\ m.rescued = page[p].rescued
      /\ m.found = page[p].found /\ m.items = page[p].items /\ m.drain = page[p].drain
      /\ m.current = page[p].current
    BY <1>0, <1>1 DEF Page
<1> HIDE DEF n, m, d
<1>10. CalmPage(p)
    <2>1. page'[p] = n \/ page'[p] = m
        BY <1>0, <1>1, <1>8, <1>9, PageBecomes
    <2> QED
        BY <1>8, <1>9, <2>1 DEF CalmPage
<1>11. PICK k \in {n, m} : page' = [page EXCEPT ![p] = k]
    BY <1>1
<1>12. PICK e \in {c, d} : recorder' = [recorder EXCEPT ![r] = e]
    BY <1>6
<1>13. k \in Page /\ k.open /\ e \in Recorder /\ e.page = p /\ (recorder[r].toss => e.toss)
    BY <1>1, <1>5, <1>7, <1>8, <1>9
<1> QED
    BY <1>1, <1>3, <1>10, <1>11, <1>12, <1>13, MakingIsCalm

LEMMA StopEnqueuedIsCalm ==
    ASSUME Orderly, Calm, NEW p \in Pages, StopEnqueued(p)
    PROVE  CalmStep
<1> DEFINE m == [page[p] EXCEPT !.saving = NoRecording]
           n == Drained(m)
<1>0. CaptureTypeOK /\ page[p] \in Page /\ Holding(p) /\ seen \in SeenType
    BY SeenFields DEF Orderly, Desk, CaptureTypeOK
<1>r. PICK r \in Recordings : r = page[p].saving
    BY <1>0 DEF StopEnqueued, Page
<1> DEFINE c == Butta(recorder[r])
<1>1. /\ page[p].open /\ Enqueue(r, Spoken(r))
      /\ recorder' = [recorder EXCEPT ![r] = c] /\ page' = [page EXCEPT ![p] = n]
      /\ seen' = [seen EXCEPT !.saved[r] = Spoken(r)]
    BY <1>r DEF StopEnqueued
<1>2. /\ recorder[r] \in Recorder /\ recorder[r].page = p /\ ~recorder[r].closed
      /\ Spoken(r) \in SUBSET Pieces
    BY <1>0, <1>r, NoRecordingAssumption, RecorderFields DEF Holding
<1>3. seen'.uploads = seen.uploads
    BY <1>0, <1>1 DEF SeenType
<1>4. /\ m \in Page /\ m.open = page[p].open /\ m.unsaved = page[p].unsaved
      /\ m.dead = page[p].dead /\ m.recover = page[p].recover /\ m.rescued = page[p].rescued
      /\ m.found = page[p].found /\ m.items = page[p].items /\ m.drain = page[p].drain
      /\ m.current = page[p].current
    BY <1>0 DEF Page
<1> HIDE DEF m
<1>5. /\ n \in Page /\ n.open = page[p].open /\ n.unsaved = page[p].unsaved
      /\ n.dead = page[p].dead /\ n.recover = page[p].recover /\ n.rescued = page[p].rescued
      /\ n.found = page[p].found /\ n.items = page[p].items /\ n.current = page[p].current
      /\ page[p].drain = "toglie" => n.drain = "toglie"
    BY <1>4, DrainedPage, DrainedGoesOn
<1>6. c \in Recorder /\ c.page = p /\ c.toss
    BY <1>2, ClosedRecorder
<1> HIDE DEF n, c
<1>7. page'[p] = n /\ recorder'[r] = c
    BY <1>0, <1>1, <1>5, <1>6, PageBecomes, RecorderBecomes
<1>8. CalmPage(p)
    BY <1>5, <1>7 DEF CalmPage
<1>9. QueuedBy(r)
    BY <1>2, <1>6, <1>7 DEF QueuedBy
<1>10. \A s \in Recordings : s # r => queue'[s] = queue[s]
    BY <1>0, <1>1, <1>2, EnqueueChangesOne
<1> QED
    BY <1>1, <1>2, <1>3, <1>5, <1>6, <1>8, <1>9, <1>10, MakingIsCalm

LEMMA StopRefusedIsCalm ==
    ASSUME Orderly, Calm, NEW p \in Pages, StopRefused(p)
    PROVE  CalmStep
<1>0. CaptureTypeOK /\ page[p] \in Page /\ Holding(p)
    BY DEF Orderly, Desk, CaptureTypeOK
<1>r. PICK r \in Recordings : r = page[p].saving
    BY <1>0 DEF StopRefused, Page
<1> DEFINE n == [page[p] EXCEPT !.saving = NoRecording, !.unsaved = r]
           c == Chiudi(recorder[r])
<1>1. /\ page[p].open
      /\ recorder' = [recorder EXCEPT ![r] = c] /\ page' = [page EXCEPT ![p] = n]
      /\ UNCHANGED <<queue, seen>>
    BY <1>r DEF StopRefused
<1>2. /\ recorder[r] \in Recorder /\ recorder[r].page = p /\ ~recorder[r].closed
    BY <1>0, <1>r, NoRecordingAssumption, RecorderFields DEF Holding
<1>3. /\ n \in Page /\ n.open = page[p].open /\ n.unsaved = r
      /\ n.dead = page[p].dead /\ n.recover = page[p].recover /\ n.rescued = page[p].rescued
      /\ n.found = page[p].found /\ n.items = page[p].items /\ n.drain = page[p].drain
      /\ n.current = page[p].current
    BY <1>0 DEF Page
<1>4. c \in Recorder /\ c.page = p /\ c.toss = recorder[r].toss
    BY <1>2, ClosedRecorder
<1> HIDE DEF n, c
<1>5. page'[p] = n
    BY <1>0, <1>1, <1>3, PageBecomes
<1>6. CalmPage(p)
    BY <1>1, <1>2, <1>3, <1>5 DEF CalmPage
<1> QED
    BY <1>1, <1>2, <1>3, <1>4, <1>6, MakingIsCalm

\* What the page kept for its user is tried again, or given up.
LEMMA RiscriviIsCalm ==
    ASSUME Orderly, Calm, ~seen'.rough, NEW p \in Pages, Riscrivi(p)
    PROVE  CalmStep
<1> DEFINE m == [page[p] EXCEPT !.unsaved = NoRecording]
           n == Drained(m)
<1>0. CaptureTypeOK /\ page[p] \in Page /\ seen \in SeenType
    BY SeenFields DEF Orderly, CaptureTypeOK
<1>r. PICK r \in Recordings : r = page[p].unsaved
    BY <1>0 DEF Riscrivi, Page
<1>1. seen' # [seen EXCEPT !.saved[r] = Spoken(r), !.rough = TRUE]
    BY <1>0 DEF SeenType
<1>2. /\ page[p].open /\ Answered(r) /\ Enqueue(r, Spoken(r)) /\ page' = [page EXCEPT ![p] = n]
      /\ UNCHANGED recorder /\ Discard(r)
      /\ seen' = [seen EXCEPT !.saved[r] = Spoken(r), !.discarded = @ \cup {r}]
    BY <1>r, <1>1 DEF Riscrivi
<1>3. Spoken(r) \in SUBSET Pieces
    BY <1>0, RecorderFields
<1>4. seen'.uploads = seen.uploads /\ draft'[r] = {}
    BY <1>0, <1>2, DiscardChangesOne DEF SeenType
<1>5. /\ m \in Page /\ m.open = page[p].open /\ m.unsaved = NoRecording
      /\ m.dead = page[p].dead /\ m.recover = page[p].recover /\ m.rescued = page[p].rescued
      /\ m.found = page[p].found /\ m.items = page[p].items /\ m.drain = page[p].drain
      /\ m.current = page[p].current
    BY <1>0 DEF Page
<1> HIDE DEF m
<1>6. /\ n \in Page /\ n.open = page[p].open /\ n.unsaved = NoRecording
      /\ n.dead = page[p].dead /\ n.recover = page[p].recover /\ n.rescued = page[p].rescued
      /\ n.found = page[p].found /\ n.items = page[p].items /\ n.current = page[p].current
      /\ page[p].drain = "toglie" => n.drain = "toglie"
    BY <1>5, DrainedPage, DrainedGoesOn
<1> HIDE DEF n
<1>7. page'[p] = n /\ \A q \in Pages : page[q].open => page'[q].open
    BY <1>0, <1>2, <1>6, PageBecomes
<1>8. CalmPage(p)
    BY <1>6, <1>7 DEF CalmPage
<1>9. QueuedBy(r)
    BY <1>r, <1>2, <1>4, <1>6, <1>7 DEF QueuedBy
<1>10. CalmRecording(r)
    <2>1. Once(r) /\ recorder[r].page \in Pages
        BY <1>0, RecorderFields DEF Calm
    <2> QED
        BY <2>1, <1>2, <1>4, <1>7, <1>9 DEF CalmRecording, Once
<1>11. \A s \in Recordings : s # r => queue'[s] = queue[s]
    BY <1>0, <1>2, <1>3, EnqueueChangesOne
<1> QED
    BY <1>2, <1>4, <1>6, <1>8, <1>10, <1>11, OnePageIsCalm

LEMMA ScartaIsCalm ==
    ASSUME Orderly, Calm, NEW p \in Pages, Scarta(p) \/ SvuotaCoda(p)
    PROVE  CalmStep
<1> DEFINE n == [page[p] EXCEPT !.unsaved = NoRecording]
<1>0. CaptureTypeOK /\ page[p] \in Page
    BY DEF Orderly, CaptureTypeOK
<1>1. /\ page[p].open /\ page' = [page EXCEPT ![p] = n] /\ UNCHANGED recorder
      /\ queue' = queue \/ queue' = [r \in Recordings |-> NoRow]
    BY DEF Scarta, SvuotaCoda, ClearQueue
<1>2. seen'.uploads = seen.uploads
    BY <1>0 DEF Scarta, SvuotaCoda, CaptureTypeOK
<1>3. /\ n \in Page /\ n.open = page[p].open /\ n.unsaved = NoRecording
      /\ n.dead = page[p].dead /\ n.recover = page[p].recover /\ n.rescued = page[p].rescued
      /\ n.found = page[p].found /\ n.items = page[p].items /\ n.drain = page[p].drain
      /\ n.current = page[p].current
    BY <1>0 DEF Page
<1> HIDE DEF n
<1>4. page'[p] = n
    BY <1>0, <1>1, <1>3, PageBecomes
<1>5. CalmPage(p)
    BY <1>3, <1>4 DEF CalmPage
<1>6. \A s \in Recordings : queue'[s].in => queue[s].in
    BY <1>1 DEF NoRow
<1> QED
    BY <1>1, <1>2, <1>3, <1>5, <1>6, OnePageIsCalm

LEMMA OpenIsCalm ==
    ASSUME Orderly, Calm, ~seen'.rough, NEW p \in Pages, Open(p)
    PROVE  CalmStep
<1> DEFINE n == [Closed EXCEPT !.open = TRUE, !.recover = "elenca", !.dead = Dead]
           b == seen.rough \/ \E o \in Pages : page[o].open
<1>0. CaptureTypeOK
    BY DEF Orderly
<1>1. /\ page' = [page EXCEPT ![p] = n] /\ seen' = [seen EXCEPT !.rough = b]
      /\ UNCHANGED <<queue, recorder>>
    BY DEF Open
<1>2. seen'.uploads = seen.uploads /\ seen'.rough = b
    <2>1. b \in BOOLEAN
        BY <1>0 DEF CaptureTypeOK
    <2> HIDE DEF b
    <2> QED
        BY <1>0, <1>1, <2>1, SeenRough
<1>3. \A o \in Pages : ~page[o].open
    BY <1>2
<1>4. Closed \in Page
    BY DEF Closed, Page, NoAudio
<1>5. /\ n \in Page /\ n.open /\ n.unsaved = NoRecording /\ n.drain = "fermo"
      /\ n.recover = "elenca" /\ n.dead = Dead /\ n.found = NoAudio /\ n.items = NoAudio
    BY <1>4 DEF Closed, Page, Dead
<1> HIDE DEF n, b
<1>6. page'[p] = n /\ \A q \in Pages : q # p => page'[q] = page[q]
    BY <1>0, <1>1, <1>5, PageBecomes
<1>7. CalmPage(p)
    <2>1. page[p].recover = "fatto" /\ page[p].drain = "fermo"
        BY <1>3, ClosedHoldsNothing
    <2> QED
        BY <1>3, <1>5, <1>6, <2>1 DEF CalmPage, NoAudio
<1>8. \A q \in Pages : CalmPage(q)
    BY <1>6, <1>7, PageIsCalm
<1>9. \A r \in Recordings : CalmRecording(r)
    BY <1>1, <1>2, <1>3, RecordingIsCalm
<1> QED
    BY <1>8, <1>9 DEF CalmStep

LEMMA CloseIsCalm ==
    ASSUME Orderly, Calm, ~seen'.rough, NEW p \in Pages, Close(p)
    PROVE  CalmStep
<1> DEFINE b == seen.rough \/ MidWork(p)
<1>0. CaptureTypeOK /\ page[p] \in Page
    BY DEF Orderly, CaptureTypeOK
<1>1. /\ page' = [page EXCEPT ![p] = Closed] /\ seen' = [seen EXCEPT !.rough = b]
      /\ UNCHANGED queue
    BY DEF Close
<1>2. seen'.uploads = seen.uploads /\ seen'.rough = b
    <2>1. b \in BOOLEAN
        BY <1>0 DEF CaptureTypeOK
    <2> HIDE DEF b
    <2> QED
        BY <1>0, <1>1, <2>1, SeenRough
<1>3. ~MidWork(p)
    BY <1>2
<1>4. /\ Closed \in Page /\ ~Closed.open /\ Closed.unsaved = NoRecording /\ Closed.dead = {}
      /\ \A r \in Recordings : Closed.found[r] = {} /\ Closed.items[r] = {}
    BY DEF Closed, Page, NoAudio
<1> HIDE DEF b
<1>5. page'[p] = Closed /\ \A q \in Pages : q # p => page'[q] = page[q]
    BY <1>0, <1>1, <1>4, PageBecomes
<1>6. page[p].recover # "butta" /\ page[p].drain # "toglie"
    BY <1>3, NoRecordingAssumption DEF MidWork, Orderly, Resting
<1>7. \A q \in Pages : CalmPage(q)
    <2>1. CalmPage(p)
        BY <1>4, <1>5, <1>6 DEF CalmPage
    <2> QED
        BY <1>5, <2>1, PageIsCalm
<1>8. ASSUME NEW r \in Recordings
      PROVE  CalmRecording(r)
    <2>1. recorder[r] \in Recorder /\ recorder[r].page \in Pages
        BY <1>0, RecorderFields
    <2>2. CASE recorder[r].page = p /\ recorder[r].mic # "mai"
        <3>1. ~recorder[r].toss
            BY <1>3, <2>2 DEF MidWork
        <3> DEFINE c == [recorder[r] EXCEPT !.mic = "ferma", !.reading = {}, !.pending = {},
                                            !.closed = TRUE, !.toss = FALSE]
        <3>2. recorder'[r] = c
            BY <2>2 DEF Close
        <3>3. c.page = p /\ ~c.toss
            BY <2>1, <2>2 DEF Recorder
        <3> HIDE DEF c
        <3> QED
            BY <1>1, <1>2, <3>1, <3>2, <3>3 DEF CalmRecording
    <2>3. CASE ~(recorder[r].page = p /\ recorder[r].mic # "mai")
        <3>1. recorder'[r] = recorder[r]
            BY <2>3 DEF Close
        <3>2. recorder[r].toss => recorder[r].page # p
            BY <1>3 DEF MidWork
        <3>3. Once(r)
            BY DEF Calm
        <3> QED
            BY <1>1, <1>2, <1>5, <2>1, <3>1, <3>2, <3>3 DEF CalmRecording, Once
    <2> QED
        BY <2>2, <2>3
<1> QED
    BY <1>7, <1>8 DEF CalmStep

LEMMA NextIsCalm ==
    ASSUME Orderly, Calm, ~seen'.rough, [Next]_vars
    PROVE  CalmStep
<1>1. ASSUME NEW p \in Pages,
             \/ Open(p) \/ RecoverList(p) \/ RecoverDiscard(p) \/ RecoverEnd(p)
             \/ DrainList(p) \/ Remove(p) \/ MarkFailed(p) \/ DrainEnd(p) \/ Riprova(p)
             \/ Stop(p) \/ StopEnqueued(p) \/ StopRefused(p) \/ Cancel(p)
             \/ Riscrivi(p) \/ Scarta(p) \/ SvuotaCoda(p) \/ Close(p)
      PROVE  CalmStep
    BY <1>1, OpenIsCalm, RecoveryStepsAreCalm, RecoverDiscardIsCalm, DrainStepsAreCalm,
       RemoveIsCalm, MarkFailedIsCalm, StopIsCalm, StopEnqueuedIsCalm, StopRefusedIsCalm,
       RiscriviIsCalm, ScartaIsCalm, CloseIsCalm
<1>2. ASSUME NEW p \in Pages, NEW r \in Recordings,
             RecoverEnqueue(p, r) \/ Upload(p, r) \/ StartAsk(p, r) \/ StartGranted(p, r)
      PROVE  CalmStep
    BY <1>2, RecoverEnqueueIsCalm, UploadIsCalm, RecorderStepsAreCalm, StartGrantedIsCalm
<1>3. ASSUME NEW r \in Recordings,
             Emit(r) \/ Toss(r) \/ FallSilent(r) \/ \E k \in Pieces : Pezzo(r, k) \/ Append(r, k)
      PROVE  CalmStep
    BY <1>3, RecorderStepsAreCalm
<1>4. CASE UNCHANGED vars
    <2>1. \A p \in Pages : CalmPage(p)
        BY <1>4, PageIsCalm DEF vars
    <2>2. \A r \in Recordings : CalmRecording(r)
        BY <1>4, RecordingIsCalm DEF vars
    <2> QED
        BY <2>1, <2>2 DEF CalmStep
<1> QED
    BY <1>1, <1>2, <1>3, <1>4, OnlineIsCalm DEF Next

\* What was lost once is not forgotten.
LEMMA RoughStays ==
    ASSUME Orderly, [Next]_vars, seen.rough
    PROVE  seen'.rough
<1>0. seen \in SeenType
    BY SeenFields DEF Orderly
<1>1. ASSUME NEW p \in Pages,
             \/ RecoverList(p) \/ RecoverDiscard(p) \/ RecoverEnd(p)
             \/ DrainList(p) \/ Remove(p) \/ MarkFailed(p) \/ DrainEnd(p) \/ Riprova(p)
             \/ Stop(p) \/ StopRefused(p) \/ Cancel(p)
      PROVE  seen'.rough
    BY <1>0, <1>1
       DEF SeenType, RecoverList, RecoverDiscard, RecoverEnd, DrainList, Remove, MarkFailed, DrainEnd,
           Riprova, Stop, StopRefused, Cancel
<1>2. ASSUME NEW p \in Pages, Open(p) \/ Close(p)
      PROVE  seen'.rough
    BY <1>0, <1>2 DEF SeenType, Open, Close
<1>3. ASSUME NEW p \in Pages,
             StopEnqueued(p) \/ Riscrivi(p) \/ Scarta(p) \/ SvuotaCoda(p)
      PROVE  seen'.rough
    BY <1>0, <1>3 DEF SeenType, StopEnqueued, Riscrivi, Scarta, SvuotaCoda
<1>4. ASSUME NEW p \in Pages, NEW r \in Recordings,
             RecoverEnqueue(p, r) \/ Upload(p, r) \/ StartAsk(p, r) \/ StartGranted(p, r)
      PROVE  seen'.rough
    BY <1>0, <1>4 DEF SeenType, RecoverEnqueue, Upload, Accepted, StartAsk, StartGranted
<1>5. ASSUME NEW r \in Recordings,
             Emit(r) \/ Toss(r) \/ FallSilent(r) \/ \E k \in Pieces : Pezzo(r, k) \/ Append(r, k)
      PROVE  seen'.rough
    BY <1>0, <1>5 DEF SeenType, Emit, Toss, FallSilent, Pezzo, Append
<1>6. CASE UNCHANGED vars \/ GoOnline \/ GoOffline
    BY <1>6 DEF vars, GoOnline, GoOffline
<1> QED
    BY <1>1, <1>2, <1>3, <1>4, <1>5, <1>6 DEF Next

LEMMA InitIsCalm ==
    ASSUME Init
    PROVE  Calm
<1>1. \A p \in Pages : ~page[p].open
    BY DEF Init, Closed
<1>2. Orderly
    BY InitHolds
<1>3. \A p \in Pages : Recovery(p)
    BY <1>1, <1>2, ClosedHoldsNothing DEF Recovery
<1>4. ASSUME NEW r \in Recordings
      PROVE  Once(r)
    <2>1. seen.uploads[r] = 0 /\ ~queue[r].in
        BY DEF Init, NoRow
    <2>2. ~recorder[r].toss
        BY DEF Init
    <2>3. ~Left(r)
        BY <1>1, <1>2, <2>1, ClosedHoldsNothing DEF Left
    <2> QED
        BY <2>1, <2>2, <2>3 DEF Once
<1> QED
    BY <1>1, <1>3, <1>4 DEF Calm, OnePage

------------------------------------------------------------------------------
(* On such a device the row of a recording is never replaced by less.       *)

\* What was put in the queue is whole wherever it counts, and nothing queues it again.
SavedInv(r) ==
    /\ seen.saved[r] \subseteq Spoken(r)
    /\ seen.saved[r] # {} => Gone(r)
    /\ seen.saved[r] \subseteq queue[r].audio \cup UNION server[r]
    /\ queue[r].in => seen.saved[r] \subseteq queue[r].audio
    /\ \A p \in Pages :
         /\ page[p].items[r] # {} => seen.saved[r] \subseteq page[p].items[r]
         /\ page[p].drain = "toglie" /\ page[p].current = r =>
               Gone(r) /\ seen.saved[r] \subseteq UNION server[r]

\* It is put there by who has it in memory: the stop, or the answer to the notice.
SavedMove(r) ==
    \/ seen'.saved[r] = seen.saved[r]
    \/ seen'.saved[r] = Spoken(r) /\ Stored(r) /\ ~Gone(r)

\* The two steps that save have the whole audio, and put it in the row.
LEMMA SavingMoves ==
    ASSUME Orderly, Orderly', NEW p \in Pages, StopEnqueued(p) \/ Riscrivi(p), NEW s \in Recordings
    PROVE  SavedMove(s)
<1>0. CaptureTypeOK /\ CaptureTypeOK' /\ page[p] \in Page /\ Holding(p)
    BY DEF Orderly, Desk, CaptureTypeOK
<1>1. CASE StopEnqueued(p)
    <2>r. PICK r \in Recordings : r = page[p].saving
        BY <1>0, <1>1 DEF StopEnqueued, Page
    <2>1. /\ Enqueue(r, Spoken(r)) /\ recorder' = [recorder EXCEPT ![r] = Butta(@)]
          /\ seen' = [seen EXCEPT !.saved[r] = Spoken(r)]
        BY <1>1, <2>r DEF StopEnqueued
    <2>2. recorder[r] \in Recorder /\ Spoken(r) \in SUBSET Pieces
        BY <1>0, RecorderFields
    <2>3. recorder'[r].closed /\ recorder'[r].made = recorder[r].made
        BY <1>0, <2>1, <2>2, ClosedRecorder DEF CaptureTypeOK
    <2>4. queue'[r] = Enqueued(r, Spoken(r))
        BY <1>0, <2>1, <2>2, EnqueueChangesOne
    <2>5. ~Gone(r)
        BY <1>0, <2>r, NoRecordingAssumption DEF Holding, Gone
    <2>6. seen'.saved = [seen.saved EXCEPT ![r] = Spoken(r)]
        BY <1>0, <2>1 DEF CaptureTypeOK
    <2> QED
        BY <1>0, <2>3, <2>4, <2>5, <2>6 DEF SavedMove, Stored, CaptureTypeOK
<1>2. CASE Riscrivi(p)
    <2>r. PICK r \in Recordings : r = page[p].unsaved
        BY <1>0, <1>2 DEF Riscrivi, Page
    <2>1. /\ Enqueue(r, Spoken(r)) /\ recorder' = recorder
          /\ \/ seen' = [seen EXCEPT !.saved[r] = Spoken(r), !.discarded = @ \cup {r}]
             \/ seen' = [seen EXCEPT !.saved[r] = Spoken(r), !.rough = TRUE]
        BY <1>2, <2>r DEF Riscrivi
    <2>2. recorder[r].closed /\ Spoken(r) \in SUBSET Pieces
        BY <1>0, <2>r, UnsavedIsClosed, RecorderFields
    <2>4. queue'[r] = Enqueued(r, Spoken(r))
        BY <1>0, <2>1, <2>2, EnqueueChangesOne
    <2>5. ~Gone(r)
        BY <2>r DEF Gone
    <2>6. seen'.saved = [seen.saved EXCEPT ![r] = Spoken(r)]
        BY <1>0, <2>1 DEF CaptureTypeOK
    <2> QED
        BY <1>0, <2>1, <2>2, <2>4, <2>5, <2>6 DEF SavedMove, Stored, CaptureTypeOK
<1> QED
    BY <1>1, <1>2

LEMMA EveryStepSaves ==
    ASSUME Orderly, Orderly', [Next]_vars, NEW s \in Recordings
    PROVE  SavedMove(s)
<1>0. seen \in SeenType
    BY SeenFields DEF Orderly
<1>1. ASSUME NEW p \in Pages,
             \/ RecoverList(p) \/ RecoverDiscard(p) \/ RecoverEnd(p)
             \/ DrainList(p) \/ Remove(p) \/ MarkFailed(p) \/ DrainEnd(p) \/ Riprova(p)
             \/ Stop(p) \/ StopRefused(p) \/ Cancel(p)
      PROVE  seen'.saved = seen.saved
    BY <1>0, <1>1
       DEF SeenType, RecoverList, RecoverDiscard, RecoverEnd, DrainList, Remove, MarkFailed, DrainEnd,
           Riprova, Stop, StopRefused, Cancel
<1>2. ASSUME NEW p \in Pages, Open(p) \/ Close(p) \/ Scarta(p) \/ SvuotaCoda(p)
      PROVE  seen'.saved = seen.saved
    BY <1>0, <1>2 DEF SeenType, Open, Close, Scarta, SvuotaCoda
<1>3. ASSUME NEW p \in Pages, StopEnqueued(p) \/ Riscrivi(p)
      PROVE  SavedMove(s)
    BY <1>3, SavingMoves
<1>4. ASSUME NEW p \in Pages, NEW r \in Recordings,
             RecoverEnqueue(p, r) \/ Upload(p, r) \/ StartAsk(p, r) \/ StartGranted(p, r)
      PROVE  seen'.saved = seen.saved
    BY <1>0, <1>4 DEF SeenType, RecoverEnqueue, Upload, Accepted, StartAsk, StartGranted
<1>5. ASSUME NEW r \in Recordings,
             Emit(r) \/ Toss(r) \/ FallSilent(r) \/ \E k \in Pieces : Pezzo(r, k) \/ Append(r, k)
      PROVE  seen'.saved = seen.saved
    BY <1>0, <1>5 DEF SeenType, Emit, Toss, FallSilent, Pezzo, Append
<1>6. ASSUME UNCHANGED vars \/ GoOnline \/ GoOffline
      PROVE  seen'.saved = seen.saved
    BY <1>6 DEF vars, GoOnline, GoOffline
<1>7. seen'.saved = seen.saved => SavedMove(s)
    BY DEF SavedMove
<1> QED
    BY <1>1, <1>2, <1>3, <1>4, <1>5, <1>6, <1>7 DEF Next

\* It stays whole while it waits, is listed, is sent and is removed.
LEMMA SavedStays ==
    ASSUME Orderly, Orderly', Moves, Calm, Calm', CalmStep, NEW r \in Recordings, SavedInv(r),
           seen'.saved[r] = seen.saved[r], r \notin given'
    PROVE  SavedInv(r)'
<1> DEFINE w == seen.saved[r]
<1>1. /\ Steady(r) /\ QueueMove(r) /\ \A p \in Pages : PageMove(p)
    BY DEF Moves, RecordingMove
<1>2. w \subseteq Spoken(r) /\ Spoken(r) \subseteq Spoken(r)'
    BY <1>1, SpokenGrows DEF SavedInv, Orderly
<1>3. Gone(r) => Gone(r)'
    BY GoneStays
<1>4. UNION server[r] \subseteq UNION server'[r]
    BY <1>1 DEF Steady
<1>5. ASSUME NEW p \in Pages, page'[p].items[r] # {}
      PROVE  w \subseteq page'[p].items[r]
    BY <1>1, <1>5 DEF SavedInv, PageMove
<1>6. ASSUME NEW p \in Pages, page'[p].drain = "toglie", page'[p].current = r
      PROVE  Gone(r)' /\ w \subseteq UNION server'[r]
    <2>1. CASE page[p].drain = "toglie" /\ page[p].current = r
        BY <2>1, <1>3, <1>4 DEF SavedInv
    <2>2. CASE page[p].items[r] # {} /\ page[p].items[r] \in server'[r]
        <3>1. Gone(r)
            BY <2>2 DEF Calm, Once, Left
        <3>2. w \subseteq page[p].items[r] /\ page[p].items[r] \subseteq UNION server'[r]
            BY <2>2 DEF SavedInv
        <3> QED
            BY <3>1, <3>2, <1>3
    <2> QED
        BY <2>1, <2>2, <1>1, <1>6 DEF PageMove
<1>7. /\ w \subseteq queue'[r].audio \cup UNION server'[r]
      /\ queue'[r].in => w \subseteq queue'[r].audio
    <2>1. CASE w = {}
        BY <2>1
    <2>2. CASE w # {}
        <3>1. Gone(r) /\ \A p \in Pages : page[p].found[r] = {}
            BY <2>2 DEF SavedInv, Gone
        <3>2. CASE queue'[r].in = queue[r].in /\ queue'[r].audio = queue[r].audio
            BY <3>2, <1>4 DEF SavedInv
        <3>3. CASE Stored(r)
            BY <3>3, <1>2 DEF Stored, Enqueued
        <3>4. ASSUME queue'[r] = NoRow, NEW p \in Pages, page[p].drain = "toglie", page[p].current = r
              PROVE  w \subseteq UNION server'[r] /\ ~queue'[r].in
            BY <3>4, <1>4 DEF SavedInv, NoRow
        <3>5. recorder[r].mic # "mai"
            BY <3>1 DEF Gone, Orderly, Desk, Making
        <3> QED
            BY <3>1, <3>2, <3>3, <3>4, <3>5, <1>1 DEF QueueMove
    <2> QED
        BY <2>1, <2>2
<1> QED
    BY <1>2, <1>3, <1>5, <1>6, <1>7 DEF SavedInv

\* What is saved was in no row, in no round and in no upload before.
LEMMA SavedBegins ==
    ASSUME WritesAreQuick, Orderly, Orderly', Moves, Calm, CalmStep, NEW r \in Recordings, SavedInv(r),
           seen'.saved[r] = Spoken(r), Stored(r), ~Gone(r)
    PROVE  SavedInv(r)'
<1>1. ~queue[r].in /\ \A p \in Pages : page[p].items[r] = {}
    BY DEF Calm, Once, Left
<1>2. queue'[r].in /\ queue'[r].audio = Spoken(r) /\ Spoken(r)' = Spoken(r)
    BY DEF Stored, Enqueued, Spoken
<1>3. Gone(r)'
    BY <1>1, <1>2, QueuedIsGone DEF CalmStep, CalmRecording
<1>4. ASSUME NEW p \in Pages
      PROVE  page'[p].items[r] = {}
    BY <1>1 DEF Moves, PageMove
<1>5. ASSUME NEW p \in Pages
      PROVE  ~(page'[p].drain = "toglie" /\ page'[p].current = r)
    BY <1>1 DEF Moves, PageMove, SavedInv
<1> QED
    BY <1>2, <1>3, <1>4, <1>5 DEF SavedInv

LEMMA SavedHolds ==
    ASSUME WritesAreQuick, Orderly, Orderly', Moves, Calm, Calm', CalmStep, [Next]_vars,
           \A r \in Recordings : r \notin given => SavedInv(r)
    PROVE  \A r \in Recordings : r \notin given' => SavedInv(r)'
<1> SUFFICES ASSUME NEW r \in Recordings, r \notin given'
             PROVE  SavedInv(r)'
    OBVIOUS
<1>1. SavedInv(r)
    BY DEF Moves, RecordingMove, Orderly, Desk, Making
<1>2. SavedMove(r)
    BY EveryStepSaves
<1> QED
    BY <1>1, <1>2, SavedStays, SavedBegins DEF SavedMove

\* On a device that never had two pages at once, lost no write and no answer and lost no page in
\* the middle of one, no recording is sent twice: neither the stop, nor the second try, nor the
\* recovery of its draft puts it in the queue again once it was there (bozze.ts, uploader.ts).
\* And so the whole audio that was put there stays there until it is sent or given up.
THEOREM CalmSendsAllOnce ==
    ASSUME WritesAreQuick
    PROVE  Spec => []CalmDeviceSendsAllOnce
<1> DEFINE J == \A r \in Recordings : r \notin given => SavedInv(r)
           I == Orderly /\ (~seen.rough => Calm /\ J)
<1>1. Init => I
    <2> SUFFICES ASSUME Init
                 PROVE  Orderly /\ Calm /\ J
        OBVIOUS
    <2>1. Orderly /\ Calm
        BY InitHolds, InitIsCalm
    <2>2. ASSUME NEW r \in Recordings
          PROVE  SavedInv(r)
        <3>1. seen.saved[r] = {} /\ \A p \in Pages : page[p].drain # "toglie"
            BY DEF Init, NoAudio, Closed
        <3> QED
            BY <3>1 DEF SavedInv
    <2> QED
        BY <2>1, <2>2
<1>2. I /\ [Next]_vars => I'
    <2> SUFFICES ASSUME I, [Next]_vars
                 PROVE  I'
        OBVIOUS
    <2>1. Orderly' /\ Moves
        BY OrderlyStays
    <2>2. ~seen'.rough => Calm /\ J
        BY RoughStays
    <2>3. ~seen'.rough => Calm' /\ CalmStep
        BY <2>1, <2>2, NextIsCalm, CalmStays
    <2>4. ~seen'.rough => J'
        BY <2>1, <2>2, <2>3, SavedHolds
    <2> QED
        BY <2>1, <2>3, <2>4
<1>3. I => CalmDeviceSendsAllOnce
    BY DEF Calm, Once, SavedInv, Kept, CalmDeviceSendsAllOnce
<1> HIDE DEF I
<1> QED
    BY <1>1, <1>2, <1>3, PTL DEF Spec
================================================================================
