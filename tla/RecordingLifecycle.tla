-------------------------- MODULE RecordingLifecycle --------------------------
(***************************************************************************)
(* What the pipeline promises about one recording, without workers, time   *)
(* or retries: it is queued, one attempt at a time works on it, and the    *)
(* attempt either publishes the one card the recording will ever have,     *)
(* gives the recording back, parks it, or suspects a duplicate.            *)
(***************************************************************************)
EXTENDS Naturals

CONSTANT Recordings

VARIABLES phase, cards

lifecycleVars == <<phase, cards>>

Phase == {"absent", "queued", "working", "parked", "suspect", "published", "erased"}

LifecycleTypeOK ==
    /\ phase \in [Recordings -> Phase]
    /\ cards \in [Recordings -> Nat]

LifecycleInit ==
    /\ phase = [r \in Recordings |-> "absent"]
    /\ cards = [r \in Recordings |-> 0]

Move(r, from, to) ==
    /\ phase[r] \in from
    /\ phase' = [phase EXCEPT ![r] = to]

Enter(r) == Move(r, {"absent"}, "queued") /\ UNCHANGED cards
Take(r) == Move(r, {"queued", "parked"}, "working") /\ UNCHANGED cards
GiveBack(r) ==
    /\ \E to \in {"queued", "parked", "suspect"} : Move(r, {"working"}, to)
    /\ UNCHANGED cards
Publish(r) ==
    /\ Move(r, {"working"}, "published")
    /\ cards[r] = 0
    /\ cards' = [cards EXCEPT ![r] = 1]
Reopen(r) == Move(r, {"parked", "suspect"}, "queued") /\ UNCHANGED cards
Erase(r) ==
    /\ Move(r, {"queued", "parked", "suspect", "published"}, "erased")
    /\ UNCHANGED cards

LifecycleNext ==
    \E r \in Recordings :
        \/ Enter(r) \/ Take(r) \/ GiveBack(r)
        \/ Publish(r) \/ Reopen(r) \/ Erase(r)

LifecycleSpec == LifecycleInit /\ [][LifecycleNext]_lifecycleVars

==============================================================================
