------------------------------- MODULE Rotation -------------------------------
(***************************************************************************)
(* What the rotation of an instance promises, whoever advances it: one-time *)
(* maps are played first and in the order they were queued, then the cycle *)
(* turns; nothing leaves the queue and the cycle does not turn before the  *)
(* server was told to play the map; a cycle that was replaced can be       *)
(* restored.                                                               *)
(***************************************************************************)
EXTENDS Naturals, Sequences

CONSTANTS
    Ids,        \* instances
    Maps,       \* maps a rotation is made of
    Cycles,     \* the cycles operators save, sequences of maps
    NoMap,      \* nothing to play
    NoCycle     \* no cycle was ever saved

VARIABLES
    queue,      \* one-time maps of an instance, the next one first
    cycle,      \* the cycle of an instance, NoCycle before the first is saved
    past,       \* the cycles that were replaced
    told        \* the server was told to play the upcoming map

vars == <<queue, cycle, past, told>>

Turning(id) == cycle[id] \notin {NoCycle, <<>>}

Upcoming(id) ==
    IF queue[id] # <<>> THEN Head(queue[id])
    ELSE IF Turning(id) THEN Head(cycle[id]) ELSE NoMap

Init ==
    /\ queue = [id \in Ids |-> <<>>]
    /\ cycle = [id \in Ids |-> NoCycle]
    /\ past = [id \in Ids |-> {}]
    /\ told = [id \in Ids |-> FALSE]

\* Behind an empty queue another map comes next: it has not been played.
Unplayed(id) ==
    told' = [told EXCEPT ![id] = @ /\ queue[id] # <<>>]

Enqueue(id, map) ==
    /\ queue' = [queue EXCEPT ![id] = Append(@, map)]
    /\ Unplayed(id)
    /\ UNCHANGED <<cycle, past>>

Replace(id, maps) ==
    /\ cycle' = [cycle EXCEPT ![id] = maps]
    /\ past' = IF cycle[id] = NoCycle THEN past
               ELSE [past EXCEPT ![id] = @ \cup {cycle[id]}]
    /\ Unplayed(id)
    /\ UNCHANGED queue

Restore(id, maps) ==
    /\ maps \in past[id]
    /\ Replace(id, maps)

Tell(id) ==
    /\ Upcoming(id) # NoMap
    /\ told' = [told EXCEPT ![id] = TRUE]
    /\ UNCHANGED <<queue, cycle, past>>

Advance(id) ==
    /\ told[id]
    /\ IF queue[id] # <<>>
       THEN queue' = [queue EXCEPT ![id] = Tail(@)] /\ UNCHANGED cycle
       ELSE /\ Turning(id)
            /\ cycle' = [cycle EXCEPT ![id] = Append(Tail(@), Head(@))]
            /\ UNCHANGED queue
    /\ told' = [told EXCEPT ![id] = FALSE]
    /\ UNCHANGED past

Next ==
    \E id \in Ids :
        \/ \E map \in Maps : Enqueue(id, map)
        \/ \E maps \in Cycles : Replace(id, maps)
        \/ \E maps \in past[id] : Restore(id, maps)
        \/ Tell(id)
        \/ Advance(id)

Spec == Init /\ [][Next]_vars
=============================================================================
