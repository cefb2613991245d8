---------------------------- MODULE BridgeRotation ----------------------------
(***************************************************************************)
(* How the rotation of an instance advances: the bridge plugin leaves a    *)
(* marker file when a match ends, and the background task of the panel     *)
(* reads the marker, sends the upcoming map over RCON, takes it off the    *)
(* queue or turns the cycle, and removes the marker.  An operator can skip *)
(* to the next map and edit queue and cycle.                               *)
(*                                                                         *)
(* None of this awaits: once the panel's event loop has begun it, only the *)
(* game server, the plugin in it and the end of the panel's process come   *)
(* in between.  A step is what one commit, file operation or command does. *)
(***************************************************************************)
EXTENDS Naturals, Sequences, FiniteSets

CONSTANTS
    Ids,        \* instances
    Ahead,      \* Ahead[id]: those listed before id, as they were created
    Maps,       \* maps a rotation is made of
    NoMap,      \* nothing to play
    NoCycle,    \* no cycle was ever saved
    Cycles,     \* the cycles operators save
    Faults,     \* what may go wrong, a subset of FaultKinds
    MaxQueue,   \* bound on the queue of an instance
    MaxPast,    \* bound on the history of an instance
    MaxMatches  \* bound on the matches of an instance

FaultKinds == {"outage", "lost", "io", "unlink", "quick", "crash"}

ASSUME RotationAssumption ==
    /\ NoMap \notin Maps
    /\ Ahead \in [Ids -> SUBSET Ids]
    /\ \A id \in Ids : id \notin Ahead[id]
    /\ \A id \in Ids : \A i \in Ahead[id] : Ahead[i] \subseteq Ahead[id]
    /\ Cycles \subseteq Seq(Maps)
    /\ Faults \subseteq FaultKinds
    /\ MaxQueue \in Nat /\ MaxPast \in Nat /\ MaxMatches \in Nat

VARIABLES
    queue, cycle, past,     \* as in Rotation: three tables
    current,    \* the map the panel applied last
    told,       \* history: the server was told to play the upcoming map
    up,         \* the servers that answer RCON
    matches,    \* matches of an instance that have ended
    marker,     \* which of them the marker file is about, 0 when there is none
    processed,  \* the last one this process has handled, 0 when none
    left,       \* instances the background task has still to look at
    pc,         \* where the event loop is, "idle" between two handlers
    at, cmd,    \* instance and map of the transition under way
    held,       \* the match it is for, 0 when an operator asked for it
    done,       \* history: the matches the rotation has advanced for
    since       \* history: those of them since the panel was started

tables == <<queue, cycle, past>>
loop == <<processed, left, pc, at, cmd, held>>
advances == <<done, since>>
vars == <<tables, current, told, up, matches, marker, loop, advances>>

Contract == INSTANCE Rotation

TypeOK ==
    /\ queue \in [Ids -> Seq(Maps)]
    /\ cycle \in [Ids -> Seq(Maps) \cup {NoCycle}]
    /\ past \in [Ids -> SUBSET Seq(Maps)]
    /\ current \in [Ids -> Maps \cup {NoMap}]
    /\ told \in [Ids -> BOOLEAN]
    /\ up \subseteq Ids
    /\ matches \in [Ids -> 0..MaxMatches]
    /\ marker \in [Ids -> 0..MaxMatches]
    /\ processed \in [Ids -> 0..MaxMatches]
    /\ left \subseteq Ids
    /\ pc \in {"idle", "visit", "sent", "played", "popped", "marked"}
    /\ pc \notin {"idle", "visit"} => at \in Ids /\ cmd \in Maps
    /\ held \in 0..MaxMatches
    /\ done \in [Ids -> SUBSET (1..MaxMatches)]
    /\ since \in [Ids -> SUBSET (1..MaxMatches)]

Init ==
    /\ Contract!Init
    /\ current = [id \in Ids |-> NoMap]
    /\ up = Ids
    /\ matches = [id \in Ids |-> 0]
    /\ marker = [id \in Ids |-> 0]
    /\ processed = [id \in Ids |-> 0]
    /\ left = {}
    /\ pc = "idle"
    /\ at \in Ids
    /\ cmd = NoMap
    /\ held = 0
    /\ done = [id \in Ids |-> {}]
    /\ since = [id \in Ids |-> {}]

-----------------------------------------------------------------------------
\* The game server and the plugin in it.

Holding(id) == pc \in {"sent", "played", "popped", "marked"} /\ at = id

\* OnMatchFinished: the marker is written aside and moved over the old one.
MatchEnd(id) ==
    /\ matches[id] < MaxMatches
    /\ "quick" \in Faults \/ ~Holding(id)
    /\ matches' = [matches EXCEPT ![id] = @ + 1]
    /\ marker' = [marker EXCEPT ![id] = matches[id] + 1]
    /\ UNCHANGED <<tables, current, told, up, loop, advances>>

\* The server stops, starts, or does not listen for a while.
Toggle(id) ==
    /\ "outage" \in Faults
    /\ up' = (up \ {id}) \cup ({id} \ up)
    /\ UNCHANGED <<tables, current, told, matches, marker, loop, advances>>

-----------------------------------------------------------------------------
\* RotationStore.

Cycle(id) == IF cycle[id] = NoCycle THEN <<>> ELSE cycle[id]

Peek(id) ==
    IF queue[id] # <<>> THEN Head(queue[id])
    ELSE IF Cycle(id) # <<>> THEN Head(Cycle(id)) ELSE NoMap

NextCommand(id) ==
    IF queue[id] # <<>>
    THEN queue' = [queue EXCEPT ![id] = Tail(@)] /\ UNCHANGED cycle
    ELSE /\ cycle' = IF Cycle(id) = <<>> THEN cycle
                     ELSE [cycle EXCEPT ![id] = Append(Tail(@), Head(@))]
         /\ UNCHANGED queue

\* Mutant: handlers in worker threads.
Threads == TRUE

\* The panel's handlers run on its event loop, one at a time.
Free == pc = "idle"

\* What comes next is another map now, and the server was not told to play it.
Unplayed(id) == told' = [told EXCEPT ![id] = @ /\ queue[id] # <<>>]

Enqueue(id, map) ==
    /\ Free
    /\ Len(queue[id]) < MaxQueue
    /\ queue' = [queue EXCEPT ![id] = Append(@, map)]
    /\ Unplayed(id)
    /\ UNCHANGED <<cycle, past, current, up, matches, marker, loop, advances>>

ReplaceCycle(id, maps) ==
    /\ Free
    /\ cycle' = [cycle EXCEPT ![id] = maps]
    /\ past' = IF cycle[id] = NoCycle THEN past
               ELSE [past EXCEPT ![id] = @ \cup {cycle[id]}]
    /\ Cardinality(past'[id]) <= MaxPast
    /\ Unplayed(id)
    /\ UNCHANGED <<queue, current, up, matches, marker, loop, advances>>

Restore(id, maps) ==
    /\ maps \in past[id]
    /\ ReplaceCycle(id, maps)

-----------------------------------------------------------------------------
\* A transition: send the map, advance, remember, remove the marker.

\* Mutant: an empty rotation is not looked for.
BeginAnyway(id, match) ==
    /\ pc' = "sent"
    /\ at' = id
    /\ cmd' = Peek(id)
    /\ held' = match

Begin(id, match) ==
    /\ Peek(id) # NoMap
    /\ pc' = "sent"
    /\ at' = id
    /\ cmd' = Peek(id)
    /\ held' = match

\* next_map: an operator skips to the next map.
NextMap(id) ==
    /\ Free
    /\ Begin(id, 0)
    /\ UNCHANGED <<tables, current, told, up, matches, marker, processed, left, advances>>

Return == pc' = IF held = 0 THEN "idle" ELSE "visit"

\* The server executes the command.
Execute ==
    /\ pc = "sent"
    /\ at \in up
    /\ told' = [told EXCEPT ![at] = @ \/ cmd = Contract!Upcoming(at)]
    /\ UNCHANGED <<tables, current, up, matches, marker, processed, left, at, cmd, held, advances>>

Played == Execute /\ pc' = "played"

\* It does, but the answer does not come back in time.
ReplyLost == "lost" \in Faults /\ Execute /\ Return

\* Mutant: a marker that could not be acted on is removed.
NotPlayedRemoved ==
    /\ pc = "sent"
    /\ at \notin up
    /\ Return
    /\ marker' = [marker EXCEPT ![at] = 0]
    /\ UNCHANGED <<tables, current, told, up, matches, processed, left, at, cmd, held, advances>>

\* No connection, or the wrong password: the marker stays for the next round.
NotPlayed ==
    /\ pc = "sent"
    /\ at \notin up
    /\ Return
    /\ UNCHANGED <<tables, current, told, up, matches, marker, processed, left, at, cmd, held, advances>>

WithHeld(ms) == IF held = 0 THEN ms ELSE [ms EXCEPT ![at] = @ \cup {held}]

Advance ==
    /\ pc = "played"
    /\ NextCommand(at)
    /\ told' = [told EXCEPT ![at] = FALSE]
    /\ done' = WithHeld(done)
    /\ since' = WithHeld(since)
    /\ pc' = "popped"
    /\ UNCHANGED <<past, current, up, matches, marker, processed, left, at, cmd, held>>

MarkCurrent ==
    /\ pc = "popped"
    /\ current' = [current EXCEPT ![at] = cmd]
    /\ IF held = 0
       THEN pc' = "idle" /\ UNCHANGED processed
       ELSE pc' = "marked" /\ processed' = [processed EXCEPT ![at] = held]
    /\ UNCHANGED <<tables, told, up, matches, marker, left, at, cmd, held, advances>>

\* The file that is there, whatever match it is about.
Unlink(id) ==
    /\ marker' = [marker EXCEPT ![id] = 0]
    /\ pc' = "visit"

\* An exception leaves run: the other instances wait for the next round.
Abort(id) ==
    /\ "unlink" \in Faults
    /\ marker[id] # 0
    /\ pc' = "idle"
    /\ left' = {}
    /\ UNCHANGED marker

RemoveMarker ==
    /\ pc = "marked"
    /\ (Unlink(at) /\ UNCHANGED left) \/ Abort(at)
    /\ UNCHANGED <<tables, current, told, up, matches, processed, at, cmd, held, advances>>

-----------------------------------------------------------------------------
\* BridgeRotationRunner.run.

StartRun ==
    /\ Free
    /\ pc' = "visit"
    /\ left' = Ids
    /\ UNCHANGED <<tables, current, told, up, matches, marker, processed, at, cmd, held, advances>>

EndRun ==
    /\ pc = "visit"
    /\ left = {}
    /\ pc' = "idle"
    /\ UNCHANGED <<tables, current, told, up, matches, marker, processed, left, at, cmd, held, advances>>

\* The next instance of the list.
Visit(id) ==
    /\ pc = "visit"
    /\ id \in left
    /\ left \cap Ahead[id] = {}

\* Mutants: handled markers are not remembered; only that one was handled is.
SeenNone(id) == marker[id] = 0
SeenAny(id) == marker[id] = 0 \/ processed[id] # 0

\* No marker, or one that was handled and could not be removed.
Seen(id) == marker[id] = 0 \/ processed[id] = marker[id]

Skip(id) ==
    /\ Visit(id)
    /\ Seen(id)
    /\ left' = left \ {id}
    /\ UNCHANGED <<tables, current, told, up, matches, marker, processed, pc, at, cmd, held, advances>>

\* A marker that cannot be read is taken for an invalid one.
Discard(id) ==
    /\ "io" \in Faults
    /\ Visit(id)
    /\ marker[id] # 0
    /\ (Unlink(id) /\ left' = left \ {id}) \/ Abort(id)
    /\ UNCHANGED <<tables, current, told, up, matches, processed, at, cmd, held, advances>>

EmptyRotation(id) ==
    /\ Visit(id)
    /\ ~Seen(id)
    /\ Peek(id) = NoMap
    /\ processed' = [processed EXCEPT ![id] = marker[id]]
    /\ (Unlink(id) /\ left' = left \ {id}) \/ Abort(id)
    /\ UNCHANGED <<tables, current, told, up, matches, at, cmd, held, advances>>

Take(id) ==
    /\ Visit(id)
    /\ ~Seen(id)
    /\ Begin(id, marker[id])
    /\ left' = left \ {id}
    /\ UNCHANGED <<tables, current, told, up, matches, marker, processed, advances>>

\* The panel is killed or restarted: "processed" is only in its memory.
Crash ==
    /\ "crash" \in Faults
    /\ pc' = "idle"
    /\ left' = {}
    /\ processed' = [id \in Ids |-> 0]
    /\ since' = [id \in Ids |-> {}]
    /\ UNCHANGED <<tables, current, told, up, matches, marker, at, cmd, held, done>>

-----------------------------------------------------------------------------
Transition == Played \/ ReplyLost \/ NotPlayed \/ Advance \/ MarkCurrent \/ RemoveMarker

Look(id) == Skip(id) \/ Discard(id) \/ EmptyRotation(id) \/ Take(id)

Edit(id) ==
    \/ \E map \in Maps : Enqueue(id, map)
    \/ \E maps \in Cycles : ReplaceCycle(id, maps)
    \/ \E maps \in past[id] : Restore(id, maps)

Next ==
    \/ \E id \in Ids : MatchEnd(id) \/ Toggle(id) \/ Edit(id) \/ NextMap(id) \/ Look(id)
    \/ Transition
    \/ StartRun
    \/ EndRun
    \/ Crash

Spec == Init /\ [][Next]_vars

\* The event loop gets on with what it began.  That the background task comes
\* round again is not assumed: an exception before run is called may keep it
\* from that for ever (app.py:105, Maintenance).
Fairness == WF_vars(Transition \/ EndRun \/ \E id \in Ids : Look(id))

FairSpec == Spec /\ Fairness

-----------------------------------------------------------------------------
\* Whatever fails, the rotation keeps its promise: nothing leaves the queue
\* and the cycle does not turn before the server was told to play that very
\* map (BridgeRotationRunner.run, next_map).
RotationContract == Contract!Spec

\* For a match the rotation has advanced for, no map is sent again
\* (BridgeRotationRunner.run, _processed and the removal of the marker).
OncePerMatch ==
    pc \in {"sent", "played"} => held \notin done[at]

\* However often the panel is restarted, for one match it sends a map once in
\* each of its lives, and never for a match behind one the rotation has
\* advanced for, in whichever life (BridgeRotationRunner.run, _processed).
OncePerLife ==
    pc \in {"sent", "played"} /\ held # 0 =>
        /\ held \notin since[at]
        /\ \A match \in done[at] : match <= held

\* A marker that is removed was handled ("once for each bridge match-end
\* marker"), but for one that could not be read, and one that was moved over
\* the marker of an earlier match while that one's transition was under way
\* (BridgeRotationRunner.run).
MarkersHandled ==
    [][\A id \in Ids :
          marker[id] # 0 /\ marker'[id] = 0 =>
              \/ processed'[id] = marker[id]
              \/ Discard(id)
              \/ /\ pc = "marked" /\ at = id
                 /\ processed[id] = held /\ held < marker[id]]_vars

\* The marker of id can neither be read nor removed, and the round ends there.
Stuck(id) == Discard(id) /\ pc' = "idle"

\* A match end is handled, discarded, or replaced by the next one, as long as
\* the background task comes round, and from some time on the panel stays up,
\* the server answers RCON and neither its marker nor one ahead of it in the
\* list ends the round unread: a server that is down, a marker that is only not
\* removed, and no operator keep the task from it (BridgeRotationRunner.run).
MatchHandled ==
    []<><<StartRun>>_vars /\ <>[][~Crash]_vars =>
        \A id \in Ids, match \in 1..MaxMatches :
            /\ <>[](id \in up)
            /\ <>[][\A i \in Ahead[id] \cup {id} : ~Stuck(i)]_vars
            => (marker[id] = match ~> marker[id] # match \/ processed[id] = match)
-----------------------------------------------------------------------------
\* The inductive invariants of BridgeRotationProofs.

\* The map under way is the one that comes next, until the rotation advances.
NextInv ==
    /\ pc \in {"sent", "played"} => cmd = Peek(at)
    /\ pc = "played" => told[at]

\* A marker is about the latest match the rotation knows of.
StampInv ==
    \A id \in Ids :
        /\ marker[id] <= matches[id]
        /\ \A match \in done[id] :
              /\ match <= matches[id]
              /\ marker[id] # 0 => match <= marker[id]

\* It may have been overwritten since it was read.
HeldInv ==
    pc \in {"sent", "played", "popped"} /\ held # 0 =>
        /\ held <= matches[at]
        /\ marker[at] # 0 => held <= marker[at]
        /\ \A match \in done[at] : match <= held

\* As long as the panel lives, a marker it has advanced for is remembered.
SeenInv ==
    \A id \in Ids :
        /\ since[id] \subseteq done[id]
        /\ marker[id] \in since[id] =>
              \/ processed[id] = marker[id]
              \/ pc = "popped" /\ at = id /\ held = marker[id]

\* The marker that was read is still there, or that of a later match.
MarkerInv ==
    /\ pc \in {"sent", "played", "popped", "marked"} /\ held # 0 => held <= marker[at]
    /\ pc = "marked" => held # 0 /\ processed[at] = held

OnceInv == StampInv /\ HeldInv /\ SeenInv /\ OncePerLife
=============================================================================
