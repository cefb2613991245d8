------------------------- MODULE BridgeRotationProofs -------------------------
(* What BridgeRotation does for every set of instances, maps and bounds. *)
EXTENDS BridgeRotation, TLAPS

\* One step per action; those that only change what the first group of
\* conjuncts of TypeOK is about are grouped with their like.
LEMMA InitType == ASSUME RotationAssumption PROVE Init => TypeOK
  BY DEF RotationAssumption, Init, Contract!Init, TypeOK

\* The map Peek finds is one of the rotation's.
LEMMA PeekType ==
  ASSUME TypeOK, NEW id \in Ids
  PROVE  Peek(id) \in Maps \cup {NoMap}
  <1>1. CASE queue[id] # <<>>
    <2>1. queue[id] \in Seq(Maps)
      BY DEF TypeOK
    <2>2. QED
      BY <1>1, <2>1 DEF Peek
  <1>2. CASE queue[id] = <<>> /\ Cycle(id) # <<>>
    <2>1. Cycle(id) \in Seq(Maps)
      BY <1>2 DEF TypeOK, Cycle
    <2>2. QED
      BY <1>2, <2>1 DEF Peek
  <1>3. QED
    BY <1>1, <1>2 DEF Peek

\* It is the one the contract calls the upcoming map.
LEMMA PeekUpcoming ==
  ASSUME NEW id \in Ids
  PROVE  Peek(id) = Contract!Upcoming(id)
  BY DEF Peek, Cycle, Contract!Upcoming, Contract!Turning

\* How an attempt to remove a marker ends.
LEMMA RemovalType ==
  ASSUME RotationAssumption, TypeOK, NEW id \in Ids, NEW rest \in SUBSET Ids,
         (Unlink(id) /\ left' = rest) \/ Abort(id)
  PROVE  /\ marker' \in [Ids -> 0..MaxMatches]
         /\ left' \subseteq Ids
         /\ pc' \in {"idle", "visit"}
  <1>1. 0 \in 0..MaxMatches
    BY DEF RotationAssumption
  <1>2. CASE Unlink(id) /\ left' = rest
    BY <1>1, <1>2 DEF Unlink, TypeOK
  <1>3. CASE Abort(id)
    BY <1>3 DEF Abort, TypeOK
  <1>4. QED
    BY <1>2, <1>3

\* Recording the match under way.
LEMMA WithHeldType ==
  ASSUME RotationAssumption, TypeOK, at \in Ids,
         NEW ms \in [Ids -> SUBSET (1..MaxMatches)]
  PROVE  WithHeld(ms) \in [Ids -> SUBSET (1..MaxMatches)]
  <1>1. CASE held = 0
    BY <1>1 DEF WithHeld
  <1>2. CASE held # 0
    <2>1. held \in 1..MaxMatches
      BY <1>2 DEF TypeOK, RotationAssumption
    <2>2. QED
      BY <1>2, <2>1 DEF WithHeld
  <1>3. QED
    BY <1>1, <1>2

\* The map that was sent is the current one, and its match is handled.
LEMMA MarkType ==
  ASSUME TypeOK, MarkCurrent
  PROVE  /\ current' \in [Ids -> Maps \cup {NoMap}]
         /\ processed' \in [Ids -> 0..MaxMatches]
         /\ pc' \in {"idle", "marked"}
  <1>1. at \in Ids /\ cmd \in Maps /\ held \in 0..MaxMatches
    BY DEF TypeOK, MarkCurrent
  <1>2. current \in [Ids -> Maps \cup {NoMap}] /\ processed \in [Ids -> 0..MaxMatches]
    BY DEF TypeOK
  <1>3. QED
    BY <1>1, <1>2 DEF MarkCurrent

\* A map is taken off the queue, or the cycle turns.
LEMMA NextType ==
  ASSUME TypeOK, NEW id \in Ids, NextCommand(id)
  PROVE  /\ queue' \in [Ids -> Seq(Maps)]
         /\ cycle' \in [Ids -> Seq(Maps) \cup {NoCycle}]
  <1>1. queue \in [Ids -> Seq(Maps)] /\ cycle \in [Ids -> Seq(Maps) \cup {NoCycle}]
    BY DEF TypeOK
  <1>2. queue[id] # <<>> => Tail(queue[id]) \in Seq(Maps)
    BY <1>1
  <1>3. queue' \in [Ids -> Seq(Maps)]
    BY <1>1, <1>2 DEF NextCommand
  <1>4. Cycle(id) # <<>> => cycle[id] \in Seq(Maps) /\ cycle[id] # <<>>
    BY <1>1 DEF Cycle
  <1>5. Cycle(id) # <<>> => Append(Tail(cycle[id]), Head(cycle[id])) \in Seq(Maps)
    BY <1>4
  <1>6. cycle' \in [Ids -> Seq(Maps) \cup {NoCycle}]
    BY <1>1, <1>5 DEF NextCommand
  <1>7. QED
    BY <1>3, <1>6

LEMMA TypeStep ==
  ASSUME RotationAssumption, TypeOK, [Next]_vars
  PROVE  TypeOK'
  <1> USE DEF TypeOK, advances
  <1>1. ASSUME NEW id \in Ids, MatchEnd(id)
        PROVE  TypeOK'
    BY <1>1 DEF MatchEnd, tables, loop, RotationAssumption
  <1>2. ASSUME NEW id \in Ids, Toggle(id)
        PROVE  TypeOK'
    BY <1>2 DEF Toggle, tables, loop
  <1>3. ASSUME NEW id \in Ids, NEW map \in Maps, Enqueue(id, map)
        PROVE  TypeOK'
    <2>1. Append(queue[id], map) \in Seq(Maps)
      OBVIOUS
    <2>2. queue' \in [Ids -> Seq(Maps)]
      BY <1>3, <2>1 DEF Enqueue
    <2>3. told' \in [Ids -> BOOLEAN]
      BY <1>3 DEF Enqueue, Unplayed
    <2>4. QED
      BY <1>3, <2>2, <2>3 DEF Enqueue, loop
  <1>4. ASSUME NEW id \in Ids, NEW maps \in Seq(Maps), ReplaceCycle(id, maps)
        PROVE  TypeOK'
    <2>1. cycle' \in [Ids -> Seq(Maps) \cup {NoCycle}]
      BY <1>4 DEF ReplaceCycle
    <2>2. past' \in [Ids -> SUBSET Seq(Maps)]
      BY <1>4 DEF ReplaceCycle
    <2>3. told' \in [Ids -> BOOLEAN]
      BY <1>4 DEF ReplaceCycle, Unplayed
    <2>4. QED
      BY <1>4, <2>1, <2>2, <2>3 DEF ReplaceCycle, loop
  <1>5. ASSUME NEW id \in Ids, NextMap(id)
        PROVE  TypeOK'
    BY <1>5, PeekType DEF NextMap, Begin, tables, RotationAssumption
  <1>6. CASE Played
    BY <1>6 DEF Played, Execute, tables
  <1>7. CASE ReplyLost
    BY <1>7 DEF ReplyLost, Execute, Return, tables
  <1>8. CASE NotPlayed
    BY <1>8 DEF NotPlayed, Return, tables
  <1>9. CASE Advance
    <2>1. at \in Ids
      BY <1>9 DEF Advance
    <2>2. /\ queue' \in [Ids -> Seq(Maps)]
          /\ cycle' \in [Ids -> Seq(Maps) \cup {NoCycle}]
      BY <1>9, <2>1, NextType DEF Advance
    <2>3. /\ done' \in [Ids -> SUBSET (1..MaxMatches)]
          /\ since' \in [Ids -> SUBSET (1..MaxMatches)]
      BY <1>9, <2>1, WithHeldType DEF Advance
    <2>4. told' \in [Ids -> BOOLEAN]
      BY <1>9, <2>1 DEF Advance
    <2>5. QED
      BY <1>9, <2>1, <2>2, <2>3, <2>4 DEF Advance
  <1>10. CASE MarkCurrent
    BY <1>10, MarkType DEF MarkCurrent, tables
  <1>11. CASE RemoveMarker
    <2>1. at \in Ids /\ left \in SUBSET Ids
      BY <1>11 DEF RemoveMarker
    <2>2. (Unlink(at) /\ left' = left) \/ Abort(at)
      BY <1>11 DEF RemoveMarker
    <2>3. /\ marker' \in [Ids -> 0..MaxMatches]
          /\ left' \subseteq Ids
          /\ pc' \in {"idle", "visit"}
      BY <2>1, <2>2, RemovalType
    <2>4. QED
      BY <1>11, <2>3 DEF RemoveMarker, tables
  <1>12. ASSUME NEW id \in Ids, Skip(id)
         PROVE  TypeOK'
    BY <1>12 DEF Skip, Visit, tables
  <1>13. ASSUME NEW id \in Ids, Discard(id)
         PROVE  TypeOK'
    <2>1. left \ {id} \in SUBSET Ids
      OBVIOUS
    <2>2. (Unlink(id) /\ left' = left \ {id}) \/ Abort(id)
      BY <1>13 DEF Discard
    <2>3. /\ marker' \in [Ids -> 0..MaxMatches]
          /\ left' \subseteq Ids
          /\ pc' \in {"idle", "visit"}
      BY <2>1, <2>2, RemovalType
    <2>4. QED
      BY <1>13, <2>3 DEF Discard, tables
  <1>14. ASSUME NEW id \in Ids, EmptyRotation(id)
         PROVE  TypeOK'
    <2>1. left \ {id} \in SUBSET Ids
      OBVIOUS
    <2>2. (Unlink(id) /\ left' = left \ {id}) \/ Abort(id)
      BY <1>14 DEF EmptyRotation
    <2>3. /\ marker' \in [Ids -> 0..MaxMatches]
          /\ left' \subseteq Ids
          /\ pc' \in {"idle", "visit"}
      BY <2>1, <2>2, RemovalType
    <2>4. QED
      BY <1>14, <2>3 DEF EmptyRotation, tables
  <1>15. ASSUME NEW id \in Ids, Take(id)
         PROVE  TypeOK'
    BY <1>15, PeekType DEF Take, Visit, Begin, tables, RotationAssumption
  <1>16. CASE StartRun
    BY <1>16 DEF StartRun, tables
  <1>17. CASE EndRun
    BY <1>17 DEF EndRun, tables
  <1>18. CASE Crash
    BY <1>18 DEF Crash, tables, RotationAssumption
  <1>19. CASE UNCHANGED vars
    BY <1>19 DEF vars, tables, loop
  <1>20. ASSUME NEW id \in Ids, Edit(id)
         PROVE  TypeOK'
    BY <1>20, <1>3, <1>4 DEF Edit, Restore, RotationAssumption
  <1>21. QED
    BY <1>1, <1>2, <1>5, <1>6, <1>7, <1>8, <1>9, <1>10, <1>11, <1>12, <1>13,
       <1>14, <1>15, <1>16, <1>17, <1>18, <1>19, <1>20
       DEF Next, Look, Transition

\* Every state has the type TypeOK states.
THEOREM RotationTyped == Spec => []TypeOK
  <1> USE RotationAssumption
  <1>1. QED
    BY InitType, TypeStep, PTL DEF Spec

-----------------------------------------------------------------------------
\* The rotation's promise is kept.

\* Nothing but the steps of a transition changes what comes next while it is
\* under way.
LEMMA NextStep ==
  ASSUME RotationAssumption, TypeOK, NextInv, [Next]_vars
  PROVE  NextInv'
  <1> USE DEF NextInv
  <1>1. ASSUME NEW id \in Ids, MatchEnd(id)
        PROVE  NextInv'
    BY <1>1 DEF MatchEnd, tables, loop, Peek, Cycle
  <1>2. ASSUME NEW id \in Ids, Toggle(id)
        PROVE  NextInv'
    BY <1>2 DEF Toggle, tables, loop, Peek, Cycle
  <1>3. ASSUME NEW id \in Ids, Edit(id)
        PROVE  NextInv'
    BY <1>3 DEF Edit, Enqueue, Restore, ReplaceCycle, Free, loop
  <1>4. ASSUME NEW id \in Ids, NextMap(id)
        PROVE  NextInv'
    BY <1>4 DEF NextMap, Begin, tables, Peek, Cycle
  <1>5. CASE Played
    <2>1. cmd = Contract!Upcoming(at) /\ at \in Ids
      BY <1>5, PeekUpcoming DEF Played, Execute, TypeOK
    <2>2. told'[at]
      BY <1>5, <2>1 DEF Played, Execute, TypeOK
    <2>3. QED
      BY <1>5, <2>2 DEF Played, Execute, tables, Peek, Cycle
  <1>6. CASE ReplyLost \/ NotPlayed \/ MarkCurrent \/ RemoveMarker
    BY <1>6 DEF ReplyLost, Execute, NotPlayed, Return, MarkCurrent, RemoveMarker, Unlink, Abort
  <1>7. CASE Advance
    BY <1>7 DEF Advance
  <1>8. ASSUME NEW id \in Ids, Skip(id) \/ Discard(id) \/ EmptyRotation(id)
        PROVE  NextInv'
    BY <1>8 DEF Skip, Discard, EmptyRotation, Visit, Unlink, Abort
  <1>9. ASSUME NEW id \in Ids, Take(id)
        PROVE  NextInv'
    BY <1>9 DEF Take, Visit, Begin, tables, Peek, Cycle
  <1>10. CASE StartRun \/ EndRun \/ Crash
    BY <1>10 DEF StartRun, EndRun, Crash
  <1>11. CASE UNCHANGED vars
    BY <1>11 DEF vars, tables, loop, Peek, Cycle
  <1>12. QED
    BY <1>1, <1>2, <1>3, <1>4, <1>5, <1>6, <1>7, <1>8, <1>9, <1>10, <1>11
       DEF Next, Look, Transition

\* Every step is one of the contract's or leaves its variables alone.
LEMMA ContractStep ==
  ASSUME RotationAssumption, TypeOK, NextInv, [Next]_vars
  PROVE  [Contract!Next]_(Contract!vars)
  <1> USE DEF Contract!vars
  <1>1. ASSUME NEW id \in Ids, MatchEnd(id) \/ Toggle(id) \/ NextMap(id) \/ Look(id)
        PROVE  UNCHANGED Contract!vars
    BY <1>1 DEF MatchEnd, Toggle, NextMap, Look, Skip, Discard, EmptyRotation, Take, tables
  <1>2. ASSUME NEW id \in Ids, NEW map \in Maps, Enqueue(id, map)
        PROVE  Contract!Next
    <2>1. Contract!Enqueue(id, map)
      BY <1>2 DEF Enqueue, Unplayed, Contract!Enqueue, Contract!Unplayed
    <2>2. QED
      BY <2>1 DEF Contract!Next
  <1>3. ASSUME NEW id \in Ids, NEW maps, ReplaceCycle(id, maps)
        PROVE  Contract!Replace(id, maps)
    BY <1>3 DEF ReplaceCycle, Unplayed, Contract!Replace, Contract!Unplayed
  <1>4. ASSUME NEW id \in Ids, Edit(id)
        PROVE  Contract!Next
    BY <1>2, <1>3, <1>4 DEF Edit, Restore, Contract!Restore, Contract!Next
  <1>5. CASE Played \/ ReplyLost
    <2>1. at \in Ids /\ Contract!Upcoming(at) = cmd /\ cmd # NoMap
      BY <1>5, PeekUpcoming DEF Played, ReplyLost, Execute, TypeOK, NextInv, RotationAssumption
    <2>2. Contract!Tell(at)
      BY <1>5, <2>1 DEF Played, ReplyLost, Execute, tables, TypeOK, Contract!Tell
    <2>3. QED
      BY <2>1, <2>2 DEF Contract!Next
  <1>6. CASE Advance
    <2>1. at \in Ids /\ told[at] /\ Peek(at) # NoMap
      BY <1>6 DEF Advance, TypeOK, NextInv, RotationAssumption
    <2>2. queue[at] = <<>> => Cycle(at) # <<>> /\ Contract!Turning(at)
      BY <2>1 DEF Peek, Cycle, Contract!Turning
    <2>3. Contract!Advance(at)
      BY <1>6, <2>1, <2>2 DEF Advance, NextCommand, Contract!Advance
    <2>4. QED
      BY <2>1, <2>3 DEF Contract!Next
  <1>7. CASE NotPlayed \/ MarkCurrent \/ RemoveMarker \/ StartRun \/ EndRun \/ Crash
    BY <1>7 DEF NotPlayed, MarkCurrent, RemoveMarker, StartRun, EndRun, Crash, tables
  <1>8. CASE UNCHANGED vars
    BY <1>8 DEF vars, tables
  <1>9. QED
    BY <1>1, <1>4, <1>5, <1>6, <1>7, <1>8 DEF Next, Transition

\* The steps of the panel, the plugin and the server, with every fault, are
\* steps of Rotation: nothing leaves the queue and the cycle does not turn
\* before the server was told to play that very map.
THEOREM PromiseKept == Spec => RotationContract
  <1> USE RotationAssumption
  <1>1. Init => TypeOK /\ NextInv /\ Contract!Init
    BY InitType DEF Init, NextInv
  <1>2. TypeOK /\ NextInv /\ [Next]_vars => TypeOK' /\ NextInv'
    BY TypeStep, NextStep
  <1>3. TypeOK /\ NextInv /\ [Next]_vars => [Contract!Next]_(Contract!vars)
    BY ContractStep
  <1>4. QED
    BY <1>1, <1>2, <1>3, PTL DEF Spec, RotationContract, Contract!Spec

-----------------------------------------------------------------------------
\* A match is advanced for once in a life of the panel.

\* Steps that leave alone what OnceInv is about, but for where the loop is.
Still == UNCHANGED <<matches, marker, processed, held, advances>>

LEMMA StillOnce ==
  ASSUME TypeOK, OnceInv, Still,
         \/ pc' \in {"idle", "visit"} /\ pc # "popped"
         \/ pc' \in {"idle", "visit"} /\ held = 0
         \/ pc' = pc /\ at' = at
         \/ pc = "sent" /\ pc' = "played" /\ at' = at
  PROVE  OnceInv'
  BY DEF OnceInv, Still, advances, TypeOK, StampInv, HeldInv, SeenInv, OncePerLife

\* Removing a marker that is handled, or failing to.
LEMMA RemovalOnce ==
  ASSUME RotationAssumption, TypeOK, OnceInv, NEW id \in Ids,
         Unlink(id) \/ (Abort(id) /\ processed'[id] = marker[id]),
         pc \in {"visit", "marked"},
         processed' \in {processed, [processed EXCEPT ![id] = marker[id]]},
         UNCHANGED <<matches, held, advances>>
  PROVE  OnceInv'
  <1> USE DEF OnceInv, TypeOK, advances
  <1>1. pc' \in {"idle", "visit"}
    BY DEF Unlink, Abort
  <1>2. marker' \in {marker, [marker EXCEPT ![id] = 0]}
    BY DEF Unlink, Abort
  <1>3. StampInv'
    <2>1. \A j \in Ids : marker'[j] \in {0, marker[j]} /\ matches[j] \in Nat
      BY <1>2 DEF RotationAssumption
    <2>2. QED
      BY <2>1 DEF StampInv
  <1>4. HeldInv' /\ OncePerLife'
    BY <1>1 DEF HeldInv, OncePerLife
  <1>5. SeenInv'
    <2>1. ASSUME NEW j \in Ids, marker'[j] \in since[j]
          PROVE  processed'[j] = marker'[j]
      <3>1. marker'[j] # 0
        BY <2>1
      <3>2. marker'[j] = marker[j]
        BY <3>1, <1>2
      <3>3. processed[j] = marker[j]
        BY <2>1, <3>2 DEF SeenInv
      <3>4. QED
        BY <3>2, <3>3
    <2>2. QED
      BY <2>1 DEF SeenInv
  <1>6. QED
    BY <1>3, <1>4, <1>5

LEMMA OnceInductive ==
  ASSUME RotationAssumption, TypeOK, OnceInv, [Next]_vars
  PROVE  OnceInv'
  <1> USE DEF advances
  <1>1. ASSUME NEW id \in Ids, MatchEnd(id)
        PROVE  OnceInv'
    <2>1. /\ marker' = [marker EXCEPT ![id] = matches[id] + 1]
          /\ matches' = [matches EXCEPT ![id] = @ + 1]
          /\ UNCHANGED <<processed, pc, at, held, advances>>
      BY <1>1 DEF MatchEnd, loop
    <2>2. matches[id] + 1 \notin done[id]
      BY DEF OnceInv, StampInv, TypeOK
    <2>3. StampInv'
      BY <2>1 DEF OnceInv, StampInv, TypeOK
    <2>4. HeldInv'
      BY <2>1 DEF OnceInv, HeldInv, TypeOK
    <2>5. SeenInv'
      BY <2>1, <2>2 DEF OnceInv, SeenInv, TypeOK
    <2>6. OncePerLife'
      BY <2>1 DEF OnceInv, OncePerLife
    <2>7. QED
      BY <2>3, <2>4, <2>5, <2>6 DEF OnceInv
  <1>2. ASSUME NEW id \in Ids, Toggle(id) \/ Edit(id)
        PROVE  OnceInv'
    BY <1>2, StillOnce
       DEF Toggle, Edit, Enqueue, Restore, ReplaceCycle, loop, Still
  <1>3. ASSUME NEW id \in Ids, NextMap(id)
        PROVE  OnceInv'
    BY <1>3 DEF NextMap, Begin, Free, OnceInv, StampInv, HeldInv, SeenInv, OncePerLife, TypeOK
  <1>4. CASE Played \/ ReplyLost \/ NotPlayed
    BY <1>4, StillOnce DEF Played, ReplyLost, NotPlayed, Execute, Return, Still
  <1>5. CASE Advance
    <2>1. /\ at \in Ids
          /\ pc = "played" /\ pc' = "popped"
          /\ done' = WithHeld(done) /\ since' = WithHeld(since)
          /\ UNCHANGED <<matches, marker, processed, at, held>>
      BY <1>5 DEF Advance, TypeOK
    <2>2. CASE held = 0
      BY <2>1, <2>2 DEF WithHeld, OnceInv, StampInv, HeldInv, SeenInv, OncePerLife, TypeOK
    <2>3. CASE held # 0
      <3>1. StampInv'
        BY <2>1, <2>3 DEF WithHeld, OnceInv, StampInv, HeldInv, TypeOK
      <3>2. HeldInv'
        BY <2>1, <2>3 DEF WithHeld, OnceInv, HeldInv, TypeOK
      <3>3. SeenInv'
        BY <2>1, <2>3 DEF WithHeld, OnceInv, SeenInv, TypeOK
      <3>4. OncePerLife'
        BY <2>1 DEF OncePerLife
      <3>5. QED
        BY <3>1, <3>2, <3>3, <3>4 DEF OnceInv
    <2>4. QED
      BY <2>2, <2>3
  <1>6. CASE MarkCurrent
    <2>1. /\ at \in Ids
          /\ pc = "popped"
          /\ UNCHANGED <<matches, marker, held, advances>>
      BY <1>6 DEF MarkCurrent, TypeOK
    <2>2. CASE held = 0
      BY <1>6, <2>1, <2>2, StillOnce DEF MarkCurrent, Still
    <2>3. CASE held # 0
      <3>1. pc' = "marked" /\ processed' = [processed EXCEPT ![at] = held]
        BY <1>6, <2>3 DEF MarkCurrent
      <3>2. marker[at] \in since[at] => marker[at] = held
        BY <2>1, <2>3 DEF OnceInv, HeldInv, SeenInv, TypeOK
      <3>3. SeenInv'
        BY <2>1, <3>1, <3>2 DEF OnceInv, SeenInv, TypeOK
      <3>4. QED
        BY <2>1, <3>1, <3>3 DEF OnceInv, StampInv, HeldInv, OncePerLife
    <2>4. QED
      BY <2>2, <2>3
  <1>7. CASE RemoveMarker
    <2>1. at \in Ids /\ pc = "marked" /\ UNCHANGED <<matches, processed, held, advances>>
      BY <1>7 DEF RemoveMarker, TypeOK
    <2>2. CASE Unlink(at)
      BY <2>1, <2>2, RemovalOnce
    <2>3. CASE Abort(at)
      BY <2>1, <2>3, StillOnce DEF Abort, Still
    <2>4. QED
      BY <1>7, <2>2, <2>3 DEF RemoveMarker
  <1>8. ASSUME NEW id \in Ids, Skip(id)
        PROVE  OnceInv'
    BY <1>8, StillOnce DEF Skip, Visit, Still
  <1>9. ASSUME NEW id \in Ids, Discard(id)
        PROVE  OnceInv'
    <2>1. pc = "visit" /\ UNCHANGED <<matches, processed, held, advances>>
      BY <1>9 DEF Discard, Visit
    <2>2. CASE Unlink(id)
      BY <2>1, <2>2, RemovalOnce
    <2>3. CASE Abort(id)
      BY <2>1, <2>3, StillOnce DEF Abort, Still
    <2>4. QED
      BY <1>9, <2>2, <2>3 DEF Discard
  <1>10. ASSUME NEW id \in Ids, EmptyRotation(id)
         PROVE  OnceInv'
    <2>1. /\ pc = "visit"
          /\ processed' = [processed EXCEPT ![id] = marker[id]]
          /\ UNCHANGED <<matches, held, advances>>
      BY <1>10 DEF EmptyRotation, Visit
    <2>2. processed'[id] = marker[id]
      BY <2>1 DEF TypeOK
    <2>3. QED
      BY <1>10, <2>1, <2>2, RemovalOnce DEF EmptyRotation
  <1>11. ASSUME NEW id \in Ids, Take(id)
         PROVE  OnceInv'
    <2>1. /\ pc = "visit" /\ pc' = "sent" /\ at' = id /\ held' = marker[id]
          /\ UNCHANGED <<matches, marker, processed, advances>>
      BY <1>11 DEF Take, Visit, Begin
    <2>2. marker[id] \notin since[id]
      BY <1>11, <2>1 DEF Take, Seen, OnceInv, SeenInv
    <2>3. QED
      BY <2>1, <2>2 DEF OnceInv, StampInv, HeldInv, SeenInv, OncePerLife, TypeOK
  <1>12. CASE StartRun \/ EndRun
    BY <1>12, StillOnce DEF StartRun, EndRun, Free, Still
  <1>13. CASE UNCHANGED vars
    BY <1>13, StillOnce DEF vars, loop, Still
  <1>14. CASE Crash
    BY <1>14 DEF Crash, OnceInv, StampInv, HeldInv, SeenInv, OncePerLife, TypeOK
  <1>15. QED
    BY <1>1, <1>2, <1>3, <1>4, <1>5, <1>6, <1>7, <1>8, <1>9, <1>10, <1>11,
       <1>12, <1>13, <1>14 DEF Next, Look, Transition

\* Within one life of the panel no map is sent twice for a match, and none for
\* a match behind one that any life has advanced for: also when the marker
\* cannot be removed, is overwritten while it is being handled, cannot be read,
\* or the answer to an earlier attempt was lost, and wherever the panel ends.
THEOREM AdvancedOncePerLife == Spec => []OncePerLife
  <1> USE RotationAssumption
  <1>1. Init => TypeOK /\ OnceInv
    BY InitType DEF Init, OnceInv, StampInv, HeldInv, SeenInv, OncePerLife
  <1>2. TypeOK /\ OnceInv /\ [Next]_vars => TypeOK' /\ OnceInv'
    BY TypeStep, OnceInductive
  <1>3. OnceInv => OncePerLife
    BY DEF OnceInv
  <1>4. QED
    BY <1>1, <1>2, <1>3, PTL DEF Spec

\* A panel that is never restarted has one life.
LEMMA OneLife ==
  ASSUME "crash" \notin Faults, done = since, [Next]_vars
  PROVE  (done = since)'
  <1>1. CASE Advance
    BY <1>1 DEF Advance, WithHeld
  <1>2. ASSUME NEW id \in Ids, MatchEnd(id) \/ Toggle(id) \/ Edit(id) \/ NextMap(id) \/ Look(id)
        PROVE  UNCHANGED advances
    BY <1>2 DEF MatchEnd, Toggle, Edit, Enqueue, Restore, ReplaceCycle, NextMap,
                Look, Skip, Discard, EmptyRotation, Take
  <1>3. CASE Played \/ ReplyLost \/ NotPlayed \/ MarkCurrent \/ RemoveMarker
    BY <1>3 DEF Played, ReplyLost, Execute, NotPlayed, MarkCurrent, RemoveMarker, advances
  <1>4. CASE StartRun \/ EndRun \/ UNCHANGED vars
    BY <1>4 DEF StartRun, EndRun, vars, advances
  <1>5. ~Crash
    BY DEF Crash
  <1>6. QED
    BY <1>1, <1>2, <1>3, <1>4, <1>5 DEF Next, Transition, advances

\* No map is sent again for a match the rotation has advanced for.  A crash is
\* excluded: the panel only remembers in memory what it has handled.
THEOREM AdvancedOnce ==
  ASSUME "crash" \notin Faults
  PROVE  Spec => []OncePerMatch
  <1> USE RotationAssumption
  <1>1. Init => TypeOK /\ done = since
    BY InitType DEF Init
  <1>2. TypeOK /\ done = since /\ [Next]_vars => TypeOK' /\ (done = since)'
    BY TypeStep, OneLife
  <1>3. TypeOK /\ done = since /\ OncePerLife => OncePerMatch
    BY DEF TypeOK, OncePerLife, OncePerMatch
  <1>4. QED
    BY <1>1, <1>2, <1>3, AdvancedOncePerLife, PTL DEF Spec

-----------------------------------------------------------------------------
\* Which markers are removed.

LEMMA MarkerStep ==
  ASSUME RotationAssumption, TypeOK, OnceInv, MarkerInv, [Next]_vars
  PROVE  MarkerInv'
  <1> USE DEF MarkerInv
  <1>1. ASSUME NEW id \in Ids, MatchEnd(id)
        PROVE  MarkerInv'
    <2>1. /\ marker' = [marker EXCEPT ![id] = matches[id] + 1]
          /\ UNCHANGED <<processed, pc, at, held>>
      BY <1>1 DEF MatchEnd, loop
    <2>2. marker[id] <= matches[id] /\ held \in Nat /\ marker[id] \in Nat /\ matches[id] \in Nat
      BY DEF OnceInv, StampInv, TypeOK, RotationAssumption
    <2>3. held <= marker[id] => held <= matches[id] + 1
      BY <2>2
    <2>4. QED
      BY <2>1, <2>3 DEF TypeOK
  <1>2. ASSUME NEW id \in Ids, Toggle(id)
        PROVE  MarkerInv'
    BY <1>2 DEF Toggle, loop
  <1>3. ASSUME NEW id \in Ids, Edit(id)
        PROVE  MarkerInv'
    BY <1>3 DEF Edit, Enqueue, Restore, ReplaceCycle, loop
  <1>4. ASSUME NEW id \in Ids, NextMap(id)
        PROVE  MarkerInv'
    BY <1>4 DEF NextMap, Begin
  <1>5. CASE Played \/ ReplyLost \/ NotPlayed \/ Advance
    BY <1>5 DEF Played, ReplyLost, NotPlayed, Execute, Return, Advance
  <1>6. CASE MarkCurrent
    BY <1>6 DEF MarkCurrent, TypeOK
  <1>7. CASE RemoveMarker
    BY <1>7 DEF RemoveMarker, Unlink, Abort
  <1>8. ASSUME NEW id \in Ids, Skip(id) \/ Discard(id) \/ EmptyRotation(id)
        PROVE  MarkerInv'
    BY <1>8 DEF Skip, Discard, EmptyRotation, Visit, Unlink, Abort
  <1>9. ASSUME NEW id \in Ids, Take(id)
        PROVE  MarkerInv'
    BY <1>9 DEF Take, Begin, TypeOK
  <1>10. CASE StartRun \/ EndRun \/ Crash
    BY <1>10 DEF StartRun, EndRun, Crash
  <1>11. CASE UNCHANGED vars
    BY <1>11 DEF vars, loop
  <1>12. QED
    BY <1>1, <1>2, <1>3, <1>4, <1>5, <1>6, <1>7, <1>8, <1>9, <1>10, <1>11
       DEF Next, Look, Transition

LEMMA HandledStep ==
  ASSUME RotationAssumption, TypeOK, MarkerInv, [Next]_vars, NEW j \in Ids,
         marker[j] # 0, marker'[j] = 0
  PROVE  \/ processed'[j] = marker[j]
         \/ Discard(j)
         \/ pc = "marked" /\ at = j /\ processed[j] = held /\ held < marker[j]
  <1>1. ASSUME NEW id \in Ids, MatchEnd(id)
        PROVE  FALSE
    BY <1>1 DEF MatchEnd, TypeOK
  <1>2. ASSUME NEW id \in Ids, EmptyRotation(id)
        PROVE  processed'[j] = marker[j]
    BY <1>2 DEF EmptyRotation, Unlink, Abort, TypeOK
  <1>3. CASE RemoveMarker
    <2>1. /\ pc = "marked" /\ at \in Ids /\ processed' = processed
          /\ marker' \in {marker, [marker EXCEPT ![at] = 0]}
      BY <1>3 DEF RemoveMarker, Unlink, Abort, TypeOK
    <2>2. at = j
      BY <2>1 DEF TypeOK
    <2>3. processed[j] = held /\ held <= marker[j]
      BY <2>1, <2>2 DEF MarkerInv
    <2>4. held \in Nat /\ marker[j] \in Nat
      BY DEF TypeOK, RotationAssumption
    <2>5. QED
      BY <2>1, <2>2, <2>3, <2>4
  <1>4. ASSUME NEW id \in Ids, Toggle(id) \/ Edit(id) \/ NextMap(id) \/ Skip(id) \/ Take(id)
        PROVE  UNCHANGED marker
    BY <1>4 DEF Toggle, Edit, Enqueue, Restore, ReplaceCycle, NextMap, Skip, Take
  <1>5. CASE Played \/ ReplyLost \/ NotPlayed \/ Advance \/ MarkCurrent
    BY <1>5 DEF Played, ReplyLost, NotPlayed, Execute, Advance, MarkCurrent
  <1>6. CASE StartRun \/ EndRun \/ Crash \/ UNCHANGED vars
    BY <1>6 DEF StartRun, EndRun, Crash, vars
  <1>7. ASSUME NEW id \in Ids, Discard(id)
        PROVE  id = j
    BY <1>7 DEF Discard, Unlink, Abort, TypeOK
  <1>8. QED
    BY <1>1, <1>2, <1>3, <1>4, <1>5, <1>6, <1>7 DEF Next, Look, Transition

\* Under every fault: a marker that is removed was handled, could not be read,
\* or was moved over that of an earlier match while this one's transition was
\* under way.
THEOREM RemovedWhenHandled == Spec => MarkersHandled
  <1> USE RotationAssumption
  <1> DEFINE Handled == \A id \in Ids :
                marker[id] # 0 /\ marker'[id] = 0 =>
                    \/ processed'[id] = marker[id]
                    \/ Discard(id)
                    \/ /\ pc = "marked" /\ at = id
                       /\ processed[id] = held /\ held < marker[id]
  <1>1. Init => TypeOK /\ OnceInv /\ MarkerInv
    BY InitType DEF Init, OnceInv, StampInv, HeldInv, SeenInv, OncePerLife, MarkerInv
  <1>2. TypeOK /\ OnceInv /\ MarkerInv /\ [Next]_vars => TypeOK' /\ OnceInv' /\ MarkerInv'
    BY TypeStep, OnceInductive, MarkerStep
  <1>3. TypeOK /\ OnceInv /\ MarkerInv /\ [Next]_vars => [Handled]_vars
    BY HandledStep
  <1>4. Spec => [][Handled]_vars
    BY <1>1, <1>2, <1>3, PTL DEF Spec
  <1>5. QED
    BY <1>4 DEF MarkersHandled
=============================================================================
