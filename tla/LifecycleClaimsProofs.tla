------------------------ MODULE LifecycleClaimsProofs ------------------------
(***************************************************************************)
(* Proofs about Lifecycle with one handler at a time on an instance, for   *)
(* every other fault and for every set of instances, slugs, ports and      *)
(* workers: its rows and containers do what Claims allows, and ports stay  *)
(* with the containers of their rows.                                      *)
(***************************************************************************)
EXTENDS LifecycleProofs

\* Creating an instance leaves every other one, and every handler, alone.
LEMMA CreateFacts ==
    ASSUME TypeOK, PlanInv, NEW id \in Ids, NEW p \in Ports, Create(id, p)
    PROVE  /\ slug[id] = 0 /\ port'[id] = p /\ status'[id] = "pending_install"
           /\ p \notin Bound
           /\ \A i \in Ids : i # id =>
                 slug'[i] = slug[i] /\ port'[i] = port[i] /\ status'[i] = status[i]
           /\ \A w \in Workers : Busy(w) => h[w].id \in Ids /\ h[w].id # id
           /\ UNCHANGED <<h, live, late, solo>>
  <1>1. slug[id] = 0 /\ UNCHANGED <<h, live, late, solo>> /\ p \notin Bound
    BY DEF Create
  <1>2. /\ port'[id] = p /\ status'[id] = "pending_install"
        /\ \A i \in Ids : i # id =>
              slug'[i] = slug[i] /\ port'[i] = port[i] /\ status'[i] = status[i]
    BY DEF Create, TypeOK
  <1>3. \A w \in Workers : Busy(w) => h[w].id \in Ids /\ h[w].id # id
    BY <1>1, LifecycleAssumption DEF PlanInv, TypeOK, Handlers, Idle, Busy
  <1>4. QED
    BY <1>1, <1>2, <1>3

\* A handler that takes a step awaited something of an instance.
LEMMA HandlerFacts ==
    ASSUME IInv, NEW w \in Workers, Step(w)
    PROVE  /\ h[w].call \in Calls /\ Busy(w)
           /\ h[w].op \in Ops /\ h[w].id \in Ids /\ slug[h[w].id] \in Slugs
           /\ h[w].call \in {"sent", "ok", "bad", "lost"} => h[w].todo \in PlansOf(h[w].op)
  <1>1. h[w].call \in Calls
    BY DEF Step, Queried, Execute, Unreachable, Timeout, GiveUp, Fail, SendNext,
           Finish, Complete, Calls
  <1>2. QED
    BY <1>1, CallIsBusy DEF IInv, PlanInv

\* What a step of a handler does to the rows, to the handlers and to what is
\* left to the agent: a row only goes when its purge was answered.
Effect(w) ==
    /\ UNCHANGED <<slug, port>>
    /\ \A v \in Workers : v # w => h'[v] = h[v]
    /\ \/ h'[w] = Idle
       \/ h[w].call # "lost" /\ h'[w].op = h[w].op /\ h'[w].id = h[w].id
    /\ \A id \in Ids : id # h[w].id => status'[id] = status[id]
    /\ status'[h[w].id] = "none" => /\ status' = [status EXCEPT ![h[w].id] = "none"]
                                    /\ h'[w] = Idle /\ h[w].call = "ok"
    /\ \A r \in late' : r \in late \/ (r.id = h[w].id /\ h'[w].call = "lost" /\ h'[w] # Idle)

LEMMA StepEffect ==
    ASSUME IInv, NEW w \in Workers, Step(w), Exists(h[w].id)
    PROVE  Effect(w)
  <1> USE DEF rowVars, hostVars
  <1> DEFINE id == h[w].id
  <1>1. /\ Busy(w) /\ h[w].op \in Ops /\ id \in Ids /\ TypeOK
        /\ h[w].call \in {"sent", "ok", "bad", "lost"} => h[w].todo \in PlansOf(h[w].op)
    BY HandlerFacts DEF IInv
  <1>2. ASSUME Leave(w)
        PROVE  h'[w] = Idle /\ \A v \in Workers : v # w => h'[v] = h[v]
    BY <1>1, <1>2, LeaveFacts
  <1>3. ASSUME NEW todo, NEW call, Await(w, todo, call)
        PROVE  /\ \A v \in Workers : v # w => h'[v] = h[v]
               /\ h'[w].op = h[w].op /\ h'[w].id = h[w].id /\ h'[w].call = call
               /\ h'[w] # Idle
    <2>1. /\ \A v \in Workers : v # w => h'[v] = h[v]
          /\ h'[w] = [op |-> h[w].op, id |-> h[w].id, todo |-> todo, call |-> call]
      BY <1>1, <1>3 DEF Await, TypeOK
    <2>2. QED
      BY <1>1, <2>1 DEF Idle, Ops
  <1>4. ASSUME NEW s, s # "none", SetStatus(id, s)
        PROVE  /\ \A i \in Ids : i # id => status'[i] = status[i]
               /\ status'[id] # "none"
    BY <1>1, <1>4 DEF SetStatus, TypeOK, Exists
  <1>5. UNCHANGED status => status'[id] # "none"
    BY DEF Exists
  <1>6. CASE Queried(w)
    <2>1. /\ UNCHANGED <<slug, port, late>> /\ h[w].call # "lost"
          /\ UNCHANGED status \/ SetStatus(id, "failed")
          /\ Leave(w) \/ \E update \in BOOLEAN : Await(w, MaintainSteps(update), "sent")
      BY <1>6 DEF Queried
    <2>2. QED
      BY <1>2, <1>3, <1>4, <1>5, <2>1 DEF Effect
  <1>7. CASE Execute(w)
    <2>1. /\ UNCHANGED <<slug, port, status, late>> /\ h[w].call # "lost"
          /\ \E answer : Await(w, h[w].todo, answer)
      BY <1>7 DEF Execute
    <2>2. QED
      BY <1>3, <1>5, <2>1 DEF Effect
  <1>8. CASE Unreachable(w)
    <2>1. /\ UNCHANGED <<slug, port, status, late>> /\ h[w].call # "lost"
          /\ Await(w, h[w].todo, "lost")
      BY <1>8 DEF Unreachable
    <2>2. QED
      BY <1>3, <1>5, <2>1 DEF Effect
  <1>9. CASE Timeout(w)
    <2>1. /\ UNCHANGED <<slug, port, status>> /\ h[w].call # "lost"
          /\ late' = late \cup {[cmd |-> Head(h[w].todo), id |-> id]}
          /\ Await(w, h[w].todo, "lost")
      BY <1>9 DEF Timeout
    <2>2. QED
      BY <1>3, <1>5, <2>1 DEF Effect
  <1>10. CASE GiveUp(w) \/ Fail(w)
    <2>1. /\ UNCHANGED <<slug, port, late>> /\ Leave(w)
          /\ UNCHANGED status \/ SetStatus(id, "failed")
      BY <1>10 DEF GiveUp, Fail
    <2>2. QED
      BY <1>2, <1>4, <1>5, <2>1 DEF Effect
  <1>11. CASE SendNext(w)
    <2>1. /\ UNCHANGED <<slug, port, status, late>> /\ h[w].call # "lost"
          /\ Await(w, Tail(h[w].todo), "sent")
      BY <1>11 DEF SendNext
    <2>2. QED
      BY <1>3, <1>5, <2>1 DEF Effect
  <1>12. CASE Finish(w)
    <2>1. UNCHANGED <<slug, port, late>> /\ h[w].call = "ok"
      BY <1>12 DEF Finish
    <2>2. CASE h[w].op = "delete"
      <3>1. Leave(w) /\ status' = [status EXCEPT ![id] = "none"]
        BY <1>12, <2>2 DEF Finish
      <3>2. QED
        BY <1>1, <1>2, <2>1, <3>1 DEF Effect, TypeOK
    <2>3. CASE h[w].op # "delete"
      <3>1. SetStatus(id, Done(h[w].op)) /\ Done(h[w].op) # "none"
        BY <1>1, <1>12, <2>3 DEF Finish, Done, Ops
      <3>2. Leave(w) \/ Await(w, <<>>, "fetch")
        BY <1>12 DEF Finish
      <3>3. QED
        BY <1>2, <1>3, <1>4, <2>1, <3>1, <3>2 DEF Effect
    <2>4. QED
      BY <2>2, <2>3
  <1>13. CASE Complete(w)
    <2>1. UNCHANGED <<slug, port, status, late>> /\ Leave(w)
      BY <1>13 DEF Complete
    <2>2. QED
      BY <1>2, <1>5, <2>1 DEF Effect
  <1>14. QED
    BY <1>6, <1>7, <1>8, <1>9, <1>10, <1>11, <1>12, <1>13 DEF Step

-----------------------------------------------------------------------------
\* A worker takes up an instance that nobody works on.
Takes(w, id) ==
    /\ Exists(id)
    /\ Quiet(slug[id])
    /\ ~Busy(w)
    /\ h'[w].id = id /\ h'[w].call \in {"query", "sent"}
    /\ \A v \in Workers : v # w => h'[v] = h[v]
    /\ UNCHANGED <<slug, port, status, live, late>>

\* The steps of one handler at a time on an instance.
LEMMA StepsOneAtATime ==
    ASSUME "overlap" \notin Faults, TypeOK, [Next]_vars
    PROVE  \/ \E id \in Ids, p \in Ports : Create(id, p)
           \/ \E w \in Workers, id \in Ids : Takes(w, id)
           \/ \E id \in Ids : Delete(id) /\ Quiet(slug[id])
           \/ \E w \in Workers : Step(w)
           \/ \E r \in late : ExecuteLate(r)
           \/ Restart
           \/ \E s \in Slugs : ServerExit(s)
           \/ UNCHANGED <<slug, port, status, live, late, h>>
  <1> USE DEF rowVars, hostVars
  <1>1. ASSUME NEW w \in Workers, NEW id \in Ids, NEW op \in Ops, NEW todo \in Plans,
               NEW call \in {"query", "sent"}, Exists(id), Enter(w, op, id, todo, call),
               UNCHANGED <<slug, port, status, live, late>>
        PROVE  Takes(w, id)
    <2> call \in Calls
      BY DEF Calls
    <2>1. /\ h'[w] = [op |-> op, id |-> id, todo |-> todo, call |-> call]
          /\ \A v \in Workers : v # w => h'[v] = h[v]
      BY <1>1, EnterFacts
    <2>2. Quiet(slug[id]) /\ ~Busy(w)
      BY <1>1 DEF Enter
    <2>3. QED
      BY <1>1, <2>1, <2>2 DEF Takes
  <1>2. ASSUME NEW w \in Procs, NEW op \in {"install", "start", "stop"}, NEW id \in Ids,
               Operate(w, op, id)
        PROVE  Takes(w, id)
    <2>1. Steps(op, id) \in Plans
      BY DEF Steps, Plans
    <2>2. QED
      BY <1>1, <1>2, <2>1 DEF Operate, Workers, Ops
  <1>3. ASSUME NEW w \in Procs, NEW id \in Ids, Purge(w, id)
        PROVE  Takes(w, id)
    BY <1>1, <1>3 DEF Purge, Workers, Ops, Plans
  <1>4. ASSUME NEW w \in Workers, NEW id \in Ids, Maintain(w, id)
        PROVE  \/ Takes(w, id)
               \/ UNCHANGED <<slug, port, status, live, late, h>>
    <2>1. CASE Exists(id)
      BY <1>1, <1>4, <2>1 DEF Maintain, Ops, Plans
    <2>2. CASE ~Exists(id)
      BY <1>4, <2>2 DEF Maintain
    <2>3. QED
      BY <2>1, <2>2
  <1>5. ASSUME NEW id \in Ids, Delete(id)
        PROVE  Quiet(slug[id])
    BY <1>5 DEF Delete
  <1>6. CASE (\E id \in Ids : BecomeDue(id)) \/ Wake
    BY <1>6 DEF BecomeDue, Wake
  <1>7. CASE Crash \/ CrashInCreate
    BY <1>7 DEF Crash, CrashInCreate
  <1>8. CASE UNCHANGED vars
    BY <1>8 DEF vars
  <1>9. Procs \subseteq Workers
    BY DEF Workers
  <1>10. QED
    BY <1>2, <1>3, <1>4, <1>5, <1>6, <1>7, <1>8, <1>9 DEF Next

\* Of an instance nobody works on, neither a handler nor the agent has anything.
LEMMA QuietFacts ==
    ASSUME IInv, NEW id \in Ids, Quiet(slug[id])
    PROVE  /\ \A w \in Workers : Busy(w) => h[w].id \in Ids /\ h[w].id # id
           /\ \A r \in late : r.id \in Ids /\ r.id # id
  BY DEF IInv, TypeOK, Handlers, Idle, Busy, Requests, Quiet, On

LEMMA AttendedStep ==
    ASSUME "overlap" \notin Faults, IInv, Attended, [Next]_vars
    PROVE  Attended'
  <1>1. TypeOK
    BY DEF IInv
  <1>2. /\ \A w \in Workers : Busy(w) => h[w].id \in Ids /\ status[h[w].id] # "none"
        /\ \A r \in late : r.id \in Ids /\ status[r.id] # "none"
    BY <1>1 DEF Attended, Exists, TypeOK, Handlers, Idle, Busy, Requests
  <1>3. ASSUME UNCHANGED <<h, late>>,
               \A id \in Ids : (\E w \in Workers : Busy(w) /\ h[w].id = id)
                                   \/ (\E r \in late : r.id = id)
                                   => status'[id] # "none"
        PROVE  Attended'
    BY <1>2, <1>3 DEF Attended, Exists, Busy
  <1>4. ASSUME NEW id \in Ids, NEW p \in Ports, Create(id, p)
        PROVE  Attended'
    <2>1. /\ UNCHANGED <<h, late>> /\ status'[id] = "pending_install"
          /\ \A i \in Ids : i # id => status'[i] = status[i]
      BY <1>4, CreateFacts DEF IInv
    <2>2. QED
      BY <1>2, <1>3, <2>1
  <1>5. ASSUME NEW w \in Workers, NEW id \in Ids, Takes(w, id)
        PROVE  Attended'
    <2>1. /\ h'[w].id = id /\ status[id] # "none" /\ UNCHANGED <<status, late>>
          /\ \A v \in Workers : v # w => h'[v] = h[v]
          /\ \A v \in Workers : Busy(v) => h[v].id # id
          /\ \A r \in late : r.id # id
      BY <1>5, QuietFacts DEF Takes, Exists
    <2>2. \A v \in Workers : v # w => (Busy(v)' <=> Busy(v))
      BY <2>1 DEF Busy
    <2>3. QED
      BY <1>2, <2>1, <2>2 DEF Attended, Exists
  <1>6. ASSUME NEW id \in Ids, Delete(id), Quiet(slug[id])
        PROVE  Attended'
    <2>1. /\ \A w \in Workers : Busy(w) => h[w].id # id
          /\ \A r \in late : r.id # id
      BY <1>6, QuietFacts
    <2>2. UNCHANGED <<h, late>> /\ \A i \in Ids : i # id => status'[i] = status[i]
      BY <1>1, <1>6 DEF Delete, TypeOK
    <2>3. QED
      BY <1>2, <1>3, <2>1, <2>2
  <1>7. ASSUME NEW w \in Workers, Step(w)
        PROVE  Attended'
    <2> DEFINE id == h[w].id
    <2>1. Busy(w) /\ id \in Ids /\ status[id] # "none"
      BY <1>2, <1>7, HandlerFacts
    <2>2. Effect(w)
      BY <1>7, <2>1, StepEffect DEF Exists
    <2>3. ASSUME NEW v \in Workers, v # w, Busy(v)'
          PROVE  /\ h'[v] = h[v] /\ Busy(v) /\ h[v].id # id
                 /\ status'[h[v].id] # "none"
      <3>1. h'[v] = h[v] /\ Busy(v)
        BY <2>2, <2>3 DEF Effect, Busy
      <3>2. h[v].id # id
        BY <2>1, <2>3, <3>1 DEF Attended
      <3>3. QED
        BY <1>2, <2>2, <3>1, <3>2 DEF Effect
    <2>4. ASSUME Busy(w)'
          PROVE  h'[w].id = id /\ status'[id] # "none" /\ h[w].call # "lost"
      <3>1. h'[w] # Idle
        BY <2>4 DEF Busy, Idle
      <3>2. QED
        BY <2>2, <3>1 DEF Effect
    <2>5. ASSUME NEW r \in late'
          PROVE  /\ status'[r.id] # "none"
                 /\ \A v \in Workers : Busy(v)' /\ h'[v].id = r.id => h'[v].call = "lost"
      <3>1. CASE r \in late /\ r.id # id
        <4>1. status'[r.id] # "none"
          BY <1>2, <2>2, <3>1 DEF Effect
        <4>2. ASSUME NEW v \in Workers, Busy(v)', h'[v].id = r.id
              PROVE  h'[v].call = "lost"
          <5>1. v # w
            BY <2>4, <3>1, <4>2
          <5>2. QED
            BY <2>3, <3>1, <4>2, <5>1 DEF Attended
        <4>3. QED
          BY <4>1, <4>2
      <3>2. CASE r \in late /\ r.id = id
        <4>1. h[w].call = "lost"
          BY <2>1, <3>2 DEF Attended
        <4>2. ~Busy(w)' /\ status'[id] # "none"
          BY <2>2, <2>4, <4>1 DEF Effect
        <4>3. QED
          BY <2>3, <3>2, <4>2
      <3>3. CASE r.id = id /\ h'[w].call = "lost" /\ h'[w] # Idle
        BY <2>2, <2>3, <3>3 DEF Effect
      <3>4. QED
        BY <2>2, <2>5, <3>1, <3>2, <3>3 DEF Effect
    <2>6. \A v, u \in Workers : Busy(v)' /\ Busy(u)' /\ v # u => h'[v].id # h'[u].id
      BY <2>3, <2>4 DEF Attended
    <2>7. \A v \in Workers : Busy(v)' => status'[h'[v].id] # "none"
      BY <2>3, <2>4
    <2>8. QED
      BY <2>5, <2>6, <2>7 DEF Attended, Exists
  <1>8. ASSUME NEW r \in late, ExecuteLate(r)
        PROVE  Attended'
    BY <1>8 DEF ExecuteLate, Attended, Exists, Busy, rowVars
  <1>9. CASE Restart
    <2>1. \A w \in Workers : ~Busy(w)'
      BY <1>9 DEF Restart, Busy, Idle
    <2>2. UNCHANGED status
      BY <1>9 DEF Restart, rowVars
    <2>3. ASSUME NEW r \in late'
          PROVE  status[r.id] # "none"
      <3>1. \/ r \in late
            \/ \E w \in Workers : h[w].call = "sent" /\ r.id = h[w].id
        BY <1>9 DEF Restart
      <3>2. ASSUME NEW w \in Workers, h[w].call = "sent"
            PROVE  Busy(w)
        BY <1>1, <3>2, CallIsBusy DEF Calls
      <3>3. QED
        BY <1>2, <3>1, <3>2
    <2>4. QED
      BY <2>1, <2>2, <2>3 DEF Attended, Exists
  <1>10. ASSUME NEW s \in Slugs, ServerExit(s)
         PROVE  Attended'
    BY <1>10 DEF ServerExit, Attended, Exists, Busy, rowVars
  <1>11. CASE UNCHANGED <<slug, port, status, live, late, h>>
    BY <1>11 DEF Attended, Exists, Busy
  <1>12. QED
    BY <1>1, <1>4, <1>5, <1>6, <1>7, <1>8, <1>9, <1>10, <1>11, StepsOneAtATime

-----------------------------------------------------------------------------
\* Claims.

\* Whatever the agent does at the request of an instance that has a row, Claims
\* allows it.
LEMMA PerformClaims ==
    ASSUME NEW cmd, NEW id \in Ids, NEW ok \in BOOLEAN, Exists(id),
           slug[id] \in Slugs, Perform(cmd, id, ok), UNCHANGED rowVars
    PROVE  [Contract!Next]_(Contract!vars)
  <1>1. \/ live' = live
        \/ live' = [live EXCEPT ![slug[id]] = NoId]
        \/ live' = [live EXCEPT ![slug[id]] = id]
    BY DEF Perform, StopContainer, StartContainer, InstallFiles, ImportFiles, PurgeFiles
  <1>2. UNCHANGED <<slug, port, {i \in Ids : Exists(i)}>>
    BY DEF rowVars, Exists
  <1>3. id \in {i \in Ids : Exists(i)}
    OBVIOUS
  <1>4. QED
    BY <1>1, <1>2, <1>3
       DEF Contract!vars, Contract!Next, Contract!Run, Contract!End

LEMMA ClaimStep ==
    ASSUME "overlap" \notin Faults, IInv, Attended, [Next]_vars
    PROVE  [Contract!Next]_(Contract!vars)
  <1> USE DEF rowVars, hostVars
  <1> DEFINE held == {id \in Ids : Exists(id)}
  <1>1. TypeOK /\ RowInv
    BY DEF IInv
  <1>2. ASSUME UNCHANGED <<slug, port, live>>,
               \A id \in Ids : status'[id] # "none" <=> status[id] # "none"
        PROVE  UNCHANGED Contract!vars
    BY <1>2 DEF Contract!vars, Exists
  <1>3. ASSUME NEW id \in Ids, NEW p \in Ports, Create(id, p)
        PROVE  Contract!Next
    <2>1. PICK s \in Slugs : UniqueSlug(s) /\ slug' = [slug EXCEPT ![id] = s]
      BY <1>3 DEF Create
    <2>2. Contract!FreeSlug(s)
      BY <2>1 DEF UniqueSlug, UsedSlugs, Contract!FreeSlug
    <2>3. Contract!FreePort(p)
      BY <1>3 DEF Create, UsedPorts, Bound, Contract!FreePort
    <2>4. held' = held \cup {id}
      BY <1>1, <1>3 DEF Create, TypeOK, Exists
    <2>5. Contract!Claim(id, s, p)
      BY <1>3, <2>1, <2>2, <2>3, <2>4 DEF Create, Contract!Claim
    <2>6. QED
      BY <2>5 DEF Contract!Next
  <1>4. ASSUME NEW id \in Ids, status' = [status EXCEPT ![id] = "none"],
               UNCHANGED <<slug, port, live>>
        PROVE  Contract!Next
    <2>1. held' = held \ {id}
      BY <1>1, <1>4 DEF TypeOK, Exists
    <2>2. Contract!Release(id)
      BY <1>4, <2>1 DEF Contract!Release
    <2>3. QED
      BY <2>2 DEF Contract!Next
  <1>5. ASSUME NEW w \in Workers, Step(w)
        PROVE  [Contract!Next]_(Contract!vars)
    <2>1. h[w].id \in Ids /\ slug[h[w].id] \in Slugs /\ Exists(h[w].id)
      BY <1>5, HandlerFacts DEF Attended
    <2>2. CASE Execute(w)
      BY <2>1, <2>2, PerformClaims DEF Execute
    <2>3. CASE ~Execute(w)
      <3>1. UNCHANGED live
        BY <1>5, <2>3 DEF Step, Queried, Unreachable, Timeout, GiveUp, Fail, SendNext,
                         Finish, Complete
      <3>2. Effect(w)
        BY <1>5, <2>1, StepEffect
      <3>3. CASE status'[h[w].id] = "none"
        BY <1>4, <2>1, <3>1, <3>2, <3>3 DEF Effect
      <3>4. CASE status'[h[w].id] # "none"
        BY <1>2, <2>1, <3>1, <3>2, <3>4 DEF Effect, Exists
      <3>5. QED
        BY <3>3, <3>4
    <2>4. QED
      BY <2>2, <2>3
  <1>6. ASSUME NEW r \in late, ExecuteLate(r)
        PROVE  [Contract!Next]_(Contract!vars)
    <2>1. r.id \in Ids /\ slug[r.id] \in Slugs /\ Exists(r.id)
      BY <1>1 DEF TypeOK, Requests, RowInv, Attended
    <2>2. QED
      BY <1>6, <2>1, PerformClaims DEF ExecuteLate
  <1>7. ASSUME NEW s \in Slugs, ServerExit(s)
        PROVE  Contract!Next
    <2>1. UNCHANGED <<slug, port, held>> /\ live' = [live EXCEPT ![s] = NoId]
      BY <1>7 DEF ServerExit, Exists
    <2>2. QED
      BY <2>1 DEF Contract!Next, Contract!End
  <1>8. ASSUME NEW id \in Ids, Delete(id)
        PROVE  Contract!Next
    BY <1>4, <1>8 DEF Delete
  <1>9. CASE \/ \E w \in Workers, id \in Ids : Takes(w, id)
             \/ Restart
             \/ UNCHANGED <<slug, port, status, live, late, h>>
    BY <1>2, <1>9 DEF Takes, Restart
  <1>10. QED
    BY <1>1, <1>3, <1>5, <1>6, <1>7, <1>8, <1>9, StepsOneAtATime

LEMMA AttendedHolds == ASSUME "overlap" \notin Faults PROVE Spec => [](IInv /\ Attended)
  <1>1. Init => Attended
    BY DEF Init, Attended, Busy, Idle
  <1>2. IInv /\ Attended /\ [Next]_vars => Attended'
    BY AttendedStep
  <1>3. QED
    BY <1>1, <1>2, InvHolds, PTL DEF Spec

\* With one handler at a time on an instance, whatever else fails, what happens
\* to rows, slugs, ports and containers is what Claims allows: in particular a
\* container is only started for an instance that has a row.
THEOREM ClaimsAreKept == ASSUME "overlap" \notin Faults PROVE Spec => ClaimsKept
  <1>1. Init => Contract!Init
    BY DEF Init, Contract!Init, Exists
  <1>2. IInv /\ Attended /\ [Next]_vars => [Contract!Next]_(Contract!vars)
    BY ClaimStep
  <1>3. QED
    BY <1>1, <1>2, AttendedHolds, PTL DEF Spec, ClaimsKept, Contract!Spec

-----------------------------------------------------------------------------
\* Ports: what Claims allows keeps them with the containers of their rows.
LEMMA OwnedStep ==
    ASSUME IInv, Housed, PortOwned, [Contract!Next]_(Contract!vars)
    PROVE  Housed' /\ PortOwned'
  <1> DEFINE held == {id \in Ids : Exists(id)}
  <1>1. /\ slug \in [Ids -> Slugs \cup {0}] /\ port \in [Ids -> Ports \cup {0}]
        /\ live \in [Slugs -> Ids \cup {NoId}]
        /\ \A id \in held : slug[id] \in Slugs
        /\ \A s \in Slugs : live[s] # NoId => live[s] \in Ids /\ slug[live[s]] = s
        /\ \A id \in held, s \in Slugs :
              live[s] # NoId /\ port[live[s]] = port[id] => live[s] = id
        /\ \A i, j \in held : port[i] = port[j] => i = j
        /\ 0 \notin Slugs
    BY LifecycleAssumption DEF IInv, TypeOK, RowInv, DistinctRows, Housed, PortOwned
  <1>2. SUFFICES
            /\ \A s \in Slugs : live'[s] # NoId => slug'[live'[s]] = s
            /\ \A id \in held', s \in Slugs :
                  live'[s] # NoId /\ port'[live'[s]] = port'[id] => live'[s] = id
    BY DEF Housed, PortOwned
  <1>3. ASSUME NEW id \in Ids, NEW s \in Slugs, NEW p \in Ports, Contract!Claim(id, s, p)
        PROVE  /\ \A t \in Slugs : live'[t] # NoId => slug'[live'[t]] = t
               /\ \A i \in held', t \in Slugs :
                     live'[t] # NoId /\ port'[live'[t]] = port'[i] => live'[t] = i
    <2>1. /\ slug[id] = 0 /\ UNCHANGED live /\ held' = held \cup {id}
          /\ slug' = [slug EXCEPT ![id] = s] /\ port' = [port EXCEPT ![id] = p]
          /\ \A t \in Slugs : live[t] # NoId => port[live[t]] # p
      BY <1>3 DEF Contract!Claim, Contract!FreePort
    <2>2. \A t \in Slugs : live[t] # NoId => live[t] # id
      BY <1>1, <2>1
    <2>3. \A i \in Ids : i # id => slug'[i] = slug[i] /\ port'[i] = port[i]
      BY <1>1, <2>1
    <2>4. port'[id] = p
      BY <1>1, <2>1
    <2> HIDE DEF held
    <2>5. ASSUME NEW i \in held', NEW t \in Slugs, live[t] # NoId,
                 port'[live[t]] = port'[i]
          PROVE  live[t] = i
      <3>1. port'[live[t]] = port[live[t]] /\ port[live[t]] # p
        BY <1>1, <2>1, <2>2, <2>3, <2>5
      <3>2. i # id /\ i \in held
        BY <2>1, <2>4, <2>5, <3>1
      <3>3. i \in Ids
        BY <3>2 DEF held
      <3>4. port[live[t]] = port[i]
        BY <2>3, <2>5, <3>1, <3>2, <3>3
      <3>5. QED
        BY <1>1, <2>5, <3>2, <3>4
    <2>6. QED
      BY <1>1, <2>1, <2>2, <2>3, <2>5
  <1>4. ASSUME NEW id \in Ids, Contract!Release(id)
        PROVE  /\ \A t \in Slugs : live'[t] # NoId => slug'[live'[t]] = t
               /\ \A i \in held', t \in Slugs :
                     live'[t] # NoId /\ port'[live'[t]] = port'[i] => live'[t] = i
    <2>1. held' \subseteq held /\ UNCHANGED <<slug, port, live>>
      BY <1>4 DEF Contract!Release
    <2> HIDE DEF held
    <2>2. QED
      BY <1>1, <2>1
  <1>5. ASSUME NEW id \in Ids, Contract!Run(id)
        PROVE  /\ \A t \in Slugs : live'[t] # NoId => slug'[live'[t]] = t
               /\ \A i \in held', t \in Slugs :
                     live'[t] # NoId /\ port'[live'[t]] = port'[i] => live'[t] = i
    <2>1. /\ id \in held /\ UNCHANGED <<slug, port>> /\ held' = held
          /\ live' = [live EXCEPT ![slug[id]] = id]
      BY <1>5 DEF Contract!Run
    <2> HIDE DEF held
    <2>2. \A t \in Slugs : live'[t] = IF t = slug[id] THEN id ELSE live[t]
      BY <1>1, <2>1
    <2>3. QED
      BY <1>1, <2>1, <2>2
  <1>6. ASSUME NEW s \in Slugs, Contract!End(s)
        PROVE  /\ \A t \in Slugs : live'[t] # NoId => slug'[live'[t]] = t
               /\ \A i \in held', t \in Slugs :
                     live'[t] # NoId /\ port'[live'[t]] = port'[i] => live'[t] = i
    <2>1. /\ UNCHANGED <<slug, port>> /\ held' = held
          /\ live' = [live EXCEPT ![s] = NoId]
      BY <1>6 DEF Contract!End
    <2> HIDE DEF held
    <2>2. \A t \in Slugs : live'[t] = IF t = s THEN NoId ELSE live[t]
      BY <1>1, <2>1
    <2>3. QED
      BY <1>1, <2>1, <2>2
  <1>7. CASE UNCHANGED Contract!vars
    <2>1. UNCHANGED <<slug, port, live>> /\ held' = held
      BY <1>7 DEF Contract!vars
    <2> HIDE DEF held
    <2>2. QED
      BY <1>1, <2>1
  <1>8. QED
    BY <1>3, <1>4, <1>5, <1>6, <1>7 DEF Contract!Next

\* With one handler at a time on an instance, whatever else fails, a running
\* container that holds the port of a row is the container of that row,
\* although rows are deleted while their containers are up.
THEOREM PortsAreOwned == ASSUME "overlap" \notin Faults PROVE Spec => []PortOwned
  <1>1. Init => Housed /\ PortOwned
    BY DEF Init, Housed, PortOwned, Exists
  <1>2. IInv /\ Attended /\ Housed /\ PortOwned /\ [Next]_vars => (Housed /\ PortOwned)'
    BY ClaimStep, OwnedStep
  <1>3. QED
    BY <1>1, <1>2, AttendedHolds, PTL DEF Spec
=============================================================================
