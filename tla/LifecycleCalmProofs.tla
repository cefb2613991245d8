------------------------- MODULE LifecycleCalmProofs -------------------------
(***************************************************************************)
(* Proofs about Lifecycle with one handler at a time on an instance and    *)
(* every request answered, for every set of instances, slugs, ports and    *)
(* workers: the rows tell the truth, but for servers that end.             *)
(***************************************************************************)
EXTENDS LifecycleClaimsProofs

\* A handler that takes a step awaited something, and it is the only one of
\* its slug; its row is the only one with that slug.
LEMMA AloneFacts ==
    ASSUME IInv, Attended, NEW w \in Workers, Step(w)
    PROVE  /\ Busy(w) /\ h[w].call \in Calls
           /\ h[w].op \in Ops /\ h[w].id \in Ids /\ slug[h[w].id] \in Slugs
           /\ Exists(h[w].id)
           /\ On(slug[h[w].id]) = {w}
           /\ \A id \in Ids : Exists(id) /\ id # h[w].id => slug[id] # slug[h[w].id]
           /\ \A v \in Workers : v # w /\ Busy(v) =>
                  h[v].id \in Ids /\ h[v].id # h[w].id /\ slug[h[v].id] # slug[h[w].id]
           /\ h[w].call \in {"sent", "ok", "bad", "lost"} => h[w].todo \in PlansOf(h[w].op)
  <1>1. /\ Busy(w) /\ h[w].call \in Calls
        /\ h[w].op \in Ops /\ h[w].id \in Ids /\ slug[h[w].id] \in Slugs
        /\ h[w].call \in {"sent", "ok", "bad", "lost"} => h[w].todo \in PlansOf(h[w].op)
    BY HandlerFacts
  <1>2. Exists(h[w].id)
    BY <1>1 DEF Attended
  <1>3. \A id \in Ids : Exists(id) /\ id # h[w].id => slug[id] # slug[h[w].id]
    BY <1>1, <1>2 DEF IInv, DistinctRows
  <1>4. \A v \in Workers : v # w /\ Busy(v) =>
            h[v].id \in Ids /\ h[v].id # h[w].id /\ Exists(h[v].id)
    BY <1>1 DEF Attended, IInv, TypeOK, Handlers, Idle, Busy
  <1>5. On(slug[h[w].id]) = {w}
    BY <1>1, <1>3, <1>4 DEF On
  <1>6. QED
    BY <1>1, <1>2, <1>3, <1>4, <1>5

\* What every step of a handler but the execution of its request leaves alone.
LEMMA StepFrame ==
    ASSUME Faults \subseteq {"exit"}, NEW w \in Workers, Step(w)
    PROVE  /\ UNCHANGED late
           /\ ~Execute(w) => UNCHANGED live
           /\ Execute(w) => UNCHANGED status
  BY DEF Step, Queried, Execute, Unreachable, Timeout, GiveUp, Fail, SendNext, Finish,
         Complete, rowVars, hostVars

LEMMA StepsAnswered ==
    ASSUME Faults \subseteq {"exit"}, TypeOK, late = {}, [Next]_vars
    PROVE  \/ \E id \in Ids, p \in Ports : Create(id, p)
           \/ \E w \in Workers, id \in Ids : Takes(w, id)
           \/ \E id \in Ids : Delete(id)
           \/ \E w \in Workers : Step(w)
           \/ \E s \in Slugs : ServerExit(s) /\ "exit" \in Faults
           \/ UNCHANGED <<slug, port, status, live, late, h>>
  <1>1. ~Restart /\ "overlap" \notin Faults
    BY DEF Restart
  <1>2. \A s \in Slugs : ServerExit(s) => "exit" \in Faults
    BY DEF ServerExit
  <1>3. QED
    BY <1>1, <1>2, StepsOneAtATime

LEMMA NothingLate ==
    ASSUME Faults \subseteq {"exit"}, TypeOK, late = {}, [Next]_vars
    PROVE  late' = {}
  <1>1. ASSUME NEW id \in Ids, NEW p \in Ports, Create(id, p)
        PROVE  UNCHANGED late
    BY <1>1 DEF Create
  <1>2. ASSUME NEW id \in Ids, Delete(id)
        PROVE  UNCHANGED late
    BY <1>2 DEF Delete
  <1>3. ASSUME NEW s \in Slugs, ServerExit(s)
        PROVE  UNCHANGED late
    BY <1>3 DEF ServerExit
  <1>4. QED
    BY <1>1, <1>2, <1>3, StepsAnswered, StepFrame DEF Takes

\* A request that was performed changes the container of its slug only, and an
\* import not even that; what was answered with success is so.
LEMMA ExecuteFacts ==
    ASSUME IInv, Attended, NEW w \in Workers, Execute(w)
    PROVE  /\ \A s \in Slugs : s # slug[h[w].id] => live'[s] = live[s]
           /\ Head(h[w].todo) = "import" => UNCHANGED live
           /\ h'[w].call = "lost" => Head(h[w].todo) = "import" \/ "lost" \in Faults
           /\ h'[w].call = "ok" => Promised(Head(h[w].todo), slug[h[w].id], h[w].id)
           /\ h'[w].call \in {"ok", "bad", "lost"}
           /\ h'[w].todo = h[w].todo /\ h'[w].op = h[w].op /\ h'[w].id = h[w].id
           /\ UNCHANGED slug
  <1> USE DEF IInv
  <1>1. Step(w)
    BY DEF Step
  <1>2. /\ h[w].id \in Ids /\ slug[h[w].id] \in Slugs /\ h[w].call = "sent"
        /\ h[w].op \in Ops /\ h[w].todo \in PlansOf(h[w].op)
    BY <1>1, AloneFacts DEF Execute
  <1>3. Head(h[w].todo) \in Commands
    BY <1>2, PlanFacts
  <1>4. PICK ok \in BOOLEAN :
            /\ Perform(Head(h[w].todo), h[w].id, ok)
            /\ \E answer \in {Answer(Head(h[w].todo), ok)}
                                \cup (IF "lost" \in Faults THEN {"lost"} ELSE {}) :
                   Await(w, h[w].todo, answer)
    BY DEF Execute
  <1>5. Head(h[w].todo) = "import" => UNCHANGED live
    BY <1>4 DEF Perform, ImportFiles
  <1>6. /\ \A s \in Slugs : s # slug[h[w].id] => live'[s] = live[s]
        /\ ok => Promised(Head(h[w].todo), slug[h[w].id], h[w].id)
    BY <1>2, <1>3, <1>4, PerformFacts
  <1>7. PICK answer \in {"ok", "bad", "lost"} :
            /\ Await(w, h[w].todo, answer)
            /\ answer = "lost" => Head(h[w].todo) = "import" \/ "lost" \in Faults
            /\ answer = "ok" => ok
    BY <1>4 DEF Answer
  <1>8. h'[w] = [op |-> h[w].op, id |-> h[w].id, todo |-> h[w].todo, call |-> answer]
    BY <1>7 DEF Await, TypeOK
  <1>9. UNCHANGED slug
    BY DEF Execute, rowVars
  <1>10. QED
    BY <1>5, <1>6, <1>7, <1>8, <1>9

\* An import is the first request of its plan.
LEMMA ImportFirst ==
    ASSUME NEW op \in Ops, NEW todo \in PlansOf(op), Len(todo) > 1
    PROVE  Head(Tail(todo)) # "import"
  <1>1. CASE todo = <<"import", "install">>
    BY <1>1
  <1>2. CASE todo = <<"stop", "start">>
    BY <1>2
  <1>3. CASE todo = <<"install", "start">>
    BY <1>3
  <1>4. CASE todo = <<"stop", "install", "start">>
    <2>1. Tail(todo) = <<"install", "start">>
      BY <1>4
    <2>2. Head(<<"install", "start">>) = "install"
      OBVIOUS
    <2>3. QED
      BY <2>1, <2>2
  <1>5. ASSUME NEW c, todo = <<c>>
        PROVE  FALSE
    <2>1. Len(todo) = 1
      BY <1>5
    <2>2. QED
      BY <2>1
  <1>6. QED
    BY <1>1, <1>2, <1>3, <1>4, <1>5 DEF PlansOf, Ops

\* What Answered says of one handler.
AnsweredOf(w) ==
    Busy(w) /\ h[w].call = "ok" =>
        /\ Head(h[w].todo) = "stop" => live[slug[h[w].id]] = NoId
        /\ Head(h[w].todo) = "start" => live[slug[h[w].id]] \in Up(h[w].id)

LEMMA AnsweredStep ==
    ASSUME Faults \subseteq {"exit"}, IInv, Attended, Answered, late = {}, [Next]_vars
    PROVE  Answered'
  <1> USE DEF IInv
  <1>1. \A w \in Workers : AnsweredOf(w)
    BY DEF Answered, AnsweredOf
  <1>2. ASSUME \A w \in Workers : AnsweredOf(w)'
        PROVE  Answered'
    BY <1>2 DEF Answered, AnsweredOf
  <1>3. ASSUME NEW w \in Workers, h'[w] = h[w],
               Busy(w) => slug'[h[w].id] = slug[h[w].id]
                          /\ live'[slug[h[w].id]] = live[slug[h[w].id]]
        PROVE  AnsweredOf(w)'
    BY <1>1, <1>3 DEF AnsweredOf, Busy, Up
  <1>4. ASSUME NEW w \in Workers, h'[w].call # "ok"
        PROVE  AnsweredOf(w)'
    BY <1>4 DEF AnsweredOf
  <1>5. ASSUME NEW id \in Ids, NEW p \in Ports, Create(id, p)
        PROVE  Answered'
    BY <1>2, <1>3, <1>5, CreateFacts
  <1>6. ASSUME NEW w \in Workers, NEW id \in Ids, Takes(w, id)
        PROVE  Answered'
    BY <1>2, <1>3, <1>4, <1>6 DEF Takes
  <1>7. ASSUME NEW id \in Ids, Delete(id)
        PROVE  Answered'
    BY <1>2, <1>3, <1>7 DEF Delete, hostVars
  <1>8. ASSUME NEW w \in Workers, Step(w)
        PROVE  Answered'
    <2>1. /\ h[w].id \in Ids /\ slug[h[w].id] \in Slugs /\ Exists(h[w].id)
          /\ \A v \in Workers : v # w /\ Busy(v) =>
                 h[v].id \in Ids /\ slug[h[v].id] # slug[h[w].id]
      BY <1>8, AloneFacts
    <2>2. Effect(w)
      BY <1>8, <2>1, StepEffect
    <2>3. ASSUME NEW v \in Workers, v # w
          PROVE  AnsweredOf(v)'
      <3>1. h'[v] = h[v] /\ UNCHANGED slug
        BY <2>2, <2>3 DEF Effect
      <3>2. Busy(v) => slug[h[v].id] \in Slugs
        BY DEF PlanInv
      <3>3. Busy(v) => live'[slug[h[v].id]] = live[slug[h[v].id]]
        BY <1>8, <2>1, <2>3, <3>2, StepFrame, ExecuteFacts
      <3>4. QED
        BY <1>3, <3>1, <3>3
    <2>4. AnsweredOf(w)'
      <3>1. CASE Execute(w)
        BY <3>1, ExecuteFacts DEF AnsweredOf, Promised, Up
      <3>2. CASE ~Execute(w)
        <4>1. ASSUME Leave(w)
              PROVE  h'[w].call # "ok"
          BY <4>1, LeaveFacts DEF Idle
        <4>2. ASSUME NEW todo, NEW call \in {"sent", "lost", "fetch"}, Await(w, todo, call)
              PROVE  h'[w].call # "ok"
          BY <4>2 DEF Await, TypeOK
        <4>3. \/ Leave(w)
              \/ \E todo, call : call \in {"sent", "lost", "fetch"} /\ Await(w, todo, call)
          BY <1>8, <3>2 DEF Step, Queried, Unreachable, Timeout, GiveUp, Fail, SendNext,
                            Finish, Complete
        <4>4. QED
          BY <1>4, <4>1, <4>2, <4>3
      <3>3. QED
        BY <3>1, <3>2
    <2>5. QED
      BY <1>2, <2>3, <2>4
  <1>9. ASSUME NEW s \in Slugs, ServerExit(s), "exit" \in Faults
        PROVE  Answered'
    <2>1. UNCHANGED <<slug, h>> /\ live' = [live EXCEPT ![s] = NoId]
      BY <1>9 DEF ServerExit, rowVars
    <2>2. \A t : live'[t] = live[t] \/ live'[t] = NoId
      BY <2>1 DEF TypeOK
    <2>3. ASSUME NEW w \in Workers
          PROVE  AnsweredOf(w)'
      BY <1>1, <1>9, <2>1, <2>2 DEF AnsweredOf, Busy, Up
    <2>4. QED
      BY <1>2, <2>3
  <1>10. CASE UNCHANGED <<slug, port, status, live, late, h>>
    BY <1>2, <1>3, <1>10
  <1>11. QED
    BY <1>5, <1>6, <1>7, <1>8, <1>9, <1>10, StepsAnswered

\* What HonestInv says of one instance.
HonestOf(id) ==
    Exists(id) /\ (\A w \in On(slug[id]) : Harmless(w)) => Believable(id)

\* The instance a handler works on.
LEMMA HonestHandler ==
    ASSUME Faults \subseteq {"exit"}, IInv, Attended, Answered, HonestInv,
           NEW w \in Workers, Step(w), NEW id \in Ids, h[w].id = id
    PROVE  HonestOf(id)'
  <1> USE DEF IInv
  <1>1. /\ Busy(w) /\ id \in Ids /\ Exists(id) /\ On(slug[id]) = {w}
        /\ h[w].op \in Ops
        /\ h[w].call \in {"sent", "ok", "bad", "lost"} => h[w].todo \in PlansOf(h[w].op)
    BY AloneFacts
  <1>2. UNCHANGED slug
    BY <1>1, StepEffect DEF Effect
  <1>3. Harmless(w) => Believable(id)
    BY <1>1 DEF HonestInv
  <1>4. ASSUME Busy(w)', h'[w].id = id, ~Harmless(w)'
        PROVE  HonestOf(id)'
    BY <1>1, <1>2, <1>4 DEF HonestOf, On
  <1>5. ASSUME Believable(id), UNCHANGED <<status, live>>
        PROVE  HonestOf(id)'
    BY <1>2, <1>5 DEF HonestOf, Believable, Up
  <1>6. ASSUME SetStatus(id, "failed")
        PROVE  HonestOf(id)'
    BY <1>1, <1>6 DEF SetStatus, HonestOf, Believable, TypeOK
  <1>7. ASSUME NEW todo, NEW call, Await(w, todo, call)
        PROVE  h'[w] = [op |-> h[w].op, id |-> id, todo |-> todo, call |-> call]
    BY <1>7 DEF Await, TypeOK
  <1>8. CASE Queried(w)
    <2>1. Harmless(w) /\ UNCHANGED live
      BY <1>8 DEF Queried, Harmless, hostVars
    <2>2. CASE \E update \in BOOLEAN : Await(w, MaintainSteps(update), "sent")
      <3>1. PICK update \in BOOLEAN : Await(w, MaintainSteps(update), "sent")
        BY <2>2
      <3>2. Head(MaintainSteps(update)) = "stop"
        BY DEF MaintainSteps
      <3>3. h'[w] = [op |-> h[w].op, id |-> id, todo |-> MaintainSteps(update), call |-> "sent"]
        BY <1>7, <3>1
      <3>4. Busy(w)' /\ h'[w].id = id /\ ~Harmless(w)'
        BY <1>1, <3>2, <3>3 DEF Busy, Harmless, Ops
      <3>5. QED
        BY <1>4, <3>4
    <2>3. QED
      BY <1>1, <1>3, <1>5, <1>6, <1>8, <2>1, <2>2 DEF Queried
  <1>9. CASE Execute(w)
    <2>1. h'[w].call \in {"ok", "bad", "lost"}
      BY <1>9, ExecuteFacts
    <2>2. Busy(w)' /\ h'[w].id = id
      BY <1>1, <1>9, ExecuteFacts DEF Busy
    <2>3. CASE h'[w].call = "lost"
      <3>1. Head(h[w].todo) = "import" /\ UNCHANGED live
        BY <1>9, <2>3, ExecuteFacts
      <3>2. Harmless(w) /\ UNCHANGED status
        BY <1>9, <3>1 DEF Harmless, Execute, rowVars
      <3>3. QED
        BY <1>3, <1>5, <3>1, <3>2
    <2>4. CASE h'[w].call # "lost"
      <3>1. ~Harmless(w)'
        BY <2>1, <2>4 DEF Harmless
      <3>2. QED
        BY <1>4, <2>2, <3>1
    <2>5. QED
      BY <2>3, <2>4
  <1>10. CASE Unreachable(w) \/ Timeout(w)
    BY <1>10 DEF Unreachable, Timeout
  <1>11. CASE GiveUp(w)
    <2>1. Harmless(w) /\ UNCHANGED live
      BY <1>11 DEF GiveUp, Harmless, hostVars
    <2>2. QED
      BY <1>3, <1>5, <1>6, <1>11, <2>1 DEF GiveUp
  <1>12. CASE Fail(w)
    BY <1>6, <1>12 DEF Fail
  <1>13. CASE SendNext(w)
    <2>1. h[w].todo \in PlansOf(h[w].op) /\ Len(h[w].todo) > 1 /\ Await(w, Tail(h[w].todo), "sent")
      BY <1>1, <1>13 DEF SendNext
    <2>2. Head(Tail(h[w].todo)) # "import"
      BY <1>1, <2>1, ImportFirst
    <2>3. h'[w] = [op |-> h[w].op, id |-> id, todo |-> Tail(h[w].todo), call |-> "sent"]
      BY <1>7, <2>1
    <2>4. h'[w].op = h[w].op /\ h'[w].id = id /\ h'[w].call = "sent" /\ h'[w].todo = Tail(h[w].todo)
      BY <2>3
    <2>5. Busy(w)' /\ ~Harmless(w)'
      BY <1>1, <2>2, <2>4 DEF Busy, Harmless, Ops
    <2>6. QED
      BY <1>4, <2>4, <2>5
  <1>14. CASE Finish(w)
    <2>1. /\ h[w].todo \in PlansOf(h[w].op) /\ Len(h[w].todo) = 1
          /\ h[w].call = "ok" /\ UNCHANGED live
      BY <1>1, <1>14 DEF Finish, hostVars
    <2>2. /\ Head(h[w].todo) = "stop" => live[slug[id]] = NoId
          /\ Head(h[w].todo) = "start" => live[slug[id]] \in Up(id)
      BY <1>1, <2>1 DEF Answered
    <2>3. /\ h[w].op \in {"start", "maintain"} => Head(h[w].todo) = "start"
          /\ h[w].op = "stop" => Head(h[w].todo) = "stop"
      BY <1>1, <2>1, PlanFacts
    <2>4. CASE h[w].op = "delete"
      BY <1>1, <1>14, <2>4 DEF Finish, HonestOf, Exists, TypeOK
    <2>5. CASE h[w].op # "delete"
      <3>1. status'[id] = Done(h[w].op)
        BY <1>1, <1>14, <2>5 DEF Finish, SetStatus, TypeOK
      <3>2. /\ status'[id] = "running" => h[w].op \in {"start", "maintain"}
            /\ status'[id] = "stopped" => h[w].op = "stop"
        BY <1>1, <2>5, <3>1 DEF Done, Ops
      <3>3. QED
        BY <1>2, <2>1, <2>2, <2>3, <3>2 DEF HonestOf, Believable, Up
    <2>6. QED
      BY <2>4, <2>5
  <1>15. CASE Complete(w)
    <2>1. Harmless(w) /\ UNCHANGED <<live, status>>
      BY <1>15 DEF Complete, Harmless, rowVars
    <2>2. QED
      BY <1>3, <1>5, <2>1
  <1>16. QED
    BY <1>8, <1>9, <1>10, <1>11, <1>12, <1>13, <1>14, <1>15 DEF Step
LEMMA HonestStep ==
    ASSUME Faults \subseteq {"exit"}, IInv, Attended, Answered, late = {}, HonestInv,
           [Next]_vars
    PROVE  HonestInv'
  <1> USE DEF IInv
  <1>1. \A id \in Ids : HonestOf(id)
    BY DEF HonestInv, HonestOf
  <1>2. ASSUME \A id \in Ids : HonestOf(id)'
        PROVE  HonestInv'
    BY <1>2 DEF HonestInv, HonestOf
  <1>3. ASSUME NEW id \in Ids, status'[id] = status[id], slug'[id] = slug[id],
               live'[slug[id]] = live[slug[id]],
               \A w \in On(slug[id]) : w \in On(slug[id])' /\ h'[w] = h[w]
        PROVE  HonestOf(id)'
    <2>1. ASSUME Exists(id)', \A w \in On(slug[id])' : Harmless(w)'
          PROVE  Believable(id)'
      <3>1. \A w \in On(slug[id]) : Harmless(w)
        BY <1>3, <2>1 DEF Harmless
      <3>2. Believable(id)
        BY <1>1, <1>3, <2>1, <3>1 DEF HonestOf, Exists
      <3>3. QED
        BY <1>3, <3>2 DEF Believable, Up
    <2>2. QED
      BY <2>1 DEF HonestOf
  <1>4. ASSUME NEW id \in Ids, status'[id] \notin {"running", "stopped"}
        PROVE  HonestOf(id)'
    BY <1>4 DEF HonestOf, Believable
  <1>5. ASSUME NEW id \in Ids, UNCHANGED <<slug, live>>, status'[id] = status[id],
               \A w \in Workers : Busy(w) => h'[w] = h[w]
        PROVE  HonestOf(id)'
    BY <1>3, <1>5 DEF On, Busy
  <1>6. ASSUME NEW i \in Ids, NEW p \in Ports, Create(i, p)
        PROVE  HonestInv'
    <2>1. ASSUME NEW id \in Ids
          PROVE  HonestOf(id)'
      <3>1. CASE id = i
        BY <1>4, <1>6, <3>1, CreateFacts
      <3>2. CASE id # i
        <4>1. slug'[id] = slug[id] /\ status'[id] = status[id] /\ UNCHANGED <<h, live>>
          BY <1>6, <3>2, CreateFacts
        <4>2. \A w \in Workers : Busy(w) => slug'[h[w].id] = slug[h[w].id]
          BY <1>6, CreateFacts
        <4>3. \A w \in On(slug[id]) : w \in On(slug[id])' /\ h'[w] = h[w]
          BY <4>1, <4>2 DEF On, Busy
        <4>4. QED
          BY <1>3, <4>1, <4>3
      <3>3. QED
        BY <3>1, <3>2
    <2>2. QED
      BY <1>2, <2>1
  <1>7. ASSUME NEW w \in Workers, NEW i \in Ids, Takes(w, i)
        PROVE  HonestInv'
    BY <1>2, <1>5, <1>7 DEF Takes
  <1>8. ASSUME NEW i \in Ids, Delete(i)
        PROVE  HonestInv'
    <2>1. UNCHANGED <<slug, live, h>> /\ status' = [status EXCEPT ![i] = "none"]
      BY <1>8 DEF Delete, hostVars
    <2>2. ASSUME NEW id \in Ids
          PROVE  HonestOf(id)'
      <3>1. CASE id = i
        BY <1>4, <2>1, <3>1 DEF TypeOK
      <3>2. CASE id # i
        BY <1>5, <2>1, <3>2 DEF TypeOK
      <3>3. QED
        BY <3>1, <3>2
    <2>3. QED
      BY <1>2, <2>2
  <1>9. ASSUME NEW w \in Workers, Step(w)
        PROVE  HonestInv'
    <2>1. /\ h[w].id \in Ids /\ Busy(w) /\ Exists(h[w].id)
          /\ \A id \in Ids : Exists(id) /\ id # h[w].id => slug[id] # slug[h[w].id]
      BY <1>9, AloneFacts
    <2>2. /\ UNCHANGED slug
          /\ \A v \in Workers : v # w => h'[v] = h[v]
          /\ \A id \in Ids : id # h[w].id => status'[id] = status[id]
          /\ ~Execute(w) => UNCHANGED live
      BY <1>9, <2>1, StepEffect, StepFrame DEF Effect
    <2>4. ASSUME NEW id \in Ids, id # h[w].id
          PROVE  HonestOf(id)'
      <3>1. CASE status[id] = "none"
        BY <1>4, <2>2, <2>4, <3>1
      <3>2. CASE status[id] # "none"
        <4>1. slug[id] # slug[h[w].id] /\ slug[id] \in Slugs
          BY <2>1, <2>4, <3>2 DEF Exists, RowInv
        <4>2. live'[slug[id]] = live[slug[id]]
          BY <2>2, <4>1, ExecuteFacts
        <4>3. \A v \in On(slug[id]) : v \in On(slug[id])' /\ h'[v] = h[v]
          BY <2>2, <4>1 DEF On, Busy
        <4>4. QED
          BY <1>3, <2>2, <2>4, <4>2, <4>3
      <3>3. QED
        BY <3>1, <3>2
    <2>5. ASSUME NEW id \in Ids, id = h[w].id
          PROVE  HonestOf(id)'
      BY <1>9, <2>5, HonestHandler
    <2>6. QED
      BY <1>2, <2>4, <2>5
  <1>10. ASSUME NEW s \in Slugs, ServerExit(s), "exit" \in Faults
         PROVE  HonestInv'
    <2>1. UNCHANGED <<slug, status, h>> /\ live' = [live EXCEPT ![s] = NoId]
      BY <1>10 DEF ServerExit, rowVars
    <2>2. \A t : live'[t] = live[t] \/ live'[t] = NoId
      BY <2>1 DEF TypeOK
    <2>3. ASSUME NEW id \in Ids, Exists(id)', \A w \in On(slug[id])' : Harmless(w)'
          PROVE  Believable(id)'
      <3>1. \A w \in On(slug[id]) : Harmless(w)
        BY <2>1, <2>3 DEF Harmless, On, Busy
      <3>2. Believable(id)
        BY <1>1, <2>1, <2>3, <3>1 DEF HonestOf, Exists
      <3>3. QED
        BY <1>10, <2>1, <2>2, <3>2 DEF Believable, Up
    <2>4. QED
      BY <1>2, <2>3 DEF HonestOf
  <1>11. CASE UNCHANGED <<slug, port, status, live, late, h>>
    BY <1>2, <1>5, <1>11
  <1>12. QED
    BY <1>6, <1>7, <1>8, <1>9, <1>10, <1>11, StepsAnswered

LEMMA CalmHolds == ASSUME Faults \subseteq {"exit"} PROVE Spec => []CalmInv
  <1>1. Init => CalmInv
    BY DEF Init, CalmInv, Attended, Answered, HonestInv, Busy, Idle, Exists
  <1>2. IInv /\ CalmInv /\ [Next]_vars => CalmInv'
    BY NothingLate, AttendedStep, AnsweredStep, HonestStep DEF CalmInv, IInv
  <1>3. QED
    BY <1>1, <1>2, InvHolds, PTL DEF Spec

\* With one handler at a time on an instance, and every request answered, a row
\* says what its container does whenever nothing is under way for it: a stopped
\* server is down, and where a running one should be is that one, or none
\* because it ended by itself.
THEOREM StatusesAreHonest == ASSUME Faults \subseteq {"exit"} PROVE Spec => []StatusHonest
  <1>1. CalmInv => StatusHonest
    BY DEF CalmInv, HonestInv, StatusHonest, Quiet
  <1>2. QED
    BY <1>1, CalmHolds, PTL
=============================================================================
