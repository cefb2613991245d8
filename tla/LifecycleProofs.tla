--------------------------- MODULE LifecycleProofs ---------------------------
(***************************************************************************)
(* Proofs about Lifecycle, for every set of instances, slugs, ports and    *)
(* workers and for every combination of faults.                            *)
(***************************************************************************)
EXTENDS Lifecycle, TLAPS

\* The plans of an operation: what can be sent, what is left after it, and
\* what the last request of each is.
LEMMA PlanFacts ==
    ASSUME NEW op \in Ops, NEW todo \in PlansOf(op)
    PROVE  /\ todo \in Plans
           /\ Head(todo) \in Commands
           /\ Len(todo) > 1 => /\ Tail(todo) \in PlansOf(op)
                               /\ op = "maintain" /\ Head(Tail(todo)) = "install"
                                      => Head(todo) = "stop"
           /\ Len(todo) = 1 => /\ op \in {"start", "maintain"} => Head(todo) = "start"
                               /\ op = "stop" => Head(todo) = "stop"
                               /\ op = "install" => Head(todo) = "install"
  <1>1. ASSUME NEW c \in {"stop", "start", "install", "purge"}, todo = <<c>>
        PROVE  /\ todo \in Plans
               /\ Head(todo) = c
               /\ Len(todo) = 1
    BY <1>1 DEF Plans
  <1>2. CASE todo = <<"import", "install">>
    <2>1. Tail(todo) = <<"install">> /\ Head(todo) = "import" /\ Len(todo) = 2
      BY <1>2
    <2>2. op = "install"
      BY <1>2 DEF PlansOf, Ops
    <2>3. QED
      BY <1>2, <2>1, <2>2 DEF Plans, Commands, PlansOf
  <1>3. CASE todo = <<"stop", "start">>
    <2>1. Tail(todo) = <<"start">> /\ Head(todo) = "stop" /\ Len(todo) = 2
      BY <1>3
    <2>2. op = "maintain"
      BY <1>3 DEF PlansOf, Ops
    <2>3. QED
      BY <1>3, <2>1, <2>2 DEF Plans, Commands, PlansOf
  <1>4. CASE todo = <<"install", "start">>
    <2>1. Tail(todo) = <<"start">> /\ Head(todo) = "install" /\ Len(todo) = 2
      BY <1>4
    <2>2. op = "maintain"
      BY <1>4 DEF PlansOf, Ops
    <2>3. QED
      BY <1>4, <2>1, <2>2 DEF Plans, Commands, PlansOf
  <1>5. CASE todo = <<"stop", "install", "start">>
    <2>1. Tail(todo) = <<"install", "start">> /\ Head(todo) = "stop" /\ Len(todo) = 3
      BY <1>5
    <2>2. op = "maintain"
      BY <1>5 DEF PlansOf, Ops
    <2>3. QED
      BY <1>5, <2>1, <2>2 DEF Plans, Commands, PlansOf
  <1>6. CASE op = "start"
    <2>1. todo = <<"start">>
      BY <1>6 DEF PlansOf
    <2>2. QED
      BY <1>1, <1>6, <2>1 DEF Commands
  <1>7. CASE op = "stop"
    <2>1. todo = <<"stop">>
      BY <1>7 DEF PlansOf
    <2>2. QED
      BY <1>1, <1>7, <2>1 DEF Commands
  <1>8. CASE op = "delete"
    <2>1. todo = <<"purge">>
      BY <1>8 DEF PlansOf
    <2>2. QED
      BY <1>1, <1>8, <2>1 DEF Commands
  <1>9. CASE op = "install"
    <2>1. todo = <<"install">> \/ todo = <<"import", "install">>
      BY <1>9 DEF PlansOf
    <2>2. CASE todo = <<"install">>
      BY <1>1, <1>9, <2>2 DEF Commands
    <2>3. QED
      BY <2>1, <2>2, <1>2
  <1>10. CASE op = "maintain"
    <2>1. \/ todo = <<"start">> \/ todo = <<"stop", "start">>
          \/ todo = <<"install", "start">> \/ todo = <<"stop", "install", "start">>
      BY <1>10 DEF PlansOf
    <2>2. CASE todo = <<"start">>
      BY <1>1, <1>10, <2>2 DEF Commands
    <2>3. QED
      BY <2>1, <2>2, <1>3, <1>4, <1>5
  <1>11. QED
    BY <1>6, <1>7, <1>8, <1>9, <1>10 DEF Ops

\* What Await and Leave do to the handlers.
LEMMA AwaitFacts ==
    ASSUME TypeOK, NEW w \in Workers, Busy(w),
           NEW todo \in Plans, NEW call \in Calls, Await(w, todo, call)
    PROVE  /\ h' \in [Workers -> Handlers]
           /\ h'[w] = [op |-> h[w].op, id |-> h[w].id, todo |-> todo, call |-> call]
           /\ \A v \in Workers : v # w => h'[v] = h[v]
           /\ h[w].op \in Ops /\ h[w].id \in Ids
           /\ solo' = solo
  <1>1. h[w] \in [op : Ops, id : Ids, todo : Plans, call : Calls]
    BY DEF TypeOK, Busy, Handlers, Idle
  <1>2. QED
    BY <1>1 DEF TypeOK, Await, Handlers

LEMMA LeaveFacts ==
    ASSUME TypeOK, NEW w \in Workers, Leave(w)
    PROVE  /\ h' \in [Workers -> Handlers]
           /\ h'[w] = Idle
           /\ \A v \in Workers : v # w => h'[v] = h[v]
           /\ solo' = solo \ {w}
  BY DEF TypeOK, Leave, Handlers

LEMMA EnterFacts ==
    ASSUME TypeOK, NEW w \in Workers, NEW op \in Ops, NEW id \in Ids,
           NEW todo \in Plans, NEW call \in Calls, Enter(w, op, id, todo, call)
    PROVE  /\ h' \in [Workers -> Handlers]
           /\ h'[w] = [op |-> op, id |-> id, todo |-> todo, call |-> call]
           /\ \A v \in Workers : v # w => h'[v] = h[v]
           /\ solo' \subseteq Workers
  BY DEF TypeOK, Enter, Handlers

\* A worker that awaits something is busy.
LEMMA CallIsBusy ==
    ASSUME TypeOK, NEW w \in Workers, h[w].call \in Calls
    PROVE  Busy(w) /\ h[w].op \in Ops /\ h[w].id \in Ids
  BY DEF TypeOK, Handlers, Idle, Calls, Busy, Ops

LEMMA InitType == Init => TypeOK
  BY LifecycleAssumption DEF Init, TypeOK, Handlers, Dirs


LEMMA TypeStep == TypeOK /\ PlanInv /\ [Next]_vars => TypeOK'
  <1> SUFFICES ASSUME TypeOK, PlanInv, [Next]_vars
               PROVE  TypeOK'
    OBVIOUS
  <1> USE DEF rowVars, hostVars
  <1>1. ASSUME NEW id \in Ids, NEW p \in Ports, Create(id, p)
        PROVE  TypeOK'
    BY <1>1 DEF Create, TypeOK, UniqueSlug, Statuses, Dirs
  <1>2. ASSUME NEW w \in Procs, NEW op \in {"install", "start", "stop"}, NEW id \in Ids,
               Operate(w, op, id)
        PROVE  TypeOK'
    <2>1. Steps(op, id) \in Plans
      BY DEF Steps, Plans
    <2>2. /\ h' \in [Workers -> Handlers]
          /\ solo' \subseteq Workers
      BY <1>2, <2>1, EnterFacts DEF Operate, Workers, Ops, Calls
    <2>3. QED
      BY <1>2, <2>2 DEF Operate, TypeOK
  <1>3. ASSUME NEW id \in Ids, Delete(id)
        PROVE  TypeOK'
    BY <1>3 DEF Delete, TypeOK
  <1>4. ASSUME NEW w \in Procs, NEW id \in Ids, Purge(w, id)
        PROVE  TypeOK'
    <2>1. /\ h' \in [Workers -> Handlers]
          /\ solo' \subseteq Workers
      BY <1>4, EnterFacts DEF Purge, Workers, Ops, Calls, Plans
    <2>2. QED
      BY <1>4, <2>1 DEF Purge, TypeOK
  <1>5. ASSUME NEW id \in Ids, BecomeDue(id)
        PROVE  TypeOK'
    BY <1>5 DEF BecomeDue, TypeOK
  <1>6. CASE Wake
    BY <1>6 DEF Wake, TypeOK
  <1>7. ASSUME NEW w \in Workers, NEW id \in Ids, Maintain(w, id)
        PROVE  TypeOK'
    <2>1. /\ h' \in [Workers -> Handlers]
          /\ solo' \subseteq Workers
      <3>1. CASE Exists(id)
        BY <1>7, <3>1, EnterFacts DEF Maintain, Ops, Calls, Plans
      <3>2. CASE ~Exists(id)
        BY <1>7, <3>2 DEF Maintain, TypeOK
      <3>3. QED
        BY <3>1, <3>2
    <2>2. round' \subseteq Ids
      BY <1>7 DEF Maintain, TypeOK
    <2>3. QED
      BY <1>7, <2>1, <2>2 DEF Maintain, TypeOK
  <1>8. ASSUME NEW w \in Workers, Step(w)
        PROVE  TypeOK'
    <2>1. Busy(w) /\ h[w].op \in Ops /\ h[w].id \in Ids
      <3>1. h[w].call \in Calls
        BY <1>8 DEF Step, Queried, Execute, Unreachable, Timeout, GiveUp, Fail,
                    SendNext, Finish, Complete, Calls
      <3>2. QED
        BY <3>1, CallIsBusy
    <2>2. h[w].todo \in Plans
      BY <2>1 DEF TypeOK, Handlers, Idle, Busy
    <2>3. ASSUME NEW s \in Statuses, SetStatus(h[w].id, s)
          PROVE  status' \in [Ids -> Statuses \cup {"none"}]
      BY <2>1, <2>3 DEF SetStatus, TypeOK
    <2>4. ASSUME Leave(w)
          PROVE  h' \in [Workers -> Handlers] /\ solo' \subseteq Workers
      BY <2>4, LeaveFacts DEF TypeOK
    <2>5. ASSUME NEW todo \in Plans, NEW call \in Calls, Await(w, todo, call)
          PROVE  h' \in [Workers -> Handlers] /\ solo' \subseteq Workers
      BY <2>1, <2>5, AwaitFacts DEF TypeOK
    <2>6. ASSUME h[w].call \in {"sent", "ok"}
          PROVE  h[w].todo \in PlansOf(h[w].op)
      BY <2>1, <2>6 DEF PlanInv
    <2>7. CASE Queried(w)
      <3>1. \A update \in BOOLEAN : MaintainSteps(update) \in Plans
        BY DEF MaintainSteps, Plans
      <3>2. h' \in [Workers -> Handlers] /\ solo' \subseteq Workers
        BY <2>7, <2>4, <2>5, <3>1 DEF Queried, Calls
      <3>3. status' \in [Ids -> Statuses \cup {"none"}]
        BY <2>7, <2>3 DEF Queried, TypeOK, Statuses
      <3>4. round' \subseteq Ids
        BY <2>7 DEF Queried, TypeOK
      <3>5. QED
        BY <2>7, <3>2, <3>3, <3>4 DEF Queried, TypeOK
    <2>8. CASE Execute(w)
      <3>1. PICK ok \in BOOLEAN :
              /\ Perform(Head(h[w].todo), h[w].id, ok)
              /\ \E answer \in {Answer(Head(h[w].todo), ok)}
                              \cup (IF "lost" \in Faults THEN {"lost"} ELSE {}) :
                     Await(w, h[w].todo, answer)
        BY <2>8 DEF Execute
      <3>2. Answer(Head(h[w].todo), ok) \in Calls
        BY DEF Answer, Calls
      <3>3. h' \in [Workers -> Handlers] /\ solo' \subseteq Workers
        BY <2>2, <2>5, <3>1, <3>2 DEF Calls
      <3>4. dir' \in [Slugs -> Dirs] /\ live' \in [Slugs -> Ids \cup {NoId}]
        BY <2>1, <3>1, LifecycleAssumption
           DEF TypeOK, Perform, StopContainer, StartContainer, InstallFiles, ImportFiles,
               PurgeFiles, Dirs
      <3>5. QED
        BY <2>8, <3>3, <3>4 DEF Execute, TypeOK
    <2>9. CASE Unreachable(w)
      BY <2>2, <2>5, <2>9 DEF Unreachable, TypeOK, Calls
    <2>10. CASE Timeout(w)
      <3>1. Head(h[w].todo) \in Commands
        BY <2>1, <2>6, <2>10, PlanFacts DEF Timeout
      <3>2. late' \subseteq Requests
        BY <2>1, <2>10, <3>1 DEF Timeout, TypeOK, Requests
      <3>3. QED
        BY <2>2, <2>5, <2>10, <3>2 DEF Timeout, TypeOK, Calls
    <2>11. CASE GiveUp(w)
      BY <2>3, <2>4, <2>11 DEF GiveUp, TypeOK, Statuses
    <2>12. CASE Fail(w)
      BY <2>3, <2>4, <2>12 DEF Fail, TypeOK, Statuses
    <2>13. CASE SendNext(w)
      <3>1. Tail(h[w].todo) \in Plans
        BY <2>1, <2>6, <2>13, PlanFacts DEF SendNext
      <3>2. QED
        BY <2>5, <2>13, <3>1 DEF SendNext, TypeOK, Calls
    <2>14. CASE Finish(w)
      <3>1. h[w].op # "delete" => Done(h[w].op) \in Statuses
        BY <2>1 DEF Done, Ops, Statuses
      <3>2. status' \in [Ids -> Statuses \cup {"none"}]
        BY <2>1, <2>3, <2>14, <3>1 DEF Finish, TypeOK
      <3>3. due' \in [Ids -> BOOLEAN]
        BY <2>1, <2>14 DEF Finish, TypeOK
      <3>4. h' \in [Workers -> Handlers] /\ solo' \subseteq Workers
        BY <2>4, <2>5, <2>14 DEF Finish, Plans, Calls
      <3>5. QED
        BY <2>14, <3>2, <3>3, <3>4 DEF Finish, TypeOK
    <2>15. CASE Complete(w)
      <3>1. dir' \in [Slugs -> Dirs]
        BY <2>15 DEF Complete, TypeOK, Dirs
      <3>2. QED
        BY <2>4, <2>15, <3>1 DEF Complete, TypeOK
    <2>16. QED
      BY <1>8, <2>7, <2>8, <2>9, <2>10, <2>11, <2>12, <2>13, <2>14, <2>15 DEF Step
  <1>9. ASSUME NEW r \in late, ExecuteLate(r)
        PROVE  TypeOK'
    <2>1. dir' \in [Slugs -> Dirs] /\ live' \in [Slugs -> Ids \cup {NoId}]
      BY <1>9, LifecycleAssumption
         DEF ExecuteLate, TypeOK, Requests, Perform, StopContainer, StartContainer,
             InstallFiles, ImportFiles, PurgeFiles, Dirs
    <2>2. QED
      BY <1>9, <2>1 DEF ExecuteLate, TypeOK
  <1>10. ASSUME Restart
         PROVE  /\ h' \in [Workers -> Handlers]
                /\ late' \subseteq Requests
                /\ round' \subseteq Ids
                /\ solo' \subseteq Workers
    <2>1. ASSUME NEW w \in Workers, h[w].call = "sent"
          PROVE  Head(h[w].todo) \in Commands /\ h[w].id \in Ids
      <3>1. Busy(w) /\ h[w].op \in Ops /\ h[w].id \in Ids
        BY <2>1, CallIsBusy DEF Calls
      <3>2. QED
        BY <2>1, <3>1, PlanFacts DEF PlanInv
    <2>2. late' \subseteq Requests
      BY <1>10, <2>1 DEF Restart, TypeOK, Requests
    <2>3. QED
      BY <1>10, <2>2 DEF Restart, Handlers
  <1>11. CASE Crash
    BY <1>10, <1>11 DEF Crash, Restart, TypeOK
  <1>12. CASE CrashInCreate
    BY <1>10, <1>12 DEF CrashInCreate, Restart, TypeOK, Dirs
  <1>13. ASSUME NEW s \in Slugs, ServerExit(s)
         PROVE  TypeOK'
    BY <1>13 DEF ServerExit, TypeOK
  <1>14. CASE UNCHANGED vars
    BY <1>14 DEF vars, TypeOK
  <1>15. QED
    BY <1>1, <1>2, <1>3, <1>4, <1>5, <1>6, <1>7, <1>8, <1>9, <1>11, <1>12, <1>13, <1>14
       DEF Next


LEMMA InitInv == Init => PlanInv /\ RowInv /\ DistinctRows /\ SoloInv /\ UpdateWhileStopped
  BY DEF Init, PlanInv, RowInv, DistinctRows, SoloInv, UpdateWhileStopped, Busy, Idle, Exists

\* What PlanInv says of the handler of one worker.
HandlerInv(w) ==
    Busy(w) =>
        /\ slug[h[w].id] \in Slugs
        /\ h[w].call = "query" => h[w].op = "maintain"
        /\ h[w].call = "fetch" => h[w].op = "install"
        /\ h[w].call \in {"sent", "ok", "bad", "lost"} => h[w].todo \in PlansOf(h[w].op)

LEMMA PlanStep == TypeOK /\ PlanInv /\ RowInv /\ [Next]_vars => PlanInv'
  <1> SUFFICES ASSUME TypeOK, PlanInv, RowInv, [Next]_vars
               PROVE  PlanInv'
    OBVIOUS
  <1> USE DEF rowVars, hostVars
  <1>1. \A v \in Workers : HandlerInv(v)
    BY DEF PlanInv, HandlerInv
  <1>2. ASSUME \A v \in Workers : HandlerInv(v)'
        PROVE  PlanInv'
    BY <1>2 DEF PlanInv, HandlerInv
  <1>3. ASSUME NEW v \in Workers, h'[v] = h[v], UNCHANGED slug
        PROVE  HandlerInv(v)'
    BY <1>1, <1>3 DEF HandlerInv, Busy
  <1>4. ASSUME NEW v \in Workers, h'[v] = Idle
        PROVE  HandlerInv(v)'
    BY <1>4 DEF HandlerInv, Busy, Idle
  <1>5. ASSUME NEW id \in Ids, NEW p \in Ports, Create(id, p)
        PROVE  PlanInv'
    <2>1. \A v \in Workers : HandlerInv(v)'
      BY <1>1, <1>5, LifecycleAssumption DEF Create, HandlerInv, Busy, TypeOK
    <2>2. QED
      BY <2>1, <1>2
  <1>6. ASSUME NEW w \in Workers, NEW op \in Ops, NEW id \in Ids, NEW todo \in Plans,
               NEW call \in Calls, Exists(id), Enter(w, op, id, todo, call), UNCHANGED slug,
               call = "query" => op = "maintain",
               call # "fetch",
               call = "sent" => todo \in PlansOf(op),
               call \in {"query", "sent"}
        PROVE  PlanInv'
    <2>1. /\ h'[w] = [op |-> op, id |-> id, todo |-> todo, call |-> call]
          /\ \A v \in Workers : v # w => h'[v] = h[v]
      BY <1>6, EnterFacts
    <2>2. HandlerInv(w)'
      BY <1>6, <2>1 DEF HandlerInv, RowInv
    <2>3. QED
      BY <1>2, <1>3, <1>6, <2>1, <2>2
  <1>7. ASSUME NEW w \in Procs, NEW op \in {"install", "start", "stop"}, NEW id \in Ids,
               Operate(w, op, id)
        PROVE  PlanInv'
    <2>1. Steps(op, id) \in Plans /\ Steps(op, id) \in PlansOf(op)
      BY DEF Steps, Plans, PlansOf
    <2>2. QED
      BY <1>6, <1>7, <2>1 DEF Operate, Workers, Ops, Calls
  <1>8. ASSUME NEW id \in Ids, Delete(id)
        PROVE  PlanInv'
    BY <1>2, <1>3, <1>8 DEF Delete
  <1>9. ASSUME NEW w \in Procs, NEW id \in Ids, Purge(w, id)
        PROVE  PlanInv'
    <2>1. <<"purge">> \in Plans /\ <<"purge">> \in PlansOf("delete")
      BY DEF Plans, PlansOf
    <2>2. QED
      BY <1>6, <1>9, <2>1 DEF Purge, Workers, Ops, Calls
  <1>10. ASSUME NEW id \in Ids, BecomeDue(id)
         PROVE  PlanInv'
    BY <1>2, <1>3, <1>10 DEF BecomeDue
  <1>11. CASE Wake
    BY <1>2, <1>3, <1>11 DEF Wake
  <1>12. ASSUME NEW w \in Workers, NEW id \in Ids, Maintain(w, id)
         PROVE  PlanInv'
    <2>1. CASE Exists(id)
      <3>1. <<>> \in Plans
        BY DEF Plans
      <3>2. QED
        BY <1>6, <1>12, <2>1, <3>1 DEF Maintain, Ops, Calls
    <2>2. CASE ~Exists(id)
      BY <1>2, <1>3, <1>12, <2>2 DEF Maintain
    <2>3. QED
      BY <2>1, <2>2
  <1>13. ASSUME NEW w \in Workers, Leave(w), UNCHANGED slug
         PROVE  PlanInv'
    BY <1>2, <1>3, <1>4, <1>13, LeaveFacts
  <1>14. ASSUME NEW w \in Workers, Busy(w), NEW todo \in Plans, NEW call \in Calls,
                Await(w, todo, call), UNCHANGED slug,
                call \in {"sent", "ok", "bad", "lost", "fetch"},
                call = "fetch" => h[w].op = "install",
                call # "fetch" => todo \in PlansOf(h[w].op)
         PROVE  PlanInv'
    <2>1. /\ h'[w] = [op |-> h[w].op, id |-> h[w].id, todo |-> todo, call |-> call]
          /\ \A v \in Workers : v # w => h'[v] = h[v]
      BY <1>14, AwaitFacts
    <2>2. HandlerInv(w)'
      BY <1>1, <1>14, <2>1 DEF HandlerInv
    <2>3. QED
      BY <1>2, <1>3, <1>14, <2>1, <2>2
  <1>15. ASSUME NEW w \in Workers, Step(w)
         PROVE  PlanInv'
    <2>1. Busy(w) /\ h[w].op \in Ops /\ h[w].id \in Ids
      <3>1. h[w].call \in Calls
        BY <1>15 DEF Step, Queried, Execute, Unreachable, Timeout, GiveUp, Fail,
                     SendNext, Finish, Complete, Calls
      <3>2. QED
        BY <3>1, CallIsBusy
    <2>2. ASSUME h[w].call \in {"sent", "ok"}
          PROVE  h[w].todo \in PlansOf(h[w].op) /\ h[w].todo \in Plans
      BY <2>1, <2>2, PlanFacts DEF PlanInv
    <2>3. CASE Queried(w)
      <3>1. \A update \in BOOLEAN : /\ MaintainSteps(update) \in Plans
                                    /\ MaintainSteps(update) \in PlansOf("maintain")
        BY DEF MaintainSteps, Plans, PlansOf
      <3>2. h[w].op = "maintain"
        BY <1>1, <2>1, <2>3 DEF HandlerInv, Queried
      <3>3. CASE Leave(w)
        BY <1>13, <2>3, <3>3 DEF Queried
      <3>4. ASSUME NEW update \in BOOLEAN, Await(w, MaintainSteps(update), "sent")
            PROVE  PlanInv'
        <4>1. MaintainSteps(update) \in Plans /\ MaintainSteps(update) \in PlansOf(h[w].op)
          BY <3>1, <3>2
        <4>2. UNCHANGED slug
          BY <2>3 DEF Queried
        <4>3. QED
          BY <1>14, <2>1, <3>4, <4>1, <4>2 DEF Calls
      <3>5. QED
        BY <2>3, <3>3, <3>4 DEF Queried
    <2>4. CASE Execute(w)
      <3>1. PICK answer \in {"ok", "bad", "lost"} : Await(w, h[w].todo, answer)
        BY <2>4 DEF Execute, Answer
      <3>2. UNCHANGED slug /\ h[w].call = "sent"
        BY <2>4 DEF Execute
      <3>3. QED
        BY <1>14, <2>1, <2>2, <3>1, <3>2 DEF Calls
    <2>5. CASE Unreachable(w)
      BY <1>14, <2>1, <2>2, <2>5 DEF Unreachable, Calls
    <2>6. CASE Timeout(w)
      BY <1>14, <2>1, <2>2, <2>6 DEF Timeout, Calls
    <2>7. CASE GiveUp(w)
      BY <1>13, <2>7 DEF GiveUp
    <2>8. CASE Fail(w)
      BY <1>13, <2>8 DEF Fail
    <2>9. CASE SendNext(w)
      <3>1. Tail(h[w].todo) \in PlansOf(h[w].op)
        BY <2>1, <2>2, <2>9, PlanFacts DEF SendNext
      <3>2. Tail(h[w].todo) \in Plans
        BY <2>1, <3>1, PlanFacts
      <3>3. QED
        BY <1>14, <2>1, <2>9, <3>1, <3>2 DEF SendNext, Calls
    <2>10. CASE Finish(w)
      BY <1>13, <1>14, <2>1, <2>10 DEF Finish, Calls, Plans
    <2>11. CASE Complete(w)
      BY <1>13, <2>11 DEF Complete
    <2>12. QED
      BY <1>15, <2>3, <2>4, <2>5, <2>6, <2>7, <2>8, <2>9, <2>10, <2>11 DEF Step
  <1>16. ASSUME NEW r \in late, ExecuteLate(r)
         PROVE  PlanInv'
    BY <1>2, <1>3, <1>16 DEF ExecuteLate
  <1>17. CASE Restart
    BY <1>2, <1>4, <1>17 DEF Restart
  <1>18. ASSUME NEW s \in Slugs, ServerExit(s)
         PROVE  PlanInv'
    BY <1>2, <1>3, <1>18 DEF ServerExit
  <1>19. CASE UNCHANGED vars
    BY <1>2, <1>3, <1>19 DEF vars
  <1>20. QED
    BY <1>5, <1>7, <1>8, <1>9, <1>10, <1>11, <1>12, <1>15, <1>16, <1>17, <1>18, <1>19
       DEF Next, Crash, CrashInCreate

\* A step that leaves slugs and ports alone and makes no row keeps the rows.
LEMMA RowStep == TypeOK /\ PlanInv /\ RowInv /\ DistinctRows /\ [Next]_vars
                    => RowInv' /\ DistinctRows'
  <1> SUFFICES ASSUME TypeOK, PlanInv, RowInv, DistinctRows, [Next]_vars
               PROVE  RowInv' /\ DistinctRows'
    OBVIOUS
  <1> USE DEF rowVars, hostVars
  <1>1. ASSUME UNCHANGED <<slug, port>>,
               \A id \in Ids : status'[id] # "none" => status[id] # "none",
               \A r \in late' : r \in late \/ (\E w \in Workers : Busy(w) /\ r.id = h[w].id)
        PROVE  RowInv' /\ DistinctRows'
    BY <1>1 DEF RowInv, DistinctRows, Exists, PlanInv
  <1>2. ASSUME NEW id \in Ids, NEW p \in Ports, Create(id, p)
        PROVE  RowInv' /\ DistinctRows'
    <2>1. PICK s \in Slugs : UniqueSlug(s) /\ slug' = [slug EXCEPT ![id] = s]
      BY <1>2 DEF Create
    <2>2. /\ slug'[id] = s /\ port'[id] = p /\ late' = late /\ slug[id] = 0
          /\ \A i \in Ids : i # id =>
                slug'[i] = slug[i] /\ port'[i] = port[i] /\ status'[i] = status[i]
      BY <1>2, <2>1 DEF Create, TypeOK
    <2>3. \A i \in Ids : i # id /\ Exists(i) => slug[i] # s /\ port[i] # p
      BY <1>2, <2>1 DEF Create, UniqueSlug, UsedSlugs, UsedPorts
    <2>4. \A r \in late : r.id \in Ids /\ r.id # id
      BY <2>2, LifecycleAssumption DEF RowInv, TypeOK, Requests
    <2>5. QED
      BY <2>2, <2>3, <2>4 DEF RowInv, DistinctRows, Exists
  <1>3. ASSUME NEW w \in Workers, Step(w)
        PROVE  RowInv' /\ DistinctRows'
    <2>1. Busy(w) /\ h[w].id \in Ids
      <3>1. h[w].call \in Calls
        BY <1>3 DEF Step, Queried, Execute, Unreachable, Timeout, GiveUp, Fail,
                    SendNext, Finish, Complete, Calls
      <3>2. QED
        BY <3>1, CallIsBusy
    <2>2. ASSUME NEW s, SetStatus(h[w].id, s)
          PROVE  \A id \in Ids : status'[id] # "none" => status[id] # "none"
      BY <2>1, <2>2 DEF SetStatus, TypeOK, Exists
    <2>3. UNCHANGED <<slug, port>>
      BY <1>3 DEF Step, Queried, Execute, Unreachable, Timeout, GiveUp, Fail,
                  SendNext, Finish, Complete
    <2>4. \A r \in late' : r \in late \/ (\E v \in Workers : Busy(v) /\ r.id = h[v].id)
      BY <1>3, <2>1 DEF Step, Queried, Execute, Unreachable, Timeout, GiveUp, Fail,
                        SendNext, Finish, Complete
    <2>5. \A id \in Ids : status'[id] # "none" => status[id] # "none"
      <3>1. CASE Finish(w) /\ h[w].op = "delete"
        BY <3>1, <2>1 DEF Finish, TypeOK
      <3>2. CASE Finish(w) /\ h[w].op # "delete"
        BY <3>2, <2>2 DEF Finish
      <3>3. CASE Queried(w)
        BY <3>3, <2>2 DEF Queried
      <3>4. CASE GiveUp(w) \/ Fail(w)
        BY <3>4, <2>2 DEF GiveUp, Fail
      <3>5. CASE Execute(w) \/ Unreachable(w) \/ Timeout(w) \/ SendNext(w) \/ Complete(w)
        BY <3>5 DEF Execute, Unreachable, Timeout, SendNext, Complete
      <3>6. QED
        BY <1>3, <3>1, <3>2, <3>3, <3>4, <3>5 DEF Step
    <2>6. QED
      BY <1>1, <2>3, <2>4, <2>5
  <1>4. CASE Restart
    <2>1. \A w \in Workers : h[w].call = "sent" => Busy(w)
      BY CallIsBusy DEF Calls
    <2>2. \A r \in late' : r \in late \/ (\E w \in Workers : Busy(w) /\ r.id = h[w].id)
      BY <1>4, <2>1 DEF Restart
    <2>3. QED
      BY <1>1, <1>4, <2>2 DEF Restart
  <1>5. ASSUME NEW w \in Procs, NEW op \in {"install", "start", "stop"}, NEW id \in Ids,
               Operate(w, op, id)
        PROVE  RowInv' /\ DistinctRows'
    BY <1>1, <1>5 DEF Operate
  <1>6. ASSUME NEW id \in Ids, Delete(id)
        PROVE  RowInv' /\ DistinctRows'
    BY <1>1, <1>6 DEF Delete, TypeOK
  <1>7. ASSUME NEW w \in Workers, NEW id \in Ids, Purge(w, id) \/ Maintain(w, id)
        PROVE  RowInv' /\ DistinctRows'
    BY <1>1, <1>7 DEF Purge, Maintain
  <1>8. CASE Wake \/ \E id \in Ids : BecomeDue(id)
    BY <1>1, <1>8 DEF Wake, BecomeDue
  <1>9. CASE \E r \in late : ExecuteLate(r)
    BY <1>1, <1>9 DEF ExecuteLate
  <1>10. CASE \E s \in Slugs : ServerExit(s)
    BY <1>1, <1>10 DEF ServerExit
  <1>11. CASE UNCHANGED vars
    BY <1>1, <1>11 DEF vars
  <1>12. QED
    BY <1>2, <1>3, <1>4, <1>5, <1>6, <1>7, <1>8, <1>9, <1>10, <1>11
       DEF Next, Crash, CrashInCreate, Workers


\* What SoloInv and UpdateWhileStopped say of one worker of solo.
SoloOf(v) ==
    /\ Busy(v)
    /\ On(slug[h[v].id]) = {v}
    /\ \A r \in late : slug[r.id] = slug[h[v].id] => h[v].call = "lost"
    /\ h[v].call = "ok" => Acknowledged(Head(h[v].todo), h[v].id)
    /\ h[v].op = "maintain" /\ h[v].call = "sent" /\ Head(h[v].todo) = "install"
          => live[slug[h[v].id]] = NoId

\* What a step that ends in the success of a request makes of its slug.
Promised(cmd, s, id) ==
    /\ cmd = "stop" => live'[s] = NoId
    /\ cmd = "start" => live'[s] = id
    /\ cmd = "install" => dir'[s] = "server"

\* A request that was performed leaves the other slugs alone, and what it
\* promises is so.
LEMMA PerformFacts ==
    ASSUME TypeOK, NEW cmd \in Commands, NEW id \in Ids, NEW ok \in BOOLEAN,
           slug[id] \in Slugs, Perform(cmd, id, ok)
    PROVE  /\ \A s \in Slugs : s # slug[id] => live'[s] = live[s] /\ dir'[s] = dir[s]
           /\ ok => Promised(cmd, slug[id], id)
  BY DEF TypeOK, Perform, StopContainer, StartContainer, InstallFiles, ImportFiles,
         PurgeFiles, Promised, Commands

\* What a step of a worker that goes on awaiting may do to the rest.
Local(w, todo, call) ==
    /\ UNCHANGED slug
    /\ h[w].call # "lost"
    /\ \A r \in late' : r \in late \/ (call = "lost" /\ r.id = h[w].id)
    /\ \A s \in Slugs : s # slug[h[w].id] => live'[s] = live[s] /\ dir'[s] = dir[s]
    /\ call = "ok" => Promised(Head(todo), slug[h[w].id], h[w].id)
    /\ w \in solo /\ h[w].op = "maintain" /\ call = "sent" /\ Head(todo) = "install"
          => live'[slug[h[w].id]] = NoId

LEMMA SoloStep ==
    TypeOK /\ PlanInv /\ RowInv /\ SoloInv /\ UpdateWhileStopped /\ [Next]_vars
        => SoloInv' /\ UpdateWhileStopped'
  <1> SUFFICES ASSUME TypeOK, PlanInv, RowInv, SoloInv, UpdateWhileStopped, [Next]_vars
               PROVE  SoloInv' /\ UpdateWhileStopped'
    OBVIOUS
  <1> USE DEF rowVars, hostVars
  <1>1. \A v \in solo : SoloOf(v) /\ v \in Workers /\ h[v].id \in Ids
    <2>1. solo \subseteq Workers
      BY DEF TypeOK
    <2>2. \A v \in Workers : Busy(v) => h[v].id \in Ids
      BY DEF TypeOK, Handlers, Idle, Busy
    <2>3. QED
      BY <2>1, <2>2 DEF SoloInv, UpdateWhileStopped, SoloOf
  <1>2. ASSUME \A v \in solo' : SoloOf(v)'
        PROVE  SoloInv' /\ UpdateWhileStopped'
    BY <1>2 DEF SoloInv, UpdateWhileStopped, SoloOf
  <1>3. \A v \in solo, u \in Workers :
            u # v /\ Busy(u) => slug[h[u].id] # slug[h[v].id]
    BY <1>1 DEF SoloOf, On
  <1>4. ASSUME NEW v \in solo, h'[v] = h[v], slug'[h[v].id] = slug[h[v].id],
               \A u \in Workers : u # v /\ Busy(u)' => slug'[h'[u].id] # slug[h[v].id],
               \A r \in late' : slug'[r.id] = slug[h[v].id]
                                   => r \in late /\ slug[r.id] = slug[h[v].id],
               \/ h[v].call = "lost"
               \/ /\ live'[slug[h[v].id]] = live[slug[h[v].id]]
                  /\ dir[slug[h[v].id]] = "server" => dir'[slug[h[v].id]] = "server"
        PROVE  SoloOf(v)'
    <2>1. SoloOf(v) /\ v \in Workers
      BY <1>1
    <2>2. Busy(v)' /\ On(slug[h[v].id])' = {v}
      BY <1>4, <2>1 DEF SoloOf, Busy, On
    <2>3. \A r \in late' : slug'[r.id] = slug'[h'[v].id] => h'[v].call = "lost"
      BY <1>4, <2>1 DEF SoloOf
    <2>4. CASE h[v].call = "lost"
      BY <1>4, <2>1, <2>2, <2>3, <2>4 DEF SoloOf
    <2>5. CASE /\ live'[slug[h[v].id]] = live[slug[h[v].id]]
               /\ dir[slug[h[v].id]] = "server" => dir'[slug[h[v].id]] = "server"
      <3>1. h'[v].call = "ok" => Acknowledged(Head(h[v].todo), h[v].id)'
        BY <1>4, <2>1, <2>5 DEF SoloOf, Acknowledged
      <3>2. QED
        BY <1>4, <2>1, <2>2, <2>3, <2>5, <3>1 DEF SoloOf
    <2>6. QED
      BY <1>4, <2>4, <2>5
  <1>5. ASSUME UNCHANGED <<h, slug, late, live, dir, solo>>
        PROVE  SoloInv' /\ UpdateWhileStopped'
    BY <1>1, <1>2, <1>3, <1>4, <1>5 DEF Busy
  <1>6. ASSUME NEW id \in Ids, NEW p \in Ports, Create(id, p)
        PROVE  SoloInv' /\ UpdateWhileStopped'
    <2>1. /\ slug[id] = 0 /\ UNCHANGED <<h, late, live, solo>>
          /\ \A i \in Ids : i # id => slug'[i] = slug[i]
          /\ \A s \in Slugs : dir[s] = "server" => dir'[s] = "server"
      BY <1>6 DEF Create, TypeOK
    <2>2. \A w \in Workers : Busy(w) => h[w].id \in Ids /\ slug'[h[w].id] = slug[h[w].id]
      BY <2>1, LifecycleAssumption DEF PlanInv, TypeOK, Handlers, Idle, Busy
    <2>3. \A r \in late : slug'[r.id] = slug[r.id]
      BY <2>1, LifecycleAssumption DEF RowInv, TypeOK, Requests
    <2>4. \A v \in solo : slug[h[v].id] \in Slugs
      BY <1>1 DEF SoloOf, PlanInv
    <2>5. ASSUME NEW v \in solo
          PROVE  SoloOf(v)'
      <3>1. \A u \in Workers : u # v /\ Busy(u)' => slug'[h'[u].id] # slug[h[v].id]
        BY <1>3, <2>1, <2>2 DEF Busy
      <3>2. slug'[h[v].id] = slug[h[v].id]
        BY <1>1, <2>2 DEF SoloOf
      <3>3. QED
        BY <1>4, <2>1, <2>3, <2>4, <3>1, <3>2
    <2>6. QED
      BY <1>2, <2>1, <2>5
  <1>7. ASSUME NEW w \in Workers, NEW op \in Ops, NEW id \in Ids, NEW todo \in Plans,
               NEW call \in {"query", "sent"}, Enter(w, op, id, todo, call), slug[id] \in Slugs,
               op = "maintain" => call = "query",
               UNCHANGED <<slug, late, live, dir>>
        PROVE  SoloInv' /\ UpdateWhileStopped'
    <2>1. /\ ~Busy(w)
          /\ h'[w] = [op |-> op, id |-> id, todo |-> todo, call |-> call]
          /\ \A v \in Workers : v # w => h'[v] = h[v]
      BY <1>7, EnterFacts DEF Enter, Calls
    <2>2. w \notin solo
      BY <1>1, <2>1 DEF SoloOf
    <2>3. ASSUME NEW v \in solo, v \in solo'
          PROVE  SoloOf(v)'
      <3>1. slug[h[v].id] # slug[id]
        BY <1>1, <1>7, <2>2, <2>3 DEF Enter, Quiet, On, SoloOf
      <3>2. h'[v] = h[v]
        BY <1>1, <2>1, <2>2
      <3>3. \A u \in Workers : u # v /\ Busy(u)' => slug'[h'[u].id] # slug[h[v].id]
        BY <1>3, <1>7, <2>1, <3>1 DEF Busy
      <3>4. QED
        BY <1>4, <1>7, <3>2, <3>3
    <2>4. ASSUME w \in solo'
          PROVE  SoloOf(w)'
      <3>1. Quiet(slug[id])
        BY <1>7, <2>2, <2>4 DEF Enter
      <3>2. Busy(w)' /\ On(slug[h[w].id])' = {w}
        BY <1>7, <2>1, <3>1 DEF Quiet, On, Busy, Ops
      <3>3. \A r \in late' : slug'[r.id] # slug'[h'[w].id]
        BY <1>7, <2>1, <3>1 DEF Quiet
      <3>4. h'[w].call # "ok" /\ ~(h'[w].op = "maintain" /\ h'[w].call = "sent")
        BY <1>7, <2>1
      <3>5. QED
        BY <3>2, <3>3, <3>4 DEF SoloOf
    <2>5. solo' \subseteq solo \cup {w}
      BY <1>7 DEF Enter
    <2>6. QED
      BY <1>2, <2>3, <2>4, <2>5
  <1>8. ASSUME NEW w \in Workers, NEW op \in {"install", "start", "stop"}, NEW id \in Ids,
               Operate(w, op, id)
        PROVE  SoloInv' /\ UpdateWhileStopped'
    <2>1. Steps(op, id) \in Plans
      BY DEF Steps, Plans
    <2>2. QED
      BY <1>7, <1>8, <2>1 DEF Operate, Ops, RowInv
  <1>9. ASSUME NEW w \in Workers, NEW id \in Ids, Purge(w, id)
        PROVE  SoloInv' /\ UpdateWhileStopped'
    BY <1>7, <1>9 DEF Purge, Ops, RowInv, Plans
  <1>10. ASSUME NEW w \in Workers, NEW id \in Ids, Maintain(w, id)
         PROVE  SoloInv' /\ UpdateWhileStopped'
    <2>1. CASE Exists(id)
      BY <1>7, <1>10, <2>1 DEF Maintain, Ops, RowInv, Plans
    <2>2. CASE ~Exists(id)
      BY <1>5, <1>10, <2>2 DEF Maintain
    <2>3. QED
      BY <2>1, <2>2
  <1>11. ASSUME NEW w \in Workers, Leave(w), UNCHANGED <<slug, late>>,
                \A s \in Slugs : s # slug[h[w].id] => live'[s] = live[s] /\ dir'[s] = dir[s],
                Busy(w)
         PROVE  SoloInv' /\ UpdateWhileStopped'
    <2>1. /\ solo' = solo \ {w}
          /\ h'[w] = Idle
          /\ \A v \in Workers : v # w => h'[v] = h[v]
      BY <1>11, LeaveFacts
    <2>2. ASSUME NEW v \in solo, v # w
          PROVE  SoloOf(v)'
      <3>1. slug[h[v].id] \in Slugs /\ slug[h[v].id] # slug[h[w].id] /\ h'[v] = h[v]
        BY <1>1, <1>3, <1>11, <2>1, <2>2 DEF SoloOf, PlanInv
      <3>2. \A u \in Workers : u # v /\ Busy(u)' => slug'[h'[u].id] # slug[h[v].id]
        BY <1>3, <1>11, <2>1 DEF Busy, Idle
      <3>3. QED
        BY <1>4, <1>11, <3>1, <3>2
    <2>3. QED
      BY <1>2, <2>1, <2>2
  <1>12. ASSUME NEW w \in Workers, NEW todo \in Plans, NEW call \in Calls, Busy(w),
                Await(w, todo, call), Local(w, todo, call)
         PROVE  SoloInv' /\ UpdateWhileStopped'
    <2>0. /\ UNCHANGED slug
          /\ h[w].call # "lost"
          /\ \A r \in late' : r \in late \/ (call = "lost" /\ r.id = h[w].id)
          /\ \A s \in Slugs : s # slug[h[w].id] => live'[s] = live[s] /\ dir'[s] = dir[s]
          /\ call = "ok" => Promised(Head(todo), slug[h[w].id], h[w].id)
          /\ w \in solo /\ h[w].op = "maintain" /\ call = "sent" /\ Head(todo) = "install"
                => live'[slug[h[w].id]] = NoId
      BY <1>12 DEF Local
    <2>1. /\ solo' = solo
          /\ h'[w] = [op |-> h[w].op, id |-> h[w].id, todo |-> todo, call |-> call]
          /\ \A v \in Workers : v # w => h'[v] = h[v]
      BY <1>12, <2>0, AwaitFacts
    <2>2. ASSUME NEW v \in solo, v # w
          PROVE  SoloOf(v)'
      <3>1. slug[h[v].id] \in Slugs /\ slug[h[v].id] # slug[h[w].id] /\ h'[v] = h[v]
        BY <1>1, <1>3, <1>12, <2>0, <2>1, <2>2 DEF SoloOf, PlanInv
      <3>2. \A u \in Workers : u # v /\ Busy(u)' => slug'[h'[u].id] # slug[h[v].id]
        BY <1>3, <1>12, <2>0, <2>1 DEF Busy
      <3>3. QED
        BY <1>4, <1>12, <2>0, <3>1, <3>2
    <2>3. ASSUME w \in solo
          PROVE  SoloOf(w)'
      <3>1. Busy(w)' /\ On(slug[h[w].id])' = {w}
        <4>1. On(slug[h[w].id]) = {w}
          BY <1>1, <2>3 DEF SoloOf
        <4>2. \A u \in Workers : Busy(u)' = Busy(u) /\ h'[u].id = h[u].id
          BY <1>12, <2>0, <2>1 DEF Busy
        <4>3. QED
          BY <1>12, <2>0, <4>1, <4>2 DEF On
      <3>2. \A r \in late' : slug'[r.id] = slug'[h'[w].id] => h'[w].call = "lost"
        BY <1>1, <1>12, <2>0, <2>1, <2>3 DEF SoloOf
      <3>3. h'[w].id = h[w].id /\ h'[w].todo = todo /\ h'[w].op = h[w].op /\ h'[w].call = call
        BY <2>1
      <3>4. call = "ok" => Acknowledged(Head(h[w].todo), h[w].id)'
        BY <1>12, <2>0, <3>3 DEF Acknowledged, Promised
      <3>5. QED
        BY <1>12, <2>0, <2>3, <3>1, <3>2, <3>3, <3>4 DEF SoloOf
    <2>4. QED
      BY <1>2, <2>1, <2>2, <2>3
  <1>13. ASSUME NEW w \in Workers, Step(w)
         PROVE  SoloInv' /\ UpdateWhileStopped'
    <2>1. Busy(w) /\ h[w].op \in Ops /\ h[w].id \in Ids /\ slug[h[w].id] \in Slugs
      <3>1. h[w].call \in Calls
        BY <1>13 DEF Step, Queried, Execute, Unreachable, Timeout, GiveUp, Fail,
                     SendNext, Finish, Complete, Calls
      <3>2. QED
        BY <3>1, CallIsBusy DEF PlanInv
    <2>2. ASSUME h[w].call \in {"sent", "ok"}
          PROVE  h[w].todo \in PlansOf(h[w].op) /\ h[w].todo \in Plans
      BY <2>1, <2>2, PlanFacts DEF PlanInv
    <2>3. CASE Queried(w)
      <3>1. CASE Leave(w)
        BY <1>11, <2>1, <2>3, <3>1 DEF Queried
      <3>2. ASSUME NEW update \in BOOLEAN, Await(w, MaintainSteps(update), "sent")
            PROVE  SoloInv' /\ UpdateWhileStopped'
        <4>1. MaintainSteps(update) \in Plans /\ Head(MaintainSteps(update)) = "stop"
          BY DEF MaintainSteps, Plans
        <4>2. UNCHANGED <<slug, late, live, dir>> /\ h[w].call = "query"
          BY <2>3 DEF Queried
        <4>3. Local(w, MaintainSteps(update), "sent")
          BY <4>1, <4>2 DEF Local
        <4>4. QED
          BY <1>12, <2>1, <3>2, <4>1, <4>3 DEF Calls
      <3>3. QED
        BY <2>3, <3>1, <3>2 DEF Queried
    <2>4. CASE Execute(w)
      <3>1. PICK ok \in BOOLEAN :
              /\ Perform(Head(h[w].todo), h[w].id, ok)
              /\ \E answer \in {Answer(Head(h[w].todo), ok)}
                              \cup (IF "lost" \in Faults THEN {"lost"} ELSE {}) :
                     Await(w, h[w].todo, answer)
        BY <2>4 DEF Execute
      <3>2. PICK answer \in {"ok", "bad", "lost"} :
              Await(w, h[w].todo, answer) /\ (answer = "ok" => ok)
        BY <3>1 DEF Answer
      <3>3. UNCHANGED <<slug, late>> /\ h[w].call = "sent"
        BY <2>4 DEF Execute
      <3>4. Head(h[w].todo) \in Commands /\ h[w].todo \in Plans
        BY <2>1, <2>2, <3>3, PlanFacts
      <3>5. /\ \A s \in Slugs : s # slug[h[w].id] => live'[s] = live[s] /\ dir'[s] = dir[s]
            /\ answer = "ok" => Promised(Head(h[w].todo), slug[h[w].id], h[w].id)
        BY <2>1, <3>1, <3>2, <3>4, PerformFacts
      <3>6. Local(w, h[w].todo, answer)
        BY <3>2, <3>3, <3>5 DEF Local
      <3>7. QED
        BY <1>12, <2>1, <3>2, <3>4, <3>6 DEF Calls
    <2>5. CASE Unreachable(w)
      <3>1. Local(w, h[w].todo, "lost")
        BY <2>5 DEF Unreachable, Local
      <3>2. QED
        BY <1>12, <2>1, <2>2, <2>5, <3>1 DEF Unreachable, Calls
    <2>6. CASE Timeout(w)
      <3>1. Local(w, h[w].todo, "lost")
        BY <2>6 DEF Timeout, Local
      <3>2. QED
        BY <1>12, <2>1, <2>2, <2>6, <3>1 DEF Timeout, Calls
    <2>7. CASE GiveUp(w)
      BY <1>11, <2>1, <2>7 DEF GiveUp
    <2>8. CASE Fail(w)
      BY <1>11, <2>1, <2>8 DEF Fail
    <2>9. CASE SendNext(w)
      <3>1. /\ Tail(h[w].todo) \in PlansOf(h[w].op)
            /\ h[w].op = "maintain" /\ Head(Tail(h[w].todo)) = "install"
                  => Head(h[w].todo) = "stop"
        BY <2>1, <2>2, <2>9, PlanFacts DEF SendNext
      <3>2. Tail(h[w].todo) \in Plans
        BY <2>1, <3>1, PlanFacts
      <3>3. w \in solo /\ h[w].op = "maintain" /\ Head(Tail(h[w].todo)) = "install"
               => live[slug[h[w].id]] = NoId
        BY <1>1, <2>9, <3>1 DEF SendNext, SoloOf, Acknowledged
      <3>4. Local(w, Tail(h[w].todo), "sent")
        BY <2>9, <3>3 DEF SendNext, Local
      <3>5. QED
        BY <1>12, <2>1, <2>9, <3>2, <3>4 DEF SendNext, Calls
    <2>10. CASE Finish(w)
      <3>1. CASE Leave(w)
        BY <1>11, <2>1, <2>10, <3>1 DEF Finish
      <3>2. CASE Await(w, <<>>, "fetch")
        <4>1. Local(w, <<>>, "fetch")
          BY <2>10 DEF Finish, Local
        <4>2. QED
          BY <1>12, <2>1, <3>2, <4>1 DEF Calls, Plans
      <3>3. QED
        BY <2>10, <3>1, <3>2 DEF Finish
    <2>11. CASE Complete(w)
      <3>1. \A s \in Slugs : s # slug[h[w].id] => live'[s] = live[s] /\ dir'[s] = dir[s]
        BY <2>11 DEF Complete, TypeOK
      <3>2. QED
        BY <1>11, <2>1, <2>11, <3>1 DEF Complete
    <2>12. QED
      BY <1>13, <2>3, <2>4, <2>5, <2>6, <2>7, <2>8, <2>9, <2>10, <2>11 DEF Step
  <1>14. ASSUME NEW r \in late, ExecuteLate(r)
         PROVE  SoloInv' /\ UpdateWhileStopped'
    <2>1. r.cmd \in Commands /\ r.id \in Ids /\ slug[r.id] \in Slugs
      BY DEF TypeOK, Requests, RowInv
    <2>2. /\ \A s \in Slugs : s # slug[r.id] => live'[s] = live[s] /\ dir'[s] = dir[s]
          /\ UNCHANGED <<h, slug, solo>> /\ late' \subseteq late
      BY <1>14, <2>1, PerformFacts DEF ExecuteLate
    <2>3. ASSUME NEW v \in solo
          PROVE  SoloOf(v)'
      <3>1. slug[h[v].id] \in Slugs
        BY <1>1 DEF SoloOf, PlanInv
      <3>2. slug[h[v].id] = slug[r.id] => h[v].call = "lost"
        BY <1>1, <1>14 DEF SoloOf
      <3>3. \A u \in Workers : u # v /\ Busy(u)' => slug'[h'[u].id] # slug[h[v].id]
        BY <1>3, <2>2 DEF Busy
      <3>4. QED
        BY <1>4, <2>2, <3>1, <3>2, <3>3
    <2>4. QED
      BY <1>2, <2>2, <2>3
  <1>15. CASE Restart
    BY <1>2, <1>15 DEF Restart
  <1>16. ASSUME NEW s \in Slugs, ServerExit(s)
         PROVE  SoloInv' /\ UpdateWhileStopped'
    <2>1. /\ UNCHANGED <<h, slug, late, dir>> /\ solo' = solo \ On(s)
          /\ \A t \in Slugs : t # s => live'[t] = live[t]
      BY <1>16 DEF ServerExit, TypeOK
    <2>2. ASSUME NEW v \in solo, v \in solo'
          PROVE  SoloOf(v)'
      <3>1. slug[h[v].id] \in Slugs /\ slug[h[v].id] # s
        BY <1>1, <2>1, <2>2 DEF SoloOf, PlanInv, On
      <3>2. \A u \in Workers : u # v /\ Busy(u)' => slug'[h'[u].id] # slug[h[v].id]
        BY <1>3, <2>1 DEF Busy
      <3>3. QED
        BY <1>4, <2>1, <3>1, <3>2
    <2>3. QED
      BY <1>2, <2>1, <2>2
  <1>17. CASE \E id \in Ids : Delete(id) \/ BecomeDue(id)
    BY <1>5, <1>17 DEF Delete, BecomeDue
  <1>18. CASE Wake
    BY <1>5, <1>18 DEF Wake
  <1>19. CASE UNCHANGED vars
    BY <1>5, <1>19 DEF vars
  <1>20. QED
    BY <1>6, <1>8, <1>9, <1>10, <1>13, <1>14, <1>15, <1>16, <1>17, <1>18, <1>19
       DEF Next, Crash, CrashInCreate, Workers


LEMMA InvInductive == IInv /\ [Next]_vars => IInv'
  BY TypeStep, PlanStep, RowStep, SoloStep DEF IInv

LEMMA InvHolds == Spec => []IInv
  <1>1. Init => IInv
    BY InitType, InitInv DEF IInv
  <1>2. QED
    BY <1>1, InvInductive, PTL DEF Spec

\* Every variable keeps its type.
THEOREM TypeCorrect == Spec => []TypeOK
  <1>1. IInv => TypeOK
    BY DEF IInv
  <1>2. QED
    BY <1>1, InvHolds, PTL

\* However many instances are created, cloned, deleted and purged, and whatever
\* fails meanwhile, two rows share neither a slug nor a port.
THEOREM RowsStayDistinct == Spec => []DistinctRows
  <1>1. IInv => DistinctRows
    BY DEF IInv
  <1>2. QED
    BY <1>1, InvHolds, PTL

\* The maintenance run of an instance nobody else works on never updates the
\* files of a server that is up.
THEOREM UpdatesWhileStopped == Spec => []UpdateWhileStopped
  <1>1. IInv => UpdateWhileStopped
    BY DEF IInv
  <1>2. QED
    BY <1>1, InvHolds, PTL

\* The step of one worker that writes the status of an instance of solo.
LEMMA TruthStep ==
    ASSUME IInv, Next, NEW w \in solo, NEW id \in Ids, h[w].id = id,
           Finish(w) \/ status'[id] # status[id]
    PROVE  /\ Truth(id)'
           /\ status'[id] = "installed" => dir'[slug[id]] = "server"
  <1> USE DEF rowVars, hostVars
  <1>1. TypeOK /\ PlanInv /\ RowInv /\ SoloInv
    BY DEF IInv
  <1>2. /\ w \in Workers /\ Busy(w) /\ h[w].op \in Ops /\ slug[id] \in Slugs
        /\ On(slug[id]) = {w}
    <2>1. w \in Workers
      BY <1>1 DEF TypeOK
    <2>2. Busy(w) /\ On(slug[id]) = {w}
      BY <1>1 DEF SoloInv
    <2>3. h[w].op \in Ops
      BY <1>1, <2>1, <2>2 DEF TypeOK, Handlers, Idle, Busy
    <2>4. QED
      BY <1>1, <2>1, <2>2, <2>3 DEF PlanInv
  <1>3. ASSUME status'[id] \in {"none", "failed"}
        PROVE  /\ Truth(id)'
               /\ status'[id] = "installed" => dir'[slug[id]] = "server"
    BY <1>3 DEF Truth
  <1>4. ASSUME NEW s \in Statuses, SetStatus(id, s)
        PROVE  status'[id] \in {"none", s}
    BY <1>1, <1>4 DEF SetStatus, Exists, TypeOK
  <1>5. CASE Finish(w)
    <2>1. /\ h[w].call = "ok" /\ Len(h[w].todo) = 1 /\ h[w].todo \in PlansOf(h[w].op)
          /\ UNCHANGED <<slug, dir, live>>
      BY <1>1, <1>2, <1>5 DEF Finish, PlanInv
    <2>2. Acknowledged(Head(h[w].todo), id)
      BY <1>1, <2>1 DEF SoloInv
    <2>3. /\ h[w].op \in {"start", "maintain"} => Head(h[w].todo) = "start"
          /\ h[w].op = "stop" => Head(h[w].todo) = "stop"
          /\ h[w].op = "install" => Head(h[w].todo) = "install"
      BY <1>2, <2>1, PlanFacts
    <2>4. CASE h[w].op = "delete"
      BY <1>1, <1>3, <1>5, <2>4 DEF Finish, TypeOK
    <2>5. CASE h[w].op \in {"start", "maintain"}
      <3>1. status'[id] \in {"none", "running"}
        BY <1>4, <1>5, <2>5 DEF Finish, Done, Statuses
      <3>2. live'[slug'[id]] = id
        BY <2>1, <2>2, <2>3, <2>5 DEF Acknowledged
      <3>3. QED
        BY <3>1, <3>2 DEF Truth
    <2>6. CASE h[w].op = "stop"
      <3>1. status'[id] \in {"none", "stopped"}
        BY <1>4, <1>5, <2>6 DEF Finish, Done, Statuses
      <3>2. live'[slug'[id]] = NoId
        BY <2>1, <2>2, <2>3, <2>6 DEF Acknowledged
      <3>3. QED
        BY <3>1, <3>2 DEF Truth
    <2>7. CASE h[w].op = "install"
      <3>1. status'[id] \in {"none", "installed"}
        BY <1>4, <1>5, <2>7 DEF Finish, Done, Statuses
      <3>2. dir'[slug[id]] = "server"
        BY <2>1, <2>2, <2>3, <2>7 DEF Acknowledged
      <3>3. QED
        BY <3>1, <3>2 DEF Truth
    <2>8. QED
      BY <1>2, <2>4, <2>5, <2>6, <2>7 DEF Ops
  <1>6. CASE ~Finish(w)
    <2>1. status'[id] # status[id]
      BY <1>6
    <2>2. ASSUME NEW i \in Ids, NEW p \in Ports, Create(i, p)
          PROVE  FALSE
      BY <1>1, <1>2, <2>1, <2>2, LifecycleAssumption DEF Create, TypeOK
    <2>3. ASSUME NEW i \in Ids, Delete(i)
          PROVE  status'[id] \in {"none", "failed"}
      BY <1>1, <2>1, <2>3 DEF Delete, TypeOK
    <2>4. ASSUME NEW v \in Workers, Step(v)
          PROVE  status'[id] \in {"none", "failed"}
      <3>1. h[v].call \in Calls
        BY <2>4 DEF Step, Queried, Execute, Unreachable, Timeout, GiveUp, Fail,
                    SendNext, Finish, Complete, Calls
      <3>2. Busy(v) /\ h[v].id \in Ids
        BY <1>1, <3>1, CallIsBusy
      <3>3. ASSUME h[v].id = id
            PROVE  v = w
        BY <1>2, <3>2, <3>3 DEF On
      <3>4. ASSUME NEW s \in Statuses, SetStatus(h[v].id, s)
            PROVE  h[v].id = id
        BY <1>1, <2>1, <3>2, <3>4 DEF SetStatus, TypeOK
      <3>5. CASE Finish(v)
        <4>1. h[v].id = id
          BY <1>1, <2>1, <3>2, <3>5 DEF Finish, SetStatus, TypeOK
        <4>2. QED
          BY <1>6, <3>3, <3>5, <4>1
      <3>6. CASE Queried(v) \/ GiveUp(v) \/ Fail(v)
        <4>1. SetStatus(h[v].id, "failed")
          BY <2>1, <3>6 DEF Queried, GiveUp, Fail
        <4>2. QED
          BY <1>4, <3>4, <4>1 DEF Statuses
      <3>7. CASE Execute(v) \/ Unreachable(v) \/ Timeout(v) \/ SendNext(v) \/ Complete(v)
        BY <2>1, <3>7 DEF Execute, Unreachable, Timeout, SendNext, Complete
      <3>8. QED
        BY <2>4, <3>5, <3>6, <3>7 DEF Step
    <2>5. \/ \E i \in Ids, p \in Ports : Create(i, p)
          \/ \E i \in Ids : Delete(i)
          \/ \E v \in Workers : Step(v)
      BY <2>1 DEF Next, Operate, Purge, BecomeDue, Wake, Maintain, ExecuteLate, Crash,
                  CrashInCreate, Restart, ServerExit
    <2>6. QED
      BY <1>3, <2>2, <2>3, <2>4, <2>5
  <1>7. QED
    BY <1>5, <1>6

\* An operation that ran alone on its slug and was answered leaves a row that
\* tells the truth about its server, whatever went wrong before.
THEOREM TruthIsTold == Spec => TruthAfterSolo
  <1> DEFINE Told == \A w \in solo, id \in Ids :
                        h[w].id = id /\ (Finish(w) \/ status'[id] # status[id]) =>
                            /\ Truth(id)'
                            /\ status'[id] = "installed" => dir'[slug[id]] = "server"
  <1>1. IInv /\ [Next]_vars => [Told]_vars
    BY TruthStep
  <1>2. Spec => [][Told]_vars
    BY <1>1, InvHolds, PTL DEF Spec
  <1>3. QED
    BY <1>2 DEF TruthAfterSolo

=============================================================================
