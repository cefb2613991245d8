-------------------------- MODULE MaintenanceProofs --------------------------
(***************************************************************************)
(* Types, the interval and the window of Maintenance, for every value of   *)
(* its constants.                                                          *)
(***************************************************************************)
EXTENDS Maintenance, TLAPS

\* The end of a run, whichever way: what it does to the worker and the round.
LEMMA EndFacts ==
    ASSUME TypeOK, NEW w \in Workers, NEW id \in Ids, Leave(w, id) \/ Abort(w)
    PROVE  /\ h' = [h EXCEPT ![w] = Idle]
           /\ todo' \subseteq todo
           /\ w # Loop => todo' = todo
           /\ w = Loop => \A r \in todo' : r.id # id
           /\ loop' \in {"sleep", "round"}
           /\ slept' \in BOOLEAN
           /\ loop' = "sleep" /\ todo' # {} => loop = "sleep"
  BY DEF TypeOK, Leave, Abort, task

\* A run that is started or goes on is under way, or it ends.
LEMMA BeginFacts ==
    ASSUME NEW w \in Workers, NEW id \in Ids, NEW p,
           Start(w, id, p) \/ Proceed(w, id, p)
    PROVE  \/ /\ \E a \in {"query", "work"} :
                     h' = [h EXCEPT ![w] = [at |-> a, id |-> id, policy |-> p]]
              /\ UNCHANGED task
           \/ Leave(w, id) \/ Abort(w)
  BY DEF Start, Proceed

\* A row that is inserted is behind the others, and is not twice in the table.
LEMMA AppendFacts ==
    ASSUME NEW t \in Seq(Ids), NEW id \in Ids,
           \A i, j \in DOMAIN t : t[i] = t[j] => i = j,
           \A i \in DOMAIN t : t[i] # id
    PROVE  /\ Append(t, id) \in Seq(Ids)
           /\ \A i, j \in DOMAIN Append(t, id) : Append(t, id)[i] = Append(t, id)[j] => i = j
           /\ \A k \in Ids : (\E i \in DOMAIN Append(t, id) : Append(t, id)[i] = k)
                              <=> (\E i \in DOMAIN t : t[i] = k) \/ k = id
<1> DEFINE u == Append(t, id)
<1>1. /\ u \in Seq(Ids)
      /\ DOMAIN t = 1..Len(t) /\ Len(t) \in Nat
      /\ DOMAIN u = 1..(Len(t) + 1)
      /\ u[Len(t) + 1] = id
      /\ \A i \in 1..Len(t) : u[i] = t[i]
  OBVIOUS
<1> HIDE DEF u
<1>2. ASSUME NEW i \in DOMAIN u, NEW j \in DOMAIN u, u[i] = u[j]
      PROVE  i = j
  <2>1. CASE i = Len(t) + 1 \/ j = Len(t) + 1
    BY <1>1, <1>2, <2>1
  <2>2. CASE i # Len(t) + 1 /\ j # Len(t) + 1
    <3>1. i \in DOMAIN t /\ j \in DOMAIN t /\ t[i] = t[j]
      BY <1>1, <1>2, <2>2
    <3> QED BY <3>1
  <2> QED BY <2>1, <2>2
<1>3. ASSUME NEW k \in Ids
      PROVE  (\E i \in DOMAIN u : u[i] = k) <=> (\E i \in DOMAIN t : t[i] = k) \/ k = id
  BY <1>1
<1> QED BY <1>1, <1>2, <1>3 DEF u

\* Opening a window: the rows only grow by the instance itself.
LEMMA WindowFacts ==
    ASSUME TypeOK, NEW id \in Ids, OpenWindow(id)
    PROVE  /\ table' \in Seq(Ids)
           /\ \A i, j \in DOMAIN table' : table'[i] = table'[j] => i = j
           /\ since' \in [Ids -> Ages]
           /\ \A k \in Ids : HasRow(k)' <=> HasRow(k) \/ k = id
           /\ policy' = policy /\ ran' = ran
           /\ \A k \in Ids : k # id \/ since[k] # Never => since'[k] = since[k]
<1>1. /\ since' \in [Ids -> Ages]
      /\ \A k \in Ids : k # id \/ since[k] # Never => since'[k] = since[k]
  BY MaintenanceAssumption DEF TypeOK, OpenWindow, Ages, Never
<1>2. CASE HasRow(id)
  BY <1>1, <1>2 DEF TypeOK, OpenWindow, HasRow
<1>3. CASE ~HasRow(id)
  <2>1. table' = Append(table, id)
    BY <1>3 DEF OpenWindow
  <2>2. /\ table' \in Seq(Ids)
        /\ \A i, j \in DOMAIN table' : table'[i] = table'[j] => i = j
        /\ \A k \in Ids : HasRow(k)' <=> HasRow(k) \/ k = id
    <3>1. /\ table \in Seq(Ids)
          /\ \A i, j \in DOMAIN table : table[i] = table[j] => i = j
          /\ \A i \in DOMAIN table : table[i] # id
      BY <1>3 DEF TypeOK, HasRow
    <3> QED BY <2>1, <3>1, AppendFacts DEF HasRow
  <2> QED BY <1>1, <2>2 DEF OpenWindow
<1> QED BY <1>2, <1>3

\* The same of saving a policy.
LEMMA InsertFacts ==
    ASSUME TypeOK, NEW id \in Ids, NEW p \in Policies, Insert(id, p)
    PROVE  /\ table' \in Seq(Ids)
           /\ \A i, j \in DOMAIN table' : table'[i] = table'[j] => i = j
           /\ \A k \in Ids : HasRow(k)' <=> HasRow(k) \/ k = id
           /\ ran' \in [Ids -> Ages]
           /\ ran' = IF HasRow(id) THEN ran ELSE [ran EXCEPT ![id] = 0]
           /\ since' = since
           /\ policy' = [policy EXCEPT ![id] = p]
<1>1. /\ ran' = IF HasRow(id) THEN ran ELSE [ran EXCEPT ![id] = 0]
      /\ since' = since
      /\ policy' = [policy EXCEPT ![id] = p]
  BY DEF Insert
<1>2. ran' \in [Ids -> Ages]
  BY <1>1, MaintenanceAssumption DEF TypeOK, Ages
<1>3. CASE HasRow(id)
  BY <1>1, <1>2, <1>3 DEF TypeOK, Insert, HasRow
<1>4. CASE ~HasRow(id)
  <2>1. table' = Append(table, id)
    BY <1>4 DEF Insert
  <2>2. /\ table' \in Seq(Ids)
        /\ \A i, j \in DOMAIN table' : table'[i] = table'[j] => i = j
        /\ \A k \in Ids : HasRow(k)' <=> HasRow(k) \/ k = id
    <3>1. /\ table \in Seq(Ids)
          /\ \A i, j \in DOMAIN table : table[i] = table[j] => i = j
          /\ \A i \in DOMAIN table : table[i] # id
      BY <1>4 DEF TypeOK, HasRow
    <3> QED BY <2>1, <3>1, AppendFacts DEF HasRow
  <2> QED BY <1>1, <1>2, <2>2
<1> QED BY <1>3, <1>4

-----------------------------------------------------------------------------
\* Types.

LEMMA TaskType ==
    ASSUME TypeOK, NEW w \in Workers, NEW id \in Ids, NEW p \in Policies \cup {Default},
           Start(w, id, p) \/ Proceed(w, id, p) \/ Leave(w, id)
    PROVE  /\ loop' \in {"sleep", "round"}
           /\ slept' \in BOOLEAN
           /\ todo' \subseteq [id : Ids, policy : Policies]
           /\ h' \in [Workers -> Runs \cup {Idle}]
<1>1. CASE Leave(w, id) \/ Abort(w)
  BY <1>1, EndFacts DEF TypeOK
<1>2. CASE /\ \E a \in {"query", "work"} :
                 h' = [h EXCEPT ![w] = [at |-> a, id |-> id, policy |-> p]]
           /\ UNCHANGED task
  BY <1>2 DEF TypeOK, task, Runs
<1> QED BY <1>1, <1>2, BeginFacts

\* Ages grow up to Cap, and what never happened has none.
LEMMA OlderFacts ==
    ASSUME NEW age \in Ages
    PROVE  /\ Older(age) \in Ages
           /\ age # Never => Older(age) \in 0..Cap /\ age <= Older(age)
           /\ Older(age) = Never <=> age = Never
           /\ \A other \in Ages : age <= other => Older(age) <= Older(other)
  BY MaintenanceAssumption DEF Older, Ages, Never

LEMMA TypeStep == TypeOK /\ [Next]_vars => TypeOK'
<1> SUFFICES ASSUME TypeOK, [Next]_vars PROVE TypeOK'
  OBVIOUS
<1>1. CASE Tick
  <2>1. \A id \in Ids : /\ ran[id] \in Ages /\ since[id] \in Ages
                        /\ done[id] \in Ages /\ done[id] # Never
    BY MaintenanceAssumption DEF TypeOK, Ages, Never
  <2>2. /\ ran' \in [Ids -> Ages] /\ since' \in [Ids -> Ages]
        /\ done' \in [Ids -> 0..Cap]
    BY <1>1, <2>1, OlderFacts DEF Tick
  <2> QED BY <1>1, <2>2 DEF TypeOK, Tick
<1>2. ASSUME NEW id \in Ids, NEW p \in Policies, Save(id, p)
      PROVE  TypeOK'
  <2>1. Insert(id, p)
    BY <1>2 DEF Save
  <2>2. /\ table' \in Seq(Ids)
        /\ \A i, j \in DOMAIN table' : table'[i] = table'[j] => i = j
        /\ ran' \in [Ids -> Ages] /\ since' = since
        /\ policy' = [policy EXCEPT ![id] = p]
    BY <2>1, InsertFacts
  <2>3. policy' \in [Ids -> Policies \cup {Default}]
    BY <2>2 DEF TypeOK
  <2> QED BY <1>2, <2>2, <2>3 DEF TypeOK, Save, task
<1>3. ASSUME NEW id \in Ids, Delete(id)
      PROVE  TypeOK'
  BY <1>3 DEF TypeOK, Delete, row, task
<1>4. ASSUME NEW w \in Workers, PutOff(w)
      PROVE  TypeOK'
  <2>1. h[w] \in Runs
    BY <1>4 DEF TypeOK, PutOff, Idle
  <2>2. h[w].id \in Ids /\ h[w].policy \in Policies \cup {Default}
    BY <2>1 DEF Runs
  <2> QED BY <1>4, <2>2, TaskType, WindowFacts DEF TypeOK, PutOff
<1>5. ASSUME NEW w \in Workers, GoAhead(w)
      PROVE  TypeOK'
  <2>1. h[w] \in Runs
    BY <1>5 DEF TypeOK, GoAhead, Idle
  <2>2. h[w].id \in Ids /\ h[w].policy \in Policies \cup {Default}
    BY <2>1 DEF Runs
  <2> QED BY <1>5, <2>2, TaskType, WindowFacts DEF TypeOK, GoAhead, row
<1>6. ASSUME NEW w \in Workers, Complete(w)
      PROVE  TypeOK'
  <2>1. h[w] \in Runs
    BY <1>6 DEF TypeOK, Complete, Idle
  <2>2. h[w].id \in Ids /\ h[w].policy \in Policies \cup {Default}
    BY <2>1 DEF Runs
  <2>3. MarkRun(h[w].id) /\ done' = [done EXCEPT ![h[w].id] = 0]
    BY <1>6 DEF Complete
  <2>4. /\ ran' \in [Ids -> Ages] /\ since' \in [Ids -> Ages]
        /\ done' \in [Ids -> 0..Cap]
    BY <2>2, <2>3, MaintenanceAssumption DEF TypeOK, MarkRun, Ages, Never
  <2> QED BY <1>6, <2>2, <2>4, TaskType DEF TypeOK, Complete, MarkRun
<1>7. ASSUME NEW w \in Workers, Fail(w)
      PROVE  TypeOK'
  <2>1. h[w] \in Runs
    BY <1>7 DEF TypeOK, Fail, Idle
  <2>2. h[w].id \in Ids /\ h[w].policy \in Policies \cup {Default}
    BY <2>1 DEF Runs
  <2> QED BY <1>7, <2>2, TaskType DEF TypeOK, Fail, row
<1>8. ASSUME NEW w \in Procs, NEW id \in Ids, Manual(w, id)
      PROVE  TypeOK'
  <2>1. policy[id] \in Policies \cup {Default} /\ w \in Workers
    BY DEF TypeOK, Workers
  <2> QED BY <1>8, <2>1, TaskType DEF TypeOK, Manual, row
<1>9. CASE Wake
  <2>1. ASSUME NEW id \in Ids, Due(id)
        PROVE  policy[id] \in Policies
    BY <2>1, MaintenanceAssumption DEF TypeOK, Due
  <2> QED BY <1>9, <2>1 DEF TypeOK, Wake, row
<1>10. CASE TakeNext
  <2>1. PICK r \in todo : IF r.id \in exists THEN Start(Loop, r.id, r.policy)
                           ELSE Leave(Loop, r.id)
    BY <1>10 DEF TakeNext
  <2>2. r.id \in Ids /\ r.policy \in Policies \cup {Default} /\ Loop \in Workers
    BY DEF TypeOK, Workers
  <2> QED BY <1>10, <2>1, <2>2, TaskType DEF TypeOK, TakeNext, row
<1>11. CASE Rotate
  BY <1>11 DEF TypeOK, Rotate, row
<1>12. CASE UNCHANGED vars
  BY <1>12 DEF TypeOK, vars, row, task
<1> QED
  BY <1>1, <1>2, <1>3, <1>4, <1>5, <1>6, <1>7, <1>8, <1>9, <1>10, <1>11, <1>12 DEF Next, Run

LEMMA InitType == Init => TypeOK
<1>1. Never \in Ages /\ Cap \in 0..Cap
  BY MaintenanceAssumption DEF Ages, Never
<1>2. <<>> \in Seq(Ids) /\ DOMAIN <<>> = {}
  OBVIOUS
<1> QED BY <1>1, <1>2 DEF Init, TypeOK

\* Whatever operators do and whatever fails, every variable keeps its type; in
\* particular no instance has two rows (MaintenanceStore).
THEOREM MaintenanceTyped == Spec => []TypeOK
  BY InitType, TypeStep, PTL DEF Spec

\* Who has which instance after a run was started, went on or ended.
LEMMA TaskFacts ==
    ASSUME TypeOK, NEW w \in Workers, NEW id \in Ids, NEW p,
           Start(w, id, p) \/ Proceed(w, id, p) \/ Leave(w, id)
    PROVE  /\ todo' \subseteq todo
           /\ \A v \in Workers : v # w => h'[v] = h[v]
           /\ h'[w].at # "idle" => h'[w].id = id
<1>1. CASE Leave(w, id) \/ Abort(w)
  BY <1>1, EndFacts DEF TypeOK, Busy, Idle
<1>2. CASE /\ \E a \in {"query", "work"} :
                 h' = [h EXCEPT ![w] = [at |-> a, id |-> id, policy |-> p]]
           /\ UNCHANGED task
  BY <1>2 DEF TypeOK, task
<1> QED BY <1>1, <1>2, BeginFacts

-----------------------------------------------------------------------------
\* Rows.  Every run of a round is one of an instance a policy was saved for.

LEMMA RowStep ==
    ASSUME TypeOK, RowInv, [Next]_vars
    PROVE  RowInv'
<1>1. CASE Tick
  <2>1. ASSUME NEW id \in Ids
        PROVE  /\ HasRow(id)' = HasRow(id)
               /\ ran'[id] # Never => HasRow(id)' /\ ran'[id] <= done'[id]
    <3>1. ran[id] \in Ages /\ done[id] \in Ages
      BY MaintenanceAssumption DEF TypeOK, Ages
    <3>2. ran'[id] = Older(ran[id]) /\ done'[id] = Older(done[id])
      BY <1>1 DEF Tick
    <3>3. HasRow(id)' = HasRow(id)
      BY <1>1 DEF Tick, HasRow
    <3> QED BY <3>1, <3>2, <3>3, OlderFacts DEF RowInv
  <2> QED BY <1>1, <2>1 DEF RowInv, Tick
<1>2. ASSUME NEW id \in Ids, NEW p \in Policies, Save(id, p)
      PROVE  RowInv'
  <2>1. Insert(id, p) /\ saved' = saved \cup {id} /\ done' = done
    BY <1>2 DEF Save
  <2>2. \A k \in Ids : /\ HasRow(k)' <=> HasRow(k) \/ k = id
                       /\ k # id => ran'[k] = ran[k] /\ policy'[k] = policy[k]
    <3>1. /\ \A k \in Ids : HasRow(k)' <=> HasRow(k) \/ k = id
          /\ ran' = IF HasRow(id) THEN ran ELSE [ran EXCEPT ![id] = 0]
          /\ policy' = [policy EXCEPT ![id] = p]
      BY <2>1, InsertFacts
    <3> QED BY <3>1 DEF TypeOK
  <2>3. ran'[id] \in {ran[id], 0}
    BY <2>1, InsertFacts DEF TypeOK
  <2>4. done[id] \in 0..Cap
    BY DEF TypeOK
  <2>5. ASSUME NEW k \in Ids
        PROVE  /\ k \in saved' => HasRow(k)'
               /\ k \notin saved' => policy'[k] = Default
    BY <2>1, <2>2, <2>5 DEF RowInv
  <2>6. ASSUME NEW k \in Ids, ran'[k] # Never
        PROVE  HasRow(k)' /\ ran'[k] <= done'[k]
    <3>1. CASE k = id
      <4>1. CASE ran'[id] = ran[id]
        BY <2>1, <2>2, <2>6, <3>1, <4>1 DEF RowInv
      <4>2. CASE ran'[id] = 0
        BY <2>1, <2>2, <2>4, <3>1, <4>2 DEF Ages
      <4> QED BY <2>3, <4>1, <4>2
    <3>2. CASE k # id
      BY <2>1, <2>2, <2>6, <3>2 DEF RowInv
    <3> QED BY <3>1, <3>2
  <2> QED BY <2>5, <2>6 DEF RowInv
<1>3. ASSUME NEW id \in Ids, OpenWindow(id), UNCHANGED <<saved, done>>
      PROVE  RowInv'
  BY <1>3, WindowFacts DEF RowInv
<1>4. ASSUME NEW w \in Workers, Complete(w)
      PROVE  RowInv'
  <2>1. /\ h[w].id \in Ids
        /\ MarkRun(h[w].id) /\ done' = [done EXCEPT ![h[w].id] = 0] /\ saved' = saved
    BY <1>4 DEF TypeOK, Complete, Runs, Idle
  <2>2. /\ table' = table /\ policy' = policy
        /\ ran' \in {ran, [ran EXCEPT ![h[w].id] = 0]}
        /\ HasRow(h[w].id) \/ ran' = ran
    BY <2>1 DEF MarkRun
  <2>3. \A k \in Ids : HasRow(k)' = HasRow(k)
    BY <2>2 DEF HasRow
  <2>4. ASSUME NEW k \in Ids, ran'[k] # Never
        PROVE  HasRow(k) /\ ran'[k] <= done'[k]
    <3>1. CASE k = h[w].id
      <4>1. done'[k] = 0
        BY <2>1, <3>1 DEF TypeOK
      <4>2. HasRow(k)
        BY <2>2, <2>4, <3>1 DEF RowInv
      <4>3. ran'[k] = 0
        BY <2>1, <3>1, <4>2 DEF MarkRun, TypeOK
      <4> QED BY <4>1, <4>2, <4>3
    <3>2. CASE k # h[w].id
      <4>1. ran'[k] = ran[k] /\ done'[k] = done[k]
        BY <2>1, <2>2, <3>2 DEF TypeOK
      <4> QED BY <2>4, <4>1 DEF RowInv
    <3> QED BY <3>1, <3>2
  <2> QED BY <2>1, <2>2, <2>3, <2>4 DEF RowInv
<1>5. ASSUME UNCHANGED <<row, saved, done>>
      PROVE  RowInv'
  BY <1>5 DEF RowInv, row, HasRow
<1>6. ASSUME NEW w \in Workers, Run(w)
      PROVE  RowInv'
  <2>1. h[w].id \in Ids
    BY <1>6 DEF TypeOK, Run, PutOff, GoAhead, Complete, Fail, Runs, Idle
  <2>2. CASE PutOff(w)
    BY <1>3, <2>1, <2>2 DEF PutOff
  <2>3. CASE GoAhead(w)
    BY <1>3, <1>5, <2>1, <2>3 DEF GoAhead
  <2>4. CASE Fail(w)
    BY <1>5, <2>4 DEF Fail
  <2> QED BY <1>4, <1>6, <2>2, <2>3, <2>4 DEF Run
<1> QED
  BY <1>1, <1>2, <1>5, <1>6 DEF Next, Delete, Manual, Wake, TakeNext, Rotate, vars, row

LEMMA AskedStep ==
    ASSUME TypeOK, RowInv, OnlyAsked, [Next]_vars
    PROVE  OnlyAsked'
<1>1. ASSUME NEW w \in Workers, NEW id \in Ids, NEW p,
             Start(w, id, p) \/ Proceed(w, id, p) \/ Leave(w, id),
             w = Loop => id \in saved, saved' = saved
      PROVE  OnlyAsked'
  BY <1>1, TaskFacts DEF OnlyAsked, Workers
<1>2. CASE Tick \/ Rotate \/ UNCHANGED vars
  BY <1>2 DEF Tick, Rotate, vars, task, OnlyAsked
<1>3. ASSUME NEW id \in Ids, (\E p \in Policies : Save(id, p)) \/ Delete(id)
      PROVE  OnlyAsked'
  BY <1>3 DEF Save, Delete, task, OnlyAsked
<1>4. ASSUME NEW w \in Workers, Run(w)
      PROVE  OnlyAsked'
  <2>1. h[w].id \in Ids
    BY <1>4 DEF TypeOK, Run, PutOff, GoAhead, Complete, Fail, Runs, Idle
  <2>2. w = Loop => h[w].id \in saved
    BY <1>4 DEF OnlyAsked, Run, PutOff, GoAhead, Complete, Fail
  <2> QED BY <1>1, <1>4, <2>1, <2>2 DEF Run, PutOff, GoAhead, Complete, Fail
<1>5. ASSUME NEW w \in Procs, NEW id \in Ids, Manual(w, id)
      PROVE  OnlyAsked'
  BY <1>1, <1>5, MaintenanceAssumption DEF Manual, Workers
<1>6. CASE Wake
  <2>1. \A id \in Ids : Due(id) => id \in saved
    BY MaintenanceAssumption DEF Due, RowInv
  <2> QED BY <1>6, <2>1 DEF Wake, OnlyAsked
<1>7. CASE TakeNext
  <2>1. PICK r \in todo : Start(Loop, r.id, r.policy) \/ Leave(Loop, r.id)
    BY <1>7 DEF TakeNext
  <2>2. r.id \in Ids /\ r.id \in saved
    BY DEF TypeOK, OnlyAsked
  <2> QED BY <1>1, <1>7, <2>1, <2>2 DEF TakeNext, Workers
<1> QED BY <1>2, <1>3, <1>4, <1>5, <1>6, <1>7 DEF Next

-----------------------------------------------------------------------------
\* Runs.  One worker at a time has an instance, and a round is ahead of it.

LEMMA EndKeepsRuns ==
    ASSUME TypeOK, RunInv, NEW w \in Workers, NEW id \in Ids,
           Leave(w, id) \/ Abort(w), saved' = saved,
           w \in Procs => \A r \in todo : r.id # id,
           \A k \in Ids : k # id => done'[k] = done[k] /\ ran'[k] = ran[k]
    PROVE  RunInv'
<1>1. /\ \A v \in Workers : h'[v] = IF v = w THEN Idle ELSE h[v]
      /\ todo' \subseteq todo
      /\ w # Loop => todo' = todo
      /\ w = Loop => \A r \in todo' : r.id # id
      /\ loop' = "sleep" /\ todo' # {} => loop = "sleep"
  BY EndFacts DEF TypeOK
<1>2. /\ ~Busy(w)'
      /\ \A v \in Workers : v # w => (Busy(v)' <=> Busy(v))
  BY <1>1 DEF Busy, Idle
<1>3. loop' = "sleep" => todo' = {}
  BY <1>1 DEF RunInv
<1>4. Busy(Loop)' => [id |-> h'[Loop].id, policy |-> h'[Loop].policy] \in todo'
  BY <1>1, <1>2 DEF RunInv, Workers
<1>5. OnlyAsked'
  BY <1>1, <1>2 DEF RunInv, OnlyAsked, Busy, Workers
<1>6. \A v, u \in Workers : Busy(v)' /\ Busy(u)' /\ v # u => h'[v].id # h'[u].id
  BY <1>1, <1>2 DEF RunInv
<1>7. ASSUME NEW r \in todo'
      PROVE  /\ r.policy.every <= done'[r.id] \/ ran'[r.id] = Never
             /\ \A v \in Procs : Busy(v)' => h'[v].id # r.id
  <2>1. r \in todo /\ r.id \in Ids
    BY <1>1, <1>7 DEF TypeOK
  <2>2. r.id # id
    BY <1>1, <1>7, <2>1 DEF Workers
  <2> QED BY <1>1, <1>2, <2>1, <2>2 DEF RunInv, Workers
<1> QED BY <1>3, <1>4, <1>5, <1>6, <1>7 DEF RunInv

LEMMA BeginKeepsRuns ==
    ASSUME TypeOK, RunInv, NEW w \in Workers, NEW id \in Ids, NEW p,
           NEW a \in {"query", "work"},
           h' = [h EXCEPT ![w] = [at |-> a, id |-> id, policy |-> p]],
           UNCHANGED <<task, saved, done, ran>>,
           w = Loop => [id |-> id, policy |-> p] \in todo,
           w \in Procs => \A r \in todo : r.id # id,
           \A v \in Workers : v # w /\ Busy(v) => h[v].id # id
    PROVE  RunInv'
<1>1. \A v \in Workers :
          h'[v] = IF v = w THEN [at |-> a, id |-> id, policy |-> p] ELSE h[v]
  BY DEF TypeOK
<1>2. /\ \A v \in Workers : v # w => (Busy(v)' <=> Busy(v))
      /\ loop' = loop /\ todo' = todo /\ saved' = saved /\ done' = done /\ ran' = ran
  BY <1>1 DEF Busy, task
<1>3. Busy(Loop)' => [id |-> h'[Loop].id, policy |-> h'[Loop].policy] \in todo'
  BY <1>1, <1>2 DEF RunInv, Workers
<1>4. OnlyAsked'
  BY <1>1, <1>2, <1>3 DEF RunInv, OnlyAsked, Busy, Workers
<1>5. \A v, u \in Workers : Busy(v)' /\ Busy(u)' /\ v # u => h'[v].id # h'[u].id
  BY <1>1, <1>2 DEF RunInv
<1>6. \A r \in todo', v \in Procs : Busy(v)' => h'[v].id # r.id
  BY <1>1, <1>2 DEF RunInv, Workers
<1> QED BY <1>2, <1>3, <1>4, <1>5, <1>6 DEF RunInv

\* A worker that has the instance may start its run, go on with it or end it.
LEMMA ProceedKeepsRuns ==
    ASSUME TypeOK, RunInv, NEW w \in Workers, NEW id \in Ids, NEW p,
           Start(w, id, p) \/ Proceed(w, id, p), UNCHANGED <<saved, done, ran>>,
           w = Loop => [id |-> id, policy |-> p] \in todo,
           w \in Procs => \A r \in todo : r.id # id,
           \A v \in Workers : v # w /\ Busy(v) => h[v].id # id
    PROVE  RunInv'
<1>1. CASE Leave(w, id) \/ Abort(w)
  BY <1>1, EndKeepsRuns
<1>2. CASE /\ \E a \in {"query", "work"} :
                 h' = [h EXCEPT ![w] = [at |-> a, id |-> id, policy |-> p]]
           /\ UNCHANGED task
  BY <1>2, BeginKeepsRuns
<1> QED BY <1>1, <1>2, BeginFacts

LEMMA RunStep ==
    ASSUME "overlap" \notin Faults,
           TypeOK, RowInv, RunInv, [Next]_vars
    PROVE  RunInv'
<1>1. ASSUME NEW w \in Workers, Busy(w)
      PROVE  /\ h[w].id \in Ids
             /\ w = Loop => [id |-> h[w].id, policy |-> h[w].policy] \in todo
             /\ w \in Procs => \A r \in todo : r.id # h[w].id
             /\ \A v \in Workers : v # w /\ Busy(v) => h[v].id # h[w].id
  <2>1. h[w] \in Runs
    BY <1>1 DEF TypeOK, Busy, Idle
  <2> QED BY <1>1, <2>1 DEF RunInv, Runs
<1>2. CASE Tick
  <2>1. ASSUME NEW r \in todo
        PROVE  r.policy.every <= done'[r.id] \/ ran'[r.id] = Never
    <3>1. r.id \in Ids /\ r.policy \in Policies
      BY DEF TypeOK
    <3>2. /\ done[r.id] \in Ages /\ done[r.id] # Never /\ done'[r.id] = Older(done[r.id])
          /\ r.policy.every \in Nat
          /\ r.policy.every <= done[r.id] \/ ran[r.id] = Never
          /\ ran'[r.id] = Older(ran[r.id])
      BY <1>2, <3>1, MaintenanceAssumption
         DEF TypeOK, RunInv, Tick, Ages, Never, PolicyType
    <3>3. done[r.id] <= Older(done[r.id]) /\ Older(done[r.id]) \in 0..Cap /\ done[r.id] \in 0..Cap
      BY <3>1, <3>2, OlderFacts DEF TypeOK
    <3> QED BY <3>2, <3>3 DEF Older
  <2> QED BY <1>2, <2>1 DEF RunInv, OnlyAsked, Tick, Busy
<1>3. ASSUME NEW id \in Ids, NEW p \in Policies, Save(id, p)
      PROVE  RunInv'
  <2>1. /\ UNCHANGED <<task, h, done>> /\ saved' = saved \cup {id}
        /\ ran' = IF HasRow(id) THEN ran ELSE [ran EXCEPT ![id] = 0]
    BY <1>3, InsertFacts DEF Save
  <2>2. ASSUME NEW r \in todo
        PROVE  ran'[r.id] = ran[r.id]
    <3>1. r.id \in Ids /\ HasRow(r.id)
      BY DEF TypeOK, RunInv, OnlyAsked, RowInv
    <3> QED BY <2>1, <3>1 DEF TypeOK
  <2> QED BY <2>1, <2>2 DEF RunInv, OnlyAsked, Busy, task
<1>4. ASSUME NEW id \in Ids, Delete(id)
      PROVE  RunInv'
  BY <1>4 DEF RunInv, OnlyAsked, Delete, Busy, task, row
<1>5. ASSUME NEW w \in Workers, Run(w)
      PROVE  RunInv'
  <2>1. Busy(w)
    BY <1>5 DEF Run, PutOff, GoAhead, Complete, Fail, Busy
  <2>2. CASE PutOff(w) \/ Fail(w)
    <3>1. UNCHANGED <<ran, saved, done>> /\ Leave(w, h[w].id)
      BY <1>1, <2>1, <2>2, WindowFacts DEF PutOff, Fail, row
    <3> QED BY <1>1, <2>1, <3>1, EndKeepsRuns
  <2>3. CASE GoAhead(w)
    <3>1. UNCHANGED <<ran, saved, done>> /\ Proceed(w, h[w].id, h[w].policy)
      BY <1>1, <2>1, <2>3, WindowFacts DEF GoAhead, row
    <3> QED BY <1>1, <2>1, <3>1, ProceedKeepsRuns
  <2>4. CASE Complete(w)
    <3>1. /\ Leave(w, h[w].id) /\ saved' = saved
          /\ \A k \in Ids : k # h[w].id => done'[k] = done[k] /\ ran'[k] = ran[k]
      BY <2>4 DEF Complete, MarkRun, TypeOK
    <3> QED BY <1>1, <2>1, <3>1, EndKeepsRuns
  <2> QED BY <1>5, <2>2, <2>3, <2>4 DEF Run
<1>6. ASSUME NEW w \in Procs, NEW id \in Ids, Manual(w, id)
      PROVE  RunInv'
  <2>1. ~Underway(id) /\ w \in Workers /\ w # Loop /\ UNCHANGED row
    BY <1>6, MaintenanceAssumption DEF Manual, Workers
  <2>2. /\ \A r \in todo : r.id # id
        /\ \A v \in Workers : h[v].id # id
    BY <2>1 DEF Underway
  <2> QED BY <1>6, <2>1, <2>2, ProceedKeepsRuns DEF Manual, row
<1>7. CASE Wake
  <2>1. todo = {} /\ ~Busy(Loop)
    BY <1>7 DEF Wake, RunInv
  <2>2. ASSUME NEW r \in todo'
        PROVE  /\ r.id \in saved
               /\ r.policy.every <= done[r.id] \/ ran[r.id] = Never
               /\ \A w \in Procs : Busy(w) => h[w].id # r.id
    <3>1. PICK id \in Ids : Due(id) /\ r = [id |-> id, policy |-> policy[id]]
      BY <1>7 DEF Wake
    <3>2. ~Underway(id)
      BY <1>7, <3>1 DEF Wake
    <3>3. id \in saved /\ (ran[id] # Never => ran[id] <= done[id])
      BY <3>1, MaintenanceAssumption DEF Due, RowInv
    <3>4. /\ policy[id] \in PolicyType /\ ran[id] \in Ages /\ done[id] \in 0..Cap
          /\ ran[id] # Never => ran[id] >= policy[id].every
      BY <3>1, <3>3, MaintenanceAssumption DEF TypeOK, Due
    <3>5. ran[id] # Never => policy[id].every <= done[id]
      BY <3>3, <3>4, MaintenanceAssumption DEF PolicyType, Ages
    <3> QED BY <3>1, <3>2, <3>3, <3>5 DEF Underway, Workers
  <2> QED BY <1>7, <2>1, <2>2 DEF RunInv, OnlyAsked, Wake, Busy, row
<1>8. CASE TakeNext
  <2>1. PICK r \in todo : IF r.id \in exists THEN Start(Loop, r.id, r.policy)
                           ELSE Leave(Loop, r.id)
    BY <1>8 DEF TakeNext
  <2>2. /\ r.id \in Ids /\ Loop \in Workers /\ Loop \notin Procs
        /\ r = [id |-> r.id, policy |-> r.policy]
        /\ \A v \in Workers : v # Loop /\ Busy(v) => h[v].id # r.id
    BY MaintenanceAssumption DEF TypeOK, RunInv, OnlyAsked, Workers
  <2>3. UNCHANGED <<saved, done, ran>>
    BY <1>8 DEF TakeNext, row
  <2> QED BY <2>1, <2>2, <2>3, EndKeepsRuns, ProceedKeepsRuns
<1>9. CASE Rotate
  <2>1. /\ loop' = "sleep" /\ todo' = {} /\ todo = {}
        /\ h' = h /\ saved' = saved /\ done' = done /\ ran' = ran
    BY <1>9 DEF Rotate, row
  <2>2. ~Busy(Loop)
    BY <1>9 DEF Rotate, Busy
  <2> QED BY <2>1, <2>2 DEF RunInv, OnlyAsked, Busy
<1>10. CASE UNCHANGED vars
  BY <1>10 DEF RunInv, OnlyAsked, Busy, vars, task, row
<1> QED
  BY <1>2, <1>3, <1>4, <1>5, <1>6, <1>7, <1>8, <1>9, <1>10 DEF Next

-----------------------------------------------------------------------------
\* Windows.

\* What such a step keeps when instances that were ready stay so.
LEMMA TaskKeepsFresh ==
    ASSUME TypeOK, FreshInv, NEW w \in Workers, NEW id \in Ids, NEW p,
           Start(w, id, p) \/ Proceed(w, id, p) \/ Leave(w, id),
           id \in Ready,
           Ready \subseteq Ready',
           \A k \in Ids : since'[k] # Never => since[k] # Never \/ k = id
    PROVE  FreshInv'
<1>1. /\ todo' \subseteq todo
      /\ \A v \in Workers : v # w => h'[v] = h[v]
      /\ h'[w].at # "idle" => h'[w].id = id
  BY TaskFacts
<1>2. \A k \in Ids : since'[k] # Never => k \in Ready'
  BY DEF FreshInv
<1>3. \A v \in Workers : h'[v].at # "idle" => h'[v].id \in Ready'
  BY <1>1 DEF FreshInv, Busy
<1>4. \A r \in todo' : r.id \in Ready'
  BY <1>1 DEF FreshInv
<1> QED BY <1>2, <1>3, <1>4 DEF FreshInv, Busy

LEMMA FreshStep ==
    ASSUME "overlap" \notin Faults,
           TypeOK, RowInv, RunInv, FreshInv, [Next]_vars
    PROVE  FreshInv'
<1>1. ASSUME NEW w \in Workers, Busy(w)
      PROVE  h[w].id \in Ids /\ h[w].id \in Ready
  <2>1. h[w] \in Runs
    BY <1>1 DEF TypeOK, Busy, Idle
  <2> QED BY <1>1, <2>1 DEF FreshInv, Runs
<1>2. ASSUME UNCHANGED row
      PROVE  Ready' = Ready /\ since' = since
  BY <1>2 DEF row, Ready, Due, HasRow
<1>3. ASSUME UNCHANGED <<row, task, h>>
      PROVE  FreshInv'
  BY <1>2, <1>3 DEF FreshInv, task, Busy
<1>4. CASE Tick
  <2>1. ASSUME NEW k \in Ids
        PROVE  /\ k \in Ready => k \in Ready'
               /\ since'[k] # Never => since[k] # Never
    <3>1. /\ ran[k] \in Ages /\ since[k] \in Ages /\ policy[k] \in PolicyType
          /\ ran'[k] = Older(ran[k]) /\ since'[k] = Older(since[k])
          /\ policy' = policy /\ table' = table
      BY <1>4, MaintenanceAssumption DEF TypeOK, Tick
    <3>2. /\ ran'[k] \in Ages
          /\ ran[k] # Never => ran[k] <= ran'[k]
          /\ ran[k] = Never => ran'[k] = Never
      BY <3>1, OlderFacts DEF Older
    <3>3. policy[k].every \in Nat
      BY <3>1 DEF PolicyType
    <3>4. ran[k] >= policy[k].every => ran'[k] >= policy[k].every
      BY <3>1, <3>2, <3>3, MaintenanceAssumption DEF Ages, Never
    <3>5. k \in Ready => k \in Ready'
      BY <3>1, <3>2, <3>4 DEF Ready, Due, HasRow
    <3> QED BY <3>1, <3>5 DEF Older
  <2>2. h' = h /\ todo' = todo
    BY <1>4 DEF Tick
  <2>3. Ready \subseteq Ready'
    BY <2>1, MaintenanceAssumption DEF Ready
  <2> QED BY <2>1, <2>2, <2>3 DEF FreshInv, Busy
<1>5. ASSUME NEW id \in Ids, NEW p \in Policies, Save(id, p)
      PROVE  FreshInv'
  <2>1. Insert(id, p) /\ h' = h /\ todo' = todo /\ since' = since
    BY <1>5 DEF Save, task, Insert
  <2>2. id \in Hasty \/ id \notin saved
    BY <1>5 DEF Save
  <2>3. ASSUME NEW k \in Ready, k # id
        PROVE  k \in Ready'
    <3>1. CASE k \in Hasty
      BY <3>1 DEF Ready
    <3>2. CASE k \in Ids /\ Due(k)
      <4>1. HasRow(k)' /\ ran'[k] = ran[k] /\ policy'[k] = policy[k]
        BY <2>1, <2>3, <3>2, InsertFacts DEF Due, TypeOK
      <4> QED BY <3>2, <4>1 DEF Ready, Due
    <3> QED BY <3>1, <3>2 DEF Ready
  <2>4. id \in Ready /\ id \notin Hasty => id \in saved
    BY MaintenanceAssumption DEF Ready, Due, RowInv
  <2>5. Ready \subseteq Ready'
    BY <2>2, <2>3, <2>4 DEF Ready
  <2> QED BY <2>1, <2>5 DEF FreshInv, Busy
<1>6. ASSUME NEW w \in Workers, Run(w)
      PROVE  FreshInv'
  <2>1. Busy(w)
    BY <1>6 DEF Run, PutOff, GoAhead, Complete, Fail, Busy
  <2>2. h[w].id \in Ids /\ h[w].id \in Ready
    BY <1>1, <2>1
  <2>3. ASSUME OpenWindow(h[w].id)
        PROVE  /\ Ready \subseteq Ready'
               /\ \A k \in Ids : since'[k] # Never => since[k] # Never \/ k = h[w].id
    BY <2>2, <2>3, WindowFacts DEF Ready, Due, HasRow, OpenWindow
  <2>4. ASSUME UNCHANGED row
        PROVE  /\ Ready \subseteq Ready'
               /\ \A k \in Ids : since'[k] # Never => since[k] # Never \/ k = h[w].id
    BY <1>2, <2>4
  <2>5. CASE PutOff(w)
    BY <2>2, <2>3, <2>5, TaskKeepsFresh DEF PutOff
  <2>6. CASE Fail(w)
    BY <2>2, <2>4, <2>6, TaskKeepsFresh DEF Fail
  <2>7. CASE GoAhead(w)
    BY <2>2, <2>3, <2>4, <2>7, TaskKeepsFresh DEF GoAhead
  <2>8. CASE Complete(w)
    <3>1. Leave(w, h[w].id) /\ MarkRun(h[w].id)
      BY <2>8 DEF Complete
    <3>2. /\ table' = table /\ policy' = policy
          /\ since'[h[w].id] = Never
          /\ \A k \in Ids : k # h[w].id => ran'[k] = ran[k] /\ since'[k] = since[k]
      BY <2>2, <3>1 DEF MarkRun, TypeOK
    <3>3. \A k \in Ids : k \in Ready /\ k # h[w].id => k \in Ready'
      BY <3>2 DEF Ready, Due, HasRow
    <3>4. \A k \in Ids : since'[k] # Never => k \in Ready'
      BY <3>2, <3>3 DEF FreshInv
    <3>5. ASSUME NEW v \in Workers, h'[v].at # "idle"
          PROVE  h'[v].id \in Ready'
      <4>1. v # w /\ h'[v] = h[v] /\ Busy(v)
        BY <2>2, <3>1, <3>5 DEF Leave, Busy, Idle, TypeOK
      <4>2. h[v].id # h[w].id
        BY <2>1, <4>1 DEF RunInv
      <4> QED BY <1>1, <3>3, <4>1, <4>2
    <3>6. ASSUME NEW r \in todo'
          PROVE  r.id \in Ready'
      <4>1. r \in todo /\ r.id \in Ids
        BY <3>1, <3>6 DEF Leave, TypeOK
      <4>2. r.id # h[w].id
        BY <2>1, <3>1, <3>6, <4>1 DEF Leave, RunInv, Workers
      <4> QED BY <3>3, <4>1, <4>2 DEF FreshInv
    <3> QED BY <3>4, <3>5, <3>6 DEF FreshInv, Busy
  <2> QED BY <1>6, <2>5, <2>6, <2>7, <2>8 DEF Run
<1>7. ASSUME NEW w \in Procs, NEW id \in Ids, Manual(w, id)
      PROVE  FreshInv'
  <2>1. w \in Workers /\ id \in Ready /\ Start(w, id, policy[id]) /\ UNCHANGED row
    BY <1>7 DEF Manual, Workers, Ready
  <2> QED BY <1>2, <2>1, TaskKeepsFresh
<1>8. CASE Wake
  <2>1. /\ UNCHANGED row /\ h' = h
        /\ \A r \in todo' : r.id \in Ready
    BY <1>8 DEF Wake, Ready
  <2> QED BY <1>2, <2>1 DEF FreshInv, Busy
<1>9. CASE TakeNext
  <2>1. PICK r \in todo : IF r.id \in exists THEN Start(Loop, r.id, r.policy)
                           ELSE Leave(Loop, r.id)
    BY <1>9 DEF TakeNext
  <2>2. r.id \in Ids /\ r.id \in Ready /\ Loop \in Workers /\ UNCHANGED row
    BY <1>9 DEF TakeNext, TypeOK, FreshInv, Workers
  <2>3. Start(Loop, r.id, r.policy) \/ Leave(Loop, r.id)
    BY <2>1
  <2>4. Ready \subseteq Ready' /\ since' = since
    BY <1>2, <2>2
  <2> QED BY <2>2, <2>3, <2>4, TaskKeepsFresh
<1>10. CASE Rotate
  <2>1. UNCHANGED row /\ h' = h /\ todo' = todo
    BY <1>10 DEF Rotate
  <2> QED BY <1>2, <2>1 DEF FreshInv, Busy
<1>11. ASSUME NEW id \in Ids, Delete(id)
       PROVE  FreshInv'
  BY <1>3, <1>11 DEF Delete
<1>12. CASE UNCHANGED vars
  BY <1>3, <1>12 DEF vars
<1> QED
  BY <1>4, <1>5, <1>6, <1>7, <1>8, <1>9, <1>10, <1>11, <1>12 DEF Next

-----------------------------------------------------------------------------
LEMMA InitRound == Init => RoundInv
<1> SUFFICES ASSUME Init PROVE RoundInv
  OBVIOUS
<1>1. RowInv
  <2>1. table \in Seq({}) /\ Len(table) = 0
    BY DEF Init
  <2>2. \A id \in Ids : ~HasRow(id)
    BY <2>1 DEF HasRow
  <2> QED BY <2>2 DEF Init, RowInv
<1>2. RunInv
  BY DEF Init, RunInv, OnlyAsked, Busy, Idle, Workers
<1>3. FreshInv
  BY DEF Init, FreshInv, Busy, Idle
<1> QED BY <1>1, <1>2, <1>3, InitType DEF RoundInv

LEMMA RecordHolds == Spec => []RecordInv
<1>1. Init => RecordInv
  BY InitRound DEF RoundInv, RunInv, RecordInv
<1>2. RecordInv /\ [Next]_vars => RecordInv'
  BY TypeStep, RowStep, AskedStep DEF RecordInv
<1> QED BY <1>1, <1>2, PTL DEF Spec

LEMMA RoundStep ==
    ASSUME "overlap" \notin Faults
    PROVE  RoundInv /\ [Next]_vars => RoundInv'
<1> SUFFICES ASSUME RoundInv, [Next]_vars PROVE RoundInv'
  OBVIOUS
<1>1. TypeOK /\ RowInv /\ RunInv /\ FreshInv
  BY DEF RoundInv
<1>2. OnlyAsked
  BY <1>1 DEF RunInv
<1> QED BY <1>1, <1>2, TypeStep, RowStep, RunStep, FreshStep DEF RoundInv

LEMMA RoundHolds ==
    ASSUME "overlap" \notin Faults
    PROVE  Spec => []RoundInv
  BY InitRound, RoundStep, PTL DEF Spec

\* The background task keeps the interval of every instance, hasty operators,
\* edits during a round, deletions and failures included, but where may_defer
\* has inserted the row of a run without a policy (due, mark_run).
THEOREM IntervalIsKept ==
    ASSUME "overlap" \notin Faults
    PROVE  Spec => []IntervalKept
<1>1. RoundInv => IntervalKept
  <2> SUFFICES ASSUME RoundInv, h[Loop].at = "work"
               PROVE  done[h[Loop].id] >= h[Loop].policy.every \/ ran[h[Loop].id] = Never
    BY DEF IntervalKept
  <2>1. [id |-> h[Loop].id, policy |-> h[Loop].policy] \in todo
    BY DEF RoundInv, RunInv, Busy
  <2>2. h[Loop].policy.every <= done[h[Loop].id] \/ ran[h[Loop].id] = Never
    BY <2>1 DEF RoundInv, RunInv
  <2>3. /\ h[Loop].id \in Ids /\ h[Loop].policy \in PolicyType
        /\ done[h[Loop].id] \in 0..Cap
    BY <2>1, MaintenanceAssumption DEF RoundInv, TypeOK
  <2> QED BY <2>2, <2>3 DEF PolicyType
<1> QED BY <1>1, RoundHolds, PTL

\* A window to put a restart off is never left over (may_defer, mark_run).
THEOREM WindowsAreFresh ==
    ASSUME "overlap" \notin Faults
    PROVE  Spec => []WindowFresh
<1>1. RoundInv => WindowFresh
  BY DEF RoundInv, FreshInv, WindowFresh, Ready
<1> QED BY <1>1, RoundHolds, PTL

\* Under every fault, the background task takes up no instance a policy was
\* never saved for, though its row may be there (may_defer, due).
THEOREM OnlyWhatIsAsked == Spec => []OnlyAsked
<1>1. RecordInv => OnlyAsked
  BY DEF RecordInv
<1> QED BY <1>1, RecordHolds, PTL

\* What a round takes up is due: last_run_at is never older than the last
\* completed run (due, mark_run), also when runs overlap.
THEOREM RoundsTakeWhatIsDue == Spec => RoundsAreDue
<1> DEFINE DueRun(r) == /\ r.policy.every > 0
                        /\ r.policy.every <= done[r.id] \/ ran[r.id] = Never
<1>1. RecordInv /\ [Next]_vars => [\A r \in todo' \ todo : DueRun(r)]_vars
  <2> SUFFICES ASSUME RecordInv, Next, NEW r \in todo' \ todo
               PROVE  DueRun(r)
    OBVIOUS
  <2>1. TypeOK /\ RowInv
    BY DEF RecordInv
  <2>2. ASSUME NEW w \in Workers, NEW id \in Ids, NEW p,
               Start(w, id, p) \/ Proceed(w, id, p) \/ Leave(w, id)
        PROVE  FALSE
    BY <2>1, <2>2, TaskFacts
  <2>3. ASSUME NEW w \in Workers, Run(w)
        PROVE  FALSE
    <3>1. h[w].id \in Ids \/ todo' = todo
      BY <2>1, <2>3 DEF TypeOK, Run, PutOff, GoAhead, Complete, Fail, Runs, Idle
    <3> QED BY <2>2, <2>3, <3>1 DEF Run, PutOff, GoAhead, Complete, Fail
  <2>4. ~(\E w \in Procs, id \in Ids : Manual(w, id))
    BY <2>2 DEF Manual, Workers
  <2>5. ~TakeNext
    <3> SUFFICES ASSUME TakeNext PROVE FALSE
      OBVIOUS
    <3>1. PICK q \in todo : Start(Loop, q.id, q.policy) \/ Leave(Loop, q.id)
      BY DEF TakeNext
    <3>2. q.id \in Ids /\ Loop \in Workers
      BY <2>1 DEF TypeOK, Workers
    <3> QED BY <2>2, <3>1, <3>2
  <2>6. Wake
    BY <2>3, <2>4, <2>5 DEF Next, Tick, Save, Delete, Rotate, task
  <2>7. PICK id \in Ids : Due(id) /\ r = [id |-> id, policy |-> policy[id]]
    BY <2>6 DEF Wake
  <2>8. /\ HasRow(id) /\ policy[id].every > 0
        /\ ran[id] = Never \/ ran[id] >= policy[id].every
        /\ ran[id] # Never => ran[id] <= done[id]
    BY <2>1, <2>7 DEF Due, RowInv
  <2>9. policy[id] \in PolicyType /\ ran[id] \in Ages /\ done[id] \in 0..Cap
    BY <2>1, MaintenanceAssumption DEF TypeOK
  <2> QED BY <2>7, <2>8, <2>9, MaintenanceAssumption DEF PolicyType, Ages
<1> QED BY <1>1, RecordHolds, PTL DEF Spec, RoundsAreDue

\* Whatever operators do and whatever fails, time that players were given is
\* not given to them again before the restart (may_defer, mark_run).
THEOREM TimeIsGivenOnce == Spec => DelayNotRenewed
<1> DEFINE Kept(id) ==
        since[id] # Never => since'[id] >= since[id] \/ (since'[id] = Never /\ done'[id] = 0)
<1>1. TypeOK /\ [Next]_vars => [\A id \in Ids : Kept(id)]_vars
  <2> SUFFICES ASSUME TypeOK, Next, NEW id \in Ids, since[id] # Never
               PROVE  since'[id] >= since[id] \/ (since'[id] = Never /\ done'[id] = 0)
    OBVIOUS
  <2>1. since[id] \in Ages /\ since[id] <= since[id]
    BY MaintenanceAssumption DEF TypeOK, Ages
  <2>2. CASE Tick
    <3>1. since'[id] = Older(since[id])
      BY <2>2 DEF Tick
    <3> QED BY <2>1, <3>1, OlderFacts DEF Ages, Never
  <2>3. ASSUME NEW k \in Ids, OpenWindow(k)
        PROVE  since'[id] >= since[id]
    BY <2>1, <2>3, WindowFacts
  <2>4. ASSUME NEW w \in Workers, Complete(w)
        PROVE  since'[id] >= since[id] \/ (since'[id] = Never /\ done'[id] = 0)
    <3>1. /\ since' = [since EXCEPT ![h[w].id] = Never]
          /\ done' = [done EXCEPT ![h[w].id] = 0]
      BY <2>4 DEF Complete, MarkRun
    <3> QED BY <2>1, <3>1 DEF TypeOK
  <2>5. ASSUME since' = since
        PROVE  since'[id] >= since[id]
    BY <2>1, <2>5
  <2>6. ASSUME NEW w \in Workers, PutOff(w) \/ GoAhead(w)
        PROVE  since'[id] >= since[id]
    <3>1. h[w].id \in Ids
      BY <2>6 DEF PutOff, GoAhead, TypeOK, Runs, Idle
    <3> QED BY <2>3, <2>5, <2>6, <3>1 DEF PutOff, GoAhead, row
  <2> QED BY <2>2, <2>4, <2>5, <2>6
          DEF Next, Run, Save, Insert, Delete, Fail, Manual, Wake, TakeNext, Rotate, row
<1> QED BY <1>1, MaintenanceTyped, PTL DEF Spec, DelayNotRenewed
=============================================================================
