----------------------------- MODULE Maintenance -----------------------------
(***************************************************************************)
(* When an instance is restarted: the maintenance policies with their      *)
(* interval and their limit to putting a restart off while players are     *)
(* online, the background task that runs what is due once a minute, and    *)
(* the run an operator asks for.  What a run does to the instance is       *)
(* Lifecycle's subject; here it completes, fails or raises.                *)
(*                                                                         *)
(* Time is counted in minutes.  A timestamp is modelled by its age, which  *)
(* stays at Cap once it is older than all a policy compares it with.       *)
(***************************************************************************)
EXTENDS Integers, Sequences

CONSTANTS
    Ids,        \* instances
    NoId,       \* no instance
    Policies,   \* the policies that are saved; every = 0: no interval
    Default,    \* the policy of an instance that has none
    Procs,      \* the HTTP requests that run a policy
    Loop,       \* the background task
    Broken,     \* instances whose backup or commands may fail
    Raising,    \* instances whose backup raises what nobody expects
    Hasty,      \* instances operators run early and save other policies for
    Faults,     \* what else may happen, a subset of FaultKinds
    Cap         \* bound on ages

FaultKinds == {"overlap", "unsaved", "remove"}

PolicyType == [every : Nat, defer : BOOLEAN, max : Nat]

ASSUME MaintenanceAssumption ==
    /\ NoId \notin Ids
    /\ Loop \notin Procs
    /\ Policies \cup {Default} \subseteq PolicyType
    /\ Default.every = 0
    /\ Hasty \subseteq Ids
    /\ Faults \subseteq FaultKinds
    /\ Cap \in Nat
    /\ \A p \in Policies \cup {Default} : p.every <= Cap /\ p.max <= Cap

Workers == Procs \cup {Loop}
Never == -1
Ages == -1..Cap

VARIABLES
    exists,     \* instances that are not deleted
    table,      \* instances with a row, in the order the rows were inserted
    policy,     \* the saved settings of an instance
    ran,        \* age of last_run_at, Never when it is NULL
    since,      \* age of defer_started_at, Never when it is NULL
    loop,       \* the background task: "sleep" or "round"
    slept,      \* a minute has passed since it went to sleep
    todo,       \* what it has still to run: policies as they were when it woke
    h,          \* the run of each worker
    saved,      \* history: instances an operator has saved a policy for
    done        \* history: age of the last completed run, Cap when none

row == <<table, policy, ran, since>>
task == <<loop, slept, todo>>
vars == <<exists, row, task, h, saved, done>>

Idle == [at |-> "idle", id |-> NoId, policy |-> Default]
Runs == [at : {"query", "work"}, id : Ids, policy : Policies \cup {Default}]
HasRow(id) == \E i \in DOMAIN table : table[i] = id

TypeOK ==
    /\ exists \subseteq Ids
    /\ table \in Seq(Ids)
    /\ \A i, j \in DOMAIN table : table[i] = table[j] => i = j
    /\ policy \in [Ids -> Policies \cup {Default}]
    /\ ran \in [Ids -> Ages]
    /\ since \in [Ids -> Ages]
    /\ loop \in {"sleep", "round"}
    /\ slept \in BOOLEAN
    /\ todo \subseteq [id : Ids, policy : Policies]
    /\ h \in [Workers -> Runs \cup {Idle}]
    /\ saved \subseteq Ids
    /\ done \in [Ids -> 0..Cap]

Init ==
    /\ exists = Ids
    /\ table = <<>>
    /\ policy = [id \in Ids |-> Default]
    /\ ran = [id \in Ids |-> Never]
    /\ since = [id \in Ids |-> Never]
    /\ loop = "sleep"
    /\ slept = FALSE
    /\ todo = {}
    /\ h = [w \in Workers |-> Idle]
    /\ saved = {}
    /\ done = [id \in Ids |-> Cap]

-----------------------------------------------------------------------------
\* MaintenanceStore.

\* Mutant: a row without an interval is due as well.
AnyRow(id) ==
    /\ HasRow(id)
    /\ ran[id] = Never \/ ran[id] >= policy[id].every

\* last_run_at + restart_every_minutes <= now; NULL is due at once.
Due(id) ==
    /\ HasRow(id)
    /\ policy[id].every > 0
    /\ ran[id] = Never \/ ran[id] >= policy[id].every

\* The interval starts when a row is inserted for the policy.  When there is one,
\* of an earlier policy or of may_defer, its last_run_at and defer_started_at
\* stay.
Insert(id, p) ==
    /\ table' = IF HasRow(id) THEN table ELSE Append(table, id)
    /\ policy' = [policy EXCEPT ![id] = p]
    /\ ran' = IF HasRow(id) THEN ran ELSE [ran EXCEPT ![id] = 0]
    /\ UNCHANGED since

MayDefer(id, max) == IF since[id] = Never THEN max > 0 ELSE since[id] < max

\* Mutants: a row is inserted without looking for one; every question opens a
\* new window.
InsertWindow(id) ==
    /\ table' = Append(table, id)
    /\ since' = IF since[id] = Never THEN [since EXCEPT ![id] = 0] ELSE since
    /\ UNCHANGED <<policy, ran>>
NewWindow(id) ==
    /\ table' = IF HasRow(id) THEN table ELSE Append(table, id)
    /\ since' = [since EXCEPT ![id] = 0]
    /\ UNCHANGED <<policy, ran>>

\* may_defer remembers when it was first asked; without a row it inserts one
\* with nothing else in it.
OpenWindow(id) ==
    /\ table' = IF HasRow(id) THEN table ELSE Append(table, id)
    /\ since' = IF since[id] = Never THEN [since EXCEPT ![id] = 0] ELSE since
    /\ UNCHANGED <<policy, ran>>

\* Mutants: only one of the two columns is set.
CloseWindow(id) ==
    /\ since' = [since EXCEPT ![id] = Never]
    /\ UNCHANGED <<table, policy, ran>>
MarkTime(id) ==
    /\ ran' = IF HasRow(id) THEN [ran EXCEPT ![id] = 0] ELSE ran
    /\ UNCHANGED <<table, policy, since>>

\* mark_run: an UPDATE, which changes nothing when there is no row.
MarkRun(id) ==
    /\ ran' = IF HasRow(id) THEN [ran EXCEPT ![id] = 0] ELSE ran
    /\ since' = [since EXCEPT ![id] = Never]
    /\ UNCHANGED <<table, policy>>

Older(age) == IF age = Never THEN Never ELSE IF age < Cap THEN age + 1 ELSE Cap

Tick ==
    /\ ran' = [id \in Ids |-> Older(ran[id])]
    /\ since' = [id \in Ids |-> Older(since[id])]
    /\ done' = [id \in Ids |-> Older(done[id])]
    /\ slept' = TRUE
    /\ UNCHANGED <<exists, table, policy, loop, todo, h, saved>>

Save(id, p) ==
    /\ id \in exists
    /\ id \in Hasty \/ id \notin saved
    /\ Insert(id, p)
    /\ saved' = saved \cup {id}
    /\ UNCHANGED <<exists, task, h, done>>

\* Deleting an instance leaves its policy in the table.
Delete(id) ==
    /\ "remove" \in Faults
    /\ exists' = exists \ {id}
    /\ UNCHANGED <<row, task, h, saved, done>>

-----------------------------------------------------------------------------
\* MaintenanceRunner.run.

\* Mutant: the first run of a round is the last.
LeaveRound(w, id) ==
    /\ h' = [h EXCEPT ![w] = Idle]
    /\ IF w = Loop
       THEN loop' = "sleep" /\ slept' = FALSE /\ todo' = {}
       ELSE UNCHANGED task

\* The run is over; the background task goes on with the next policy.
Leave(w, id) ==
    /\ h' = [h EXCEPT ![w] = Idle]
    /\ todo' = IF w = Loop THEN {r \in todo : r.id # id} ELSE todo
    /\ UNCHANGED <<loop, slept>>

\* An exception ends the request, or the round of the background task.
Abort(w) ==
    /\ h' = [h EXCEPT ![w] = Idle]
    /\ IF w = Loop
       THEN loop' = "sleep" /\ slept' = FALSE /\ todo' = {}
       ELSE UNCHANGED task

\* The backup fails with an OSError or with another exception, or planning the
\* commands raises KeyError for an instance that was deleted, or they are sent.
Proceed(w, id, p) ==
    \/ id \in Broken /\ Leave(w, id)
    \/ id \in Raising \cup (Ids \ exists) /\ Abort(w)
    \/ /\ id \in exists \ Raising
       /\ h' = [h EXCEPT ![w] = [at |-> "work", id |-> id, policy |-> p]]
       /\ UNCHANGED task

\* The A2S query is awaited in a thread.
Start(w, id, p) ==
    IF p.defer
    THEN h' = [h EXCEPT ![w] = [at |-> "query", id |-> id, policy |-> p]] /\ UNCHANGED task
    ELSE Proceed(w, id, p)

PutOff(w) ==
    /\ h[w].at = "query"
    /\ MayDefer(h[w].id, h[w].policy.max)
    /\ OpenWindow(h[w].id)
    /\ Leave(w, h[w].id)
    /\ UNCHANGED <<exists, saved, done>>

\* Nobody is online, the query fails, or the players have had their time.
GoAhead(w) ==
    /\ h[w].at = "query"
    /\ \/ UNCHANGED row
       \/ ~MayDefer(h[w].id, h[w].policy.max) /\ OpenWindow(h[w].id)
    /\ Proceed(w, h[w].id, h[w].policy)
    /\ UNCHANGED <<exists, saved, done>>

\* The last command was answered with 0.
Complete(w) ==
    /\ h[w].at = "work"
    /\ MarkRun(h[w].id)
    /\ done' = [done EXCEPT ![h[w].id] = 0]
    /\ Leave(w, h[w].id)
    /\ UNCHANGED <<exists, saved>>

\* A command failed, or the agent is not available: the policy stays due.
Fail(w) ==
    /\ h[w].at = "work"
    /\ h[w].id \in Broken
    /\ Leave(w, h[w].id)
    /\ UNCHANGED <<exists, row, saved, done>>

-----------------------------------------------------------------------------
\* run_maintenance: a run an operator asks for.

Underway(id) ==
    \/ \E w \in Workers : h[w].id = id
    \/ \E r \in todo : r.id = id

Manual(w, id) ==
    /\ w \in Procs
    /\ h[w].at = "idle"
    /\ id \in exists
    /\ "overlap" \in Faults \/ ~Underway(id)
    /\ "unsaved" \in Faults \/ id \in saved
    /\ id \in Hasty \/ Due(id)
    /\ Start(w, id, policy[id])
    /\ UNCHANGED <<exists, row, saved, done>>

-----------------------------------------------------------------------------
\* maintenance_loop and run_due.

Wake ==
    /\ loop = "sleep"
    /\ slept
    /\ "overlap" \in Faults \/ \A id \in Ids : Due(id) => ~Underway(id)
    /\ loop' = "round"
    /\ todo' = {[id |-> id, policy |-> policy[id]] : id \in {i \in Ids : Due(i)}}
    /\ UNCHANGED <<exists, row, slept, h, saved, done>>

\* The policies are run in the order of their rows.
First(r) ==
    \E n \in DOMAIN table :
        /\ table[n] = r.id
        /\ \A m \in 1..n - 1 : \A q \in todo : q.id # table[m]

\* An instance that is gone is skipped.
TakeNext ==
    /\ loop = "round"
    /\ h[Loop].at = "idle"
    /\ \E r \in todo :
        /\ First(r)
        /\ IF r.id \in exists THEN Start(Loop, r.id, r.policy) ELSE Leave(Loop, r.id)
    /\ UNCHANGED <<exists, row, saved, done>>

\* The round is over: the bridge markers are looked at (BridgeRotation), and
\* the task sleeps for a minute.
Rotate ==
    /\ loop = "round"
    /\ h[Loop].at = "idle"
    /\ todo = {}
    /\ loop' = "sleep"
    /\ slept' = FALSE
    /\ UNCHANGED <<exists, row, todo, h, saved, done>>

Run(w) == PutOff(w) \/ GoAhead(w) \/ Complete(w) \/ Fail(w)

Next ==
    \/ Tick
    \/ \E id \in Ids, p \in Policies : Save(id, p)
    \/ \E id \in Ids : Delete(id)
    \/ \E w \in Workers : Run(w)
    \/ \E w \in Procs, id \in Ids : Manual(w, id)
    \/ Wake
    \/ TakeNext
    \/ Rotate

Spec == Init /\ [][Next]_vars

\* Time passes.  The background task goes on whenever it can; what it and the
\* requests await answers, the query and the agent within their timeouts.  The
\* timer of the task waits for nobody: where operators give way to a round,
\* without "overlap", they leave it its turn.
Fairness ==
    /\ WF_vars(Tick)
    /\ SF_vars(Wake)
    /\ WF_vars(TakeNext \/ Rotate \/ Run(Loop))
    /\ \A w \in Procs : WF_vars(Run(w))

FairSpec == Spec /\ Fairness

-----------------------------------------------------------------------------
\* The background task never takes an instance down again before the interval
\* of its policy is over since the last run that completed, as long as an
\* operator's run does not overlap with a round (due, mark_run).  It does so
\* only where last_run_at is missing: may_defer has inserted the row, for a run
\* without a policy, and the policy that is saved later is due at once.
IntervalKept ==
    h[Loop].at = "work" =>
        \/ done[h[Loop].id] >= h[Loop].policy.every
        \/ ran[h[Loop].id] = Never

\* The background task only takes up what was asked for: a row that is there
\* because an operator ran an instance without a policy, and its players had
\* the run put off, is none of its business until a policy is saved (may_defer,
\* due).
OnlyAsked ==
    /\ \A r \in todo : r.id \in saved
    /\ h[Loop].at # "idle" => h[Loop].id \in saved

\* Restarts are put off in a window that belongs to a restart that is due: it
\* is never left over from an earlier one, which would cut short the time the
\* players get (may_defer, mark_run).  An operator's early run or a longer
\* interval saved meanwhile do leave it over.
WindowFresh ==
    \A id \in Ids \ Hasty : since[id] # Never => Due(id)

\* Whatever goes wrong with other instances, and however long players stay
\* online, an instance whose own runs succeed does not remain due
\* (may_defer, run_due; "one integration failure must not permanently stop
\* scheduling").
NotStarved ==
    \A id \in Ids \ (Broken \cup Raising) : Due(id) ~> ~Due(id) \/ id \notin exists

\* The background task gets to the bridge markers again and again.
RotationGoesOn == []<><<Rotate>>_vars

\* Players are not given the same time twice: however often a restart is asked
\* for, put off, fails or is edited, the time that has passed since it was first
\* put off is only forgotten when a run is completed (may_defer, save, mark_run).
DelayNotRenewed ==
    [][\A id \in Ids :
        since[id] # Never => since'[id] >= since[id] \/ (since'[id] = Never /\ done'[id] = 0)]_vars

\* A round takes up only instances whose interval is over since their last
\* completed run, also while operators' runs overlap with it: one of these can
\* at most complete between the choice and the restart.  Where last_run_at is
\* missing, there is no interval yet (due).
RoundsAreDue ==
    [][\A r \in todo' \ todo :
        /\ r.policy.every > 0
        /\ r.policy.every <= done[r.id] \/ ran[r.id] = Never]_vars

-----------------------------------------------------------------------------
\* The inductive invariants of MaintenanceProofs: RecordInv, and RoundInv for
\* operators who do not run a policy while the background task is about to.

Busy(w) == h[w].at # "idle"

\* A policy that was saved has a row, and so has a last_run_at, which is never
\* older than the completed run it stands for.
RowInv ==
    \A id \in Ids :
        /\ id \in saved => HasRow(id)
        /\ ran[id] # Never => HasRow(id) /\ ran[id] <= done[id]
        /\ id \notin saved => policy[id] = Default

\* One worker has an instance at a time, and what is left of a round has been
\* due since the round began.
RunInv ==
    /\ loop = "sleep" => todo = {}
    /\ OnlyAsked
    /\ Busy(Loop) => [id |-> h[Loop].id, policy |-> h[Loop].policy] \in todo
    /\ \A v, w \in Workers : Busy(v) /\ Busy(w) /\ v # w => h[v].id # h[w].id
    /\ \A r \in todo :
          /\ r.policy.every <= done[r.id] \/ ran[r.id] = Never
          /\ \A w \in Procs : Busy(w) => h[w].id # r.id

\* Unless its operators are hasty, an instance that is being run, or that a
\* round is about to run, is due until its run is completed.
Ready == Hasty \cup {id \in Ids : Due(id)}

FreshInv ==
    /\ \A id \in Ids : since[id] # Never => id \in Ready
    /\ \A w \in Workers : Busy(w) => h[w].id \in Ready
    /\ \A r \in todo : r.id \in Ready

RecordInv == TypeOK /\ RowInv /\ OnlyAsked

RoundInv == TypeOK /\ RowInv /\ RunInv /\ FreshInv
=============================================================================
