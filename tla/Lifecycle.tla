------------------------------ MODULE Lifecycle ------------------------------
(***************************************************************************)
(* The life of a CS2 instance: its row in the panel's database, its server *)
(* directory and its Podman container on the host, and the panel handlers  *)
(* that change them through the host agent.                                *)
(*                                                                         *)
(* The panel is one asyncio event loop: what a handler does between two    *)
(* awaits is one step.  A handler awaits the agent (and the maintenance    *)
(* runner also the A2S query), and meanwhile the others run.  The agent    *)
(* runs one request at a time: its handlers block its own event loop.      *)
(***************************************************************************)
EXTENDS Naturals, Sequences, FiniteSets

CONSTANTS
    Ids,        \* the uuids rows are created with; none is used twice
    NoId,       \* no instance
    Imported,   \* the instances created from the files of an existing server
    Scheduled,  \* the instances whose maintenance policy has an interval
    Slugs,      \* the numbered slugs of one base name: 1 is "base", 2 "base-2"
    Ports,      \* game ports
    Procs,      \* the HTTP requests the panel can serve at the same time
    Loop,       \* the background maintenance task
    Faults,     \* what may go wrong, a subset of FaultKinds
    MaxLate     \* bound on the requests the panel gave up and the agent has

FaultKinds == {"overlap", "lost", "late", "crash", "exit"}

ASSUME LifecycleAssumption ==
    /\ NoId \notin Ids
    /\ Imported \subseteq Ids
    /\ Scheduled \subseteq Ids
    /\ Slugs \subseteq Nat \ {0}
    /\ 0 \notin Ports
    /\ Loop \notin Procs
    /\ Faults \subseteq FaultKinds
    /\ MaxLate \in Nat

Workers == Procs \cup {Loop}
Statuses == {"pending_install", "installed", "running", "stopped", "failed"}
Dirs == {"absent", "empty", "partial", "server"}
Commands == {"stop", "install", "start", "import", "purge"}
Requests == [cmd : Commands, id : Ids]

VARIABLES
    slug,       \* slug of an instance, 0 before it is created; never changes
    port,       \* game port of an instance, 0 before it is created
    status,     \* status column of its row, "none" when there is no row
    due,        \* the maintenance policy of the instance is due
    dir,        \* what the server directory of a slug holds
    live,       \* the instance whose launch arguments the running container
                \* of a slug was started with, NoId when none is running
    h,          \* the handler of each worker
    round,      \* due policies the background task has still to run
    late,       \* requests the panel no longer waits for and the agent has
    solo        \* history: the workers that have been alone on their slug
                \* since they started

rowVars == <<slug, port, status>>
hostVars == <<dir, live>>
vars == <<rowVars, due, hostVars, h, round, late, solo>>

-----------------------------------------------------------------------------
\* Handlers.  "todo" is what is left to send, its head being sent; "call" is
\* how far that call is: "query" is the A2S request of the maintenance runner
\* and "fetch" the download of the plugins an installation is completed with.

Ops == {"install", "start", "stop", "delete", "maintain"}
Calls == {"query", "sent", "ok", "bad", "lost", "fetch"}
Plans == {<<>>, <<"stop">>, <<"start">>, <<"install">>, <<"purge">>,
          <<"import", "install">>, <<"stop", "start">>, <<"install", "start">>,
          <<"stop", "install", "start">>}
Idle == [op |-> "idle", id |-> NoId, todo |-> <<>>, call |-> "none"]
Handlers == {Idle} \cup [op : Ops, id : Ids, todo : Plans, call : Calls]

Exists(id) == status[id] # "none"
Busy(w) == h[w].op # "idle"
On(s) == {w \in Workers : Busy(w) /\ slug[h[w].id] = s}
Quiet(s) == On(s) = {} /\ \A r \in late : slug[r.id] # s

\* Another handler of the same slug ends the solitude of those before it.
Enter(w, op, id, todo, call) ==
    /\ ~Busy(w)
    /\ "overlap" \in Faults \/ Quiet(slug[id])
    /\ h' = [h EXCEPT ![w] = [op |-> op, id |-> id, todo |-> todo, call |-> call]]
    /\ solo' = IF Quiet(slug[id]) THEN solo \cup {w} ELSE solo \ On(slug[id])

Leave(w) ==
    /\ h' = [h EXCEPT ![w] = Idle]
    /\ solo' = solo \ {w}

Await(w, todo, call) ==
    /\ h' = [h EXCEPT ![w] = [op |-> @.op, id |-> @.id, todo |-> todo, call |-> call]]
    /\ UNCHANGED solo

\* set_status: an UPDATE of a row that is gone changes nothing.
SetStatus(id, s) ==
    status' = IF Exists(id) THEN [status EXCEPT ![id] = s] ELSE status

TypeOK ==
    /\ slug \in [Ids -> Slugs \cup {0}]
    /\ port \in [Ids -> Ports \cup {0}]
    /\ status \in [Ids -> Statuses \cup {"none"}]
    /\ due \in [Ids -> BOOLEAN]
    /\ dir \in [Slugs -> Dirs]
    /\ live \in [Slugs -> Ids \cup {NoId}]
    /\ h \in [Workers -> Handlers]
    /\ round \subseteq Ids
    /\ late \subseteq Requests
    /\ solo \subseteq Workers

Init ==
    /\ slug = [id \in Ids |-> 0]
    /\ port = [id \in Ids |-> 0]
    /\ status = [id \in Ids |-> "none"]
    /\ due = [id \in Ids |-> FALSE]
    /\ dir = [s \in Slugs |-> "absent"]
    /\ live = [s \in Slugs |-> NoId]
    /\ h = [w \in Workers |-> Idle]
    /\ round = {}
    /\ late = {}
    /\ solo = {}

-----------------------------------------------------------------------------
\* Creating an instance: a new one, or the clone of a server.

UsedSlugs == {slug[id] : id \in {i \in Ids : Exists(i)}}
\* Mutant: only running instances reserve their port.
RunningPorts == {port[id] : id \in {i \in Ids : status[i] = "running"}}

UsedPorts == {port[id] : id \in {i \in Ids : Exists(i)}}

\* Mutant: no attempt to bind the port.
NoneBound == {}

\* inspect_udp tries to bind the port: a running server holds its own.
Bound == {port[live[s]] : s \in {t \in Slugs : live[t] # NoId}}

\* Mutant: a name is free when its directory is.
FreeDirectory(s) == dir[s] = "absent"

\* base, else base-2, base-3...: the first that no row has.
UniqueSlug(s) ==
    /\ s \in Slugs \ UsedSlugs
    /\ \A t \in Slugs : t < s => t \in UsedSlugs

\* mkdir refuses a directory that is there: the request ends with 500 and
\* changes nothing, so it is no step.
Create(id, p) ==
    /\ slug[id] = 0
    /\ p \notin UsedPorts \cup Bound
    /\ \E s \in Slugs :
        /\ UniqueSlug(s)
        /\ dir[s] = "absent"
        /\ slug' = [slug EXCEPT ![id] = s]
        /\ dir' = [dir EXCEPT ![s] = "empty"]
    /\ port' = [port EXCEPT ![id] = p]
    /\ status' = [status EXCEPT ![id] = "pending_install"]
    /\ UNCHANGED <<due, live, h, round, late, solo>>

-----------------------------------------------------------------------------
\* execute_operation: checks and plan, up to the first request it awaits.

PortFree(id) == port[id] \notin Bound

Steps(op, id) ==
    CASE op = "start" -> <<"start">>
      [] op = "stop" -> <<"stop">>
      [] op = "install" /\ id \notin Imported -> <<"install">>
      [] op = "install" /\ id \in Imported -> <<"import", "install">>

Operate(w, op, id) ==
    /\ Exists(id)
    /\ op = "start" /\ status[id] # "running" => PortFree(id)
    /\ Enter(w, op, id, Steps(op, id), "sent")
    /\ UNCHANGED <<rowVars, due, hostVars, round, late>>

\* delete_instance: without purge the row goes at once.
Delete(id) ==
    /\ Exists(id)
    /\ "overlap" \in Faults \/ Quiet(slug[id])
    /\ status' = [status EXCEPT ![id] = "none"]
    /\ UNCHANGED <<slug, port, due, hostVars, h, round, late, solo>>

MayPurge(id) == status[id] # "running"

Purge(w, id) ==
    /\ Exists(id)
    /\ MayPurge(id)
    /\ Enter(w, "delete", id, <<"purge">>, "sent")
    /\ UNCHANGED <<rowVars, due, hostVars, round, late>>

-----------------------------------------------------------------------------
\* MaintenanceRunner.run, started by the background task or by an operator.

\* Time passes: the interval of a saved policy is over.  The policy of an
\* instance that was deleted stays in its table.
BecomeDue(id) ==
    /\ id \in Scheduled
    /\ slug[id] # 0
    /\ ~due[id]
    /\ due' = [due EXCEPT ![id] = TRUE]
    /\ UNCHANGED <<rowVars, hostVars, h, round, late, solo>>

\* run_due reads the due policies once for the whole round.
Wake ==
    /\ ~Busy(Loop)
    /\ round = {}
    /\ round' = {id \in Ids : due[id]}
    /\ round' # {}
    /\ UNCHANGED <<rowVars, due, hostVars, h, late, solo>>

\* The runner takes the next policy; of an instance that is gone it returns.
Maintain(w, id) ==
    /\ IF w = Loop
       THEN id \in round /\ round' = round \ {id}
       ELSE Exists(id) /\ UNCHANGED round
    /\ IF Exists(id)
       THEN Enter(w, "maintain", id, <<>>, "query")
       ELSE ~Busy(w) /\ UNCHANGED <<h, solo>>
    /\ UNCHANGED <<rowVars, due, hostVars, late>>

\* Mutant: an update without the stop.
UpdateInPlace(update) ==
    IF update THEN <<"install", "start">> ELSE <<"stop", "start">>

MaintainSteps(update) ==
    IF update THEN <<"stop", "install", "start">> ELSE <<"stop", "start">>

\* The answer of the A2S query: put off, give up for want of a backup, or
\* plan.  The plan reads the row again and raises KeyError when it is gone,
\* which ends the round of the background task.
Queried(w) ==
    /\ h[w].call = "query"
    /\ UNCHANGED <<slug, port, due, hostVars, late>>
    /\ \/ Leave(w) /\ UNCHANGED <<status, round>>
       \/ Leave(w) /\ SetStatus(h[w].id, "failed") /\ UNCHANGED round
       \/ /\ Exists(h[w].id)
          /\ \E update \in BOOLEAN : Await(w, MaintainSteps(update), "sent")
          /\ UNCHANGED <<status, round>>
       \/ /\ ~Exists(h[w].id)
          /\ Leave(w)
          /\ round' = IF w = Loop THEN {} ELSE round
          /\ UNCHANGED status

-----------------------------------------------------------------------------
\* The host agent: what a request does to the host, "ok" when podman returns 0
\* (a request other than /execute: when the answer is 200).

StopContainer(s, ok) ==
    /\ live' = IF ok THEN [live EXCEPT ![s] = NoId] ELSE live
    /\ UNCHANGED dir

\* --replace removes the old container before the new one is started.  The
\* directory is mounted, and the server's program is in it.
StartContainer(s, id, ok) ==
    /\ IF ok
       THEN dir[s] \in {"partial", "server"} /\ live' = [live EXCEPT ![s] = id]
       ELSE live' \in {live, [live EXCEPT ![s] = NoId]}
    /\ UNCHANGED dir

InstallFiles(s, ok) ==
    /\ IF ok
       THEN dir[s] # "absent" /\ dir' = [dir EXCEPT ![s] = "server"]
       ELSE \/ UNCHANGED dir
            \/ dir[s] # "absent" /\ dir' = [dir EXCEPT ![s] = "partial"]
    /\ UNCHANGED live

\* Refused unless the destination is empty; the empty one is removed before
\* the copy, which may stop half way.
ImportFiles(s, ok) ==
    /\ \/ ok /\ dir[s] \in {"absent", "empty"} /\ dir' = [dir EXCEPT ![s] = "server"]
       \/ ~ok /\ UNCHANGED dir
       \/ /\ ~ok /\ dir[s] \in {"absent", "empty"}
          /\ \E d \in {"absent", "partial"} : dir' = [dir EXCEPT ![s] = d]
    /\ UNCHANGED live

\* rmtree ignores the errors of what it cannot remove.
PurgeFiles(s, ok) ==
    /\ ok
    /\ \/ dir' = [dir EXCEPT ![s] = "absent"]
       \/ dir[s] \in {"partial", "server"} /\ dir' = [dir EXCEPT ![s] = "partial"]
    /\ UNCHANGED live

Perform(cmd, id, ok) ==
    \/ cmd = "stop" /\ StopContainer(slug[id], ok)
    \/ cmd = "start" /\ StartContainer(slug[id], id, ok)
    \/ cmd = "install" /\ InstallFiles(slug[id], ok)
    \/ cmd = "import" /\ ImportFiles(slug[id], ok)
    \/ cmd = "purge" /\ PurgeFiles(slug[id], ok)

\* Mutant: the return code is not looked at.
AlwaysOk(cmd, ok) == "ok"

\* A return code other than 0 is an answer; an HTTP error is none.
Answer(cmd, ok) ==
    IF ok THEN "ok" ELSE IF cmd = "import" THEN "lost" ELSE "bad"

Execute(w) ==
    /\ h[w].call = "sent"
    /\ \E ok \in BOOLEAN :
        /\ Perform(Head(h[w].todo), h[w].id, ok)
        /\ \E answer \in {Answer(Head(h[w].todo), ok)}
                            \cup (IF "lost" \in Faults THEN {"lost"} ELSE {}) :
               Await(w, h[w].todo, answer)
    /\ UNCHANGED <<rowVars, due, round, late>>

\* No socket, no token, a refused connection: the agent never sees the request.
Unreachable(w) ==
    /\ "lost" \in Faults
    /\ h[w].call = "sent"
    /\ Await(w, h[w].todo, "lost")
    /\ UNCHANGED <<rowVars, due, hostVars, round, late>>

\* The client's timeout is over while the agent is busy with another request;
\* this one is still in its queue.
Timeout(w) ==
    /\ "late" \in Faults
    /\ Cardinality(late) < MaxLate
    /\ h[w].call = "sent"
    /\ late' = late \cup {[cmd |-> Head(h[w].todo), id |-> h[w].id]}
    /\ Await(w, h[w].todo, "lost")
    /\ UNCHANGED <<rowVars, due, hostVars, round>>

ExecuteLate(r) ==
    /\ r \in late
    /\ late' = late \ {r}
    /\ \E ok \in BOOLEAN : Perform(r.cmd, r.id, ok)
    /\ UNCHANGED <<rowVars, due, h, round, solo>>

-----------------------------------------------------------------------------
\* The coroutine goes on with the answer it awaited.

\* Mutants: an installation is taken for a stop; the operation for a status.
DoneStopped(op) ==
    CASE op \in {"install", "stop"} -> "stopped"
      [] op \in {"start", "maintain"} -> "running"
DoneOp(op) == op

Done(op) ==
    CASE op = "install" -> "installed"
      [] op = "start" -> "running"
      [] op = "stop" -> "stopped"
      [] op = "maintain" -> "running"

\* AgentUnavailableError: 503 and the row stays as it was, but the maintenance
\* runner sets it to failed.
GiveUp(w) ==
    /\ h[w].call = "lost"
    /\ IF h[w].op = "maintain" THEN SetStatus(h[w].id, "failed") ELSE UNCHANGED status
    /\ Leave(w)
    /\ UNCHANGED <<slug, port, due, hostVars, round, late>>

Fail(w) ==
    /\ h[w].call = "bad"
    /\ SetStatus(h[w].id, "failed")
    /\ Leave(w)
    /\ UNCHANGED <<slug, port, due, hostVars, round, late>>

SendNext(w) ==
    /\ h[w].call = "ok"
    /\ Len(h[w].todo) > 1
    /\ Await(w, Tail(h[w].todo), "sent")
    /\ UNCHANGED <<rowVars, due, hostVars, round, late>>

Finish(w) ==
    /\ h[w].call = "ok"
    /\ Len(h[w].todo) = 1
    /\ IF h[w].op = "delete"
       THEN status' = [status EXCEPT ![h[w].id] = "none"]
       ELSE SetStatus(h[w].id, Done(h[w].op))
    /\ due' = IF h[w].op = "maintain" THEN [due EXCEPT ![h[w].id] = FALSE] ELSE due
    /\ IF h[w].op = "install" THEN Await(w, <<>>, "fetch") ELSE Leave(w)
    /\ UNCHANGED <<slug, port, hostVars, round, late>>

\* The plugins an installation is completed with, once downloaded, are copied
\* into the server directory, which is made when it is not there any more.
Complete(w) ==
    /\ h[w].call = "fetch"
    /\ LET s == slug[h[w].id] IN
           \/ UNCHANGED dir
           \/ dir[s] \in {"absent", "empty"} /\ dir' = [dir EXCEPT ![s] = "partial"]
    /\ Leave(w)
    /\ UNCHANGED <<rowVars, due, live, round, late>>

-----------------------------------------------------------------------------
\* What happens to the panel and to the host.

\* systemd restarts the panel: handlers are gone, and of what was in flight
\* the agent has some part.
Restart ==
    /\ "crash" \in Faults
    /\ h' = [w \in Workers |-> Idle]
    /\ round' = {}
    /\ solo' = {}
    /\ \E kept \in SUBSET {w \in Workers : h[w].call = "sent"} :
        late' = late \cup {[cmd |-> Head(h[w].todo), id |-> h[w].id] : w \in kept}
    /\ Cardinality(late') <= MaxLate
    /\ UNCHANGED <<rowVars, due, live>>

Crash == Restart /\ UNCHANGED dir

\* The panel goes down between the mkdir and the INSERT of Create.
CrashInCreate ==
    /\ Restart
    /\ \E s \in Slugs :
        /\ UniqueSlug(s)
        /\ dir[s] = "absent"
        /\ dir' = [dir EXCEPT ![s] = "empty"]

\* The server process ends by itself; nothing tells the panel.
ServerExit(s) ==
    /\ "exit" \in Faults
    /\ live[s] # NoId
    /\ live' = [live EXCEPT ![s] = NoId]
    /\ solo' = solo \ On(s)
    /\ UNCHANGED <<rowVars, due, dir, h, round, late>>

Step(w) ==
    \/ Queried(w)
    \/ Execute(w)
    \/ Unreachable(w)
    \/ Timeout(w)
    \/ GiveUp(w)
    \/ Fail(w)
    \/ SendNext(w)
    \/ Finish(w)
    \/ Complete(w)

Next ==
    \/ \E id \in Ids, p \in Ports : Create(id, p)
    \/ \E w \in Procs, op \in {"install", "start", "stop"}, id \in Ids : Operate(w, op, id)
    \/ \E id \in Ids : Delete(id)
    \/ \E w \in Procs, id \in Ids : Purge(w, id)
    \/ \E id \in Ids : BecomeDue(id)
    \/ Wake
    \/ \E w \in Workers, id \in Ids : Maintain(w, id)
    \/ \E w \in Workers : Step(w)
    \/ \E r \in late : ExecuteLate(r)
    \/ Crash
    \/ CrashInCreate
    \/ \E s \in Slugs : ServerExit(s)

Spec == Init /\ [][Next]_vars

-----------------------------------------------------------------------------
\* Two rows never share a slug, so neither a directory nor a container name,
\* and never share a port, whatever is created, cloned, deleted and purged
\* (InstanceStore.create, create_instance).
DistinctRows ==
    \A i, j \in Ids :
        Exists(i) /\ Exists(j) /\ i # j => slug[i] # slug[j] /\ port[i] # port[j]

\* What a row says of its server.
Truth(id) ==
    /\ status[id] = "running" => live[slug[id]] = id
    /\ status[id] = "stopped" => live[slug[id]] = NoId

\* A handler that was alone on its slug and whose requests were answered
\* leaves the row telling the truth, whatever happened before it: an answer
\* that was lost, a crash, a request executed late (execute_operation,
\* MaintenanceRunner.run).  An installation leaves the server's files.
TruthAfterSolo ==
    [][\A w \in solo, id \in Ids :
          h[w].id = id /\ (Finish(w) \/ status'[id] # status[id]) =>
              /\ Truth(id)'
              /\ status'[id] = "installed" => dir'[slug[id]] = "server"]_vars

\* update_before_restart never runs SteamCMD on the files of a server that is
\* up, as long as nobody else works on that instance (MaintenanceRunner.run).
UpdateWhileStopped ==
    \A w \in solo :
        h[w].op = "maintain" /\ h[w].call = "sent" /\ Head(h[w].todo) = "install"
            => live[slug[h[w].id]] = NoId

\* Nothing tells the panel of a server that ends by itself.
Up(id) == {id} \cup (IF "exit" \in Faults THEN {NoId} ELSE {})

Believable(id) ==
    /\ status[id] = "running" => live[slug[id]] \in Up(id)
    /\ status[id] = "stopped" => live[slug[id]] = NoId

\* With one handler at a time on an instance, and as long as every request is
\* answered, a row tells the truth whenever nothing is under way for it, but for
\* servers that ended by themselves (execute_operation, MaintenanceRunner.run).
StatusHonest ==
    \A id \in Ids : Exists(id) /\ Quiet(slug[id]) => Believable(id)

\* With one handler at a time on an instance, whatever else fails, a running
\* container that holds the port of a row is the container of that row, also
\* when instances were deleted while their containers were up.
PortOwned ==
    \A id \in Ids, s \in Slugs :
        Exists(id) /\ live[s] # NoId /\ port[live[s]] = port[id] => live[s] = id

Contract == INSTANCE Claims WITH held <- {id \in Ids : Exists(id)}

\* With one handler at a time on an instance, whatever else fails, the rows
\* claim their slugs and ports as Claims says: no request that was left to the
\* agent, and no handler, starts the container of a row that is gone, and no
\* port is given away that a container still holds (create_instance,
\* execute_operation, delete_instance).
ClaimsKept == Contract!Spec

\* "Stop the server before deleting files": the agent never removes the
\* directory of a container that is up (delete_instance).
PurgeWhileStopped ==
    \A w \in Workers :
        h[w].op = "delete" /\ h[w].call = "sent" => live[slug[h[w].id]] = NoId

-----------------------------------------------------------------------------
\* The inductive invariant of LifecycleProofs.

PlansOf(op) ==
    CASE op = "start" -> {<<"start">>}
      [] op = "stop" -> {<<"stop">>}
      [] op = "install" -> {<<"install">>, <<"import", "install">>}
      [] op = "delete" -> {<<"purge">>}
      [] op = "maintain" -> {<<"start">>, <<"stop", "start">>, <<"install", "start">>,
                             <<"stop", "install", "start">>}

\* A handler works on an instance that was created, and its requests are a
\* rest of the plan of its operation.
PlanInv ==
    \A w \in Workers : Busy(w) =>
        /\ slug[h[w].id] \in Slugs
        /\ h[w].call = "query" => h[w].op = "maintain"
        /\ h[w].call = "fetch" => h[w].op = "install"
        /\ h[w].call \in {"sent", "ok", "bad", "lost"} => h[w].todo \in PlansOf(h[w].op)

RowInv ==
    /\ \A id \in Ids : Exists(id) => slug[id] \in Slugs /\ port[id] \in Ports
    /\ \A r \in late : slug[r.id] \in Slugs

\* What the host is like once a request was answered with success.
Acknowledged(cmd, id) ==
    /\ cmd = "stop" => live[slug[id]] = NoId
    /\ cmd = "start" => live[slug[id]] = id
    /\ cmd = "install" => dir[slug[id]] = "server"

SoloInv ==
    \A w \in solo :
        /\ Busy(w)
        /\ On(slug[h[w].id]) = {w}
        /\ \A r \in late : slug[r.id] = slug[h[w].id] => h[w].call = "lost"
        /\ h[w].call = "ok" => Acknowledged(Head(h[w].todo), h[w].id)

IInv == TypeOK /\ PlanInv /\ RowInv /\ DistinctRows /\ SoloInv /\ UpdateWhileStopped

\* With one handler at a time, an instance is not deleted under a handler or
\* under a request that was left to the agent, and a request is only left there
\* by a handler that has given it up.
Attended ==
    /\ \A w \in Workers : Busy(w) => Exists(h[w].id)
    /\ \A r \in late : Exists(r.id)
    /\ \A v, w \in Workers : Busy(v) /\ Busy(w) /\ v # w => h[v].id # h[w].id
    /\ \A w \in Workers, r \in late : Busy(w) /\ r.id = h[w].id => h[w].call = "lost"

\* A container runs what its slug's instance was, or is.
Housed == \A s \in Slugs : live[s] # NoId => slug[live[s]] = s

\* What the handler awaits does not touch the container, and if the handler
\* ends with it, then it leaves the row as it is or takes it for failed.
Harmless(w) ==
    \/ h[w].call \in {"query", "fetch", "lost"}
    \/ h[w].call = "sent" /\ Head(h[w].todo) = "import"

\* What was answered with success is so until the coroutine goes on with it.
Answered ==
    \A w \in Workers : Busy(w) /\ h[w].call = "ok" =>
        /\ Head(h[w].todo) = "stop" => live[slug[h[w].id]] = NoId
        /\ Head(h[w].todo) = "start" => live[slug[h[w].id]] \in Up(h[w].id)

\* A row tells the truth until a request that may change it is under way.
HonestInv ==
    \A id \in Ids :
        Exists(id) /\ (\A w \in On(slug[id]) : Harmless(w)) => Believable(id)

ClaimInv == Attended /\ Housed /\ PortOwned

CalmInv == late = {} /\ Attended /\ Answered /\ HonestInv
=============================================================================
