# A verification of CS2 WebUI

CS2 WebUI is a panel for Counter-Strike 2 servers: a FastAPI application with a
SQLite database, a host agent behind a Unix socket that runs Podman and moves
server files, a plugin inside the game server (the bridge), and a browser
frontend. This directory holds TLA+ modules of its stateful parts, the
configurations that model-check them with TLC, and proofs that TLAPS checks.
Paths below are relative to `src/src/cs2webui/` unless they start with `src/`.

## The system

**Concurrency.** The panel is one process with one asyncio event loop. Every
handler is a coroutine: it runs alone between two awaits and interleaves with
the others at an await. Handlers await the host agent (`host/agent_client.py`,
up to an hour), downloads (`core/plugins.py`, `modules/builtin/workshop.py`)
and threads (the A2S query of the maintenance runner). SQLite calls, file
operations and RCON commands are synchronous and block the loop. One background
task (`app.py:102`) sleeps a minute, runs the due maintenance policies, then the
bridge rotation. The agent's handlers block its own loop: it serves one request
at a time. The game servers, with the bridge plugin in them, run beside all this.

**Failures.** The panel may be restarted anywhere (systemd, Quadlet); what is in
the database and on disk stays, what is in memory is lost. The agent may be
unreachable, answer with a return code or an HTTP error, or answer too late; it
then still executes what it has. Servers end without telling the panel. RCON and
A2S fail or lose the answer.

| Component | State | Operations | Interacts with | Hard behaviour | What makes it correct |
|---|---|---|---|---|---|
| Instance store and API (`core/instances.py`, `api/instances.py`) | rows: slug, port, status; directories | create, clone, delete, purge, set_status | agent, diagnostics | check then act; purge on a stale status; crash between mkdir and INSERT | rows distinct; ports and containers not mixed up; no purge under a running server |
| Lifecycle API, planner, agent client, agent (`api/lifecycle.py`, `host/`) | row status, container, server files | install, import, start, stop | instances, Podman | lost and late answers, overlapping operations | the row tells the truth |
| Maintenance (`core/maintenance*.py`, `api/maintenance.py`, `app.py`) | policies, last run, deferral window | save, run, defer, run_due | lifecycle, backups, A2S | deferral, rounds of hours, one failing instance | interval kept, players get their time, nobody starves |
| Rotation and bridge (`modules/builtin/rotation.py`, `core/bridge_rotation.py`, `src/bridge-plugin/`) | queue, cycle, history, marker files, processed stamps | enqueue, replace, restore, next, run | RCON, game server, plugin | crash between commits, marker replaced while in use | each match advances once, in order, and only after the server was told |
| Backups (`core/backups.py`) | archives | create, restore | server files, plugins | fails or raises; stops half way; writes over what changed since | a failed one stops the maintenance run; restoring one loses no plugin's file |
| Plugins (`core/plugins.py`, `api/plugins.py`) | rows, files, disabled files, archives, `gameinfo.gi` | install, replace, enable, disable; prerequisites of an install | server files, downloads, SteamCMD, backups | copy before record, partial moves, await between check and act | files and rows agree, no file is lost |
| Accounts, limiter, setup (`core/auth.py`, `core/setup.py`, `api/`) | users, sessions, failures, settings | login, logout, new users, setup steps | — | window boundary, eviction, restart, completion | the limiter counts neither too much nor too little, setup ends once and complete |
| Workshop (`modules/builtin/workshop.py`) | cards, media files, Steam's state | add, update, import, upload | Steam, downloads | streams into files that others replace, partial import | a card's preview is there, an upload stays |
| Console, presets (`api/console.py`) | presets, quick commands | apply | RCON | stops half way | — |
| Protocol clients (`host/rcon.py`, `host/a2s.py`) | a connection | execute, query | game server | split packets, challenge | answer belongs to command |
| Registry, configuration, players, dashboard, diagnostics, secrets, audit, frontend, scripts | little or none | — | — | — | — |

`PROJECT.json` lists every component with what is modelled of it, and every
hazard of the code at its line with the properties that cover it.

## Modules

### Claims and Lifecycle

`Claims` is the contract of slugs, ports and containers: a row claims a slug and a port that are
free in the database and on the host, and keeps them for life; a container is only started for a
row, in its slug and on its port. It knows nothing of handlers, commands, answers or directories.

`Lifecycle` is the code: the panel and the host as one state machine. `slug`, `port` and `status` are the
instances' rows, `dir` and `live` the host: what a server directory holds and
which instance's launch arguments the container `cs2webui-<slug>` runs with. `h`
has one handler per request the panel serves and one for the background task:
its operation, its instance, the commands it has still to send, and how far the
one it awaits is. `late` has the requests the panel gave up and the agent has
not executed yet (a set: the agent may take them in any order, which allows more
than its queue does).

| Code | Actions |
|---|---|
| `create_instance`, `clone_instance` | `Create` (a clone is an imported instance) |
| `execute_operation` | `Operate`, then `Execute`, `SendNext`, `Finish`, `Complete` (the prerequisites after an install), `GiveUp` (503), `Fail` |
| `delete_instance` | `Delete`, or `Purge` and the steps of its request |
| `MaintenanceRunner.run_due`, `run` | `BecomeDue`, `Wake`, `Maintain`, `Queried`, then as above |
| agent handlers | `Perform`, in `Execute` or `ExecuteLate` |
| agent not there, timeout | `Unreachable`, `Timeout` |
| restart of the panel, end of a server | `Crash`, `CrashInCreate`, `ServerExit` |

An await is one value of `call`; between two steps of a handler anything else
may happen. Policies without the A2S query pass through `"query"` too, which only
adds interleavings. Names of one base name are numbered (`_unique_slug`), so a slug
is a number. An HTTP 500 of a `mkdir` that finds the directory changes nothing and
is no step. `inspect_udp` is what it detects: the ports running containers hold.
`Faults` says which of overlapping handlers, lost answers, late requests, crashes
and servers that exit a run admits; the proofs hold for every subset.
`Contract == INSTANCE Claims` has the rows that exist as `held`: creating claims, deleting
releases, and what the agent executes, for a handler or late, runs and ends containers.

### Rotation and BridgeRotation

`Rotation` is the contract, in five actions: one-time maps leave the queue in order and
the cycle turns, each only after the server was told to play that very map
(`told`); a replaced cycle can be restored. `BridgeRotation` is the code: a
transition is a sequence of file operations, RCON commands and commits, one step
each, between which only the game server, the plugin and the end of the process
can come (nothing awaits, so other handlers cannot). `pc` is where the event
loop is; `marker` is the match the marker file is about, `processed` the memory
of the runner. `told`, `done` and `since` are history: the matches the rotation has advanced for,
and those of them in this life of the panel. The bridge's `File.Move` replaces a
marker at any time (`MatchEnd`); with the fault `"quick"` also while its predecessor
is being acted on. `run` visits the instances in the order of the list: `Ahead[id]` are those
listed before `id`, any strict partial order, of which the code's (by creation) is one.
A marker that cannot be read is discarded (`Discard`); when it cannot be removed either, the round
ends there (`Stuck`), as it does in the code.

`Contract == INSTANCE Rotation`, and the detailed specification implements it
with the identity as its mapping: an Advance is the commit of `next_command`,
`Tell` the execution of the command by the server.

### Maintenance

Policies, the loop and the runner, with time. A timestamp is its age in minutes,
saturating at `Cap`, which is at least everything it is compared with, so ages
lose nothing. `table` keeps the order of the rows because a round runs them in
that order (`First`) and stops at an exception; `todo` is what is left of the round, with
the settings as they were when it began. Operators run the `Hasty` instances before they
are due and save other policies for them at any time; they save the others' once. With the fault `"unsaved"`
they also run an instance that has no policy yet: when it is put off, `may_defer` inserts a row with no
`last_run_at` in it. What a run does to the server is
Lifecycle's subject; here it completes, fails (`Broken`: the handled errors) or raises
(`Raising`: an exception the runner does not catch, met again in every round).
`BecomeDue` of Lifecycle is the abstraction of this module there.

### PluginLedger and Plugins

`PluginLedger` is the contract of the files of recorded plugins that have no path in common: they
only go from the server to the plugin's own directory and back, those of one plugin at a time, the
row changes when all of them are where it then says, and a backup may bring files of recorded
plugins back to the server, and tear them while it writes over them, which nothing else does. It knows
nothing of packages that are half copied, of requests or of archives.

`Plugins` is the code, for one instance. `rows` are the rows with their file lists, `server`
is the server directory, `aside` the directories `disabled-plugins/<id>`, and
`gameinfo` the file MetaMod needs a directive in. A file is identified by the
package its contents came from, so that it shows who overwrote whom, or `Torn`: `copytree` opens each
target with "wb", which empties it, so a copy that stops leaves files that are old, torn or new in any
mixture (`CutOff`), and an archive that is not finished may hold one file in part (`Unfinished`). A
move is a rename: `disabled-plugins` lies beside the server directory, on the same file system.

| Code | Actions |
|---|---|
| `_install` and the MetaMod installer behind it | `Copy`, guarded by `Refused` (conflicts, a `gameinfo.gi` that cannot be changed), in every action that installs |
| `install_local`, the bridge that is built in | `InstallLocal` (no await) |
| `install_url`, built-in packages | `Download`, `Downloaded` (the await lies between them) |
| what an install is completed with | `RunInstall`, `LookForMetamod`, `LookForCounterStrikeSharp`, `Obtain`, `AddBridge` |
| `set_enabled` | `SetEnabled`, by `Toggle` and `Move` |
| `BackupStore.create`, `restore` | `CreateBackup`, `Restore` |
| SteamCMD in an install or in maintenance | `RunInstall`, `Validate` |
| restart of the panel | `Crash` |

A step on files either goes through or, with the fault `"half"`, stops anywhere in it
and the row is left as it was. `settled` is history: the rows whose last change was
answered with success, until a backup that has one of its files is restored under a row that says
disabled. The fault `"clash"` admits packages that share a path with another recorded
one, `"again"` a package that is recorded already; without them these are not installed.
`Kind` is the installer a package goes through; MetaMod's archives hold only its add-on.
Installing looks for a conflict in the server directory only, whatever is set aside.
`Ledger == INSTANCE PluginLedger` maps a row to its package and its switch (`PkgOf`, `EnabledOf`),
and the directories to the paths at which the row's own package lies, whole or torn (`HereOf`, `AwayOf`,
`TornOf`): a copy before its row, and what a stopped copy left, are not there yet or never.

### LoginWindow and Access

`LoginWindow` is the contract of the login limiter: at most `Limit` failures of a key
within `Window`, refused attempts do not count, a success starts anew, and a failure is
forgotten otherwise only at a restart or when `MaxKeys` other keys have failed, too. It knows
nothing of deques, of entries that are expired and still there, or of the order of a dictionary.

`Access` is the code: `LoginRateLimiter` (`failures`, and `before` for the order of the
dictionary's keys), accounts, sessions and the setup wizard. Login is `LoginRefused`,
`LoginFails` or `Login`, all of `allows`, `record_failure` and `clear` included; then `Logout`,
`Expire`, `CreateUser`; `Choose` (language and port), `SetAccess` and `CreateAdmin` are the
wizard. No handler awaits, so each is one step, but with `"half"` the panel may end between
the two commits of `SetAccess` or of `CreateAdmin`. Time does not pass inside a handler.
`Promise == INSTANCE LoginWindow` maps `failures` to what of each deque is inside the window.
"ip" is stored as "local" is, and an operator may do what a viewer may do here: the model has one
of each.

### Workshop

The cards (`rows`: shows Steam's preview, or the panel's own) and the media directory:
`media[m][s]` is the file `<m>.<s>`, half written, cached or uploaded. `h` has the requests
that await something.

| Code | Actions |
|---|---|
| `add_map` | `AddMap`, `Described`, and with a preview to cache `NoPreview`, `Open`, `Chunk`, `Cached`, `Broken`, `Oversize` |
| `upload_media` | `Upload`, `UploadRefused`, `Uploaded` (by `Replace`), `UploadCut` |
| `import_collection` | `Import`, `Children`, `Child`, `ImportFails` |
| restart of the panel | `Crash` |

A stream has a file open, not a path: when another request unlinks the file, it goes on
writing into one nobody sees (`linked`). `Oversize` unlinks by name, whoever wrote what the name
stands for by then. `UploadCut` is an upload that fails or is cut off after it has unlinked some of the
previews, or all of them, and written nothing, a part of the new one, or the whole file, but not the card.
`kept` is history: the type of an upload nobody has touched since, or `"removed"` when the last
preview of the map went without another. A preview that is written in part counts as a file: the
panel serves it.

## Runs

| Run | Asks | Result |
|---|---|---|
| LifecycleFaults | two instances after each other on one slug and one port, every fault: `TruthAfterSolo`, `UpdateWhileStopped`, types | holds |
| LifecycleCalm | two instances, two ports, no faults: `StatusHonest`, `PortOwned`, `DistinctRows`, `ClaimsKept` | holds |
| LifecyclePurge | `PurgeWhileStopped` | violated |
| RotationContract | one instance, three maps, every fault but a crash: `RotationContract`, `OncePerMatch`, `MarkersHandled`, types | holds |
| RotationLive | two instances in order, fair; outages, markers that cannot be read or removed, crashes: `MatchHandled`, `OncePerLife` | holds |
| RotationReplay | `OncePerMatch` with a crash | violated |
| Maintenance | two instances, three policies, one instance failing, edited and run early, deletions, runs without a policy, fair: `IntervalKept`, `WindowFresh`, `OnlyAsked`, `DelayNotRenewed`, `NotStarved`, `RotationGoesOn`, types | holds |
| MaintenanceStarved | `NotStarved` with an exception | violated |
| PluginsKeep | three packages, each a prerequisite, steps that stop half way and tear files, restarts, backups: `KeepsFiles`, `Settled`, `NothingOverwritten`, `LedgerKept`, types | holds |
| PluginsLost | `Settled` with two rows that share a path | violated |
| Access | three names, one session token, restarts, requests cut short, fair: `LimiterContract`, `ForgottenInOrder`, `TrackedBounded`, `LockEnds`, `SetupDone`, `PlanAsAnswered`, types | holds |
| Workshop | two maps, three requests, streams that break or turn out too large, uploads that stop half way, restarts: `Served`, `UploadKept`, types | holds |

Every property of a run that holds has a mutant in `PROJECT.json`: a plausible
slip in one definition that makes TLC report it.

### What the violated properties say

* **LifecyclePurge.** `delete_instance` answers "Stop the server before deleting
  files" only while the status is `running`. A server that is up is `failed` after
  a backup failed in maintenance, and `installed` after an install on top of it. Its
  directory is then removed under it.
* **RotationReplay.** `PROJECT_MEMORY.md` says that restarts of the panel cannot
  repeat a transition. They can, between `next_command` and the removal of the marker. `OncePerLife`
  is what remains of the sentence: within one life of the panel nothing is repeated, whatever else fails.
* **MaintenanceStarved.** "One integration failure must not permanently stop
  scheduling": an exception that is no `OSError` out of one backup ends each round at the same place.
* **PluginsLost.** `_install` refuses a package when one of its files exists, but looks in the server
  directory only. A plugin is installed and disabled, the same paths are installed again as
  another row, and the first is disabled once more: `set_enabled` then moves the file of the
  second row aside, while the panel goes on showing that one as enabled.

What else goes wrong in the code has no run of its own. The properties name it as an exception, without
which they do not hold:

* `IntervalKept`, `core/maintenance.py:203`. `src/docs/PROJECT_MEMORY.md:278` says that the interval of a new
  policy starts when it is saved "instead of being due immediately". When an operator's run was put off
  before, `may_defer` has inserted the row, `save` leaves its `last_run_at` as it is, NULL, and
  the policy is due at once, also right after a run that was completed.
* `MarkersHandled`, `core/bridge_rotation.py:74`. A marker the plugin writes while the transition of the
  match before is under way is removed with that one's, unread.
* `MatchHandled`, `core/bridge_rotation.py:51`. A marker that can neither be read nor removed ends every round
  where it lies, and the servers listed behind it wait for as long as it stays.
* `Settled`, `core/backups.py:89`. Restoring a backup that is older than the disabling of a plugin puts its
  files back into the server; its row goes on saying disabled.
* `KeepsFiles`, the same line. A restore that stops may leave a file of a recorded plugin torn; a backup has
  it. Restoring a finished backup mends it, one that was not finished (`core/backups.py:40`, which
  the panel offers like any other) may itself be what tears it.
* `Served` and `UploadKept`, `modules/builtin/workshop.py:286` and `:316`. A preview that turns out too large is
  removed by its name, with the upload or the stored preview that has this name by then; an upload
  that fails after it has unlinked the previews before it leaves the card without.
* `PlanAsAnswered`, `api/setup.py:72`. A request that chooses a domain and is cut short between its two commits
  leaves the mode `domain` with an earlier domain or none, and the wizard can be completed like that.

### Bounds and why they are enough

* Lifecycle: interference needs two handlers: one request and the background task.
  A slug or port is contended by two instances. One late request suffices for it
  to meet the handler that follows; `MaxLate` is 1. The proofs remove these bounds.
* Rotation: a queue of two shows its order, a cycle of two that it turns, two matches
  that a marker is replaced. Liveness needs two instances, since one can hold up the
  other, the first in the list the second only, and there the queues stay empty (`MaxQueue = 0`) and a
  cycle has one map: which map is sent does not matter. Two matches let one marker replace another. The proofs remove the bounds of the safety properties.
* Maintenance: `Cap = 2` with intervals and windows of 0, 1 and 2 minutes has every
  order of "before", "at" and "after". Two instances: one that fails, one that must not suffer.

* Plugins: a conflict needs two packages with a path in common, a move that stops half way one
  package with two files, and the prerequisites one package each; two rows, two requests that wait
  for downloads, one backup of two of the three paths. Each of a package's files may be old, torn or
  new. The proofs remove the bounds.
* Access: `Limit = 2` and `Window = 2` tell "before", "at" and "after" apart; three keys where two
  have room make one give way. One token: what a session allows does not depend on others.
  Two domains, so that an old one can be left behind.
* Workshop: three requests, since an upload may come between two streams into one file; two types
  of image, since a replaced preview may be of the other; two maps for a collection. The proofs
  remove the bounds.

`Workshop` uses the symmetry of requests, types and maps, `PluginsKeep` that of rows and requests, which are only compared. `LifecycleCalm` uses the symmetry of the ports: they are only compared. Slugs are ordered,
and the instances differ in how they were created, so these are not symmetric.
Deadlock is checked in every run.

### Fairness

Rotation: weak fairness of the steps of the event loop, which goes on with what it
began. That the task comes round again (`StartRun`) is no fairness but a premise of `MatchHandled`: it is
what `RotationGoesOn` says of Maintenance, and what an exception in a backup takes away
(MaintenanceStarved). The other premises are that from some time on the panel stays up, the server
in question answers, and neither its marker nor one ahead of it is stuck. Other servers, removals
that fail, and operators need no premise. Maintenance: weak fairness of time and of the steps of
the background task; its awaits end because the A2S query and the agent client
have timeouts; strong fairness of the end of the minute (`Wake`): when it is over asyncio runs the
timer in the next iteration of the loop, and operators' runs only keep it away for as long as they last. Access: time passes (weak fairness of `Tick`), which is
all `LockEnds` needs. Nothing is assumed of operators, servers, players or plugins.

## Proofs

`LifecycleProofs`, `LifecycleClaimsProofs`, `LifecycleCalmProofs`, `BridgeRotationProofs`,
`MaintenanceProofs`, `PluginsProofs`, `AccessProofs` and `WorkshopProofs`, for every value of the
constants under the assumption each component names (distinctness of the special values, types of
the bounds). What a theorem supposes of `Faults` beyond that is said with it.

* **Lifecycle.** `IInv` is inductive: the types; `PlanInv`, what a handler
  has still to send is a rest of its operation's plan; `RowInv`, rows and late requests have a
  slug; `DistinctRows`; and `SoloInv`. None of the properties is inductive alone:
  that a solo handler ends with the truth needs that its last command's effect still
  stands when its coroutine goes on (`Acknowledged`), which holds because no other handler
  and no late request works on that slug, which in turn needs that two slugs never share a row.
  From it: `TypeCorrect`, `RowsStayDistinct`, `UpdatesWhileStopped` and, as an action
  property, `TruthIsTold`.
* **Claims.** `ClaimsAreKept` is `Spec => Contract!Spec` with every fault but `"overlap"`: lost
  answers, late requests, crashes and servers that end. What it needs is `Attended`, inductive with
  `IInv`: nothing works on an instance without a row, neither a handler nor a late request, and a
  request is only left late by a handler that has given it up. A container that outlives its row is
  in the contract (`Release` says nothing of containers). `PortsAreOwned`, under the
  same assumption, follows from the contract alone: with `Housed`, a container runs an instance
  of its slug, it is inductive for the steps of `Claims`.
* **Statuses.** `StatusesAreHonest` supposes `Faults \subseteq {"exit"}`. `CalmInv` is inductive
  together with `IInv`: `Attended` without late requests; what was answered with success is so until the
  coroutine goes on (`Answered`); and a row tells the truth as long as the request its
  handler awaits cannot have changed that (`HonestInv`, `Harmless`). A server that ends by itself
  stays "running" (`Up`), which nobody tells the panel; a stopped one is down.
* **Refinement.** `PromiseKept` is `Spec => Contract!Spec`. It needs `NextInv`: the map that
  was sent is still the next one when the rotation advances, because handlers run only when the loop is free.
* **Once per match.** `AdvancedOncePerLife`, with every fault: markers are stamped with matches
  in order (`StampInv`), the match under way is at least as new as all that were handled
  (`HeldInv`), and a marker the rotation has advanced for in this life is remembered (`SeenInv`).
  `AdvancedOnce`, without `"crash"`, is its corollary: there is only one life (`OneLife`).
* **Markers.** `RemovedWhenHandled`, with every fault: the marker that is removed at the end of a transition
  is the one that was read or that of a later match (`MarkerInv`), and the first is the one remembered.
* **Maintenance.** `MaintenanceTyped`, `TimeIsGivenOnce` (`DelayNotRenewed`), `OnlyWhatIsAsked` (`OnlyAsked`) and
  `RoundsTakeWhatIsDue` without assumptions on faults. `IntervalIsKept` and `WindowsAreFresh` suppose that
  operators' runs do not overlap with a round (no `"overlap"`); failures, deletions, hasty
  operators and runs without a policy are included. None of them is inductive: what is due is read once,
  and the settings it was due for may be others when its turn comes. `RowInv` ties a saved
  policy to a row and its `last_run_at`, where there is one, to the last completed run; `RunInv` keeps workers on
  different instances and the rest of a round as overdue as it was when the round began;
  `FreshInv` says that an instance that is worked on or waits in a round is still due, so that
  no window opens for one that is not. `RecordInv`, which is `RowInv` with `OnlyAsked`, is inductive under
  overlaps, too: an overlap costs the interval only between the choice of what is due and the restart.
* **Plugins.** `PluginsTyped` without further assumptions; `FilesAreKept`, `ChangesSettle`,
  `FilesNotReplaced` and `LedgerIsKept` with every step that stops half way, but without `"clash"` and
  `"again"`. `FilesInv` is inductive: rows have their paths to
  themselves (`Apart`), what lies at a path of a row is that row's, whole or torn by a backup that has it
  (`Owned`, `Sound`), in the server directory and aside, and the files of a backup are either still where they
  were or their plugin is recorded (`BackedUp`), so that restoring one brings back no stranger. `LedgerIsKept`
  maps each step to one of `PluginLedger` or to a stutter: a copy becomes visible with its row, a move that
  stops half way is an `Enable` or `Disable` of some paths without a change of the row.
* **Plugins that clash.** `BystandersAreSpared` allows `"clash"` and `"half"`, but not `"again"`: of packages that
  share paths, only those that share them get in each other's way. `SparedInv` is inductive: files
  lie at paths of their packages only (`Placed`), no package is recorded twice (`Single`), and so what
  happens to others does not reach the paths of a plugin that has them to itself (`Alone`, `Unhurt`). It is no
  property of a run: to check it with TLC, give `PluginsLost` the faults `"half"` and `"clash"` and `SparedInv`
  as its invariant. With `"again"` it fails: of two rows with the same files each move takes the other's away.
* **Limiter.** `LimiterImplements` is `Spec => Promise!Spec`. It needs `Aged`, that the ages of a
  deque go down: what is discarded from the front is then all that is expired. `ForgottenOldestFirst`
  says which steps take failures that still count: `Ordered`, the keys are in a strict
  total order whatever was cleared and came again, is inductive, so the key that gives way was there before
  all the others (and there is one, `OneIsFirst`: such an order has a first element on every finite set).
  Beside them `MemoryBounded` and, of the wizard, `SetupIsDone` and `PlanIsAnswered`.
* **Workshop.** `PreviewInv` is inductive: a card that shows the panel's preview, and a stream,
  has a file unless the last was removed (`Stored`), and no stream has the file of an upload open (`Unwritten`). From it
  `WorkshopTyped`, `PreviewsServed` and `UploadsKept`.

Only model-checked: liveness under fairness (`MatchHandled`, `NotStarved`, `RotationGoesOn`,
`LockEnds`), which is out of the prover's reach. Every invariant, action property and refinement
that a run checks is a theorem; the violated ones are of course none.

## Not modelled

The components marked so in `PROJECT.json`, each with its reason. Within the modelled ones: the
text of commands, answers, audit records and logs, passwords and secrets, schema
migrations, the read-only endpoints, what an archive or an image is refused for, and the
names and sizes of backups. That a UDP port is found busy depends on the game
server's socket options; the model supposes it is.

The clients of RCON and A2S are modelled by what their callers see (executed or not, answered or
not), not by their packets: each opens a connection for one request, so nothing is kept
between two. Presets are sequences of RCON commands without state. Configuration files, players
and the dashboard are read or written whole by one handler that awaits nothing in between. The registry
is filled once at the start. The frontend and the shell scripts are outside the program's process.

## Plan

Done: Claims and Lifecycle, Rotation and BridgeRotation, Maintenance, PluginLedger and Plugins,
LoginWindow and Access, and Workshop, each with its proofs.

1. **Wire**: the RCON and A2S clients over a stream that splits and delays packets, against "the
   answer is that of the command"; presets on top.
2. **Composition** of Plugins with Lifecycle: installs of an instance that is purged meanwhile.
3. **Registry**: registration, duplicates, optional modules that fail.
