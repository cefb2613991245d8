------------------------------- MODULE Plugins -------------------------------
(***************************************************************************)
(* The plugins of one instance: archives that are downloaded, extracted    *)
(* and copied into the server directory, their rows, the directory a       *)
(* disabled plugin's files are moved to, the prerequisites the install     *)
(* operation adds, and what writes over the same files: backups that are   *)
(* restored and SteamCMD.                                                  *)
(*                                                                         *)
(* A file is modelled by the package its contents came from.  Handlers run *)
(* in one event loop and only a download is awaited, so what a handler     *)
(* does between two awaits is one step, or several that nobody interrupts. *)
(* A step on files may stop half way: an OSError, or the end of the panel. *)
(* A copy opens its target with "wb", so the files it did not finish are   *)
(* empty or cut off (Torn); a move is a rename on one file system.         *)
(***************************************************************************)
EXTENDS Naturals, FiniteSets

CONSTANTS
    Ids,        \* ids of rows
    Packages,   \* archives and directories, each version one of its own
    Paths,      \* paths below the server directory
    Files,      \* Files[p]: the paths of a package
    Kind,       \* Kind[p]: what the panel takes a package for
    Wanted,     \* the prerequisites the instance was created with
    Kept,       \* paths that are in a backup
    Nothing,    \* no file
    Torn,       \* a file whose copy was not finished
    NoRow,      \* no row
    Procs,      \* requests that may await a download
    Faults,     \* what else may happen, a subset of FaultKinds
    MaxBackups  \* bound on backups

FaultKinds == {"half", "clash", "again"}
Row == [pkg : Packages, enabled : BOOLEAN]
Prerequisites == {"metamod", "counterstrikesharp", "bridge"}

ASSUME PluginAssumption ==
    /\ Files \in [Packages -> (SUBSET Paths) \ {{}}]
    /\ Kind \in [Packages -> Prerequisites \cup {"other"}]
    /\ Wanted \subseteq Prerequisites
    /\ Kept \subseteq Paths
    /\ Nothing \notin Packages
    /\ Torn \notin Packages \cup {Nothing}
    /\ NoRow \notin Row
    /\ Faults \subseteq FaultKinds
    /\ MaxBackups \in Nat

Awaiting == {"idle", "url", "metamod", "counterstrikesharp"}
Stages == Awaiting \cup {"answered", "next", "last"}
Tree == [Paths -> Packages \cup {Nothing, Torn}]

VARIABLES
    rows,       \* cs2_plugins and cs2_plugin_files
    server,     \* the server directory
    aside,      \* aside[id]: disabled-plugins/<id>
    gameinfo,   \* game/csgo/gameinfo.gi
    backups,    \* the archives of the backup store
    h,          \* the requests that await something
    settled     \* history: rows whose last change went through

files == <<rows, server, aside, gameinfo, settled>>
vars == <<files, backups, h>>

TypeOK ==
    /\ rows \in [Ids -> Row \cup {NoRow}]
    /\ server \in Tree
    /\ aside \in [Ids -> Tree]
    /\ gameinfo \in {"missing", "stock", "patched", "broken"}
    /\ backups \subseteq Tree
    /\ h \in [Procs -> Stages]
    /\ settled \subseteq {id \in Ids : rows[id] # NoRow}

Empty == [f \in Paths |-> Nothing]

Init ==
    /\ rows = [id \in Ids |-> NoRow]
    /\ server = Empty
    /\ aside = [id \in Ids |-> Empty]
    /\ gameinfo = "missing"
    /\ backups = {}
    /\ h = [w \in Procs |-> "idle"]
    /\ settled = {}

\* Nobody else is between two awaits.
Free(w) == \A v \in Procs \ {w} : h[v] \in Awaiting

-----------------------------------------------------------------------------
\* Installing.

Has(kind) == \E id \in Ids : rows[id] # NoRow /\ Kind[rows[id].pkg] = kind

\* The files of t that are in paths are written over those of the server.
Overlay(paths, t) ==
    [f \in Paths |-> IF f \in paths /\ t[f] # Nothing THEN t[f] ELSE server[f]]

\* What a copy of t may leave that stops: a file of t is still what it was, is
\* torn, or is written.  copytree goes on after a file that fails.
CutOff(t) ==
    LET written == {f \in Paths : t[f] # Nothing} IN
    {[f \in Paths |-> IF f \notin written \/ now[f] = "old" THEN server[f]
                      ELSE IF now[f] = "torn" THEN Torn ELSE t[f]] :
        now \in [written -> {"old", "torn", "new"}]}

Contents(p) == [f \in Paths |-> IF f \in Files[p] THEN p ELSE Nothing]

\* Mutant: only the first file that is looked at is compared.
SomeConflict(p) == \A f \in Files[p] : server[f] # Nothing

\* A path of the package exists, or MetaMod's directive has no place to go.
Conflict(p) == \E f \in Files[p] : server[f] # Nothing
Refused(p) ==
    \/ Conflict(p)
    \/ Kind[p] = "metamod" /\ gameinfo \notin {"stock", "patched"}

Recorded(p) == \E id \in Ids : rows[id] # NoRow /\ rows[id].pkg = p

\* The row of another package has a path of this one, in the server directory
\* or aside.
Clash(p) ==
    \E id \in Ids : rows[id] # NoRow /\ rows[id].pkg # p
                                    /\ Files[rows[id].pkg] \cap Files[p] # {}

\* The files are copied, MetaMod's directive is written and the plugin is
\* recorded: all of it, or an error ends it before the record.
Copy(p) ==
    \/ \E id \in Ids :
        /\ rows[id] = NoRow
        /\ rows' = [rows EXCEPT ![id] = [pkg |-> p, enabled |-> TRUE]]
        /\ settled' = settled \cup {id}
        /\ server' = Overlay(Paths, Contents(p))
        /\ gameinfo' = IF Kind[p] = "metamod" THEN "patched" ELSE gameinfo
    \/ /\ "half" \in Faults
       /\ server' \in CutOff(Contents(p))
       /\ gameinfo' \in {gameinfo} \cup
             IF Kind[p] = "metamod" /\ server' = Overlay(Paths, Contents(p))
             THEN {"broken", "patched"} ELSE {}
       /\ UNCHANGED <<rows, settled>>

\* An archive may also be refused for what it holds, or not be there at all.
Install(p) ==
    \/ UNCHANGED files
    \/ /\ ~Refused(p)
       /\ "clash" \in Faults \/ ~Clash(p)
       /\ "again" \in Faults \/ ~Recorded(p)
       /\ Copy(p)
       /\ UNCHANGED aside

\* install_local and install_builtin_bridge await nothing.
InstallLocal(p) ==
    /\ \A w \in Procs : h[w] \in Awaiting
    /\ Install(p)
    /\ UNCHANGED <<backups, h>>

\* install_url and the built-in packages an administrator asks for.
Download(w) ==
    /\ Free(w)
    /\ h[w] = "idle"
    /\ h' = [h EXCEPT ![w] = "url"]
    /\ UNCHANGED <<files, backups>>

Downloaded(w) ==
    /\ Free(w)
    /\ h[w] = "url"
    /\ \E p \in Packages : Install(p)
    /\ h' = [h EXCEPT ![w] = "idle"]
    /\ UNCHANGED backups

-----------------------------------------------------------------------------
\* The install operation: SteamCMD puts its own gameinfo.gi back, then the
\* prerequisites follow, each of them when no row is taken for it.

RunInstall(w) ==
    /\ Free(w)
    /\ h[w] = "idle"
    /\ h' = [h EXCEPT ![w] = "answered"]
    /\ gameinfo' = "stock"
    /\ UNCHANGED <<rows, server, aside, backups, settled>>

Missing(kind) == kind \in Wanted /\ ~Has(kind)

LookForMetamod(w) ==
    /\ h[w] = "answered"
    /\ h' = [h EXCEPT ![w] = IF Missing("metamod") THEN "metamod" ELSE "next"]
    /\ UNCHANGED <<files, backups>>

LookForCounterStrikeSharp(w) ==
    /\ h[w] = "next"
    /\ h' = [h EXCEPT ![w] =
                IF Missing("counterstrikesharp") THEN "counterstrikesharp" ELSE "last"]
    /\ UNCHANGED <<files, backups>>

\* The download is over.  Failures are reported and the operation goes on.
Obtain(w) ==
    /\ Free(w)
    /\ h[w] \in {"metamod", "counterstrikesharp"}
    /\ \E p \in Packages : Kind[p] = h[w] /\ Install(p)
    /\ h' = [h EXCEPT ![w] = IF h[w] = "metamod" THEN "next" ELSE "last"]
    /\ UNCHANGED backups

AddBridge(w) ==
    /\ h[w] = "last"
    /\ IF Missing("bridge")
       THEN \E p \in Packages : Kind[p] = "bridge" /\ Install(p)
       ELSE UNCHANGED files
    /\ h' = [h EXCEPT ![w] = "idle"]
    /\ UNCHANGED backups

\* The maintenance runner lets SteamCMD validate the files, too.
Validate ==
    /\ gameinfo # "missing"
    /\ gameinfo' = "stock"
    /\ UNCHANGED <<rows, server, aside, settled, backups, h>>

-----------------------------------------------------------------------------
\* Enabling and disabling.

\* Mutant: the directory of disabled files is made anew.
MoveFresh(id, on, paths) ==
    IF on
    THEN /\ server' = Overlay(paths, aside[id])
         /\ aside' = [aside EXCEPT ![id] = [f \in Paths |->
                         IF f \in paths THEN Nothing ELSE aside[id][f]]]
    ELSE /\ server' = [f \in Paths |-> IF f \in paths THEN Nothing ELSE server[f]]
         /\ aside' = [aside EXCEPT ![id] = [f \in Paths |->
                         IF f \in paths THEN server[f] ELSE Nothing]]

\* Files are moved between the server directory and the one set aside for
\* the plugin, over what is there; a file that is not at its source is skipped.
Move(id, on, paths) ==
    IF on
    THEN /\ server' = Overlay(paths, aside[id])
         /\ aside' = [aside EXCEPT ![id] = [f \in Paths |->
                         IF f \in paths THEN Nothing ELSE aside[id][f]]]
    ELSE /\ server' = [f \in Paths |-> IF f \in paths THEN Nothing ELSE server[f]]
         /\ aside' = [aside EXCEPT ![id] = [f \in Paths |->
                         IF f \in paths /\ server[f] # Nothing
                         THEN server[f] ELSE aside[id][f]]]

\* Mutants: the row is changed first; a disabled plugin is forgotten.
ToggleFirst(id, on) ==
    /\ rows' = [rows EXCEPT ![id].enabled = on]
    /\ settled' = settled \cup {id}
    /\ \/ Move(id, on, Files[rows[id].pkg])
       \/ "half" \in Faults /\ \E paths \in SUBSET Files[rows[id].pkg] : Move(id, on, paths)
ToggleForget(id, on) ==
    /\ rows' = [rows EXCEPT ![id] = IF on THEN @ ELSE NoRow]
    /\ settled' = settled \cup {id}
    /\ Move(id, on, Files[rows[id].pkg])

\* The row is changed when every file has been moved.
Toggle(id, on) ==
    \/ /\ Move(id, on, Files[rows[id].pkg])
       /\ rows' = [rows EXCEPT ![id].enabled = on]
       /\ settled' = settled \cup {id}
    \/ /\ "half" \in Faults
       /\ \E paths \in SUBSET Files[rows[id].pkg] : Move(id, on, paths)
       /\ rows' = rows
       /\ settled' = settled \ {id}

SetEnabled(id, on) ==
    /\ \A w \in Procs : h[w] \in Awaiting
    /\ rows[id] # NoRow
    /\ Toggle(id, on)
    /\ UNCHANGED <<gameinfo, backups, h>>

-----------------------------------------------------------------------------
\* Backups.

Archived(paths) == [f \in Paths |-> IF f \in paths THEN server[f] ELSE Nothing]

\* An archive that is not finished is closed with what it has, the file that
\* was being written among it.
Unfinished ==
    {Archived(paths) : paths \in SUBSET Kept} \cup
    {[Archived(paths) EXCEPT ![f] = Torn] :
        paths \in SUBSET Kept, f \in {g \in Kept : server[g] # Nothing}}

CreateBackup ==
    /\ \A w \in Procs : h[w] \in Awaiting
    /\ Cardinality(backups) < MaxBackups
    /\ \E b \in {Archived(Kept)} \cup IF "half" \in Faults THEN Unfinished ELSE {} :
        backups' = backups \cup {b}
    /\ UNCHANGED <<files, h>>

\* Mutant: what the backup does not have is removed.
RestoreExactly(b) ==
    /\ \A w \in Procs : h[w] \in Awaiting
    /\ server' = b
    /\ UNCHANGED <<rows, aside, gameinfo, settled, backups, h>>

\* The files of the backup are copied over those of the server, each of them
\* truncated first, none is removed, and the rows stay as they are: what was
\* answered when a plugin was disabled is not so any more when its files come
\* back.
Restore(b) ==
    /\ \A w \in Procs : h[w] \in Awaiting
    /\ server' \in {Overlay(Paths, b)} \cup IF "half" \in Faults THEN CutOff(b) ELSE {}
    /\ settled' = {id \in settled :
          rows[id].enabled \/ \A f \in Files[rows[id].pkg] : b[f] = Nothing}
    /\ UNCHANGED <<rows, aside, gameinfo, backups, h>>

\* The panel ends; nobody resumes what it was doing.
Crash ==
    /\ "half" \in Faults
    /\ h' = [w \in Procs |-> "idle"]
    /\ UNCHANGED <<files, backups>>

Request(w) ==
    \/ Download(w)
    \/ Downloaded(w)
    \/ RunInstall(w)
    \/ LookForMetamod(w)
    \/ LookForCounterStrikeSharp(w)
    \/ Obtain(w)
    \/ AddBridge(w)

Next ==
    \/ \E w \in Procs : Request(w)
    \/ \E p \in Packages : InstallLocal(p)
    \/ \E id \in Ids, on \in BOOLEAN : SetEnabled(id, on)
    \/ CreateBackup
    \/ \E b \in backups : Restore(b)
    \/ Validate
    \/ Crash

Spec == Init /\ [][Next]_vars

-----------------------------------------------------------------------------
\* x is the file f of package p, or the torn copy a restore has left of it: a
\* backup has it, and an unfinished backup has it torn.
Sound(x, f, p) == x = p \/ (x = Torn /\ \E b \in backups : b[f] \in {p, Torn})

\* Each file of a recorded plugin is in the server directory or set aside,
\* whatever was installed, moved or restored and wherever that stopped.  It is
\* torn only when a restore wrote over it, and then the backup has it, whole
\* if the backup was finished (PluginStore.set_enabled, BackupStore.restore).
KeepsFiles ==
    \A id \in Ids : rows[id] # NoRow =>
        LET p == rows[id].pkg IN
        \A f \in Files[p] : Sound(server[f], f, p) \/ Sound(aside[id][f], f, p)

\* What the panel says of a plugin is so once a request to change it was
\* answered with success: an enabled plugin is in the server directory and not
\* aside, a disabled one is aside and not in the server directory
\* (set_enabled).  For a disabled plugin that ends with the restore of a backup
\* that has one of its files.
Settled ==
    \A id \in settled :
        LET p == rows[id].pkg IN
        \A f \in Files[p] :
            IF rows[id].enabled
            THEN Sound(server[f], f, p) /\ aside[id][f] = Nothing
            ELSE Sound(aside[id][f], f, p) /\ server[f] = Nothing

\* No file of a package is ever replaced by that of another; at worst it is cut
\* off (_install's conflicts, the moves of set_enabled and the copies of
\* restore).
NothingOverwritten ==
    [][\A f \in Paths : server[f] \in Packages =>
          server'[f] \in {Nothing, server[f], Torn}]_vars

PkgOf == [id \in Ids |-> IF rows[id] = NoRow THEN Nothing ELSE rows[id].pkg]
EnabledOf == [id \in Ids |-> rows[id] # NoRow /\ rows[id].enabled]
Own(id) == IF rows[id] = NoRow THEN {} ELSE Files[rows[id].pkg]
HereOf == [id \in Ids |-> {f \in Own(id) : server[f] \in {rows[id].pkg, Torn}}]
AwayOf == [id \in Ids |-> {f \in Own(id) : aside[id][f] \in {rows[id].pkg, Torn}}]
TornOf == [id \in Ids |-> {f \in Own(id) : server[f] = Torn \/ aside[id][f] = Torn}]

Ledger == INSTANCE PluginLedger WITH
    pkg <- PkgOf, enabled <- EnabledOf, here <- HereOf, away <- AwayOf, torn <- TornOf

\* The files of recorded plugins go to and fro as PluginLedger promises,
\* whatever stops half way, and nothing but a restore tears one
\* (PluginStore._install, set_enabled, BackupStore.restore).
LedgerKept == Ledger!Spec

-----------------------------------------------------------------------------
\* The inductive invariant of PluginsProofs, for packages that have no path in
\* common while both are recorded.

\* Rows have their paths to themselves.
Apart ==
    \A i, j \in Ids :
        i # j /\ rows[i] # NoRow /\ rows[j] # NoRow
            => Files[rows[i].pkg] \cap Files[rows[j].pkg] = {}

\* What lies at a path of a recorded plugin is that plugin's, in the server
\* directory and aside.
Owned ==
    /\ \A f \in Paths : server[f] \in Packages => f \in Files[server[f]]
    /\ \A id \in Ids : rows[id] # NoRow =>
          \A f \in Files[rows[id].pkg] :
              server[f] = Nothing \/ Sound(server[f], f, rows[id].pkg)
    /\ \A id \in Ids, f \in Paths : aside[id][f] # Nothing =>
          /\ rows[id] # NoRow
          /\ f \in Files[rows[id].pkg]
          /\ Sound(aside[id][f], f, rows[id].pkg)

\* A file of a backup is still where it was, or its plugin is recorded, and no
\* backup has one of another package there.
BackedUp ==
    \A b \in backups, f \in Paths : b[f] \in Packages =>
        /\ f \in Files[b[f]]
        /\ server[f] \in {b[f], Torn} \/ Recorded(b[f])
        /\ \A c \in backups : c[f] \in Packages => c[f] = b[f]
        /\ \A id \in Ids : rows[id] # NoRow /\ f \in Files[rows[id].pkg] =>
              b[f] = rows[id].pkg

FilesInv == TypeOK /\ Apart /\ Owned /\ BackedUp /\ KeepsFiles /\ Settled

\* Packages that do have paths in common only get in each other's way: what
\* shares its paths with no other package and is recorded once is kept and
\* settled.
Exclusive(p) == \A q \in Packages \ {p} : Files[q] \cap Files[p] = {}

Alone(id) ==
    /\ rows[id] # NoRow
    /\ Exclusive(rows[id].pkg)

Spared ==
    \A id \in {i \in Ids : Alone(i)} :
        LET p == rows[id].pkg IN
        \A f \in Files[p] :
            /\ Sound(server[f], f, p) \/ Sound(aside[id][f], f, p)
            /\ id \in settled =>
                  IF rows[id].enabled
                  THEN Sound(server[f], f, p) /\ aside[id][f] = Nothing
                  ELSE Sound(aside[id][f], f, p) /\ server[f] = Nothing

\* Wherever a file goes, it is at a path of its package, and what is set aside
\* for a row is at a path of the row's package.
Placed ==
    \A f \in Paths :
        /\ server[f] \in Packages => f \in Files[server[f]]
        /\ \A b \in backups : b[f] \in Packages => f \in Files[b[f]]
        /\ \A id \in Ids : aside[id][f] # Nothing =>
              /\ aside[id][f] \in Packages => f \in Files[aside[id][f]]
              /\ rows[id] # NoRow /\ f \in Files[rows[id].pkg]

\* At the paths of a plugin that is alone lies nothing else, and only a restore
\* tears what does.
Unhurt ==
    \A id \in {i \in Ids : Alone(i)} :
        LET p == rows[id].pkg IN
        \A f \in Files[p] :
            /\ server[f] = Nothing \/ Sound(server[f], f, p)
            /\ aside[id][f] = Nothing \/ Sound(aside[id][f], f, p)

\* No package is recorded twice.
Single ==
    \A i, j \in Ids :
        i # j /\ rows[i] # NoRow /\ rows[j] # NoRow => rows[i].pkg # rows[j].pkg

SparedInv == TypeOK /\ Placed /\ Single /\ Unhurt /\ Spared
=============================================================================
