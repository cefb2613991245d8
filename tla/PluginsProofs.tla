---------------------------- MODULE PluginsProofs ----------------------------
(***************************************************************************)
(* Types, and what becomes of the files of plugins, for every set of       *)
(* packages, paths, rows and requests.  The files are kept for packages    *)
(* that have no path in common while both are recorded ("clash" \notin     *)
(* Faults), wherever a step on files stops half way.                       *)
(***************************************************************************)
EXTENDS Plugins, TLAPS

\* The installation of a package: nothing, all of it, or what a copy leaves
\* that stops.
LEMMA InstallCases ==
    ASSUME PluginAssumption, TypeOK, NEW p \in Packages, Install(p)
    PROVE  \/ UNCHANGED files
           \/ /\ ~Conflict(p)
              /\ "clash" \in Faults \/ ~Clash(p)
              /\ "again" \in Faults \/ ~Recorded(p)
              /\ aside' = aside
              /\ gameinfo' \in {"missing", "stock", "patched", "broken"}
              /\ \/ \E id \in Ids :
                       /\ rows[id] = NoRow
                       /\ rows' = [rows EXCEPT ![id] = [pkg |-> p, enabled |-> TRUE]]
                       /\ settled' = settled \cup {id}
                       /\ server' = Overlay(Paths, Contents(p))
                 \/ /\ rows' = rows /\ settled' = settled
                    /\ server' \in CutOff(Contents(p))
  BY DEF Install, Copy, Refused, TypeOK, files

\* A copy that stops leaves every file as it was, torn or written.
LEMMA CutOffFacts ==
    ASSUME PluginAssumption, TypeOK, NEW t \in Tree, NEW s \in CutOff(t)
    PROVE  /\ s \in Tree
           /\ \A f \in Paths : s[f] = server[f] \/ (t[f] # Nothing /\ s[f] \in {Torn, t[f]})
  <1> DEFINE written == {f \in Paths : t[f] # Nothing}
  <1>1. PICK now \in [written -> {"old", "torn", "new"}] :
            s = [f \in Paths |-> IF f \notin written \/ now[f] = "old" THEN server[f]
                                ELSE IF now[f] = "torn" THEN Torn ELSE t[f]]
    BY DEF CutOff
  <1>2. ASSUME NEW f \in Paths
        PROVE  /\ s[f] \in Packages \cup {Nothing, Torn}
               /\ s[f] = server[f] \/ (t[f] # Nothing /\ s[f] \in {Torn, t[f]})
    <2>1. /\ server[f] \in Packages \cup {Nothing, Torn}
          /\ t[f] \in Packages \cup {Nothing, Torn}
      BY DEF TypeOK, Tree
    <2>2. CASE f \notin written \/ now[f] = "old"
      BY <1>1, <2>1, <2>2
    <2>3. CASE f \in written /\ now[f] # "old"
      BY <1>1, <2>1, <2>3
    <2>4. QED
      BY <2>2, <2>3
  <1>3. QED
    BY <1>1, <1>2 DEF Tree

\* What is copied of a package is at its paths.
LEMMA CopyFacts ==
    ASSUME PluginAssumption, TypeOK, NEW p \in Packages
    PROVE  /\ server' = Overlay(Paths, Contents(p)) =>
                 /\ server' \in Tree
                 /\ \A f \in Paths : server'[f] = IF f \in Files[p] THEN p ELSE server[f]
           /\ server' \in CutOff(Contents(p)) =>
                 /\ server' \in Tree
                 /\ \A f \in Paths : server'[f] = server[f]
                                      \/ (f \in Files[p] /\ server'[f] \in {Torn, p})
           /\ Files[p] \subseteq Paths
           /\ p \notin {Nothing, Torn}
  <1>1. /\ Contents(p) \in Tree
        /\ \A f \in Paths : Contents(p)[f] = IF f \in Files[p] THEN p ELSE Nothing
    BY DEF Contents, Tree
  <1>2. p \notin {Nothing, Torn} /\ Files[p] \subseteq Paths
    BY DEF PluginAssumption
  <1>3. ASSUME server' = Overlay(Paths, Contents(p))
        PROVE  /\ server' \in Tree
               /\ \A f \in Paths : server'[f] = IF f \in Files[p] THEN p ELSE server[f]
    <2>1. server \in Tree
      BY DEF TypeOK
    <2>2. QED
      BY <1>1, <1>2, <1>3, <2>1 DEF Overlay, Tree
  <1>4. ASSUME server' \in CutOff(Contents(p))
        PROVE  /\ server' \in Tree
               /\ \A f \in Paths : server'[f] = server[f]
                                    \/ (f \in Files[p] /\ server'[f] \in {Torn, p})
    <2>1. /\ server' \in Tree
          /\ \A f \in Paths : \/ server'[f] = server[f]
                              \/ /\ Contents(p)[f] # Nothing
                                 /\ server'[f] \in {Torn, Contents(p)[f]}
      BY <1>1, <1>4, CutOffFacts
    <2>2. QED
      BY <1>1, <2>1
  <1>5. QED
    BY <1>2, <1>3, <1>4

\* What a backup is restored to.
LEMMA RestoreFacts ==
    ASSUME PluginAssumption, TypeOK, NEW b \in backups, Restore(b)
    PROVE  /\ server' \in Tree
           /\ \A f \in Paths : server'[f] = server[f]
                                \/ (b[f] # Nothing /\ server'[f] \in {Torn, b[f]})
  <1>1. b \in Tree /\ server \in Tree
    BY DEF TypeOK
  <1>2. CASE server' = Overlay(Paths, b)
    BY <1>1, <1>2 DEF Overlay, Tree
  <1>3. CASE server' \in CutOff(b)
    BY <1>1, <1>3, CutOffFacts
  <1>4. QED
    BY <1>2, <1>3 DEF Restore

\* An archive has files as they are, or torn.
LEMMA BackupFacts ==
    ASSUME PluginAssumption, TypeOK, CreateBackup
    PROVE  \E b \in Tree :
              /\ backups' = backups \cup {b}
              /\ \A f \in Paths : b[f] \in {Nothing, Torn, server[f]}
  <1>1. server \in Tree /\ Kept \subseteq Paths
    BY DEF TypeOK, PluginAssumption
  <1>2. ASSUME NEW paths
        PROVE  /\ Archived(paths) \in Tree
               /\ \A f \in Paths : Archived(paths)[f] \in {Nothing, server[f]}
    BY <1>1 DEF Archived, Tree
  <1>3. ASSUME NEW paths, NEW g \in Paths
        PROVE  LET b == [Archived(paths) EXCEPT ![g] = Torn]
               IN  b \in Tree /\ \A f \in Paths : b[f] \in {Nothing, Torn, server[f]}
    BY <1>2 DEF Tree
  <1>4. PICK b \in {Archived(Kept)} \cup Unfinished : backups' = backups \cup {b}
    BY DEF CreateBackup
  <1>5. b \in Tree /\ \A f \in Paths : b[f] \in {Nothing, Torn, server[f]}
    <2>1. CASE b = Archived(Kept)
      BY <1>2, <2>1
    <2>2. ASSUME NEW paths \in SUBSET Kept, b = Archived(paths)
          PROVE  b \in Tree /\ \A f \in Paths : b[f] \in {Nothing, Torn, server[f]}
      BY <1>2, <2>2
    <2>3. ASSUME NEW paths \in SUBSET Kept, NEW g \in Kept,
                 b = [Archived(paths) EXCEPT ![g] = Torn]
          PROVE  b \in Tree /\ \A f \in Paths : b[f] \in {Nothing, Torn, server[f]}
      BY <1>1, <1>3, <2>3
    <2>4. QED
      BY <1>4, <2>1, <2>2, <2>3 DEF Unfinished
  <1>6. QED
    BY <1>4, <1>5

LEMMA InitType == ASSUME PluginAssumption PROVE Init => TypeOK
  BY DEF PluginAssumption, Init, TypeOK, Empty, Tree, Stages, Awaiting

LEMMA InstallType ==
    ASSUME PluginAssumption, TypeOK, NEW p \in Packages, Install(p)
    PROVE  /\ rows' \in [Ids -> Row \cup {NoRow}]
           /\ server' \in Tree
           /\ aside' \in [Ids -> Tree]
           /\ gameinfo' \in {"missing", "stock", "patched", "broken"}
           /\ settled' \subseteq {id \in Ids : rows'[id] # NoRow}
  <1>1. CASE UNCHANGED files
    BY <1>1 DEF files, TypeOK
  <1>2. ASSUME NEW id \in Ids, rows[id] = NoRow,
               rows' = [rows EXCEPT ![id] = [pkg |-> p, enabled |-> TRUE]],
               settled' = settled \cup {id}
        PROVE  /\ rows' \in [Ids -> Row \cup {NoRow}]
               /\ settled' \subseteq {i \in Ids : rows'[i] # NoRow}
    <2>1. [pkg |-> p, enabled |-> TRUE] \in Row
      BY DEF Row
    <2>2. [pkg |-> p, enabled |-> TRUE] # NoRow
      BY <2>1 DEF PluginAssumption
    <2>3. QED
      BY <1>2, <2>1, <2>2 DEF TypeOK
  <1>3. QED
    BY <1>1, <1>2, InstallCases, CopyFacts DEF TypeOK

LEMMA MoveType ==
    ASSUME TypeOK, NEW id \in Ids, NEW on \in BOOLEAN, NEW paths, Move(id, on, paths)
    PROVE  server' \in Tree /\ aside' \in [Ids -> Tree]
  <1>1. aside[id] \in Tree /\ server \in Tree
    BY DEF TypeOK
  <1>2. CASE on
    BY <1>1, <1>2 DEF Move, Overlay, Tree, TypeOK
  <1>3. CASE ~on
    BY <1>1, <1>3 DEF Move, Tree, TypeOK
  <1>4. QED
    BY <1>2, <1>3

\* The row of a plugin that is changed keeps its package.
LEMMA RowFacts ==
    ASSUME PluginAssumption, TypeOK, NEW id \in Ids, rows[id] # NoRow, NEW on \in BOOLEAN,
           rows' = [rows EXCEPT ![id].enabled = on]
    PROVE  /\ rows' \in [Ids -> Row \cup {NoRow}]
           /\ \A i \in Ids : rows'[i] # NoRow <=> rows[i] # NoRow
           /\ \A i \in Ids : rows[i] # NoRow => rows'[i].pkg = rows[i].pkg
           /\ \A i \in Ids \ {id} : rows'[i] = rows[i]
           /\ rows'[id].enabled = on
  <1>1. rows[id] \in Row
    BY DEF TypeOK
  <1>2. [rows[id] EXCEPT !.enabled = on] \in Row
    BY <1>1 DEF Row
  <1>3. [rows[id] EXCEPT !.enabled = on] # NoRow
    BY <1>2 DEF PluginAssumption
  <1>4. /\ [rows[id] EXCEPT !.enabled = on].pkg = rows[id].pkg
        /\ [rows[id] EXCEPT !.enabled = on].enabled = on
    BY <1>1 DEF Row
  <1>5. rows' = [rows EXCEPT ![id] = [rows[id] EXCEPT !.enabled = on]]
    OBVIOUS
  <1>6. QED
    BY <1>2, <1>3, <1>4, <1>5 DEF TypeOK

LEMMA TypeStep ==
    ASSUME PluginAssumption, TypeOK, [Next]_vars
    PROVE  TypeOK'
  <1>1. ASSUME NEW w \in Procs, Request(w)
        PROVE  TypeOK'
    <2>1. CASE Download(w)
      BY <2>1 DEF Download, TypeOK, files, Stages, Awaiting
    <2>2. CASE Downloaded(w)
      BY <2>2, InstallType DEF Downloaded, TypeOK, Stages, Awaiting
    <2>3. CASE RunInstall(w)
      BY <2>3 DEF RunInstall, TypeOK, Stages
    <2>4. CASE LookForMetamod(w)
      BY <2>4 DEF LookForMetamod, TypeOK, files, Stages, Awaiting
    <2>5. CASE LookForCounterStrikeSharp(w)
      BY <2>5 DEF LookForCounterStrikeSharp, TypeOK, files, Stages, Awaiting
    <2>6. CASE Obtain(w)
      BY <2>6, InstallType DEF Obtain, TypeOK, Stages, Awaiting
    <2>7. CASE AddBridge(w)
      <3>1. h' \in [Procs -> Stages] /\ backups' \subseteq Tree
        BY <2>7 DEF AddBridge, TypeOK, Stages, Awaiting
      <3>2. CASE UNCHANGED files
        BY <3>1, <3>2 DEF TypeOK, files
      <3>3. ASSUME NEW p \in Packages, Install(p)
            PROVE  TypeOK'
        BY <3>1, <3>3, InstallType DEF TypeOK
      <3>4. QED
        BY <2>7, <3>2, <3>3 DEF AddBridge
    <2>8. QED
      BY <1>1, <2>1, <2>2, <2>3, <2>4, <2>5, <2>6, <2>7 DEF Request
  <1>2. ASSUME NEW p \in Packages, InstallLocal(p)
        PROVE  TypeOK'
    BY <1>2, InstallType DEF InstallLocal, TypeOK
  <1>3. ASSUME NEW id \in Ids, NEW on \in BOOLEAN, SetEnabled(id, on)
        PROVE  TypeOK'
    <2>1. server' \in Tree /\ aside' \in [Ids -> Tree]
      BY <1>3, MoveType DEF SetEnabled, Toggle
    <2>2. rows[id] # NoRow
      BY <1>3 DEF SetEnabled
    <2>3. /\ rows' \in [Ids -> Row \cup {NoRow}]
          /\ settled' \subseteq {i \in Ids : rows'[i] # NoRow}
      <3>1. CASE rows' = [rows EXCEPT ![id].enabled = on] /\ settled' = settled \cup {id}
        BY <2>2, <3>1, RowFacts DEF TypeOK
      <3>2. CASE rows' = rows /\ settled' = settled \ {id}
        BY <3>2 DEF TypeOK
      <3>3. QED
        BY <1>3, <3>1, <3>2 DEF SetEnabled, Toggle
    <2>4. QED
      BY <1>3, <2>1, <2>3 DEF SetEnabled, TypeOK
  <1>4. CASE CreateBackup
    <2>1. backups' \subseteq Tree
      BY <1>4, BackupFacts DEF TypeOK
    <2>2. QED
      BY <1>4, <2>1 DEF CreateBackup, TypeOK, files
  <1>5. ASSUME NEW b \in backups, Restore(b)
        PROVE  TypeOK'
    <2>1. server' \in Tree
      BY <1>5, RestoreFacts
    <2>2. QED
      BY <1>5, <2>1 DEF Restore, TypeOK
  <1>6. CASE Validate
    BY <1>6 DEF Validate, TypeOK
  <1>7. CASE Crash
    BY <1>7 DEF Crash, TypeOK, files, Stages, Awaiting
  <1>8. CASE UNCHANGED vars
    BY <1>8 DEF vars, files, TypeOK
  <1>9. QED
    BY <1>1, <1>2, <1>3, <1>4, <1>5, <1>6, <1>7, <1>8 DEF Next

\* Every state has its type, whatever faults there are.
THEOREM PluginsTyped == ASSUME PluginAssumption PROVE Spec => []TypeOK
  <1>1. Init => TypeOK
    BY InitType
  <1>2. TypeOK /\ [Next]_vars => TypeOK'
    BY TypeStep
  <1>3. QED
    BY <1>1, <1>2, PTL DEF Spec

-----------------------------------------------------------------------------
\* What is said of files depends neither on gameinfo.gi nor on requests.
Held == Apart /\ Owned /\ BackedUp /\ KeepsFiles /\ Settled

LEMMA RowPaths ==
    ASSUME PluginAssumption, TypeOK, NEW id \in Ids, rows[id] # NoRow
    PROVE  /\ rows[id] \in Row
           /\ rows[id].pkg \in Packages
           /\ Files[rows[id].pkg] \subseteq Paths
           /\ rows[id].pkg \notin {Nothing, Torn}
  BY DEF PluginAssumption, TypeOK, Row

\* What is sound is a file, and stays sound as backups are added.
LEMMA SoundFacts ==
    ASSUME PluginAssumption, NEW p \in Packages, NEW f \in Paths, NEW x, Sound(x, f, p)
    PROVE  /\ x \in {p, Torn} /\ x # Nothing /\ p # Torn
           /\ backups \subseteq backups' => (x = p \/ (x = Torn /\ \E b \in backups' : b[f] \in {p, Torn}))
  BY DEF PluginAssumption, Sound

\* What is at the path of a recorded plugin.
LEMMA OwnPaths ==
    ASSUME PluginAssumption, TypeOK, Held, NEW id \in Ids, rows[id] # NoRow,
           NEW f \in Files[rows[id].pkg]
    PROVE  /\ f \in Paths
           /\ server[f] = Nothing \/ Sound(server[f], f, rows[id].pkg)
           /\ aside[id][f] = Nothing \/ Sound(aside[id][f], f, rows[id].pkg)
           /\ server[f] # Nothing \/ aside[id][f] # Nothing
           /\ server[f] \in {Nothing, rows[id].pkg, Torn}
           /\ aside[id][f] \in {Nothing, rows[id].pkg, Torn}
  <1>1. f \in Paths /\ rows[id].pkg \in Packages
    BY RowPaths
  <1>2. /\ server[f] = Nothing \/ Sound(server[f], f, rows[id].pkg)
        /\ aside[id][f] = Nothing \/ Sound(aside[id][f], f, rows[id].pkg)
        /\ Sound(server[f], f, rows[id].pkg) \/ Sound(aside[id][f], f, rows[id].pkg)
    BY <1>1 DEF Held, Owned, KeepsFiles
  <1>3. QED
    BY <1>1, <1>2, SoundFacts

\* Files of recorded plugins are written where they belong, or torn.
LEMMA GrowStep ==
    ASSUME PluginAssumption, TypeOK, Held,
           UNCHANGED <<rows, aside, backups>>, settled' \subseteq settled,
           \A f \in Paths : server'[f] \in Packages => f \in Files[server'[f]],
           \A id \in Ids : rows[id] # NoRow =>
               \A f \in Files[rows[id].pkg] :
                   server'[f] = server[f] \/ Sound(server'[f], f, rows[id].pkg),
           \A id \in settled' : \A f \in Files[rows[id].pkg] :
               \/ server'[f] = server[f]
               \/ rows[id].enabled /\ Sound(server'[f], f, rows[id].pkg),
           \A b \in backups, f \in Paths :
               b[f] \in Packages /\ server[f] \in {b[f], Torn} => server'[f] \in {b[f], Torn}
    PROVE  Held'
  <1>1. Apart'
    BY DEF Held, Apart
  <1>2. Owned'
    <2>1. ASSUME NEW id \in Ids, rows[id] # NoRow, NEW f \in Files[rows[id].pkg]
          PROVE  server'[f] = Nothing \/ Sound(server'[f], f, rows[id].pkg)
      BY <2>1 DEF Held, Owned
    <2>2. QED
      BY <2>1 DEF Held, Owned, Sound
  <1>3. BackedUp'
    BY DEF Held, BackedUp, Recorded
  <1>4. KeepsFiles'
    <2>1. ASSUME NEW id \in Ids, rows[id] # NoRow, NEW f \in Files[rows[id].pkg]
          PROVE  \/ Sound(server'[f], f, rows[id].pkg)
                 \/ Sound(aside[id][f], f, rows[id].pkg)
      BY <2>1 DEF Held, KeepsFiles
    <2>2. QED
      BY <2>1 DEF KeepsFiles, Sound
  <1>5. Settled'
    <2>1. ASSUME NEW id \in settled', NEW f \in Files[rows[id].pkg]
          PROVE  IF rows[id].enabled
                 THEN Sound(server'[f], f, rows[id].pkg) /\ aside[id][f] = Nothing
                 ELSE Sound(aside[id][f], f, rows[id].pkg) /\ server'[f] = Nothing
      BY <2>1 DEF Held, Settled
    <2>2. QED
      BY <2>1 DEF Settled, Sound
  <1>6. QED
    BY <1>1, <1>2, <1>3, <1>4, <1>5 DEF Held

\* A package that is installed is at the path of no row.
LEMMA NewPaths ==
    ASSUME NEW p \in Packages, ~Clash(p), ~Recorded(p), NEW i \in Ids, rows[i] # NoRow
    PROVE  rows[i].pkg # p /\ Files[rows[i].pkg] \cap Files[p] = {}
  BY DEF Clash, Recorded

\* A copy stops where no file and no row is in the way.
LEMMA CopyHalf ==
    ASSUME PluginAssumption, TypeOK, Held, NEW p \in Packages,
           ~Conflict(p), ~Clash(p), ~Recorded(p),
           server' \in CutOff(Contents(p)),
           UNCHANGED <<rows, aside, backups, settled>>
    PROVE  Held'
  <1>1. /\ \A f \in Paths : \/ server'[f] = server[f]
                            \/ f \in Files[p] /\ server'[f] \in {Torn, p}
        /\ p \notin {Nothing, Torn} /\ Torn \notin Packages
    BY CopyFacts DEF PluginAssumption
  <1>2. \A f \in Files[p] : server[f] = Nothing
    BY DEF Conflict
  <1>3. \A id \in Ids : rows[id] # NoRow =>
            \A f \in Files[rows[id].pkg] : server'[f] = server[f]
    <2>1. ASSUME NEW id \in Ids, rows[id] # NoRow, NEW f \in Files[rows[id].pkg]
          PROVE  server'[f] = server[f]
      <3>1. f \in Paths /\ f \notin Files[p]
        BY <2>1, NewPaths, RowPaths
      <3>2. QED
        BY <1>1, <3>1
    <2>2. QED
      BY <2>1
  <1>4. \A f \in Paths : server'[f] \in Packages => f \in Files[server'[f]]
    BY <1>1 DEF Held, Owned
  <1>5. \A b \in backups, f \in Paths :
            b[f] \in Packages /\ server[f] \in {b[f], Torn} => server'[f] \in {b[f], Torn}
    BY <1>1, <1>2 DEF PluginAssumption
  <1>6. \A id \in settled' : rows[id] # NoRow /\ id \in Ids
    BY DEF TypeOK
  <1>7. QED
    BY <1>3, <1>4, <1>5, <1>6, GrowStep

\* All of them are copied and recorded.
LEMMA CopyAll ==
    ASSUME PluginAssumption, TypeOK, Held, NEW p \in Packages,
           ~Conflict(p), ~Clash(p), ~Recorded(p), NEW id \in Ids,
           rows[id] = NoRow,
           rows' = [rows EXCEPT ![id] = [pkg |-> p, enabled |-> TRUE]],
           settled' = settled \cup {id},
           server' = Overlay(Paths, Contents(p)),
           UNCHANGED <<aside, backups>>
    PROVE  Held'
  <1>1. /\ \A f \in Paths : server'[f] = IF f \in Files[p] THEN p ELSE server[f]
        /\ \A f \in Files[p] : f \in Paths /\ server[f] = Nothing
        /\ p \notin {Nothing, Torn}
    BY CopyFacts DEF Conflict
  <1>2. /\ rows'[id] = [pkg |-> p, enabled |-> TRUE]
        /\ \A i \in Ids \ {id} : rows'[i] = rows[i]
        /\ [pkg |-> p, enabled |-> TRUE] # NoRow
    <2>1. [pkg |-> p, enabled |-> TRUE] \in Row
      BY DEF Row
    <2>2. QED
      BY <2>1 DEF TypeOK, PluginAssumption
  <1>3. \A i \in Ids : rows[i] # NoRow =>
            Files[rows[i].pkg] \cap Files[p] = {} /\ Files[rows[i].pkg] \subseteq Paths
    BY RowPaths, NewPaths
  <1>4. \A i \in Ids : rows'[i] # NoRow <=> i = id \/ rows[i] # NoRow
    BY <1>2
  <1>5. rows'[id].pkg = p /\ rows'[id].enabled = TRUE
    BY <1>2
  <1>6. \A f \in Paths : aside[id][f] = Nothing
    BY DEF Held, Owned
  <1>7. ASSUME NEW i \in Ids \ {id}, rows[i] # NoRow, NEW f \in Files[rows[i].pkg]
        PROVE  f \in Paths /\ server'[f] = server[f]
    BY <1>1, <1>3, <1>7
  <1>8. Apart'
    <2>1. ASSUME NEW i \in Ids, NEW j \in Ids, i # j,
                 rows'[i] # NoRow, rows'[j] # NoRow
          PROVE  Files[rows'[i].pkg] \cap Files[rows'[j].pkg] = {}
      <3>1. CASE i = id
        BY <2>1, <3>1, <1>2, <1>3, <1>5
      <3>2. CASE j = id
        BY <2>1, <3>2, <1>2, <1>3, <1>5
      <3>3. CASE i # id /\ j # id
        BY <2>1, <3>3, <1>2 DEF Held, Apart
      <3>4. QED
        BY <3>1, <3>2, <3>3
    <2>2. QED
      BY <2>1 DEF Apart
  <1>9. Owned'
    <2>1. \A f \in Paths : server'[f] \in Packages => f \in Files[server'[f]]
      BY <1>1 DEF Held, Owned
    <2>2. ASSUME NEW i \in Ids, rows'[i] # NoRow, NEW f \in Files[rows'[i].pkg]
          PROVE  server'[f] = Nothing \/ Sound(server'[f], f, rows'[i].pkg)
      <3>1. CASE i = id
        BY <2>2, <3>1, <1>1, <1>5 DEF Sound
      <3>2. CASE i # id
        BY <2>2, <3>2, <1>2, <1>7 DEF Held, Owned
      <3>3. QED
        BY <3>1, <3>2
    <2>3. ASSUME NEW i \in Ids, NEW f \in Paths, aside'[i][f] # Nothing
          PROVE  /\ rows'[i] # NoRow
                 /\ f \in Files[rows'[i].pkg]
                 /\ Sound(aside'[i][f], f, rows'[i].pkg)
      BY <2>3, <1>2, <1>6 DEF Held, Owned
    <2>4. QED
      BY <2>1, <2>2, <2>3 DEF Owned, Sound
  <1>10. BackedUp'
    <2>1. ASSUME NEW b \in backups, NEW f \in Paths, b[f] \in Packages
          PROVE  /\ f \in Files[b[f]]
                 /\ server'[f] \in {b[f], Torn} \/ Recorded(b[f])'
                 /\ \A c \in backups : c[f] \in Packages => c[f] = b[f]
                 /\ \A i \in Ids : rows'[i] # NoRow /\ f \in Files[rows'[i].pkg] =>
                       b[f] = rows'[i].pkg
      <3>1. /\ f \in Files[b[f]]
            /\ server[f] \in {b[f], Torn} \/ Recorded(b[f])
            /\ \A c \in backups : c[f] \in Packages => c[f] = b[f]
            /\ \A i \in Ids : rows[i] # NoRow /\ f \in Files[rows[i].pkg] =>
                  b[f] = rows[i].pkg
        BY <2>1 DEF Held, BackedUp
      <3>2. Recorded(b[f]) => Recorded(b[f])' /\ f \notin Files[p]
        BY <1>2, <1>3, <1>4, <3>1 DEF Recorded
      <3>3. server[f] \in {b[f], Torn} => f \notin Files[p]
        BY <1>1, <2>1 DEF PluginAssumption
      <3>4. f \notin Files[p]
        BY <3>1, <3>2, <3>3
      <3>5. server'[f] \in {b[f], Torn} \/ Recorded(b[f])'
        BY <1>1, <3>1, <3>2, <3>4
      <3>6. \A i \in Ids : rows'[i] # NoRow /\ f \in Files[rows'[i].pkg] =>
                b[f] = rows'[i].pkg
        BY <1>2, <1>5, <3>1, <3>4
      <3>7. QED
        BY <3>1, <3>5, <3>6
    <2>2. QED
      BY <2>1 DEF BackedUp
  <1>11. KeepsFiles'
    <2>1. ASSUME NEW i \in Ids, rows'[i] # NoRow, NEW f \in Files[rows'[i].pkg]
          PROVE  Sound(server'[f], f, rows'[i].pkg) \/ Sound(aside'[i][f], f, rows'[i].pkg)
      <3>1. CASE i = id
        BY <2>1, <3>1, <1>1, <1>5 DEF Sound
      <3>2. CASE i # id
        BY <2>1, <3>2, <1>2, <1>7 DEF Held, KeepsFiles
      <3>3. QED
        BY <3>1, <3>2
    <2>2. QED
      BY <2>1 DEF KeepsFiles, Sound
  <1>12. Settled'
    <2>1. ASSUME NEW i \in settled', NEW f \in Files[rows'[i].pkg]
          PROVE  IF rows'[i].enabled
                 THEN Sound(server'[f], f, rows'[i].pkg) /\ aside'[i][f] = Nothing
                 ELSE Sound(aside'[i][f], f, rows'[i].pkg) /\ server'[f] = Nothing
      <3>1. CASE i = id
        BY <2>1, <3>1, <1>1, <1>5, <1>6 DEF Sound
      <3>2. CASE i # id
        <4>1. i \in settled /\ i \in Ids /\ rows[i] # NoRow /\ rows'[i] = rows[i]
          BY <2>1, <3>2, <1>2 DEF TypeOK
        <4>2. QED
          BY <2>1, <3>2, <4>1, <1>7 DEF Held, Settled
      <3>3. QED
        BY <3>1, <3>2
    <2>2. QED
      BY <2>1 DEF Settled, Sound
  <1>13. QED
    BY <1>8, <1>9, <1>10, <1>11, <1>12 DEF Held

LEMMA InstallHeld ==
    ASSUME PluginAssumption, Faults \cap {"clash", "again"} = {}, TypeOK, Held,
           NEW p \in Packages, Install(p), backups' = backups
    PROVE  Held'
  <1>1. CASE UNCHANGED files
    BY <1>1 DEF files, Held, Apart, Owned, BackedUp, Recorded, KeepsFiles, Settled, Sound
  <1>2. QED
    BY <1>1, InstallCases, CopyHalf, CopyAll

\* Where the files are after some of them were moved: each is over what was at
\* the other place.
LEMMA MoveFacts ==
    ASSUME PluginAssumption, TypeOK, NEW id \in Ids, NEW on \in BOOLEAN,
           rows[id] # NoRow, NEW paths \in SUBSET Files[rows[id].pkg], Move(id, on, paths)
    PROVE  /\ server' \in Tree /\ aside' \in [Ids -> Tree]
           /\ \A i \in Ids \ {id} : aside'[i] = aside[i]
           /\ \A f \in Paths \ paths : server'[f] = server[f] /\ aside'[id][f] = aside[id][f]
           /\ on => \A f \in paths :
                 /\ server'[f] = IF aside[id][f] # Nothing THEN aside[id][f] ELSE server[f]
                 /\ aside'[id][f] = Nothing
           /\ ~on => \A f \in paths :
                 /\ server'[f] = Nothing
                 /\ aside'[id][f] = IF server[f] # Nothing THEN server[f] ELSE aside[id][f]
  <1>1. server' \in Tree /\ aside' \in [Ids -> Tree] /\ server \in Tree /\ aside[id] \in Tree
    BY MoveType DEF TypeOK
  <1>2. \A i \in Ids \ {id} : aside'[i] = aside[i]
    BY DEF Move, TypeOK
  <1>3. paths \subseteq Paths
    BY RowPaths
  <1>4. CASE on
    <2>1. /\ \A f \in Paths : server'[f] = IF f \in paths /\ aside[id][f] # Nothing
                                           THEN aside[id][f] ELSE server[f]
          /\ \A f \in Paths : aside'[id][f] = IF f \in paths THEN Nothing ELSE aside[id][f]
      BY <1>4 DEF Move, Overlay, TypeOK
    <2>2. QED
      BY <1>1, <1>2, <1>3, <1>4, <2>1
  <1>5. CASE ~on
    <2>1. /\ \A f \in Paths : server'[f] = IF f \in paths THEN Nothing ELSE server[f]
          /\ \A f \in Paths : aside'[id][f] = IF f \in paths /\ server[f] # Nothing
                                              THEN server[f] ELSE aside[id][f]
      BY <1>5 DEF Move, TypeOK
    <2>2. QED
      BY <1>1, <1>2, <1>3, <1>5, <2>1
  <1>6. QED
    BY <1>4, <1>5

\* A plugin at whose paths only its own files are, whole or torn by a restore:
\* so it is after a change, and when that went through they are all where the
\* row says.
LEMMA MoveOwn ==
    ASSUME PluginAssumption, TypeOK, NEW id \in Ids, NEW on \in BOOLEAN,
           rows[id] # NoRow, Toggle(id, on), backups' = backups,
           \A f \in Files[rows[id].pkg] :
               /\ server[f] = Nothing \/ Sound(server[f], f, rows[id].pkg)
               /\ aside[id][f] = Nothing \/ Sound(aside[id][f], f, rows[id].pkg)
               /\ server[f] # Nothing \/ aside[id][f] # Nothing
    PROVE  /\ \A f \in Files[rows[id].pkg] :
               /\ server'[f] = Nothing \/ Sound(server'[f], f, rows[id].pkg)
               /\ aside'[id][f] = Nothing \/ Sound(aside'[id][f], f, rows[id].pkg)
               /\ server'[f] # Nothing \/ aside'[id][f] # Nothing
           /\ id \in settled' =>
               \A f \in Files[rows[id].pkg] :
                   IF rows'[id].enabled
                   THEN Sound(server'[f], f, rows[id].pkg) /\ aside'[id][f] = Nothing
                   ELSE Sound(aside'[id][f], f, rows[id].pkg) /\ server'[f] = Nothing
  <1> DEFINE p == rows[id].pkg
  <1>1. PICK paths \in SUBSET Files[p] :
            /\ Move(id, on, paths)
            /\ \/ /\ paths = Files[p]
                  /\ rows' = [rows EXCEPT ![id].enabled = on]
                  /\ settled' = settled \cup {id}
               \/ rows' = rows /\ settled' = settled \ {id}
    BY DEF Toggle
  <1>2. /\ \A f \in Paths \ paths : server'[f] = server[f] /\ aside'[id][f] = aside[id][f]
        /\ on => \A f \in paths :
              /\ server'[f] = IF aside[id][f] # Nothing THEN aside[id][f] ELSE server[f]
              /\ aside'[id][f] = Nothing
        /\ ~on => \A f \in paths :
              /\ server'[f] = Nothing
              /\ aside'[id][f] = IF server[f] # Nothing THEN server[f] ELSE aside[id][f]
    BY <1>1, MoveFacts
  <1>3. Files[p] \subseteq Paths
    BY RowPaths
  <1>4. ASSUME NEW f \in Files[p]
        PROVE  /\ server'[f] = Nothing \/ Sound(server'[f], f, p)
               /\ aside'[id][f] = Nothing \/ Sound(aside'[id][f], f, p)
               /\ server'[f] # Nothing \/ aside'[id][f] # Nothing
    <2>1. CASE f \notin paths
      BY <1>2, <1>3, <2>1
    <2>2. CASE f \in paths /\ on
      BY <1>2, <2>2
    <2>3. CASE f \in paths /\ ~on
      BY <1>2, <2>3
    <2>4. QED
      BY <2>1, <2>2, <2>3
  <1>5. ASSUME id \in settled', NEW f \in Files[p]
        PROVE  IF rows'[id].enabled THEN Sound(server'[f], f, p) /\ aside'[id][f] = Nothing
                                    ELSE Sound(aside'[id][f], f, p) /\ server'[f] = Nothing
    <2>1. paths = Files[p] /\ rows' = [rows EXCEPT ![id].enabled = on]
      BY <1>1, <1>5
    <2>2. rows'[id].enabled = on
      BY <2>1, RowFacts
    <2>3. CASE on
      BY <1>2, <1>4, <1>5, <2>1, <2>2, <2>3
    <2>4. CASE ~on
      BY <1>2, <1>4, <1>5, <2>1, <2>2, <2>4
    <2>5. QED
      BY <2>3, <2>4
  <1>6. QED
    BY <1>4, <1>5

\* A plugin is enabled or disabled, or some of its files are moved.
LEMMA ToggleHeld ==
    ASSUME PluginAssumption, TypeOK, Held, NEW id \in Ids, NEW on \in BOOLEAN,
           rows[id] # NoRow, Toggle(id, on), backups' = backups
    PROVE  Held'
  <1> DEFINE p == rows[id].pkg
  <1>1. PICK paths \in SUBSET Files[p] :
            /\ Move(id, on, paths)
            /\ \/ /\ rows' = [rows EXCEPT ![id].enabled = on]
                  /\ settled' = settled \cup {id}
               \/ rows' = rows /\ settled' = settled \ {id}
    BY DEF Toggle
  <1>2. /\ \A i \in Ids \ {id} : aside'[i] = aside[i]
        /\ \A f \in Paths \ paths : server'[f] = server[f] /\ aside'[id][f] = aside[id][f]
        /\ p \in Packages /\ p \notin {Nothing, Torn} /\ Files[p] \subseteq Paths
    BY <1>1, MoveFacts, RowPaths
  <1>3. /\ \A i \in Ids : rows'[i] # NoRow <=> rows[i] # NoRow
        /\ \A i \in Ids : rows[i] # NoRow => rows'[i].pkg = rows[i].pkg
        /\ \A i \in Ids \ {id} : rows'[i] = rows[i]
    <2>1. CASE rows' = rows
      BY <2>1
    <2>2. CASE rows' = [rows EXCEPT ![id].enabled = on]
      BY <2>2, RowFacts
    <2>3. QED
      BY <1>1, <2>1, <2>2
  <1>4. /\ \A f \in Files[p] :
            /\ server'[f] = Nothing \/ Sound(server'[f], f, p)
            /\ aside'[id][f] = Nothing \/ Sound(aside'[id][f], f, p)
            /\ server'[f] # Nothing \/ aside'[id][f] # Nothing
        /\ id \in settled' =>
            \A f \in Files[p] :
                IF rows'[id].enabled
                THEN Sound(server'[f], f, p) /\ aside'[id][f] = Nothing
                ELSE Sound(aside'[id][f], f, p) /\ server'[f] = Nothing
    BY OwnPaths, MoveOwn
  <1>5. ASSUME NEW i \in Ids \ {id}, rows[i] # NoRow, NEW f \in Files[rows[i].pkg]
        PROVE  f \in Paths /\ server'[f] = server[f] /\ aside'[i][f] = aside[i][f]
    <2>1. f \in Paths /\ f \notin paths
      BY <1>1, <1>5, RowPaths DEF Held, Apart
    <2>2. QED
      BY <1>2, <2>1
  <1>6. \A f \in Paths : f \in paths \/ server'[f] = server[f]
    BY <1>2
  <1>7. \A f \in Files[p] : server'[f] \in {Nothing, Torn, p}
    BY <1>2, <1>4, SoundFacts
  <1>8. Apart'
    BY <1>3 DEF Held, Apart
  <1>9. Owned'
    <2>1. \A f \in Paths : server'[f] \in Packages => f \in Files[server'[f]]
      BY <1>1, <1>6, <1>7 DEF Held, Owned, PluginAssumption
    <2>2. ASSUME NEW i \in Ids, rows'[i] # NoRow, NEW f \in Files[rows'[i].pkg]
          PROVE  server'[f] = Nothing \/ Sound(server'[f], f, rows'[i].pkg)
      <3>1. CASE i = id
        BY <2>2, <3>1, <1>3, <1>4
      <3>2. CASE i # id
        BY <2>2, <3>2, <1>3, <1>5 DEF Held, Owned
      <3>3. QED
        BY <3>1, <3>2
    <2>3. ASSUME NEW i \in Ids, NEW f \in Paths, aside'[i][f] # Nothing
          PROVE  /\ rows'[i] # NoRow
                 /\ f \in Files[rows'[i].pkg]
                 /\ Sound(aside'[i][f], f, rows'[i].pkg)
      <3>1. CASE i = id
        <4>1. f \in Files[p]
          BY <2>3, <3>1, <1>1, <1>2 DEF Held, Owned
        <4>2. QED
          BY <2>3, <3>1, <4>1, <1>3, <1>4
      <3>2. CASE i # id
        BY <2>3, <3>2, <1>2, <1>3 DEF Held, Owned
      <3>3. QED
        BY <3>1, <3>2
    <2>4. QED
      BY <2>1, <2>2, <2>3 DEF Owned, Sound
  <1>10. BackedUp'
    <2>1. ASSUME NEW b \in backups, NEW f \in Paths, b[f] \in Packages
          PROVE  /\ f \in Files[b[f]]
                 /\ server'[f] \in {b[f], Torn} \/ Recorded(b[f])'
                 /\ \A c \in backups : c[f] \in Packages => c[f] = b[f]
                 /\ \A i \in Ids : rows'[i] # NoRow /\ f \in Files[rows'[i].pkg] =>
                       b[f] = rows'[i].pkg
      <3>1. /\ f \in Files[b[f]]
            /\ server[f] \in {b[f], Torn} \/ Recorded(b[f])
            /\ \A c \in backups : c[f] \in Packages => c[f] = b[f]
            /\ \A i \in Ids : rows[i] # NoRow /\ f \in Files[rows[i].pkg] =>
                  b[f] = rows[i].pkg
        BY <2>1 DEF Held, BackedUp
      <3>2. Recorded(b[f]) => Recorded(b[f])'
        BY <1>3 DEF Recorded
      <3>3. f \in paths => Recorded(b[f])
        BY <1>1, <3>1 DEF Recorded
      <3>4. QED
        BY <1>3, <1>6, <3>1, <3>2, <3>3
    <2>2. QED
      BY <2>1 DEF BackedUp
  <1>11. KeepsFiles'
    <2>1. ASSUME NEW i \in Ids, rows'[i] # NoRow, NEW f \in Files[rows'[i].pkg]
          PROVE  Sound(server'[f], f, rows'[i].pkg) \/ Sound(aside'[i][f], f, rows'[i].pkg)
      <3>1. CASE i = id
        BY <2>1, <3>1, <1>3, <1>4
      <3>2. CASE i # id
        BY <2>1, <3>2, <1>3, <1>5 DEF Held, KeepsFiles
      <3>3. QED
        BY <3>1, <3>2
    <2>2. QED
      BY <2>1 DEF KeepsFiles, Sound
  <1>12. Settled'
    <2>1. ASSUME NEW i \in settled', NEW f \in Files[rows'[i].pkg]
          PROVE  IF rows'[i].enabled
                 THEN Sound(server'[f], f, rows'[i].pkg) /\ aside'[i][f] = Nothing
                 ELSE Sound(aside'[i][f], f, rows'[i].pkg) /\ server'[f] = Nothing
      <3>1. CASE i = id
        BY <2>1, <3>1, <1>3, <1>4
      <3>2. CASE i # id
        <4>1. i \in settled /\ i \in Ids /\ rows[i] # NoRow /\ rows'[i] = rows[i]
          BY <2>1, <3>2, <1>1, <1>3 DEF TypeOK
        <4>2. QED
          BY <2>1, <3>2, <4>1, <1>5 DEF Held, Settled
      <3>3. QED
        BY <3>1, <3>2
    <2>2. QED
      BY <2>1 DEF Settled, Sound
  <1>13. QED
    BY <1>8, <1>9, <1>10, <1>11, <1>12 DEF Held

\* What a backup is restored to belongs where it is written, or is torn.
LEMMA RestoreHeld ==
    ASSUME PluginAssumption, TypeOK, Held, NEW b \in backups, Restore(b)
    PROVE  Held'
  <1>1. /\ UNCHANGED <<rows, aside, backups>> /\ settled' \subseteq settled
        /\ \A id \in settled' : rows[id].enabled \/ \A f \in Files[rows[id].pkg] : b[f] = Nothing
    BY DEF Restore
  <1>2. \A f \in Paths : server'[f] = server[f] \/ (b[f] # Nothing /\ server'[f] \in {Torn, b[f]})
    BY RestoreFacts
  <1>3. \A f \in Paths : b[f] \in Packages \cup {Nothing, Torn}
    BY DEF TypeOK, Tree
  <1>4. \A f \in Paths : server'[f] \in Packages => f \in Files[server'[f]]
    BY <1>2, <1>3 DEF Held, Owned, BackedUp, PluginAssumption
  <1>5. ASSUME NEW id \in Ids, rows[id] # NoRow, NEW f \in Files[rows[id].pkg]
        PROVE  /\ server'[f] = server[f] \/ Sound(server'[f], f, rows[id].pkg)
               /\ b[f] = Nothing => server'[f] = server[f]
    <2>1. f \in Paths
      BY <1>5, RowPaths
    <2>2. CASE server'[f] # server[f]
      <3>1. b[f] \in {rows[id].pkg, Torn} /\ server'[f] \in {Torn, b[f]}
        BY <1>2, <1>3, <1>5, <2>1, <2>2 DEF Held, BackedUp
      <3>2. QED
        BY <1>2, <2>1, <2>2, <3>1 DEF Sound
    <2>3. QED
      BY <2>2
  <1>6. \A id \in settled' : \A f \in Files[rows[id].pkg] :
            \/ server'[f] = server[f]
            \/ rows[id].enabled /\ Sound(server'[f], f, rows[id].pkg)
    BY <1>1, <1>5 DEF TypeOK
  <1>7. \A c \in backups, f \in Paths :
            c[f] \in Packages /\ server[f] \in {c[f], Torn} => server'[f] \in {c[f], Torn}
    <2>1. ASSUME NEW c \in backups, NEW f \in Paths, c[f] \in Packages,
                 server[f] \in {c[f], Torn}
          PROVE  server'[f] \in {c[f], Torn}
      <3>1. b[f] \in Packages => c[f] = b[f]
        BY <2>1 DEF Held, BackedUp
      <3>2. QED
        BY <1>2, <1>3, <2>1, <3>1
    <2>2. QED
      BY <2>1
  <1>8. QED
    BY <1>1, <1>4, <1>5, <1>6, <1>7, GrowStep

\* A new backup has what is in the server directory.
LEMMA BackupHeld ==
    ASSUME PluginAssumption, TypeOK, Held, CreateBackup
    PROVE  Held'
  <1>1. PICK b \in Tree : /\ backups' = backups \cup {b}
                          /\ \A f \in Paths : b[f] \in {Nothing, Torn, server[f]}
    BY BackupFacts
  <1>2. UNCHANGED <<rows, server, aside, settled>>
    BY DEF CreateBackup, files
  <1>3. \A x, f, p : Sound(x, f, p) => Sound(x, f, p)'
    BY <1>1 DEF Sound
  <1>4. BackedUp'
    <2>1. ASSUME NEW f \in Paths, b[f] \in Packages
          PROVE  /\ b[f] = server[f] /\ f \in Files[b[f]]
                 /\ \A c \in backups : c[f] \in Packages => c[f] = b[f]
                 /\ \A i \in Ids : rows[i] # NoRow /\ f \in Files[rows[i].pkg] =>
                       b[f] = rows[i].pkg
      <3>1. b[f] = server[f] /\ f \in Files[b[f]]
        BY <1>1, <2>1 DEF Held, Owned, PluginAssumption
      <3>2. \A i \in Ids : rows[i] # NoRow /\ f \in Files[rows[i].pkg] => b[f] = rows[i].pkg
        BY <2>1, <3>1, OwnPaths DEF PluginAssumption
      <3>3. ASSUME NEW c \in backups, c[f] \in Packages
            PROVE  c[f] = b[f]
        <4>1. f \in Files[c[f]] /\ (server[f] \in {c[f], Torn} \/ Recorded(c[f]))
          BY <3>3 DEF Held, BackedUp
        <4>2. CASE Recorded(c[f])
          BY <3>2, <4>1, <4>2 DEF Recorded
        <4>3. CASE server[f] \in {c[f], Torn}
          BY <2>1, <3>1, <4>3 DEF PluginAssumption
        <4>4. QED
          BY <4>1, <4>2, <4>3
      <3>4. QED
        BY <3>1, <3>2, <3>3
    <2>2. ASSUME NEW c \in backups', NEW f \in Paths, c[f] \in Packages
          PROVE  /\ f \in Files[c[f]]
                 /\ server[f] \in {c[f], Torn} \/ Recorded(c[f])
                 /\ \A d \in backups' : d[f] \in Packages => d[f] = c[f]
                 /\ \A i \in Ids : rows[i] # NoRow /\ f \in Files[rows[i].pkg] =>
                       c[f] = rows[i].pkg
      <3>1. CASE c \in backups
        BY <1>1, <2>1, <2>2, <3>1 DEF Held, BackedUp
      <3>2. CASE c = b
        BY <1>1, <2>1, <2>2, <3>2
      <3>3. QED
        BY <1>1, <2>2, <3>1, <3>2
    <2>3. QED
      BY <1>2, <2>2 DEF BackedUp, Recorded
  <1>5. Apart'
    BY <1>2 DEF Held, Apart
  <1>6. Owned'
    BY <1>2, <1>3 DEF Held, Owned
  <1>7. KeepsFiles'
    BY <1>2, <1>3 DEF Held, KeepsFiles
  <1>8. Settled'
    BY <1>2, <1>3 DEF Held, Settled
  <1>9. QED
    BY <1>4, <1>5, <1>6, <1>7, <1>8 DEF Held

LEMMA HeldStep ==
    ASSUME PluginAssumption, Faults \cap {"clash", "again"} = {}, TypeOK, Held, [Next]_vars
    PROVE  Held'
  <1>1. CASE UNCHANGED <<rows, server, aside, backups, settled>>
    BY <1>1 DEF Held, Apart, Owned, BackedUp, Recorded, KeepsFiles, Settled, Sound
  <1>2. ASSUME NEW w \in Procs, Request(w)
        PROVE  Held'
    BY <1>1, <1>2, InstallHeld
       DEF Request, Download, Downloaded, RunInstall, LookForMetamod,
           LookForCounterStrikeSharp, Obtain, AddBridge, files
  <1>3. ASSUME NEW p \in Packages, InstallLocal(p)
        PROVE  Held'
    BY <1>3, InstallHeld DEF InstallLocal
  <1>4. ASSUME NEW id \in Ids, NEW on \in BOOLEAN, SetEnabled(id, on)
        PROVE  Held'
    BY <1>4, ToggleHeld DEF SetEnabled
  <1>5. CASE CreateBackup
    BY <1>5, BackupHeld
  <1>6. ASSUME NEW b \in backups, Restore(b)
        PROVE  Held'
    BY <1>6, RestoreHeld
  <1>7. CASE Validate \/ Crash \/ UNCHANGED vars
    BY <1>1, <1>7 DEF Validate, Crash, vars, files
  <1>8. QED
    BY <1>2, <1>3, <1>4, <1>5, <1>6, <1>7 DEF Next

LEMMA InitHeld == ASSUME PluginAssumption PROVE Init => Held
  BY DEF PluginAssumption, Init, Empty, Held, Apart, Owned, BackedUp, KeepsFiles, Settled

THEOREM FilesInvariant ==
    ASSUME PluginAssumption, Faults \cap {"clash", "again"} = {}
    PROVE  Spec => []FilesInv
  <1>1. Init => TypeOK /\ Held
    BY InitType, InitHeld
  <1>2. TypeOK /\ Held /\ [Next]_vars => (TypeOK /\ Held)'
    BY TypeStep, HeldStep
  <1>3. TypeOK /\ Held => FilesInv
    BY DEF Held, FilesInv
  <1>4. QED
    BY <1>1, <1>2, <1>3, PTL DEF Spec

\* Each file of a recorded plugin is in the server directory or aside, wherever
\* the steps of installing, moving, archiving and restoring stop; where a
\* restore has torn it, a backup has it.
THEOREM FilesAreKept ==
    ASSUME PluginAssumption, Faults \cap {"clash", "again"} = {}
    PROVE  Spec => []KeepsFiles
  <1>1. FilesInv => KeepsFiles
    BY DEF FilesInv
  <1>2. QED
    BY <1>1, FilesInvariant, PTL

\* A change that was answered with success is so, until a backup brings files
\* of a disabled plugin back: the files are where the row says and nowhere else.
THEOREM ChangesSettle ==
    ASSUME PluginAssumption, Faults \cap {"clash", "again"} = {}
    PROVE  Spec => []Settled
  <1>1. FilesInv => Settled
    BY DEF FilesInv
  <1>2. QED
    BY <1>1, FilesInvariant, PTL

\* No step puts the file of one package in the place of another's.
LEMMA OverwriteStep ==
    ASSUME PluginAssumption, TypeOK, Held, [Next]_vars, NEW f \in Paths,
           server[f] \in Packages
    PROVE  server'[f] \in {Nothing, server[f], Torn}
  <1>1. ASSUME NEW p \in Packages, Install(p)
        PROVE  server'[f] \in {Nothing, server[f], Torn}
    <2>1. CASE UNCHANGED files
      BY <2>1 DEF files
    <2>2. CASE f \notin Files[p]
      BY <1>1, <2>1, <2>2, InstallCases, CopyFacts
    <2>3. CASE f \in Files[p]
      BY <1>1, <2>1, <2>3, InstallCases DEF Conflict, PluginAssumption
    <2>4. QED
      BY <2>2, <2>3
  <1>2. ASSUME NEW id \in Ids, NEW on \in BOOLEAN, SetEnabled(id, on)
        PROVE  server'[f] \in {Nothing, server[f], Torn}
    <2>1. rows[id] # NoRow
      BY <1>2 DEF SetEnabled
    <2>2. PICK paths \in SUBSET Files[rows[id].pkg] : Move(id, on, paths)
      BY <1>2 DEF SetEnabled, Toggle
    <2>3. CASE f \in paths
      <3>1. server[f] = rows[id].pkg /\ aside[id][f] \in {Nothing, rows[id].pkg, Torn}
        BY <2>1, <2>2, <2>3, OwnPaths DEF PluginAssumption
      <3>2. QED
        BY <2>1, <2>2, <2>3, <3>1, MoveFacts
    <2>4. CASE f \notin paths
      BY <2>1, <2>2, <2>4, MoveFacts
    <2>5. QED
      BY <2>3, <2>4
  <1>3. ASSUME NEW b \in backups, Restore(b)
        PROVE  server'[f] \in {Nothing, server[f], Torn}
    <2>1. server'[f] = server[f] \/ (b[f] # Nothing /\ server'[f] \in {Torn, b[f]})
      BY <1>3, RestoreFacts
    <2>2. b[f] \in Packages \cup {Nothing, Torn}
      BY <1>3 DEF TypeOK, Tree
    <2>3. b[f] \in Packages => b[f] = server[f]
      <3>1. ASSUME b[f] \in Packages, NEW i \in Ids, rows[i] # NoRow, rows[i].pkg = b[f],
                   f \in Files[rows[i].pkg]
            PROVE  b[f] = server[f]
        BY <3>1, OwnPaths DEF PluginAssumption
      <3>2. QED
        BY <1>3, <3>1 DEF Held, BackedUp, Recorded, PluginAssumption
    <2>4. QED
      BY <2>1, <2>2, <2>3
  <1>4. CASE server' = server
    BY <1>4
  <1>5. ASSUME NEW w \in Procs, Request(w)
        PROVE  server'[f] \in {Nothing, server[f], Torn}
    BY <1>1, <1>4, <1>5
       DEF Request, Download, Downloaded, RunInstall, LookForMetamod,
           LookForCounterStrikeSharp, Obtain, AddBridge, files
  <1>6. CASE CreateBackup \/ Validate \/ Crash \/ UNCHANGED vars
    BY <1>4, <1>6 DEF CreateBackup, Validate, Crash, vars, files
  <1>7. QED
    BY <1>1, <1>2, <1>3, <1>5, <1>6 DEF Next, InstallLocal

\* Installing, enabling and restoring never replace the file of one package by
\* that of another; at worst they leave it torn.
THEOREM FilesNotReplaced ==
    ASSUME PluginAssumption, Faults \cap {"clash", "again"} = {}
    PROVE  Spec => NothingOverwritten
  <1>1. TypeOK /\ Held /\ [Next]_vars =>
            [\A f \in Paths : server[f] \in Packages =>
                server'[f] \in {Nothing, server[f], Torn}]_vars
    BY OverwriteStep
  <1>2. FilesInv => TypeOK /\ Held
    BY DEF FilesInv, Held
  <1>3. QED
    BY <1>1, <1>2, FilesInvariant, PTL DEF Spec, NothingOverwritten

-----------------------------------------------------------------------------
\* The contract of the recorded files.

\* What the variables of the contract are, when FilesInv holds.
Mapped ==
    \A id \in Ids :
        /\ rows[id] = NoRow =>
              /\ PkgOf[id] = Nothing /\ EnabledOf[id] = FALSE
              /\ HereOf[id] = {} /\ AwayOf[id] = {} /\ TornOf[id] = {}
              /\ Ledger!Own(id) = {}
        /\ rows[id] # NoRow =>
              /\ PkgOf[id] = rows[id].pkg /\ PkgOf[id] # Nothing
              /\ EnabledOf[id] = rows[id].enabled
              /\ HereOf[id] = {f \in Files[rows[id].pkg] : server[f] # Nothing}
              /\ AwayOf[id] = {f \in Files[rows[id].pkg] : aside[id][f] # Nothing}
              /\ TornOf[id] = {f \in Files[rows[id].pkg] :
                                 server[f] = Torn \/ aside[id][f] = Torn}
              /\ Ledger!Own(id) = Files[rows[id].pkg]

LEMMA MappedFacts ==
    ASSUME PluginAssumption, TypeOK, Held
    PROVE  Mapped
  <1>1. ASSUME NEW id \in Ids, rows[id] = NoRow
        PROVE  /\ PkgOf[id] = Nothing /\ EnabledOf[id] = FALSE
               /\ HereOf[id] = {} /\ AwayOf[id] = {} /\ TornOf[id] = {}
               /\ Ledger!Own(id) = {}
    BY <1>1 DEF PkgOf, EnabledOf, HereOf, AwayOf, TornOf, Own, Ledger!Own
  <1>2. ASSUME NEW id \in Ids, rows[id] # NoRow
        PROVE  /\ PkgOf[id] = rows[id].pkg /\ PkgOf[id] # Nothing
               /\ EnabledOf[id] = rows[id].enabled
               /\ HereOf[id] = {f \in Files[rows[id].pkg] : server[f] # Nothing}
               /\ AwayOf[id] = {f \in Files[rows[id].pkg] : aside[id][f] # Nothing}
               /\ TornOf[id] = {f \in Files[rows[id].pkg] :
                                  server[f] = Torn \/ aside[id][f] = Torn}
               /\ Ledger!Own(id) = Files[rows[id].pkg]
    <2>1. rows[id].pkg \notin {Nothing, Torn} /\ rows[id].enabled \in BOOLEAN /\ Torn # Nothing
      BY <1>2, RowPaths DEF Row, PluginAssumption
    <2>2. PkgOf[id] = rows[id].pkg /\ EnabledOf[id] = rows[id].enabled
      BY <1>2, <2>1 DEF PkgOf, EnabledOf
    <2>3. Own(id) = Files[rows[id].pkg] /\ Ledger!Own(id) = Files[rows[id].pkg]
      BY <1>2, <2>1, <2>2 DEF Own, Ledger!Own
    <2>4. \A f \in Files[rows[id].pkg] :
              /\ server[f] \in {rows[id].pkg, Torn} <=> server[f] # Nothing
              /\ aside[id][f] \in {rows[id].pkg, Torn} <=> aside[id][f] # Nothing
      BY <1>2, <2>1, OwnPaths
    <2>5. HereOf[id] = {f \in Files[rows[id].pkg] : server[f] # Nothing}
      BY <2>3, <2>4 DEF HereOf
    <2>6. AwayOf[id] = {f \in Files[rows[id].pkg] : aside[id][f] # Nothing}
      BY <2>3, <2>4 DEF AwayOf
    <2>7. TornOf[id] = {f \in Files[rows[id].pkg] : server[f] = Torn \/ aside[id][f] = Torn}
      BY <2>3 DEF TornOf
    <2>8. QED
      BY <2>1, <2>2, <2>3, <2>5, <2>6, <2>7
  <1>3. QED
    BY <1>1, <1>2 DEF Mapped

\* A row and its files that stay as they are.
LEMMA MappedSame ==
    ASSUME Mapped, Mapped', NEW i \in Ids, rows'[i] = rows[i],
           rows[i] # NoRow => \A f \in Files[rows[i].pkg] :
               server'[f] = server[f] /\ aside'[i][f] = aside[i][f]
    PROVE  /\ PkgOf'[i] = PkgOf[i] /\ EnabledOf'[i] = EnabledOf[i]
           /\ HereOf'[i] = HereOf[i] /\ AwayOf'[i] = AwayOf[i] /\ TornOf'[i] = TornOf[i]
  <1>1. CASE rows[i] = NoRow
    <2>1. /\ PkgOf[i] = Nothing /\ EnabledOf[i] = FALSE
          /\ HereOf[i] = {} /\ AwayOf[i] = {} /\ TornOf[i] = {}
      BY <1>1 DEF Mapped
    <2>2. /\ PkgOf'[i] = Nothing /\ EnabledOf'[i] = FALSE
          /\ HereOf'[i] = {} /\ AwayOf'[i] = {} /\ TornOf'[i] = {}
      BY <1>1 DEF Mapped
    <2>3. QED
      BY <2>1, <2>2
  <1>2. CASE rows[i] # NoRow
    <2>1. /\ PkgOf[i] = rows[i].pkg /\ EnabledOf[i] = rows[i].enabled
          /\ HereOf[i] = {f \in Files[rows[i].pkg] : server[f] # Nothing}
          /\ AwayOf[i] = {f \in Files[rows[i].pkg] : aside[i][f] # Nothing}
          /\ TornOf[i] = {f \in Files[rows[i].pkg] : server[f] = Torn \/ aside[i][f] = Torn}
      BY <1>2 DEF Mapped
    <2>2. /\ PkgOf'[i] = rows[i].pkg /\ EnabledOf'[i] = rows[i].enabled
          /\ HereOf'[i] = {f \in Files[rows[i].pkg] : server'[f] # Nothing}
          /\ AwayOf'[i] = {f \in Files[rows[i].pkg] : aside'[i][f] # Nothing}
          /\ TornOf'[i] = {f \in Files[rows[i].pkg] : server'[f] = Torn \/ aside'[i][f] = Torn}
      BY <1>2 DEF Mapped
    <2>3. QED
      BY <1>2, <2>1, <2>2
  <1>3. QED
    BY <1>1, <1>2

\* The contract does not see what else there is.
LEMMA LedgerStutter ==
    ASSUME PluginAssumption, TypeOK, Held, Mapped, Mapped', rows' = rows,
           \A i \in Ids : rows[i] # NoRow =>
               \A f \in Files[rows[i].pkg] :
                   server'[f] = server[f] /\ aside'[i][f] = aside[i][f]
    PROVE  UNCHANGED Ledger!vars
  <1>1. PkgOf' = PkgOf /\ EnabledOf' = EnabledOf
    BY DEF PkgOf, EnabledOf
  <1>2. ASSUME NEW i \in Ids
        PROVE  HereOf'[i] = HereOf[i] /\ AwayOf'[i] = AwayOf[i] /\ TornOf'[i] = TornOf[i]
    BY MappedSame
  <1>3. HereOf' = HereOf /\ AwayOf' = AwayOf /\ TornOf' = TornOf
    BY <1>2 DEF HereOf, AwayOf, TornOf
  <1>4. QED
    BY <1>1, <1>3 DEF Ledger!vars

\* All files of a package are copied and recorded.
LEMMA LedgerAll ==
    ASSUME PluginAssumption, TypeOK, Held, Mapped, Mapped', NEW p \in Packages,
           ~Conflict(p), ~Clash(p), ~Recorded(p), NEW id \in Ids,
           rows[id] = NoRow,
           rows' = [rows EXCEPT ![id] = [pkg |-> p, enabled |-> TRUE]],
           server' = Overlay(Paths, Contents(p)),
           UNCHANGED aside
    PROVE  Ledger!Install(id, p)
  <1>1. /\ \A f \in Paths : server'[f] = IF f \in Files[p] THEN p ELSE server[f]
        /\ Files[p] \subseteq Paths
        /\ p \notin {Nothing, Torn}
    BY CopyFacts
  <1>2. /\ rows'[id] = [pkg |-> p, enabled |-> TRUE]
        /\ rows'[id] # NoRow
        /\ rows'[id].pkg = p /\ rows'[id].enabled = TRUE
        /\ \A i \in Ids \ {id} : rows'[i] = rows[i]
    <2>1. [pkg |-> p, enabled |-> TRUE] \in Row
      BY DEF Row
    <2>2. QED
      BY <2>1 DEF TypeOK, PluginAssumption
  <1>3. ASSUME NEW i \in Ids, PkgOf[i] # Nothing
        PROVE  Files[PkgOf[i]] \cap Files[p] = {}
    BY <1>3, NewPaths DEF Mapped
  <1>4. \A f \in Paths : aside[id][f] = Nothing
    BY DEF Held, Owned
  <1>5. /\ PkgOf'[id] = p /\ EnabledOf'[id] = TRUE
        /\ HereOf'[id] = Files[p] /\ AwayOf'[id] = {} /\ TornOf'[id] = {}
    <2>1. /\ PkgOf'[id] = p /\ EnabledOf'[id] = TRUE
          /\ HereOf'[id] = {f \in Files[p] : server'[f] # Nothing}
          /\ AwayOf'[id] = {f \in Files[p] : aside'[id][f] # Nothing}
          /\ TornOf'[id] = {f \in Files[p] : server'[f] = Torn \/ aside'[id][f] = Torn}
      BY <1>2 DEF Mapped
    <2>2. \A f \in Files[p] : server'[f] = p /\ aside'[id][f] = Nothing
      BY <1>1, <1>4
    <2>3. QED
      BY <1>1, <2>1, <2>2 DEF PluginAssumption
  <1>6. /\ PkgOf[id] = Nothing /\ AwayOf[id] = {} /\ TornOf[id] = {}
    BY DEF Mapped
  <1>7. ASSUME NEW i \in Ids \ {id}
        PROVE  /\ PkgOf'[i] = PkgOf[i] /\ EnabledOf'[i] = EnabledOf[i]
               /\ HereOf'[i] = HereOf[i] /\ AwayOf'[i] = AwayOf[i] /\ TornOf'[i] = TornOf[i]
    <2>1. rows'[i] = rows[i]
      BY <1>2
    <2>2. rows[i] # NoRow => \A f \in Files[rows[i].pkg] : server'[f] = server[f]
      BY <1>1, NewPaths, RowPaths
    <2>3. QED
      BY <2>1, <2>2, MappedSame
  <1>8. /\ PkgOf' = [PkgOf EXCEPT ![id] = p]
        /\ EnabledOf' = [EnabledOf EXCEPT ![id] = TRUE]
        /\ HereOf' = [HereOf EXCEPT ![id] = Files[p]]
        /\ AwayOf' = AwayOf
        /\ TornOf' = TornOf
    <2>1. PkgOf' = [PkgOf EXCEPT ![id] = p]
      <3>1. \A i \in Ids : PkgOf'[i] = IF i = id THEN p ELSE PkgOf[i]
        BY <1>5, <1>6, <1>7
      <3>2. QED
        BY <3>1 DEF PkgOf
    <2>2. EnabledOf' = [EnabledOf EXCEPT ![id] = TRUE]
      <3>1. \A i \in Ids : EnabledOf'[i] = IF i = id THEN TRUE ELSE EnabledOf[i]
        BY <1>5, <1>6, <1>7
      <3>2. QED
        BY <3>1 DEF EnabledOf
    <2>3. HereOf' = [HereOf EXCEPT ![id] = Files[p]]
      <3>1. \A i \in Ids : HereOf'[i] = IF i = id THEN Files[p] ELSE HereOf[i]
        BY <1>5, <1>6, <1>7
      <3>2. QED
        BY <3>1 DEF HereOf
    <2>4. AwayOf' = AwayOf
      <3>1. \A i \in Ids : AwayOf'[i] = IF i = id THEN AwayOf[id] ELSE AwayOf[i]
        BY <1>5, <1>6, <1>7
      <3>2. QED
        BY <3>1 DEF AwayOf
    <2>5. TornOf' = TornOf
      <3>1. \A i \in Ids : TornOf'[i] = IF i = id THEN TornOf[id] ELSE TornOf[i]
        BY <1>5, <1>6, <1>7
      <3>2. QED
        BY <3>1 DEF TornOf
    <2>6. QED
      BY <2>1, <2>2, <2>3, <2>4, <2>5
  <1>9. QED
    BY <1>3, <1>6, <1>8 DEF Ledger!Install

\* Some files of a plugin are moved, and its row is changed when it was all.
LEMMA LedgerToggle ==
    ASSUME PluginAssumption, TypeOK, Held, Mapped, Mapped', NEW id \in Ids, NEW on \in BOOLEAN,
           rows[id] # NoRow, Toggle(id, on)
    PROVE  Ledger!Next
  <1> DEFINE p == rows[id].pkg
  <1>1. PICK paths \in SUBSET Files[p] :
            /\ Move(id, on, paths)
            /\ \/ paths = Files[p] /\ rows' = [rows EXCEPT ![id].enabled = on]
               \/ rows' = rows
    BY DEF Toggle
  <1>2. /\ \A i \in Ids \ {id} : aside'[i] = aside[i]
        /\ \A f \in Paths \ paths : server'[f] = server[f] /\ aside'[id][f] = aside[id][f]
        /\ on => \A f \in paths :
              /\ server'[f] = IF aside[id][f] # Nothing THEN aside[id][f] ELSE server[f]
              /\ aside'[id][f] = Nothing
        /\ ~on => \A f \in paths :
              /\ server'[f] = Nothing
              /\ aside'[id][f] = IF server[f] # Nothing THEN server[f] ELSE aside[id][f]
    BY <1>1, MoveFacts
  <1>3. /\ \A i \in Ids : rows'[i] # NoRow <=> rows[i] # NoRow
        /\ \A i \in Ids : rows[i] # NoRow => rows'[i].pkg = rows[i].pkg
        /\ \A i \in Ids \ {id} : rows'[i] = rows[i]
    BY <1>1, RowFacts
  <1>4. /\ p \notin {Nothing, Torn} /\ Files[p] \subseteq Paths /\ paths \subseteq Files[p]
        /\ PkgOf[id] = p
        /\ Ledger!Own(id) = Files[p]
        /\ Torn # Nothing
    BY RowPaths DEF Mapped, PluginAssumption
  <1>5. PkgOf' = PkgOf
    BY <1>3 DEF PkgOf
  <1>6. \/ UNCHANGED EnabledOf
        \/ paths = Files[PkgOf[id]] /\ EnabledOf' = [EnabledOf EXCEPT ![id] = on]
    <2>1. CASE rows' = rows
      BY <2>1 DEF EnabledOf
    <2>2. CASE paths = Files[p] /\ rows' = [rows EXCEPT ![id].enabled = on]
      <3>1. rows'[id].enabled = on
        BY <2>2, RowFacts
      <3>2. EnabledOf' = [EnabledOf EXCEPT ![id] = on]
        BY <1>3, <3>1 DEF EnabledOf
      <3>3. QED
        BY <2>2, <3>2, <1>4
    <2>3. QED
      BY <1>1, <2>1, <2>2
  <1>7. ASSUME NEW i \in Ids \ {id}
        PROVE  HereOf'[i] = HereOf[i] /\ AwayOf'[i] = AwayOf[i] /\ TornOf'[i] = TornOf[i]
    <2>1. rows[i] # NoRow => \A f \in Files[rows[i].pkg] : f \in Paths /\ f \notin paths
      BY <1>4, RowPaths DEF Held, Apart
    <2>2. rows[i] # NoRow => \A f \in Files[rows[i].pkg] :
              server'[f] = server[f] /\ aside'[i][f] = aside[i][f]
      BY <1>2, <2>1
    <2>3. rows'[i] = rows[i]
      BY <1>3
    <2>4. QED
      BY <2>2, <2>3, MappedSame
  <1>8. /\ HereOf[id] = {f \in Files[p] : server[f] # Nothing}
        /\ AwayOf[id] = {f \in Files[p] : aside[id][f] # Nothing}
        /\ TornOf[id] = {f \in Files[p] : server[f] = Torn \/ aside[id][f] = Torn}
        /\ HereOf'[id] = {f \in Files[p] : server'[f] # Nothing}
        /\ AwayOf'[id] = {f \in Files[p] : aside'[id][f] # Nothing}
        /\ TornOf'[id] = {f \in Files[p] : server'[f] = Torn \/ aside'[id][f] = Torn}
    BY <1>3 DEF Mapped
  <1>9. \A f \in paths : server[f] # Nothing \/ aside[id][f] # Nothing
    BY <1>4, OwnPaths
  <1> DEFINE left == TornOf[id] \ TornOf'[id]
  <1>10. /\ left \in SUBSET (TornOf[id] \cap HereOf[id] \cap AwayOf[id] \cap paths)
         /\ TornOf'[id] = TornOf[id] \ left
    <2>1. \A f \in Files[p] \ paths : server'[f] = server[f] /\ aside'[id][f] = aside[id][f]
      BY <1>2, <1>4
    <2>2. ASSUME NEW f \in TornOf'[id]
          PROVE  f \in TornOf[id]
      BY <1>2, <1>4, <1>8, <2>1, <2>2
    <2>3. ASSUME NEW f \in left
          PROVE  f \in HereOf[id] \cap AwayOf[id] \cap paths
      <3>1. f \in Files[p] /\ server'[f] # Torn /\ aside'[id][f] # Torn
        BY <1>8, <2>3
      <3>2. server[f] = Torn \/ aside[id][f] = Torn
        BY <1>8, <2>3
      <3>3. f \in paths
        BY <2>1, <3>1, <3>2
      <3>4. server[f] # Nothing /\ aside[id][f] # Nothing
        BY <1>2, <1>4, <3>1, <3>2, <3>3
      <3>5. QED
        BY <1>8, <3>1, <3>3, <3>4
    <2>4. QED
      BY <2>2, <2>3
  <1>11. TornOf' = [TornOf EXCEPT ![id] = @ \ left]
    <2>1. \A i \in Ids : TornOf'[i] = IF i = id THEN TornOf[id] \ left ELSE TornOf[i]
      BY <1>7, <1>10
    <2>2. QED
      BY <2>1 DEF TornOf
  <1>12. Ledger!Moved(id, on, paths)
    BY <1>4, <1>5, <1>6, <1>10, <1>11 DEF Ledger!Moved
  <1>13. CASE on
    <2>1. HereOf'[id] = HereOf[id] \cup paths /\ AwayOf'[id] = AwayOf[id] \ paths
      BY <1>2, <1>4, <1>8, <1>9, <1>13
    <2>2. HereOf' = [HereOf EXCEPT ![id] = @ \cup paths]
      <3>1. \A i \in Ids : HereOf'[i] = IF i = id THEN HereOf[id] \cup paths ELSE HereOf[i]
        BY <1>7, <2>1
      <3>2. QED
        BY <3>1 DEF HereOf
    <2>3. AwayOf' = [AwayOf EXCEPT ![id] = @ \ paths]
      <3>1. \A i \in Ids : AwayOf'[i] = IF i = id THEN AwayOf[id] \ paths ELSE AwayOf[i]
        BY <1>7, <2>1
      <3>2. QED
        BY <3>1 DEF AwayOf
    <2>4. Ledger!Enable(id, paths)
      BY <1>12, <1>13, <2>2, <2>3 DEF Ledger!Enable
    <2>5. QED
      BY <1>1, <1>4, <2>4 DEF Ledger!Next
  <1>14. CASE ~on
    <2>1. HereOf'[id] = HereOf[id] \ paths /\ AwayOf'[id] = AwayOf[id] \cup paths
      BY <1>2, <1>4, <1>8, <1>9, <1>14
    <2>2. HereOf' = [HereOf EXCEPT ![id] = @ \ paths]
      <3>1. \A i \in Ids : HereOf'[i] = IF i = id THEN HereOf[id] \ paths ELSE HereOf[i]
        BY <1>7, <2>1
      <3>2. QED
        BY <3>1 DEF HereOf
    <2>3. AwayOf' = [AwayOf EXCEPT ![id] = @ \cup paths]
      <3>1. \A i \in Ids : AwayOf'[i] = IF i = id THEN AwayOf[id] \cup paths ELSE AwayOf[i]
        BY <1>7, <2>1
      <3>2. QED
        BY <3>1 DEF AwayOf
    <2>4. Ledger!Disable(id, paths)
      BY <1>12, <1>14, <2>2, <2>3 DEF Ledger!Disable
    <2>5. QED
      BY <1>1, <1>4, <2>4 DEF Ledger!Next
  <1>15. QED
    BY <1>13, <1>14

LEMMA LedgerRestore ==
    ASSUME PluginAssumption, TypeOK, Held, Mapped, Mapped', NEW b \in backups, Restore(b)
    PROVE  Ledger!Restore
  <1>1. UNCHANGED <<rows, aside>>
    BY DEF Restore
  <1>2. UNCHANGED <<PkgOf, EnabledOf, AwayOf>>
    BY <1>1 DEF PkgOf, EnabledOf, AwayOf, Own
  <1>3. \A f \in Paths : server'[f] = server[f] \/ server'[f] # Nothing
    BY RestoreFacts DEF PluginAssumption
  <1>4. \A f \in Paths : server'[f] = Torn => server'[f] # Nothing
    BY DEF PluginAssumption
  <1>5. ASSUME NEW id \in Ids
        PROVE  /\ HereOf[id] \subseteq HereOf'[id]
               /\ HereOf'[id] \subseteq Ledger!Own(id)
               /\ TornOf'[id] \subseteq TornOf[id] \cup HereOf'[id]
               /\ HereOf'[id] \subseteq UNION {Files[p] : p \in Packages}
               /\ TornOf'[id] \subseteq UNION {Files[p] : p \in Packages}
    <2>1. CASE rows[id] = NoRow
      <3>1. HereOf[id] = {} /\ HereOf'[id] = {} /\ TornOf'[id] = {}
        BY <1>1, <2>1 DEF Mapped
      <3>2. QED
        BY <3>1
    <2>2. CASE rows[id] # NoRow
      <3> DEFINE p == rows[id].pkg
      <3>1. /\ HereOf[id] = {f \in Files[p] : server[f] # Nothing}
            /\ TornOf[id] = {f \in Files[p] : server[f] = Torn \/ aside[id][f] = Torn}
            /\ Ledger!Own(id) = Files[p]
        BY <2>2 DEF Mapped
      <3>2. /\ HereOf'[id] = {f \in Files[p] : server'[f] # Nothing}
            /\ TornOf'[id] = {f \in Files[p] : server'[f] = Torn \/ aside[id][f] = Torn}
        BY <1>1, <2>2 DEF Mapped
      <3>3. p \in Packages /\ Files[p] \subseteq Paths
        BY <2>2, RowPaths
      <3>4. Files[p] \subseteq UNION {Files[q] : q \in Packages}
        BY <3>3
      <3>5. QED
        BY <1>3, <1>4, <3>1, <3>2, <3>3, <3>4
    <2>3. QED
      BY <2>1, <2>2
  <1>6. HereOf' \in Ledger!Places /\ TornOf' \in Ledger!Places
    <2>1. /\ HereOf' = [id \in Ids |-> HereOf'[id]]
          /\ TornOf' = [id \in Ids |-> TornOf'[id]]
      BY DEF HereOf, TornOf
    <2>2. QED
      BY <1>5, <2>1 DEF Ledger!Places
  <1>7. QED
    BY <1>2, <1>5, <1>6 DEF Ledger!Restore

LEMMA LedgerStep ==
    ASSUME PluginAssumption, Faults \cap {"clash", "again"} = {},
           TypeOK, Held, Mapped, Mapped', [Next]_vars
    PROVE  [Ledger!Next]_(Ledger!vars)
  <1>1. CASE UNCHANGED <<rows, server, aside>>
    BY <1>1, LedgerStutter
  <1>2. ASSUME NEW p \in Packages, Install(p)
        PROVE  [Ledger!Next]_(Ledger!vars)
    <2>1. CASE UNCHANGED files
      BY <1>1, <2>1 DEF files
    <2>2. ASSUME ~Conflict(p), ~Clash(p), ~Recorded(p), aside' = aside, rows' = rows,
                 server' \in CutOff(Contents(p))
          PROVE  [Ledger!Next]_(Ledger!vars)
      <3>1. ASSUME NEW i \in Ids, rows[i] # NoRow, NEW f \in Files[rows[i].pkg]
            PROVE  server'[f] = server[f] /\ aside'[i][f] = aside[i][f]
        <4>1. f \in Paths /\ f \notin Files[p]
          BY <2>2, <3>1, NewPaths, RowPaths
        <4>2. QED
          BY <2>2, <4>1, CopyFacts
      <3>2. QED
        BY <2>2, <3>1, LedgerStutter
    <2>3. QED
      BY <1>2, <2>1, <2>2, InstallCases, LedgerAll DEF Ledger!Next
  <1>3. ASSUME NEW w \in Procs, Request(w)
        PROVE  [Ledger!Next]_(Ledger!vars)
    BY <1>1, <1>2, <1>3
       DEF Request, Download, Downloaded, RunInstall, LookForMetamod,
           LookForCounterStrikeSharp, Obtain, AddBridge, files
  <1>4. ASSUME NEW p \in Packages, InstallLocal(p)
        PROVE  [Ledger!Next]_(Ledger!vars)
    BY <1>2, <1>4 DEF InstallLocal
  <1>5. ASSUME NEW id \in Ids, NEW on \in BOOLEAN, SetEnabled(id, on)
        PROVE  [Ledger!Next]_(Ledger!vars)
    BY <1>5, LedgerToggle DEF SetEnabled
  <1>6. ASSUME NEW b \in backups, Restore(b)
        PROVE  [Ledger!Next]_(Ledger!vars)
    BY <1>6, LedgerRestore DEF Ledger!Next
  <1>7. CASE CreateBackup \/ Validate \/ Crash \/ UNCHANGED vars
    BY <1>1, <1>7 DEF CreateBackup, Validate, Crash, vars, files
  <1>8. QED
    BY <1>3, <1>4, <1>5, <1>6, <1>7 DEF Next

\* The files of recorded plugins only go from the server to the plugin's own
\* directory and back, the row changes when all of them have been moved, and
\* only a restore tears one.
THEOREM LedgerIsKept ==
    ASSUME PluginAssumption, Faults \cap {"clash", "again"} = {}
    PROVE  Spec => LedgerKept
  <1>1. Init => Ledger!Init
    BY DEF Init, Ledger!Init, PkgOf, EnabledOf, HereOf, AwayOf, TornOf, Own
  <1>2. FilesInv => TypeOK /\ Held
    BY DEF FilesInv, Held
  <1>3. FilesInv => Mapped
    BY <1>2, MappedFacts
  <1>4. TypeOK /\ Held /\ Mapped /\ Mapped' /\ [Next]_vars => [Ledger!Next]_(Ledger!vars)
    BY LedgerStep
  <1>5. QED
    BY <1>1, <1>2, <1>3, <1>4, FilesInvariant, PTL DEF Spec, LedgerKept, Ledger!Spec

-----------------------------------------------------------------------------
\* Isolation: packages that do have paths in common.

Isolated == Placed /\ Single /\ Unhurt /\ Spared

\* At the paths of a plugin that is alone lies nothing else.
LEMMA AlonePaths ==
    ASSUME PluginAssumption, TypeOK, Isolated, NEW id \in Ids, Alone(id),
           NEW f \in Files[rows[id].pkg]
    PROVE  /\ f \in Paths /\ rows[id] # NoRow
           /\ server[f] = Nothing \/ Sound(server[f], f, rows[id].pkg)
           /\ aside[id][f] = Nothing \/ Sound(aside[id][f], f, rows[id].pkg)
           /\ server[f] # Nothing \/ aside[id][f] # Nothing
           /\ \A b \in backups : b[f] \in {Nothing, Torn, rows[id].pkg}
           /\ \A p \in Packages : f \in Files[p] => p = rows[id].pkg
           /\ \A i \in Ids \ {id} : rows[i] # NoRow => f \notin Files[rows[i].pkg]
  <1> DEFINE p == rows[id].pkg
  <1>1. f \in Paths /\ rows[id] # NoRow /\ p \in Packages
    BY RowPaths DEF Alone
  <1>2. \A q \in Packages : f \in Files[q] => q = p
    BY DEF Alone, Exclusive
  <1>3. /\ server[f] = Nothing \/ Sound(server[f], f, p)
        /\ aside[id][f] = Nothing \/ Sound(aside[id][f], f, p)
        /\ Sound(server[f], f, p) \/ Sound(aside[id][f], f, p)
    BY <1>1 DEF Isolated, Unhurt, Spared
  <1>4. \A b \in backups : b[f] \in {Nothing, Torn, p}
    <2>1. \A b \in backups : b[f] \in Packages \cup {Nothing, Torn}
      BY <1>1 DEF TypeOK, Tree
    <2>2. QED
      BY <1>1, <1>2, <2>1 DEF Isolated, Placed
  <1>5. \A i \in Ids \ {id} : rows[i] # NoRow => f \notin Files[rows[i].pkg]
    BY <1>1, <1>2, RowPaths DEF Isolated, Single
  <1>6. server[f] # Nothing \/ aside[id][f] # Nothing
    BY <1>1, <1>3, SoundFacts
  <1>7. QED
    BY <1>1, <1>2, <1>3, <1>4, <1>5, <1>6

\* Nothing is lost at the paths of a plugin that is alone, and what was
\* answered is so: what a step has to keep.
LEMMA IsolatedKept ==
    ASSUME PluginAssumption, TypeOK, Isolated, Placed', Single',
           \A id \in Ids : Alone(id)' =>
               \A f \in Files[rows'[id].pkg] :
                   /\ server'[f] = Nothing \/ Sound(server[f], f, rows[id].pkg)'
                   /\ aside'[id][f] = Nothing \/ Sound(aside[id][f], f, rows[id].pkg)'
                   /\ server'[f] # Nothing \/ aside'[id][f] # Nothing
                   /\ id \in settled' =>
                         IF rows'[id].enabled
                         THEN Sound(server[f], f, rows[id].pkg)' /\ aside'[id][f] = Nothing
                         ELSE Sound(aside[id][f], f, rows[id].pkg)' /\ server'[f] = Nothing
    PROVE  Isolated'
  <1>1. Unhurt'
    BY DEF Unhurt
  <1>2. Spared'
    BY DEF Spared
  <1>3. QED
    BY <1>1, <1>2 DEF Isolated

\* Rows are never taken back: what is alone has been so since it was recorded.
LEMMA AloneBefore ==
    ASSUME NEW id \in Ids, Alone(id)', rows[id] # NoRow, rows'[id].pkg = rows[id].pkg
    PROVE  Alone(id)
  BY DEF Alone, Exclusive

\* Files of a plugin that is alone are written where they belong, or torn.
LEMMA GrowIsolated ==
    ASSUME PluginAssumption, TypeOK, Isolated, Placed',
           UNCHANGED <<rows, aside, backups>>, settled' \subseteq settled,
           \A id \in Ids : Alone(id) => \A f \in Files[rows[id].pkg] :
               server'[f] = server[f] \/ Sound(server'[f], f, rows[id].pkg),
           \A id \in settled' : Alone(id) => \A f \in Files[rows[id].pkg] :
               \/ server'[f] = server[f]
               \/ rows[id].enabled /\ Sound(server'[f], f, rows[id].pkg)
    PROVE  Isolated'
  <1>1. Single'
    BY DEF Isolated, Single
  <1>2. ASSUME NEW id \in Ids, Alone(id)', NEW f \in Files[rows'[id].pkg]
        PROVE  /\ server'[f] = Nothing \/ Sound(server'[f], f, rows[id].pkg)
               /\ aside[id][f] = Nothing \/ Sound(aside[id][f], f, rows[id].pkg)
               /\ server'[f] # Nothing \/ aside[id][f] # Nothing
               /\ id \in settled' =>
                     IF rows[id].enabled
                     THEN Sound(server'[f], f, rows[id].pkg) /\ aside[id][f] = Nothing
                     ELSE Sound(aside[id][f], f, rows[id].pkg) /\ server'[f] = Nothing
    <2>1. Alone(id) /\ f \in Files[rows[id].pkg] /\ rows[id] # NoRow
      BY <1>2 DEF Alone, Exclusive
    <2>2. /\ server[f] = Nothing \/ Sound(server[f], f, rows[id].pkg)
          /\ aside[id][f] = Nothing \/ Sound(aside[id][f], f, rows[id].pkg)
          /\ server[f] # Nothing \/ aside[id][f] # Nothing
          /\ f \in Paths /\ rows[id].pkg \in Packages
      BY <2>1, AlonePaths, RowPaths
    <2>3. server'[f] = server[f] \/ (Sound(server'[f], f, rows[id].pkg) /\ server'[f] # Nothing)
      BY <2>1, <2>2, SoundFacts
    <2>4. id \in settled => IF rows[id].enabled
                            THEN Sound(server[f], f, rows[id].pkg) /\ aside[id][f] = Nothing
                            ELSE Sound(aside[id][f], f, rows[id].pkg) /\ server[f] = Nothing
      BY <2>1 DEF Isolated, Spared
    <2>5. QED
      BY <2>1, <2>2, <2>3, <2>4
  <1>3. QED
    BY <1>1, <1>2, IsolatedKept DEF Sound

LEMMA CopyIsolated ==
    ASSUME PluginAssumption, "again" \notin Faults, TypeOK, Isolated, NEW p \in Packages,
           Install(p), backups' = backups
    PROVE  Isolated'
  <1>1. CASE UNCHANGED files
    BY <1>1 DEF files, Isolated, Placed, Single, Unhurt, Spared, Alone, Exclusive, Sound
  <1>2. ASSUME ~Conflict(p), ~Recorded(p), aside' = aside, UNCHANGED <<rows, settled>>,
               server' \in CutOff(Contents(p))
        PROVE  Isolated'
    <2>1. \A f \in Paths : server'[f] = server[f] \/ (f \in Files[p] /\ server'[f] \in {Torn, p})
      BY <1>2, CopyFacts
    <2>2. Placed'
      BY <1>2, <2>1 DEF Isolated, Placed, PluginAssumption
    <2>3. ASSUME NEW id \in Ids, Alone(id), NEW f \in Files[rows[id].pkg]
          PROVE  server'[f] = server[f]
      <3>1. f \in Paths /\ f \notin Files[p]
        BY <1>2, <2>3, AlonePaths DEF Recorded
      <3>2. QED
        BY <2>1, <3>1
    <2>4. settled' \subseteq Ids
      BY <1>2 DEF TypeOK
    <2>5. QED
      BY <1>2, <2>2, <2>3, <2>4, GrowIsolated
  <1>3. ASSUME ~Conflict(p), ~Recorded(p), aside' = aside, NEW id \in Ids, rows[id] = NoRow,
               rows' = [rows EXCEPT ![id] = [pkg |-> p, enabled |-> TRUE]],
               settled' = settled \cup {id},
               server' = Overlay(Paths, Contents(p))
        PROVE  Isolated'
    <2>1. /\ rows'[id] = [pkg |-> p, enabled |-> TRUE]
          /\ rows'[id].pkg = p /\ rows'[id].enabled = TRUE /\ rows'[id] # NoRow
          /\ \A i \in Ids \ {id} : rows'[i] = rows[i]
      <3>1. [pkg |-> p, enabled |-> TRUE] \in Row
        BY DEF Row
      <3>2. QED
        BY <1>3, <3>1 DEF TypeOK, PluginAssumption
    <2>2. /\ \A f \in Paths : server'[f] = IF f \in Files[p] THEN p ELSE server[f]
          /\ Files[p] \subseteq Paths /\ p \notin {Nothing, Torn}
      BY <1>3, CopyFacts
    <2>3. Placed'
      BY <1>3, <2>1, <2>2 DEF Isolated, Placed
    <2>4. Single'
      BY <1>3, <2>1 DEF Isolated, Single, Recorded
    <2>5. \A f \in Paths : aside[id][f] = Nothing
      BY <1>3 DEF Isolated, Placed
    <2>6. ASSUME NEW i \in Ids, Alone(i)', NEW f \in Files[rows'[i].pkg]
          PROVE  /\ server'[f] = Nothing \/ Sound(server'[f], f, rows'[i].pkg)
                 /\ aside'[i][f] = Nothing \/ Sound(aside'[i][f], f, rows'[i].pkg)
                 /\ server'[f] # Nothing \/ aside'[i][f] # Nothing
                 /\ i \in settled' =>
                       IF rows'[i].enabled
                       THEN Sound(server'[f], f, rows'[i].pkg) /\ aside'[i][f] = Nothing
                       ELSE Sound(aside'[i][f], f, rows'[i].pkg) /\ server'[f] = Nothing
      <3>1. CASE i = id
        BY <1>3, <2>1, <2>2, <2>5, <2>6, <3>1 DEF Sound
      <3>2. CASE i # id
        <4>1. rows'[i] = rows[i] /\ rows[i] # NoRow
          BY <2>1, <2>6, <3>2 DEF Alone
        <4>2. Alone(i) /\ f \in Files[rows[i].pkg]
          BY <2>6, <4>1, AloneBefore
        <4>3. /\ server[f] = Nothing \/ Sound(server[f], f, rows[i].pkg)
              /\ aside[i][f] = Nothing \/ Sound(aside[i][f], f, rows[i].pkg)
              /\ server[f] # Nothing \/ aside[i][f] # Nothing
              /\ f \in Paths /\ f \notin Files[p]
          BY <1>3, <4>1, <4>2, AlonePaths DEF Recorded
        <4>4. i \in settled => IF rows[i].enabled
                               THEN Sound(server[f], f, rows[i].pkg) /\ aside[i][f] = Nothing
                               ELSE Sound(aside[i][f], f, rows[i].pkg) /\ server[f] = Nothing
          BY <4>2 DEF Isolated, Spared
        <4>5. server'[f] = server[f] /\ aside'[i] = aside[i] /\ (i \in settled' => i \in settled)
          BY <1>3, <2>2, <3>2, <4>3
        <4>6. QED
          BY <4>1, <4>3, <4>4, <4>5
      <3>3. QED
        BY <3>1, <3>2
    <2>7. QED
      BY <2>3, <2>4, <2>6, IsolatedKept DEF Sound
  <1>4. QED
    BY <1>1, <1>2, <1>3, InstallCases

LEMMA ToggleIsolated ==
    ASSUME PluginAssumption, TypeOK, Isolated, NEW id \in Ids, NEW on \in BOOLEAN,
           rows[id] # NoRow, Toggle(id, on), backups' = backups
    PROVE  Isolated'
  <1> DEFINE p == rows[id].pkg
  <1>1. PICK paths \in SUBSET Files[p] :
            /\ Move(id, on, paths)
            /\ \/ /\ rows' = [rows EXCEPT ![id].enabled = on]
                  /\ settled' = settled \cup {id}
               \/ rows' = rows /\ settled' = settled \ {id}
    BY DEF Toggle
  <1>2. /\ \A i \in Ids : rows'[i] # NoRow <=> rows[i] # NoRow
        /\ \A i \in Ids : rows[i] # NoRow => rows'[i].pkg = rows[i].pkg
        /\ \A i \in Ids \ {id} : rows'[i] = rows[i]
    <2>1. CASE rows' = rows
      BY <2>1
    <2>2. CASE rows' = [rows EXCEPT ![id].enabled = on]
      BY <2>2, RowFacts
    <2>3. QED
      BY <1>1, <2>1, <2>2
  <1>3. paths \subseteq Paths /\ p \notin {Nothing, Torn}
    BY <1>1, RowPaths
  <1>4. /\ \A i \in Ids \ {id} : aside'[i] = aside[i]
        /\ \A f \in Paths \ paths : server'[f] = server[f] /\ aside'[id][f] = aside[id][f]
        /\ \A f \in paths : /\ server'[f] \in {Nothing, server[f], aside[id][f]}
                            /\ aside'[id][f] \in {Nothing, server[f], aside[id][f]}
    BY <1>1, MoveFacts
  <1>5. Placed'
    <2>1. ASSUME NEW f \in Paths
          PROVE  /\ server'[f] \in Packages => f \in Files[server'[f]]
                 /\ \A b \in backups : b[f] \in Packages => f \in Files[b[f]]
                 /\ \A i \in Ids : aside'[i][f] # Nothing =>
                       /\ aside'[i][f] \in Packages => f \in Files[aside'[i][f]]
                       /\ rows'[i] # NoRow /\ f \in Files[rows'[i].pkg]
      <3>1. Nothing \notin Packages
        BY DEF PluginAssumption
      <3>2. /\ server[f] \in Packages => f \in Files[server[f]]
            /\ \A b \in backups : b[f] \in Packages => f \in Files[b[f]]
            /\ \A i \in Ids : aside[i][f] # Nothing =>
                  /\ aside[i][f] \in Packages => f \in Files[aside[i][f]]
                  /\ rows[i] # NoRow /\ f \in Files[rows[i].pkg]
        BY <2>1 DEF Isolated, Placed
      <3>3. server'[f] \in Packages => f \in Files[server'[f]]
        BY <1>4, <3>1, <3>2, <2>1
      <3>4. ASSUME NEW i \in Ids, aside'[i][f] # Nothing
            PROVE  /\ aside'[i][f] \in Packages => f \in Files[aside'[i][f]]
                   /\ rows'[i] # NoRow /\ f \in Files[rows'[i].pkg]
        <4>1. CASE i # id
          BY <1>2, <1>4, <3>2, <3>4, <4>1
        <4>2. CASE i = id /\ f \notin paths
          BY <1>2, <1>4, <2>1, <3>2, <3>4, <4>2
        <4>3. CASE i = id /\ f \in paths
          BY <1>1, <1>2, <1>4, <3>1, <3>2, <3>4, <4>3
        <4>4. QED
          BY <4>1, <4>2, <4>3
      <3>5. QED
        BY <3>2, <3>3, <3>4
    <2>2. QED
      BY <2>1 DEF Placed
  <1>6. Single'
    BY <1>2 DEF Isolated, Single
  <1>7. ASSUME NEW i \in Ids, Alone(i)', NEW f \in Files[rows'[i].pkg]
        PROVE  /\ server'[f] = Nothing \/ Sound(server'[f], f, rows'[i].pkg)
               /\ aside'[i][f] = Nothing \/ Sound(aside'[i][f], f, rows'[i].pkg)
               /\ server'[f] # Nothing \/ aside'[i][f] # Nothing
               /\ i \in settled' =>
                     IF rows'[i].enabled
                     THEN Sound(server'[f], f, rows'[i].pkg) /\ aside'[i][f] = Nothing
                     ELSE Sound(aside'[i][f], f, rows'[i].pkg) /\ server'[f] = Nothing
    <2>1. Alone(i) /\ rows[i] # NoRow /\ rows'[i].pkg = rows[i].pkg
      <3>1. rows[i] # NoRow /\ rows'[i].pkg = rows[i].pkg
        BY <1>2, <1>7 DEF Alone
      <3>2. QED
        BY <1>7, <3>1, AloneBefore
    <2>2. \A g \in Files[rows[i].pkg] :
              /\ server[g] = Nothing \/ Sound(server[g], g, rows[i].pkg)
              /\ aside[i][g] = Nothing \/ Sound(aside[i][g], g, rows[i].pkg)
              /\ server[g] # Nothing \/ aside[i][g] # Nothing
              /\ g \in Paths
              /\ i # id => g \notin Files[p]
      BY <2>1, AlonePaths
    <2>3. CASE i = id
      BY <1>7, <2>1, <2>2, <2>3, MoveOwn
    <2>4. CASE i # id
      <3>1. f \in Files[rows[i].pkg] /\ f \notin paths /\ f \in Paths
        BY <1>1, <1>7, <2>1, <2>2, <2>4
      <3>2. server'[f] = server[f] /\ aside'[i] = aside[i] /\ rows'[i] = rows[i]
        BY <1>2, <1>4, <2>4, <3>1
      <3>3. i \in settled' => i \in settled
        BY <1>1, <2>4
      <3>4. i \in settled => IF rows[i].enabled
                             THEN Sound(server[f], f, rows[i].pkg) /\ aside[i][f] = Nothing
                             ELSE Sound(aside[i][f], f, rows[i].pkg) /\ server[f] = Nothing
        BY <2>1, <3>1 DEF Isolated, Spared
      <3>5. QED
        BY <2>2, <3>1, <3>2, <3>3, <3>4
    <2>5. QED
      BY <2>3, <2>4
  <1>8. QED
    BY <1>5, <1>6, <1>7, IsolatedKept DEF Sound

LEMMA RestoreIsolated ==
    ASSUME PluginAssumption, TypeOK, Isolated, NEW b \in backups, Restore(b)
    PROVE  Isolated'
  <1>1. /\ UNCHANGED <<rows, aside, backups>> /\ settled' \subseteq settled
        /\ \A id \in settled' : rows[id].enabled \/ \A f \in Files[rows[id].pkg] : b[f] = Nothing
    BY DEF Restore
  <1>2. \A f \in Paths : server'[f] = server[f] \/ (b[f] # Nothing /\ server'[f] \in {Torn, b[f]})
    BY RestoreFacts
  <1>3. Placed'
    BY <1>1, <1>2 DEF Isolated, Placed, PluginAssumption
  <1>4. ASSUME NEW id \in Ids, Alone(id), NEW f \in Files[rows[id].pkg]
        PROVE  /\ server'[f] = server[f] \/ Sound(server'[f], f, rows[id].pkg)
               /\ b[f] = Nothing => server'[f] = server[f]
    BY <1>2, <1>4, AlonePaths DEF Sound
  <1>5. \A id \in settled' : Alone(id) => \A f \in Files[rows[id].pkg] :
            \/ server'[f] = server[f]
            \/ rows[id].enabled /\ Sound(server'[f], f, rows[id].pkg)
    BY <1>1, <1>4 DEF TypeOK
  <1>6. QED
    BY <1>1, <1>3, <1>4, <1>5, GrowIsolated

LEMMA BackupIsolated ==
    ASSUME PluginAssumption, TypeOK, Isolated, CreateBackup
    PROVE  Isolated'
  <1>1. PICK b \in Tree : /\ backups' = backups \cup {b}
                          /\ \A f \in Paths : b[f] \in {Nothing, Torn, server[f]}
    BY BackupFacts
  <1>2. UNCHANGED <<rows, server, aside, settled>>
    BY DEF CreateBackup, files
  <1>3. \A x, f, p : Sound(x, f, p) =>
            x = p \/ (x = Torn /\ \E c \in backups' : c[f] \in {p, Torn})
    BY <1>1 DEF Sound
  <1>4. Placed'
    BY <1>1, <1>2 DEF Isolated, Placed, PluginAssumption
  <1>5. Single'
    BY <1>2 DEF Isolated, Single
  <1>6. Unhurt'
    BY <1>2, <1>3 DEF Isolated, Unhurt, Alone, Exclusive, Sound
  <1>7. \A id \in Ids : Alone(id)' <=> Alone(id)
    BY <1>2 DEF Alone, Exclusive
  <1>8. Spared'
    <2>1. SUFFICES ASSUME NEW id \in Ids, Alone(id), NEW f \in Files[rows[id].pkg]
          PROVE  /\ \/ Sound(server[f], f, rows[id].pkg)'
                    \/ Sound(aside[id][f], f, rows[id].pkg)'
                 /\ id \in settled =>
                      IF rows[id].enabled
                      THEN Sound(server[f], f, rows[id].pkg)' /\ aside[id][f] = Nothing
                      ELSE Sound(aside[id][f], f, rows[id].pkg)' /\ server[f] = Nothing
      BY <1>2, <1>7 DEF Spared
    <2>2. /\ Sound(server[f], f, rows[id].pkg) \/ Sound(aside[id][f], f, rows[id].pkg)
          /\ id \in settled =>
                IF rows[id].enabled
                THEN Sound(server[f], f, rows[id].pkg) /\ aside[id][f] = Nothing
                ELSE Sound(aside[id][f], f, rows[id].pkg) /\ server[f] = Nothing
      BY <2>1 DEF Isolated, Spared
    <2>3. /\ Sound(server[f], f, rows[id].pkg) => Sound(server[f], f, rows[id].pkg)'
          /\ Sound(aside[id][f], f, rows[id].pkg) => Sound(aside[id][f], f, rows[id].pkg)'
      BY <1>2, <1>3 DEF Sound
    <2>4. QED
      BY <2>2, <2>3
  <1>9. QED
    BY <1>4, <1>5, <1>6, <1>8 DEF Isolated

LEMMA IsolatedStep ==
    ASSUME PluginAssumption, "again" \notin Faults, TypeOK, Isolated, [Next]_vars
    PROVE  Isolated'
  <1>1. CASE UNCHANGED <<rows, server, aside, backups, settled>>
    BY <1>1 DEF Isolated, Placed, Single, Unhurt, Spared, Alone, Exclusive, Sound
  <1>2. ASSUME NEW w \in Procs, Request(w)
        PROVE  Isolated'
    BY <1>1, <1>2, CopyIsolated
       DEF Request, Download, Downloaded, RunInstall, LookForMetamod,
           LookForCounterStrikeSharp, Obtain, AddBridge, files
  <1>3. ASSUME NEW p \in Packages, InstallLocal(p)
        PROVE  Isolated'
    BY <1>3, CopyIsolated DEF InstallLocal
  <1>4. ASSUME NEW id \in Ids, NEW on \in BOOLEAN, SetEnabled(id, on)
        PROVE  Isolated'
    BY <1>4, ToggleIsolated DEF SetEnabled
  <1>5. CASE CreateBackup
    BY <1>5, BackupIsolated
  <1>6. ASSUME NEW b \in backups, Restore(b)
        PROVE  Isolated'
    BY <1>6, RestoreIsolated
  <1>7. CASE Validate \/ Crash \/ UNCHANGED vars
    BY <1>1, <1>7 DEF Validate, Crash, vars, files
  <1>8. QED
    BY <1>2, <1>3, <1>4, <1>5, <1>6, <1>7 DEF Next

\* Whatever other packages have paths in common, and wherever a step stops: as
\* long as no package is installed again while it is recorded, a plugin that
\* shares no path with another package loses no file and what was answered of
\* it is so, as KeepsFiles and Settled say it.
THEOREM BystandersAreSpared ==
    ASSUME PluginAssumption, "again" \notin Faults
    PROVE  Spec => []SparedInv
  <1>1. Init => TypeOK /\ Isolated
    BY InitType DEF Init, Empty, Isolated, Placed, Single, Unhurt, Spared, Alone, PluginAssumption
  <1>2. TypeOK /\ Isolated /\ [Next]_vars => (TypeOK /\ Isolated)'
    BY TypeStep, IsolatedStep
  <1>3. TypeOK /\ Isolated => SparedInv
    BY DEF SparedInv, Isolated
  <1>4. QED
    BY <1>1, <1>2, <1>3, PTL DEF Spec
=============================================================================
