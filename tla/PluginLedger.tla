----------------------------- MODULE PluginLedger -----------------------------
(***************************************************************************)
(* What the panel promises about the files of the plugins it has recorded, *)
(* as long as no two of them have a path in common: they only ever go from *)
(* the server to the plugin's own directory and back, those of one plugin  *)
(* at a time, and the row says enabled or disabled when all of them are    *)
(* where that puts them.  A backup may bring files back to the server, and *)
(* writing it over them may tear them; nothing else does.                  *)
(***************************************************************************)
CONSTANTS
    Ids,        \* ids of rows
    Packages,   \* what can be installed
    Files,      \* Files[p]: the paths of a package
    Nothing     \* no package

VARIABLES
    pkg,        \* what a row records, Nothing before
    enabled,    \* what it says of it
    here,       \* the plugin's files that are in the server directory
    away,       \* those that are set aside
    torn        \* those of which there is a torn copy

vars == <<pkg, enabled, here, away, torn>>

Init ==
    /\ pkg = [id \in Ids |-> Nothing]
    /\ enabled = [id \in Ids |-> FALSE]
    /\ here = [id \in Ids |-> {}]
    /\ away = [id \in Ids |-> {}]
    /\ torn = [id \in Ids |-> {}]

Install(id, p) ==
    /\ pkg[id] = Nothing
    /\ \A i \in Ids : pkg[i] # Nothing => Files[pkg[i]] \cap Files[p] = {}
    /\ pkg' = [pkg EXCEPT ![id] = p]
    /\ enabled' = [enabled EXCEPT ![id] = TRUE]
    /\ here' = [here EXCEPT ![id] = Files[p]]
    /\ UNCHANGED <<away, torn>>

\* Some of its files, or all of them: only then the row may say so.  A torn
\* copy goes when another is moved over it.
Moved(id, on, paths) ==
    /\ pkg[id] # Nothing
    /\ \/ UNCHANGED enabled
       \/ paths = Files[pkg[id]] /\ enabled' = [enabled EXCEPT ![id] = on]
    /\ \E left \in SUBSET (torn[id] \cap here[id] \cap away[id] \cap paths) :
          torn' = [torn EXCEPT ![id] = @ \ left]
    /\ UNCHANGED pkg

Enable(id, paths) ==
    /\ Moved(id, TRUE, paths)
    /\ here' = [here EXCEPT ![id] = @ \cup paths]
    /\ away' = [away EXCEPT ![id] = @ \ paths]

Disable(id, paths) ==
    /\ Moved(id, FALSE, paths)
    /\ here' = [here EXCEPT ![id] = @ \ paths]
    /\ away' = [away EXCEPT ![id] = @ \cup paths]

Own(id) == IF pkg[id] = Nothing THEN {} ELSE Files[pkg[id]]

Places == [Ids -> SUBSET UNION {Files[p] : p \in Packages}]

\* A torn copy is in the server directory, or it was there before and is aside.
Restore ==
    /\ UNCHANGED <<pkg, enabled, away>>
    /\ here' \in Places /\ torn' \in Places
    /\ \A id \in Ids :
        /\ here[id] \subseteq here'[id] /\ here'[id] \subseteq Own(id)
        /\ torn'[id] \subseteq torn[id] \cup here'[id]

Next ==
    \/ Restore
    \/ \E id \in Ids, p \in Packages : Install(id, p)
    \/ \E id \in Ids : \E paths \in SUBSET Own(id) : Enable(id, paths) \/ Disable(id, paths)

Spec == Init /\ [][Next]_vars
=============================================================================
