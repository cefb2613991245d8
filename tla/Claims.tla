-------------------------------- MODULE Claims --------------------------------
(***************************************************************************)
(* What the panel promises about slugs, game ports and containers while    *)
(* nobody works on an instance twice at a time: a row claims a slug and a  *)
(* port that are free, in the database and on the host, and keeps them for *)
(* life; a container is only started for a row, in its slug and on its     *)
(* port; a row may go while its container is up.                           *)
(***************************************************************************)
EXTENDS Naturals

CONSTANTS
    Ids,        \* instances
    NoId,       \* no instance
    Slugs,      \* directories and container names
    Ports       \* game ports

VARIABLES
    slug, port, \* what an instance has claimed, 0 before
    held,       \* the instances that have a row
    live        \* the instance the container of a slug runs, NoId when it is down

vars == <<slug, port, held, live>>

Init ==
    /\ slug = [id \in Ids |-> 0]
    /\ port = [id \in Ids |-> 0]
    /\ held = {}
    /\ live = [s \in Slugs |-> NoId]

FreeSlug(s) == \A id \in held : slug[id] # s

FreePort(p) ==
    /\ \A id \in held : port[id] # p
    /\ \A s \in Slugs : live[s] # NoId => port[live[s]] # p

\* An instance is created once.
Claim(id, s, p) ==
    /\ slug[id] = 0
    /\ FreeSlug(s) /\ FreePort(p)
    /\ slug' = [slug EXCEPT ![id] = s]
    /\ port' = [port EXCEPT ![id] = p]
    /\ held' = held \cup {id}
    /\ UNCHANGED live

Release(id) ==
    /\ held' = held \ {id}
    /\ UNCHANGED <<slug, port, live>>

\* In place of the container that was there.
Run(id) ==
    /\ id \in held
    /\ live' = [live EXCEPT ![slug[id]] = id]
    /\ UNCHANGED <<slug, port, held>>

End(s) ==
    /\ live' = [live EXCEPT ![s] = NoId]
    /\ UNCHANGED <<slug, port, held>>

Next ==
    \/ \E id \in Ids, s \in Slugs, p \in Ports : Claim(id, s, p)
    \/ \E id \in Ids : Release(id) \/ Run(id)
    \/ \E s \in Slugs : End(s)

Spec == Init /\ [][Next]_vars
=============================================================================
