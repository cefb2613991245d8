------------------------------ MODULE MCPlugins ------------------------------
\* Three packages: MetaMod, and two versions of a plugin that share a path.
EXTENDS Plugins, TLC

CONSTANTS mm, v1, v2, lib, bin, dll

SomeFiles == mm :> {bin} @@ v1 :> {lib, dll} @@ v2 :> {lib}
SomeKinds == mm :> "metamod" @@ v1 :> "other" @@ v2 :> "other"

\* CounterStrikeSharp and the bridge, built for it, as prerequisites.
AllKinds == mm :> "metamod" @@ v1 :> "counterstrikesharp" @@ v2 :> "bridge"

\* Neither rows nor requests are told apart.
Alike == Permutations(Ids) \cup Permutations(Procs)
=============================================================================
