----------------------------- MODULE LoginWindow -----------------------------
(***************************************************************************)
(* What the login limiter promises: within a window of time a key fails at *)
(* most Limit times, refused attempts do not count, a success starts anew, *)
(* and failures are forgotten otherwise only when the panel restarts or    *)
(* when MaxKeys other keys have failed, too.                               *)
(***************************************************************************)
EXTENDS Naturals, Sequences, FiniteSets

CONSTANTS
    Keys,       \* a client's host and the user name it gives
    Limit,      \* failures after which a key is refused
    Window,     \* the age at which a failure stops counting
    MaxKeys     \* keys that are remembered

VARIABLE
    recent      \* recent[k]: the ages of k's failures, oldest first

NoneFailed == [k \in Keys |-> <<>>]

Init == recent = NoneFailed

Failed == {k \in Keys : recent[k] # <<>>}

\* A failure counts; a key of which none is remembered may take the place of
\* another when there is no room.
Fail(k) ==
    /\ Len(recent[k]) < Limit
    /\ \E forgotten \in SUBSET (Keys \ {k}) :
        /\ forgotten # {} =>
              /\ recent[k] = <<>>
              /\ \E v \in Failed : forgotten = {v} /\ Cardinality(Failed) >= MaxKeys
        /\ recent' = [j \in Keys |->
              IF j = k THEN Append(recent[k], 0)
              ELSE IF j \in forgotten THEN <<>> ELSE recent[j]]

Succeed(k) ==
    /\ Len(recent[k]) < Limit
    /\ recent' = [recent EXCEPT ![k] = <<>>]

\* A unit of time: every failure is older, and those of the window's age go.
Tick ==
    /\ recent' \in [Keys -> Seq(0..Window)]
    /\ \A k \in Keys :
        LET n == Len(recent[k]) - Len(recent'[k]) IN
        /\ n >= 0
        /\ \A i \in 1..n : recent[k][i] + 1 >= Window
        /\ \A i \in DOMAIN recent'[k] :
            /\ recent'[k][i] = recent[k][n + i] + 1
            /\ recent'[k][i] < Window

Restart == recent' = NoneFailed

Next ==
    \/ \E k \in Keys : Fail(k) \/ Succeed(k)
    \/ Tick
    \/ Restart

Spec == Init /\ [][Next]_recent
=============================================================================
