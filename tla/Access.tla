-------------------------------- MODULE Access --------------------------------
(***************************************************************************)
(* Who gets into the panel: the wizard that leads to the first             *)
(* administrator, accounts, browser sessions, and the limiter that counts  *)
(* failed logins in the memory of the process.                             *)
(*                                                                         *)
(* No handler here awaits anything: each is one step, unless the panel     *)
(* ends between two of its commits.  A failed login is modelled by its     *)
(* age, which stays at Window, where it no longer counts.                  *)
(***************************************************************************)
EXTENDS Naturals, Sequences, FiniteSets

CONSTANTS
    Names,      \* user names
    Keys,       \* what the limiter counts by
    Key,        \* Key[n]: the client's host and the name in lower case
    Limit,      \* LoginRateLimiter's limit
    Window,     \* its window_seconds
    MaxKeys,    \* its max_keys
    Tokens,     \* session tokens, in any number: a bound on logins
    Domains,    \* host names of the panel
    None,       \* no value
    Faults      \* what else may happen, a subset of FaultKinds

FaultKinds == {"restart", "half"}

ASSUME AccessAssumption ==
    /\ Key \in [Names -> Keys]
    /\ IsFiniteSet(Keys)
    /\ Limit \in Nat \ {0}
    /\ Window \in Nat \ {0}
    /\ MaxKeys \in Nat \ {0}
    /\ None \notin Names \cup Domains \cup {"local", "domain", "admin", "viewer"}
    /\ Faults \subseteq FaultKinds

\* "ip" is stored as "local" is, and an operator may do what a viewer may here.
Modes == {"local", "domain"}
Roles == {"admin", "viewer"}
Choice == [mode : Modes \cup {None}, domain : Domains \cup {None}]

VARIABLES
    failures,   \* LoginRateLimiter._failures, <<>> for keys it does not have
    before,     \* the order of its keys: <<j, k>> when j was inserted first
    users,      \* the role of a user, None when there is none
    holder,     \* the user of a row of sessions, None when there is none
    expired,    \* the rows whose expires_at is over
    issued,     \* tokens that were given out
    chosen,     \* setup_settings: language and webui_port are there
    access,     \* setup_settings: access_mode and access_domain
    answered    \* history: the last answered choice, None after one cut short

limiter == <<failures, before>>
accounts == <<users, holder, expired, issued>>
setup == <<chosen, access, answered>>
vars == <<limiter, accounts, setup>>

TypeOK ==
    /\ failures \in [Keys -> Seq(0..Window)]
    /\ \A k \in Keys : Len(failures[k]) <= Limit
    /\ before \subseteq Keys \X Keys
    /\ users \in [Names -> Roles \cup {None}]
    /\ holder \in [Tokens -> Names \cup {None}]
    /\ \A t \in expired : holder[t] # None
    /\ issued \subseteq Tokens
    /\ \A t \in Tokens : holder[t] # None => t \in issued /\ users[holder[t]] # None
    /\ chosen \subseteq {"language", "webui_port"}
    /\ access \in Choice
    /\ answered \in Choice \cup {None}

NoFailures == [k \in Keys |-> <<>>]
NoChoice == [mode |-> None, domain |-> None]

Init ==
    /\ failures = NoFailures
    /\ before = {}
    /\ users = [n \in Names |-> None]
    /\ holder = [t \in Tokens |-> None]
    /\ expired = {}
    /\ issued = {}
    /\ chosen = {}
    /\ access = NoChoice
    /\ answered = NoChoice

-----------------------------------------------------------------------------
\* LoginRateLimiter.

\* The entries of a deque up to the first that is inside the window go.
Expired(s) ==
    CHOOSE n \in 0..Len(s) :
        /\ \A i \in 1..n : s[i] >= Window
        /\ n < Len(s) => s[n + 1] < Window
Discard(s) == SubSeq(s, Expired(s) + 1, Len(s))

Tracked(f) == {k \in Keys : f[k] # <<>>}
Only(keys) == before \cap (keys \X keys)

Allows(k) == Len(Discard(failures[k])) < Limit

\* Mutant: a refused attempt counts, too.
RefuseCounted(k) ==
    /\ ~Allows(k)
    /\ failures' = [failures EXCEPT ![k] = SubSeq(Append(Discard(@), 0), 2, Limit + 1)]
    /\ UNCHANGED before

\* allows discards what is expired of the key it is asked for.
Refuse(k) ==
    /\ ~Allows(k)
    /\ failures' = [failures EXCEPT ![k] = Discard(@)]
    /\ UNCHANGED before

Survivors == Tracked([k \in Keys |-> Discard(failures[k])])
First(k) == k \in Survivors /\ ~\E j \in Survivors : <<j, k>> \in before

Store(k, kept, deque) ==
    /\ failures' = [j \in Keys |->
          IF j = k THEN Append(deque, 0)
          ELSE IF j \in kept THEN Discard(failures[j]) ELSE <<>>]
    /\ before' = Only(kept) \cup IF k \in kept THEN {} ELSE kept \X {k}

\* Mutants: expired entries stay; one key more than there is room for; a known
\* key needs room, too.
RecordStale(k) ==
    LET full == k \notin Survivors /\ Cardinality(Survivors) >= MaxKeys IN
    \E kept \in SUBSET Survivors :
        /\ IF full THEN \E j \in Survivors : First(j) /\ kept = Survivors \ {j}
           ELSE kept = Survivors
        /\ Store(k, kept, failures[k])
RecordOneMore(k) ==
    LET full == k \notin Survivors /\ Cardinality(Survivors) > MaxKeys IN
    \E kept \in SUBSET Survivors :
        /\ IF full THEN \E j \in Survivors : First(j) /\ kept = Survivors \ {j}
           ELSE kept = Survivors
        /\ Store(k, kept, Discard(failures[k]))
RecordAlways(k) ==
    LET full == Cardinality(Survivors) >= MaxKeys IN
    \E kept \in SUBSET Survivors :
        /\ IF full THEN \E j \in Survivors : First(j) /\ kept = Survivors \ {j}
           ELSE kept = Survivors
        /\ Store(k, kept, Discard(failures[k]))

\* Mutant: the key that was inserted last gives way.
RecordLast(k) ==
    LET full == k \notin Survivors /\ Cardinality(Survivors) >= MaxKeys IN
    \E kept \in SUBSET Survivors :
        /\ IF full
           THEN \E j \in Survivors :
                  (\A i \in Survivors : <<j, i>> \notin before) /\ kept = Survivors \ {j}
           ELSE kept = Survivors
        /\ Store(k, kept, Discard(failures[k]))

\* record_failure: keys with nothing left go first, and then the one that has
\* been there longest when there is no room for a new one.
Record(k) ==
    LET full == k \notin Survivors /\ Cardinality(Survivors) >= MaxKeys IN
    \E kept \in SUBSET Survivors :
        /\ IF full THEN \E j \in Survivors : First(j) /\ kept = Survivors \ {j}
           ELSE kept = Survivors
        /\ Store(k, kept, Discard(failures[k]))

Clear(k) ==
    /\ failures' = [failures EXCEPT ![k] = <<>>]
    /\ before' = Only(Keys \ {k})

Older(s) == [i \in DOMAIN s |-> IF s[i] < Window THEN s[i] + 1 ELSE Window]

Tick ==
    /\ failures' = [k \in Keys |-> Older(failures[k])]
    /\ UNCHANGED <<before, accounts, setup>>

-----------------------------------------------------------------------------
\* Sessions and accounts.

\* AuthStore.login of a user with the right password.
NewSession(n, t) ==
    /\ t \notin issued
    /\ holder' = [holder EXCEPT ![t] = n]
    /\ issued' = issued \cup {t}
    /\ UNCHANGED expired

LoginRefused(n) ==
    /\ Refuse(Key[n])
    /\ UNCHANGED <<accounts, setup>>

\* The user does not exist, or the password is another.
LoginFails(n) ==
    /\ Allows(Key[n])
    /\ Record(Key[n])
    /\ UNCHANGED <<accounts, setup>>

Login(n, t) ==
    /\ Allows(Key[n])
    /\ users[n] # None
    /\ Clear(Key[n])
    /\ NewSession(n, t)
    /\ UNCHANGED <<users, setup>>

Logout(t) ==
    /\ holder[t] # None
    /\ holder' = [holder EXCEPT ![t] = None]
    /\ expired' = expired \ {t}
    /\ UNCHANGED <<limiter, users, issued, setup>>

\* Seven days are over; the row stays.
Expire(t) ==
    /\ holder[t] # None
    /\ expired' = expired \cup {t}
    /\ UNCHANGED <<limiter, users, holder, issued, setup>>

\* user_for_token and require_roles.
IsAdmin(t) == holder[t] # None /\ t \notin expired /\ users[holder[t]] = "admin"

\* A name that is taken is refused.
CreateUser(t, n, role) ==
    /\ IsAdmin(t)
    /\ users[n] = None
    /\ users' = [users EXCEPT ![n] = role]
    /\ UNCHANGED <<limiter, holder, expired, issued, setup>>

-----------------------------------------------------------------------------
\* The setup wizard: every request of it looks whether it is over.

Open == \A n \in Names : users[n] = None

\* language, and port when it is free.
Choose(what) ==
    /\ Open
    /\ chosen' = chosen \cup {what}
    /\ UNCHANGED <<limiter, accounts, access, answered>>

\* Mutant: a domain that is there is kept.
ChooseAccessOnce(mode, domain) ==
    /\ mode = "domain" => domain # None
    /\ access' = [mode |-> mode,
                  domain |-> IF access.domain = None THEN domain ELSE access.domain]
    /\ answered' = [mode |-> mode, domain |-> domain]

\* The mode is committed, then the domain if one is given.
ChooseAccess(mode, domain) ==
    /\ mode = "domain" => domain # None
    /\ \/ /\ access' = [mode |-> mode,
                        domain |-> IF domain = None THEN access.domain ELSE domain]
          /\ answered' = [mode |-> mode, domain |-> domain]
       \/ /\ "half" \in Faults
          /\ domain # None
          /\ access' = [access EXCEPT !.mode = mode]
          /\ answered' = None

SetAccess(mode, domain) ==
    /\ Open
    /\ ChooseAccess(mode, domain)
    /\ UNCHANGED <<limiter, accounts, chosen>>

\* Mutant: whether everything is chosen is left to the browser.
CompleteAnyway == access.mode # None

Complete == chosen = {"language", "webui_port"} /\ access.mode # None

\* create_admin, then the first session unless the panel ends in between.
CreateAdmin(n, t) ==
    /\ Open
    /\ Complete
    /\ users' = [users EXCEPT ![n] = "admin"]
    /\ \/ NewSession(n, t)
       \/ "half" \in Faults /\ UNCHANGED <<holder, expired, issued>>
    /\ UNCHANGED <<limiter, setup>>

\* Only the limiter is in memory.
Restart ==
    /\ "restart" \in Faults
    /\ failures' = NoFailures
    /\ before' = {}
    /\ UNCHANGED <<accounts, setup>>

Next ==
    \/ \E n \in Names : LoginRefused(n) \/ LoginFails(n)
    \/ \E n \in Names, t \in Tokens : Login(n, t) \/ CreateAdmin(n, t)
    \/ \E t \in Tokens : Logout(t) \/ Expire(t)
    \/ \E t \in Tokens, n \in Names, role \in Roles : CreateUser(t, n, role)
    \/ \E what \in {"language", "webui_port"} : Choose(what)
    \/ \E mode \in Modes, domain \in Domains \cup {None} : SetAccess(mode, domain)
    \/ Tick
    \/ Restart

Spec == Init /\ [][Next]_vars

\* Time passes, whatever else happens.
FairSpec == Spec /\ WF_vars(Tick)

-----------------------------------------------------------------------------
\* What counts of a deque is what is inside the window, whether the rest was
\* discarded or not.
Promise == INSTANCE LoginWindow
    WITH recent <- [k \in Keys |-> Discard(failures[k])]

\* Whatever is expired but still stored, and whichever key had to make room,
\* the limiter refuses after Limit failures in a window and only then, and
\* forgets none of them without cause (LoginRateLimiter with login).
LimiterContract == Promise!Spec

\* Failures that still count are forgotten only by a login of their key, by a
\* restart, or to make room when max_keys keys have such failures and another
\* one fails: then the key that has been in the dictionary longer than all of
\* these gives way, and it alone.  Nobody is let in again because somebody else
\* failed, logged in or was refused (record_failure, clear).
ForgottenInOrder ==
    [][\A k \in Survivors : failures'[k] = <<>> =>
        \/ \E n \in Names, t \in issued' \ issued : Key[n] = k /\ holder'[t] = n
        \/ failures' = NoFailures /\ UNCHANGED accounts
        \/ /\ Cardinality(Survivors) >= MaxKeys
           /\ \A j \in Survivors \ {k} : <<k, j>> \in before /\ failures'[j] # <<>>
           /\ \E j \in Keys \ Survivors : failures'[j] # <<>>]_vars

\* The memory of the limiter is bounded: it never tracks more than max_keys
\* keys (record_failure).
TrackedBounded == Cardinality(Tracked(failures)) <= MaxKeys

\* A key that is refused is allowed again after a while, however often it is
\* tried meanwhile (login records no failure for a refused attempt).
LockEnds == \A k \in Keys : ~Allows(k) ~> Allows(k)

\* The wizard cannot be over without an administrator, a language, a port and
\* an access mode, wherever the panel ended in it: nobody could do what is
\* missing any more (admin, create_admin).
SetupDone ==
    ~Open =>
        /\ chosen = {"language", "webui_port"}
        /\ access.mode # None
        /\ \E n \in Names : users[n] = "admin"

\* The access plan is about what the wizard last said it had stored.  One case
\* is not covered: the panel ends between the two commits of a request that
\* chooses a domain (api/setup.py:72-73).  Until a later request is answered the
\* mode is then with an earlier domain or none, and the wizard may be completed
\* like that (access, access_plan).
PlanAsAnswered ==
    answered # None =>
        /\ access.mode = answered.mode
        /\ access.mode = "domain" => access.domain = answered.domain /\ access.domain # None

\* With the types, what LimiterContract rests on: the ages of a deque go down,
\* so that what is behind an entry that counts counts, too.
Aged ==
    \A k \in Keys : \A i, j \in 1..Len(failures[k]) :
        i <= j => failures[k][i] >= failures[k][j]

\* The keys the limiter has are in a strict total order, whatever comes,
\* expires, is cleared and comes again.
Ordered ==
    /\ before \subseteq Tracked(failures) \X Tracked(failures)
    /\ \A i, j \in Tracked(failures) : <<i, j>> \in before <=> i # j /\ <<j, i>> \notin before
    /\ \A i, j, k \in Tracked(failures) :
          <<i, j>> \in before /\ <<j, k>> \in before => <<i, k>> \in before

\* Among the keys whose failures count there is one, and one only, that was
\* inserted before the others.
EvictionDecided ==
    Survivors # {} => \E k \in Survivors : First(k) /\ \A j \in Survivors : First(j) => j = k
=============================================================================
