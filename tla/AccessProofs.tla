----------------------------- MODULE AccessProofs -----------------------------
(***************************************************************************)
(* What the wizard and the login limiter keep, for any names, keys, limits *)
(* and windows: types, the end of the setup, the bound on what is tracked, *)
(* and that the limiter implements LoginWindow.                            *)
(***************************************************************************)
EXTENDS Access, FiniteSetTheorems, SequenceTheorems, WellFoundedInduction, TLAPS

Ages == 0..Window

-----------------------------------------------------------------------------
\* Deques of ages.

\* A set of numbers that is not empty has a least one.
LEMMA LeastNumber ==
    ASSUME NEW T, T \subseteq Nat, T # {}
    PROVE  \E n \in T : \A m \in T : n <= m
  <1>1. \A R : IsWellFoundedOn(R, Nat) => \E n \in T : \A m \in T : <<m, n>> \notin R
    BY WFMin
  <1>2. \E n \in T : \A m \in T : <<m, n>> \notin OpToRel(<, Nat)
    BY <1>1, NatLessThanWellFounded, Zenon
  <1>3. \A n, m \in Nat : m < n => <<m, n>> \in OpToRel(<, Nat)
    BY Zenon DEF OpToRel
  <1>4. \E n \in T : \A m \in T : ~(m < n)
    BY <1>2, <1>3, Zenon
  <1>5. QED
    BY <1>4

\* There is one place where the entries of a deque stop being expired.
LEMMA ExpiredFacts ==
    ASSUME AccessAssumption, NEW s \in Seq(Ages)
    PROVE  /\ Expired(s) \in 0..Len(s)
           /\ \A i \in 1..Expired(s) : s[i] >= Window
           /\ Expired(s) < Len(s) => s[Expired(s) + 1] < Window
  <1> DEFINE Place(n) == /\ \A i \in 1..n : s[i] >= Window
                         /\ n < Len(s) => s[n + 1] < Window
             T == {n \in 0..Len(s) : n < Len(s) => s[n + 1] < Window}
  <1>1. Len(s) \in Nat /\ \A i \in 1..Len(s) : s[i] \in 0..Window /\ s[i] \in Nat
    BY DEF Ages, AccessAssumption
  <1>2. Window \in Nat
    BY DEF AccessAssumption
  <1>3. T \subseteq Nat /\ Len(s) \in T
    BY <1>1
  <1>4. PICK n \in T : \A m \in T : n <= m
    BY <1>3, LeastNumber
  <1>5. n \in 0..Len(s) /\ (n < Len(s) => s[n + 1] < Window)
    BY <1>4
  <1>6. ASSUME NEW i \in 1..n
        PROVE  s[i] >= Window
    <2>1. i - 1 \in 0..Len(s) /\ i - 1 < Len(s) /\ ~(n <= i - 1) /\ (i - 1) + 1 = i
      BY <1>1, <1>5, <1>6
    <2>2. i - 1 \notin T
      BY <1>4, <2>1
    <2>3. QED
      BY <1>1, <1>2, <1>5, <2>1, <2>2
  <1>7. \E m \in 0..Len(s) : Place(m)
    BY <1>5, <1>6
  <1>8. (CHOOSE m \in 0..Len(s) : Place(m)) \in 0..Len(s)
        /\ Place(CHOOSE m \in 0..Len(s) : Place(m))
    <2> HIDE DEF Place
    <2>1. QED
      BY <1>7
  <1>9. QED
    BY <1>8 DEF Expired

LEMMA ExpiredIs ==
    ASSUME AccessAssumption, NEW s \in Seq(Ages), NEW n \in 0..Len(s),
           \A i \in 1..n : s[i] >= Window,
           n < Len(s) => s[n + 1] < Window
    PROVE  Expired(s) = n
  <1>1. /\ Len(s) \in Nat /\ Window \in Nat
        /\ \A i \in 1..Len(s) : s[i] \in Nat
    BY DEF Ages, AccessAssumption
  <1>2. /\ Expired(s) \in 0..Len(s)
        /\ \A i \in 1..Expired(s) : s[i] >= Window
        /\ Expired(s) < Len(s) => s[Expired(s) + 1] < Window
    BY ExpiredFacts
  <1>3. ~(Expired(s) < n)
    BY <1>1, <1>2
  <1>4. ~(n < Expired(s))
    BY <1>1, <1>2
  <1>5. QED
    BY <1>1, <1>2, <1>3, <1>4

\* What is left of a deque.
LEMMA DiscardFacts ==
    ASSUME AccessAssumption, NEW s \in Seq(Ages)
    PROVE  /\ Discard(s) \in Seq(Ages)
           /\ Len(Discard(s)) = Len(s) - Expired(s)
           /\ \A i \in 1..Len(Discard(s)) : Discard(s)[i] = s[Expired(s) + i]
           /\ Discard(s) # <<>> => Discard(s)[1] < Window
  <1> DEFINE e == Expired(s)
  <1>1. /\ e \in 0..Len(s) /\ Len(s) \in Nat
        /\ e < Len(s) => s[e + 1] < Window
    BY ExpiredFacts
  <1> HIDE DEF e
  <1>2. /\ e + 1 \in Int /\ Len(s) \in Int
        /\ \A i \in (e + 1)..Len(s) : s[i] \in Ages
    BY <1>1
  <1>3. /\ SubSeq(s, e + 1, Len(s)) \in Seq(Ages)
        /\ Len(SubSeq(s, e + 1, Len(s))) = Len(s) - e
        /\ \A i \in 1..(Len(s) - e) : SubSeq(s, e + 1, Len(s))[i] = s[e + i]
    <2>1. /\ SubSeq(s, e + 1, Len(s)) \in Seq(Ages)
          /\ Len(SubSeq(s, e + 1, Len(s))) =
                 IF e + 1 <= Len(s) THEN Len(s) - (e + 1) + 1 ELSE 0
          /\ \A i \in 1..(Len(s) - (e + 1) + 1) :
                 SubSeq(s, e + 1, Len(s))[i] = s[(e + 1) + i - 1]
      BY <1>2, SubSeqProperties
    <2>2. QED
      BY <1>1, <2>1
  <1>4. Discard(s) = SubSeq(s, e + 1, Len(s))
    BY DEF Discard, e
  <1>5. Discard(s) # <<>> => Len(s) - e >= 1
    BY <1>1, <1>3, <1>4
  <1>6. Discard(s) # <<>> => Discard(s)[1] < Window
    BY <1>1, <1>3, <1>4, <1>5
  <1>7. QED
    BY <1>3, <1>4, <1>6 DEF e

\* Nothing goes of a deque whose first entry counts.
LEMMA DiscardNone ==
    ASSUME AccessAssumption, NEW s \in Seq(Ages), s # <<>> => s[1] < Window
    PROVE  Discard(s) = s
  <1>1. 0 \in 0..Len(s) /\ Len(s) \in Nat /\ (0 < Len(s) => s # <<>>)
    OBVIOUS
  <1>2. Expired(s) = 0
    BY <1>1, ExpiredIs
  <1>3. /\ Discard(s) \in Seq(Ages) /\ Len(Discard(s)) = Len(s)
        /\ \A i \in 1..Len(s) : Discard(s)[i] = s[i]
    BY <1>1, <1>2, DiscardFacts
  <1>4. QED
    BY <1>3

LEMMA DiscardEmpty == ASSUME AccessAssumption PROVE Discard(<<>>) = <<>>
  <1>1. <<>> \in Seq(Ages)
    OBVIOUS
  <1>2. QED
    BY <1>1, DiscardNone

LEMMA DiscardTwice ==
    ASSUME AccessAssumption, NEW s \in Seq(Ages)
    PROVE  Discard(Discard(s)) = Discard(s)
  BY DiscardFacts, DiscardNone

\* A failure is counted behind what is left.
LEMMA DiscardAppend ==
    ASSUME AccessAssumption, NEW s \in Seq(Ages)
    PROVE  /\ Append(Discard(s), 0) \in Seq(Ages)
           /\ Discard(Append(Discard(s), 0)) = Append(Discard(s), 0)
  <1> DEFINE t == Discard(s)
  <1>1. /\ t \in Seq(Ages)
        /\ t # <<>> => t[1] < Window
    BY DiscardFacts
  <1>2. 0 \in Ages /\ 0 < Window
    BY DEF Ages, AccessAssumption
  <1> HIDE DEF t
  <1>3. Append(t, 0) \in Seq(Ages)
    BY <1>1, <1>2
  <1>4. Append(t, 0)[1] < Window
    BY <1>1, <1>2
  <1>5. Append(t, 0) \in Seq(Ages) /\ Discard(Append(t, 0)) = Append(t, 0)
    BY <1>3, <1>4, DiscardNone
  <1>6. QED
    BY <1>5 DEF t

LEMMA OlderFacts ==
    ASSUME AccessAssumption, NEW s \in Seq(Ages)
    PROVE  /\ Older(s) \in Seq(Ages)
           /\ Len(Older(s)) = Len(s)
           /\ \A i \in 1..Len(s) : Older(s)[i] = IF s[i] < Window THEN s[i] + 1 ELSE Window
  <1>1. Window \in Nat
    BY DEF AccessAssumption
  <1>2. DOMAIN s = 1..Len(s) /\ \A i \in 1..Len(s) : s[i] \in 0..Window
    BY DEF Ages
  <1>3. \A i \in 1..Len(s) : (IF s[i] < Window THEN s[i] + 1 ELSE Window) \in 0..Window
    BY <1>1, <1>2
  <1>4. QED
    BY <1>2, <1>3 DEF Older, Ages

-----------------------------------------------------------------------------
\* What the limiter does to its deques.

Deques == failures \in [Keys -> Seq(Ages)] /\ \A k \in Keys : Len(failures[k]) <= Limit

LEMMA SurvivorFacts ==
    ASSUME AccessAssumption
    PROVE  /\ Survivors = {j \in Keys : Discard(failures[j]) # <<>>}
           /\ Survivors \subseteq Keys
  BY DEF Survivors, Tracked

LEMMA RefuseFacts ==
    ASSUME AccessAssumption, Deques, NEW k \in Keys, Refuse(k)
    PROVE  /\ failures' \in [Keys -> Seq(Ages)]
           /\ failures'[k] = Discard(failures[k])
           /\ \A j \in Keys \ {k} : failures'[j] = failures[j]
  <1>1. failures[k] \in Seq(Ages)
    BY DEF Deques
  <1>2. Discard(failures[k]) \in Seq(Ages)
    BY <1>1, DiscardFacts
  <1>3. QED
    BY <1>2 DEF Refuse, Deques

\* What Record leaves when it keeps the keys of kept.
Recorded(k, kept) ==
    /\ \/ kept = Survivors
       \/ /\ k \notin Survivors /\ Cardinality(Survivors) >= MaxKeys
          /\ \E j \in Survivors : kept = Survivors \ {j}
    /\ k \in Survivors \/ kept # Survivors \/ ~(Cardinality(Survivors) >= MaxKeys)
    /\ failures' \in [Keys -> Seq(Ages)]
    /\ failures'[k] = Append(Discard(failures[k]), 0)
    /\ \A j \in Keys \ {k} :
          failures'[j] = IF j \in kept THEN Discard(failures[j]) ELSE <<>>
    /\ before' \subseteq Keys \X Keys

LEMMA RecordFacts ==
    ASSUME AccessAssumption, Deques, NEW k \in Keys, Record(k)
    PROVE  \E kept \in SUBSET Survivors : Recorded(k, kept)
  <1>1. PICK kept \in SUBSET Survivors :
            /\ \/ kept = Survivors
               \/ /\ k \notin Survivors /\ Cardinality(Survivors) >= MaxKeys
                  /\ \E j \in Survivors : kept = Survivors \ {j}
            /\ k \in Survivors \/ kept # Survivors \/ ~(Cardinality(Survivors) >= MaxKeys)
            /\ Store(k, kept, Discard(failures[k]))
    BY DEF Record
  <1>2. ASSUME NEW j \in Keys
        PROVE  Discard(failures[j]) \in Seq(Ages) /\ Append(Discard(failures[j]), 0) \in Seq(Ages)
    <2>1. failures[j] \in Seq(Ages)
      BY DEF Deques
    <2>2. QED
      BY <2>1, DiscardFacts, DiscardAppend
  <1>3. /\ failures' = [j \in Keys |->
               IF j = k THEN Append(Discard(failures[k]), 0)
               ELSE IF j \in kept THEN Discard(failures[j]) ELSE <<>>]
        /\ before' = Only(kept) \cup IF k \in kept THEN {} ELSE kept \X {k}
    BY <1>1 DEF Store
  <1>4. failures' \in [Keys -> Seq(Ages)]
    <2>1. <<>> \in Seq(Ages)
      OBVIOUS
    <2>2. \A j \in Keys : (IF j = k THEN Append(Discard(failures[k]), 0)
                 ELSE IF j \in kept THEN Discard(failures[j]) ELSE <<>>) \in Seq(Ages)
      BY <1>2, <2>1
    <2>3. QED
      BY <1>3, <2>2
  <1>5. before' \subseteq Keys \X Keys
    <2>1. kept \subseteq Keys
      BY SurvivorFacts
    <2>2. kept \X {k} \subseteq Keys \X Keys /\ Only(kept) \subseteq Keys \X Keys
      BY <2>1 DEF Only
    <2>3. QED
      BY <1>3, <2>2
  <1>6. QED
    BY <1>1, <1>3, <1>4, <1>5 DEF Recorded

LEMMA DequesInit == ASSUME AccessAssumption, Init PROVE Deques
  BY DEF AccessAssumption, Init, NoFailures, Deques

\* The steps that touch the limiter, and those that do not.
LEMMA LimiterCases ==
    ASSUME [Next]_vars
    PROVE  \/ UNCHANGED limiter
           \/ \E n \in Names : Refuse(Key[n]) /\ UNCHANGED <<accounts, setup>>
           \/ \E n \in Names :
                 Allows(Key[n]) /\ Record(Key[n]) /\ UNCHANGED <<accounts, setup>>
           \/ \E n \in Names : Allows(Key[n]) /\ Clear(Key[n])
           \/ Tick
           \/ Restart
  <1>1. ASSUME NEW n \in Names, NEW t \in Tokens, Login(n, t) \/ CreateAdmin(n, t)
        PROVE  UNCHANGED limiter \/ (Allows(Key[n]) /\ Clear(Key[n]))
    BY <1>1 DEF Login, CreateAdmin, limiter, setup
  <1>2. ASSUME NEW t \in Tokens, Logout(t) \/ Expire(t)
        PROVE  UNCHANGED limiter
    BY <1>2 DEF Logout, Expire, limiter
  <1>3. ASSUME NEW t, NEW n, NEW role, CreateUser(t, n, role)
        PROVE  UNCHANGED limiter
    BY <1>3 DEF CreateUser, limiter
  <1>4. ASSUME NEW what, Choose(what)
        PROVE  UNCHANGED limiter
    BY <1>4 DEF Choose, limiter
  <1>5. ASSUME NEW mode, NEW domain, SetAccess(mode, domain)
        PROVE  UNCHANGED limiter
    BY <1>5 DEF SetAccess, limiter
  <1>6. CASE UNCHANGED vars
    BY <1>6 DEF vars
  <1>7. QED
    BY <1>1, <1>2, <1>3, <1>4, <1>5, <1>6 DEF Next, LoginRefused, LoginFails

LEMMA DequesStep ==
    ASSUME AccessAssumption, Deques, [Next]_vars
    PROVE  Deques'
  <1>1. CASE UNCHANGED limiter
    BY <1>1 DEF limiter, Deques
  <1>2. ASSUME NEW k \in Keys
        PROVE  /\ failures[k] \in Seq(Ages)
               /\ Len(Discard(failures[k])) \in Nat /\ Len(failures[k]) \in Nat
               /\ Len(Discard(failures[k])) <= Len(failures[k])
               /\ Len(failures[k]) <= Limit /\ Limit \in Nat
    <2>1. failures[k] \in Seq(Ages) /\ Len(failures[k]) <= Limit /\ Limit \in Nat
      BY DEF Deques, AccessAssumption
    <2>2. Expired(failures[k]) \in 0..Len(failures[k]) /\ Len(failures[k]) \in Nat
      BY <2>1, ExpiredFacts
    <2>3. Len(Discard(failures[k])) = Len(failures[k]) - Expired(failures[k])
      BY <2>1, DiscardFacts
    <2>4. QED
      BY <2>1, <2>2, <2>3
  <1>3. ASSUME NEW k \in Keys, Refuse(k)
        PROVE  Deques'
    <2>1. /\ failures' \in [Keys -> Seq(Ages)]
          /\ failures'[k] = Discard(failures[k])
          /\ \A j \in Keys \ {k} : failures'[j] = failures[j]
      BY <1>3, RefuseFacts
    <2>2. ASSUME NEW j \in Keys
          PROVE  Len(failures'[j]) <= Limit
      <3>1. CASE j = k
        BY <1>2, <2>1, <3>1
      <3>2. CASE j # k
        BY <1>2, <2>1, <3>2
      <3>3. QED
        BY <3>1, <3>2
    <2>3. QED
      BY <2>1, <2>2 DEF Deques
  <1>4. ASSUME NEW k \in Keys, Allows(k), Record(k)
        PROVE  Deques'
    <2>0. PICK kept \in SUBSET Survivors : Recorded(k, kept)
      BY <1>4, RecordFacts
    <2>1. /\ failures' \in [Keys -> Seq(Ages)]
          /\ failures'[k] = Append(Discard(failures[k]), 0)
          /\ \A j \in Keys \ {k} :
                failures'[j] = IF j \in kept THEN Discard(failures[j]) ELSE <<>>
      BY <2>0 DEF Recorded
    <2>2. Len(failures'[k]) <= Limit
      <3>1. Discard(failures[k]) \in Seq(Ages)
        BY <1>2, DiscardFacts
      <3>2. Len(Append(Discard(failures[k]), 0)) = Len(Discard(failures[k])) + 1
        BY <3>1
      <3>3. Len(Discard(failures[k])) < Limit
        BY <1>4 DEF Allows
      <3>4. QED
        BY <1>2, <2>1, <3>2, <3>3
    <2>3. ASSUME NEW j \in Keys \ {k}
          PROVE  Len(failures'[j]) <= Limit
      <3>1. Len(<<>>) <= Limit
        BY <1>2
      <3>2. QED
        BY <1>2, <2>1, <3>1
    <2>4. QED
      BY <2>1, <2>2, <2>3 DEF Deques
  <1>5. ASSUME NEW k \in Keys, Clear(k)
        PROVE  Deques'
    <2>1. <<>> \in Seq(Ages) /\ Len(<<>>) <= Limit
      BY <1>2
    <2>2. QED
      BY <1>5, <2>1 DEF Clear, Deques
  <1>6. CASE Tick
    <2>1. failures' = [k \in Keys |-> Older(failures[k])]
      BY <1>6 DEF Tick
    <2>2. \A k \in Keys : /\ Older(failures[k]) \in Seq(Ages)
                          /\ Len(Older(failures[k])) = Len(failures[k])
      BY <1>2, OlderFacts
    <2>3. QED
      BY <1>2, <2>1, <2>2 DEF Deques
  <1>7. CASE Restart
    BY <1>7 DEF Restart, NoFailures, Deques, AccessAssumption
  <1>8. \A n \in Names : Key[n] \in Keys
    BY DEF AccessAssumption
  <1>9. QED
    BY <1>1, <1>3, <1>4, <1>5, <1>6, <1>7, <1>8, LimiterCases

-----------------------------------------------------------------------------
\* Types.

Accounts ==
    /\ users \in [Names -> Roles \cup {None}]
    /\ holder \in [Tokens -> Names \cup {None}]
    /\ \A t \in expired : holder[t] # None
    /\ issued \subseteq Tokens
    /\ \A t \in Tokens : holder[t] # None => t \in issued /\ users[holder[t]] # None

Answers ==
    /\ chosen \subseteq {"language", "webui_port"}
    /\ access \in Choice
    /\ answered \in Choice \cup {None}

LEMMA TypeParts == TypeOK <=> Deques /\ before \subseteq Keys \X Keys /\ Accounts /\ Answers
  BY DEF TypeOK, Deques, Ages, Accounts, Answers

LEMMA SessionStep ==
    ASSUME AccessAssumption, Accounts, NEW n \in Names, NEW t \in Tokens,
           NewSession(n, t), users' \in [Names -> Roles \cup {None}], users'[n] # None,
           \A m \in Names : users[m] # None => users'[m] # None
    PROVE  Accounts'
  <1>1. n # None
    BY DEF AccessAssumption
  <1>2. /\ holder' \in [Tokens -> Names \cup {None}]
        /\ holder'[t] = n
        /\ \A v \in Tokens \ {t} : holder'[v] = holder[v]
        /\ issued' = issued \cup {t} /\ expired' = expired
    BY DEF NewSession, Accounts
  <1>3. t \notin expired
    BY DEF NewSession, Accounts, AccessAssumption
  <1>4. \A v \in expired' : holder'[v] # None
    BY <1>1, <1>2, <1>3 DEF NewSession, Accounts
  <1>5. \A v \in Tokens : holder'[v] # None => v \in issued' /\ users'[holder'[v]] # None
    BY <1>2 DEF Accounts
  <1>6. QED
    BY <1>2, <1>4, <1>5 DEF Accounts

\* The steps that touch accounts and the wizard, and those that do not.
LEMMA AccountCases ==
    ASSUME [Next]_vars
    PROVE  \/ UNCHANGED <<accounts, setup>>
           \/ \E n \in Names, t \in Tokens :
                 Login(n, t) \/ CreateAdmin(n, t)
           \/ \E t \in Tokens : Logout(t) \/ Expire(t)
           \/ \E t \in Tokens, n \in Names, role \in Roles : CreateUser(t, n, role)
           \/ \E what \in {"language", "webui_port"} : Choose(what)
           \/ \E mode \in Modes, domain \in Domains \cup {None} : SetAccess(mode, domain)
  BY DEF Next, vars, LoginRefused, LoginFails, Tick, Restart

LEMMA AccountsStep ==
    ASSUME AccessAssumption, Accounts, [Next]_vars
    PROVE  Accounts'
  <1>1. CASE UNCHANGED accounts
    BY <1>1 DEF accounts, Accounts
  <1>2. ASSUME NEW n \in Names, NEW t \in Tokens, Login(n, t)
        PROVE  Accounts'
    <2>1. NewSession(n, t) /\ users' = users /\ users[n] # None
      BY <1>2 DEF Login
    <2>2. users' \in [Names -> Roles \cup {None}]
      BY <2>1 DEF Accounts
    <2>3. QED
      BY <2>1, <2>2, SessionStep
  <1>3. ASSUME NEW n \in Names, NEW t \in Tokens, CreateAdmin(n, t)
        PROVE  Accounts'
    <2>1. users' = [users EXCEPT ![n] = "admin"]
      BY <1>3 DEF CreateAdmin
    <2>2. /\ users' \in [Names -> Roles \cup {None}] /\ users'[n] # None
          /\ \A m \in Names : users[m] # None => users'[m] # None
      BY <2>1 DEF Accounts, Roles, AccessAssumption
    <2>3. CASE NewSession(n, t)
      BY <2>2, <2>3, SessionStep
    <2>4. CASE UNCHANGED <<holder, expired, issued>>
      BY <2>2, <2>4 DEF Accounts
    <2>5. QED
      BY <1>3, <2>3, <2>4 DEF CreateAdmin
  <1>4. ASSUME NEW t \in Tokens, Logout(t)
        PROVE  Accounts'
    BY <1>4 DEF Logout, Accounts
  <1>5. ASSUME NEW t \in Tokens, Expire(t)
        PROVE  Accounts'
    BY <1>5 DEF Expire, Accounts
  <1>6. ASSUME NEW t \in Tokens, NEW n \in Names, NEW role \in Roles, CreateUser(t, n, role)
        PROVE  Accounts'
    <2>1. users' = [users EXCEPT ![n] = role] /\ role # None
      BY <1>6 DEF CreateUser, Roles, AccessAssumption
    <2>2. /\ users' \in [Names -> Roles \cup {None}]
          /\ \A m \in Names : users[m] # None => users'[m] # None
      BY <2>1 DEF Accounts
    <2>3. UNCHANGED <<holder, expired, issued>>
      BY <1>6 DEF CreateUser
    <2>4. QED
      BY <2>2, <2>3 DEF Accounts
  <1>7. ASSUME NEW what, Choose(what)
        PROVE  Accounts'
    BY <1>1, <1>7 DEF Choose
  <1>8. ASSUME NEW mode, NEW domain, SetAccess(mode, domain)
        PROVE  Accounts'
    BY <1>1, <1>8 DEF SetAccess
  <1>9. QED
    BY <1>1, <1>2, <1>3, <1>4, <1>5, <1>6, <1>7, <1>8, AccountCases

LEMMA AnswersStep ==
    ASSUME AccessAssumption, Answers, [Next]_vars
    PROVE  Answers'
  <1>1. CASE UNCHANGED setup
    BY <1>1 DEF setup, Answers
  <1>2. ASSUME NEW what \in {"language", "webui_port"}, Choose(what)
        PROVE  Answers'
    BY <1>2 DEF Choose, Answers
  <1>3. ASSUME NEW mode \in Modes, NEW domain \in Domains \cup {None}, SetAccess(mode, domain)
        PROVE  Answers'
    <2>1. access \in Choice
      BY DEF Answers
    <2>2. access' \in Choice /\ answered' \in Choice \cup {None}
      BY <1>3, <2>1 DEF SetAccess, ChooseAccess, Choice
    <2>3. QED
      BY <1>3, <2>2 DEF SetAccess, Answers
  <1>4. QED
    BY <1>1, <1>2, <1>3, AccountCases
       DEF Login, CreateAdmin, Logout, Expire, CreateUser

LEMMA InitType == ASSUME AccessAssumption, Init PROVE TypeOK
  <1>1. Deques
    BY DequesInit
  <1>2. Accounts /\ Answers /\ before \subseteq Keys \X Keys
    BY DEF Init, Accounts, Answers, Choice, NoChoice
  <1>3. QED
    BY <1>1, <1>2, TypeParts

LEMMA TypeStep ==
    ASSUME AccessAssumption, TypeOK, [Next]_vars
    PROVE  TypeOK'
  <1>1. Deques /\ before \subseteq Keys \X Keys /\ Accounts /\ Answers
    BY TypeParts
  <1>2. Deques' /\ Accounts' /\ Answers'
    BY <1>1, DequesStep, AccountsStep, AnswersStep
  <1>3. before' \subseteq Keys \X Keys
    <2>1. ASSUME NEW k \in Keys, Record(k)
          PROVE  before' \subseteq Keys \X Keys
      BY <1>1, <2>1, RecordFacts DEF Recorded
    <2>2. ASSUME NEW k, Refuse(k) \/ Clear(k)
          PROVE  before' \subseteq Keys \X Keys
      BY <1>1, <2>2 DEF Refuse, Clear, Only
    <2>3. CASE Tick \/ Restart \/ UNCHANGED limiter
      BY <1>1, <2>3 DEF Tick, Restart, limiter
    <2>4. \A n \in Names : Key[n] \in Keys
      BY DEF AccessAssumption
    <2>5. QED
      BY <2>1, <2>2, <2>3, <2>4, LimiterCases
  <1>4. TypeOK' <=> Deques' /\ before' \subseteq Keys \X Keys /\ Accounts' /\ Answers'
    BY DEF TypeOK, Deques, Ages, Accounts, Answers
  <1>5. QED
    BY <1>2, <1>3, <1>4

\* Every variable keeps its type: no deque holds more than the limit, no
\* session is without its user.
THEOREM AccessTyped == ASSUME AccessAssumption PROVE Spec => []TypeOK
  BY InitType, TypeStep, PTL DEF Spec

-----------------------------------------------------------------------------
\* The wizard.

\* A setup that is over has everything, and an administrator.
THEOREM SetupIsDone == ASSUME AccessAssumption PROVE Spec => []SetupDone
  <1>1. Init => SetupDone
    BY DEF Init, Open, SetupDone
  <1>2. ASSUME TypeOK, SetupDone, [Next]_vars
        PROVE  SetupDone'
    <2>1. CASE UNCHANGED <<users, setup>>
      BY <1>2, <2>1 DEF setup, SetupDone, Open
    <2>2. ASSUME NEW n \in Names, NEW t \in Tokens, CreateAdmin(n, t)
          PROVE  SetupDone'
      <3>1. /\ users' = [users EXCEPT ![n] = "admin"] /\ Complete
            /\ UNCHANGED setup
        BY <2>2 DEF CreateAdmin
      <3>2. users'[n] = "admin"
        BY <1>2, <3>1 DEF TypeOK
      <3>3. QED
        BY <3>1, <3>2 DEF Complete, setup, SetupDone
    <2>3. ASSUME NEW t \in Tokens, NEW n \in Names, NEW role \in Roles, CreateUser(t, n, role)
          PROVE  SetupDone'
      <3>1. /\ holder[t] # None /\ users[holder[t]] = "admin"
            /\ users[n] = None /\ users' = [users EXCEPT ![n] = role]
            /\ UNCHANGED setup
        BY <2>3 DEF CreateUser, IsAdmin, setup
      <3>2. holder[t] \in Names /\ None # "admin"
        BY <1>2, <3>1 DEF TypeOK, AccessAssumption
      <3>3. ~Open
        BY <3>1, <3>2 DEF Open
      <3>4. users'[holder[t]] = "admin"
        BY <1>2, <3>1, <3>2 DEF TypeOK
      <3>5. QED
        BY <1>2, <3>1, <3>2, <3>3, <3>4 DEF SetupDone, setup
    <2>4. ASSUME Open, users' = users
          PROVE  SetupDone'
      BY <2>4 DEF SetupDone, Open
    <2>5. QED
      BY <2>1, <2>2, <2>3, <2>4, <1>2, AccountCases
         DEF Login, Logout, Expire, Choose, SetAccess, accounts
  <1>3. QED
    BY <1>1, <1>2, AccessTyped, PTL DEF Spec

\* The plan is about what the wizard answered last, except after a request that
\* was cut short between its two commits, until another one is answered.
THEOREM PlanIsAnswered == ASSUME AccessAssumption PROVE Spec => []PlanAsAnswered
  <1>1. Init => PlanAsAnswered
    BY DEF AccessAssumption, Init, NoChoice, PlanAsAnswered
  <1>2. ASSUME TypeOK, PlanAsAnswered, [Next]_vars
        PROVE  PlanAsAnswered'
    <2>1. CASE UNCHANGED <<access, answered>>
      BY <1>2, <2>1 DEF PlanAsAnswered
    <2>2. ASSUME NEW mode, NEW domain, ChooseAccess(mode, domain)
          PROVE  PlanAsAnswered'
      <3>1. CASE answered' = None
        BY <3>1 DEF PlanAsAnswered
      <3>2. CASE /\ access' = [mode |-> mode,
                               domain |-> IF domain = None THEN access.domain ELSE domain]
                 /\ answered' = [mode |-> mode, domain |-> domain]
        BY <2>2, <3>2 DEF ChooseAccess, PlanAsAnswered
      <3>3. QED
        BY <2>2, <3>1, <3>2 DEF ChooseAccess
    <2>3. ASSUME NEW n, NEW t, Login(n, t) \/ CreateAdmin(n, t) \/ Logout(t) \/ Expire(t)
          PROVE  UNCHANGED <<access, answered>>
      BY <2>3 DEF Login, CreateAdmin, Logout, Expire, setup
    <2>4. ASSUME NEW n, NEW t, NEW role, CreateUser(t, n, role)
          PROVE  UNCHANGED <<access, answered>>
      BY <2>4 DEF CreateUser, setup
    <2>5. ASSUME NEW what, Choose(what)
          PROVE  UNCHANGED <<access, answered>>
      BY <2>5 DEF Choose
    <2>6. CASE UNCHANGED <<accounts, setup>>
      BY <2>1, <2>6 DEF setup
    <2>7. QED
      BY <1>2, <2>1, <2>2, <2>3, <2>4, <2>5, <2>6, AccountCases DEF SetAccess
  <1>3. QED
    BY <1>1, <1>2, AccessTyped, PTL DEF Spec

-----------------------------------------------------------------------------
\* The memory of the limiter.

LEMMA BoundStep ==
    ASSUME AccessAssumption, Deques, TrackedBounded, [Next]_vars
    PROVE  TrackedBounded'
  <1>1. /\ IsFiniteSet(Tracked(failures)) /\ Cardinality(Tracked(failures)) \in Nat
        /\ IsFiniteSet(Survivors) /\ Cardinality(Survivors) \in Nat
        /\ Cardinality(Survivors) <= Cardinality(Tracked(failures))
    <2>1. Tracked(failures) \in SUBSET Keys
      BY DEF Tracked
    <2>2. Survivors \in SUBSET Tracked(failures)
      BY DiscardEmpty, SurvivorFacts DEF Tracked
    <2>3. IsFiniteSet(Keys)
      BY DEF AccessAssumption
    <2>4. IsFiniteSet(Tracked(failures))
      BY <2>1, <2>3, FS_Subset
    <2>5. IsFiniteSet(Survivors) /\ Cardinality(Survivors) <= Cardinality(Tracked(failures))
      BY <2>2, <2>4, FS_Subset
    <2>6. QED
      BY <2>4, <2>5, FS_CardinalityType
  <1>2. MaxKeys \in Nat \ {0} /\ Cardinality(Tracked(failures)) <= MaxKeys
    BY DEF AccessAssumption, TrackedBounded
  <1>3. ASSUME NEW T, IsFiniteSet(T), Cardinality(T) <= MaxKeys, Tracked(failures') \subseteq T
        PROVE  TrackedBounded'
    <2>1. /\ Cardinality(Tracked(failures')) <= Cardinality(T)
          /\ IsFiniteSet(Tracked(failures'))
      BY <1>3, FS_Subset
    <2>2. Cardinality(T) \in Nat /\ Cardinality(Tracked(failures')) \in Nat
      BY <1>3, <2>1, FS_CardinalityType
    <2>3. Cardinality(Tracked(failures')) <= MaxKeys
      BY <1>2, <1>3, <2>1, <2>2
    <2>4. QED
      BY <2>3 DEF TrackedBounded
  <1>4. ASSUME Tracked(failures') \subseteq Tracked(failures)
        PROVE  TrackedBounded'
    BY <1>1, <1>2, <1>3, <1>4
  <1>5. ASSUME NEW k \in Keys, Refuse(k)
        PROVE  TrackedBounded'
    <2>1. Tracked(failures') \subseteq Tracked(failures)
      BY <1>5, RefuseFacts, DiscardEmpty DEF Tracked
    <2>2. QED
      BY <1>4, <2>1
  <1>6. ASSUME NEW k \in Keys, Record(k)
        PROVE  TrackedBounded'
    <2>1. PICK kept \in SUBSET Survivors : Recorded(k, kept)
      BY <1>6, RecordFacts
    <2>2. Tracked(failures') \subseteq kept \cup {k}
      BY <2>1 DEF Recorded, Tracked
    <2>3. CASE k \in Survivors
      <3>1. kept \cup {k} \subseteq Survivors
        BY <2>3
      <3>2. QED
        BY <1>1, <1>2, <1>3, <2>2, <3>1
    <2>4. CASE k \notin Survivors /\ kept = Survivors
      <3>1. ~(Cardinality(Survivors) >= MaxKeys)
        BY <2>1, <2>4 DEF Recorded
      <3>2. /\ IsFiniteSet(kept \cup {k})
            /\ Cardinality(kept \cup {k}) = Cardinality(Survivors) + 1
        BY <1>1, <2>4, FS_AddElement
      <3>3. Cardinality(kept \cup {k}) <= MaxKeys
        BY <1>1, <1>2, <3>1, <3>2
      <3>4. QED
        BY <1>3, <2>2, <3>2, <3>3
    <2>5. CASE k \notin Survivors /\ kept # Survivors
      <3>1. PICK j \in Survivors : kept = Survivors \ {j}
        BY <2>1, <2>5 DEF Recorded
      <3>2. IsFiniteSet(kept) /\ Cardinality(kept) = Cardinality(Survivors) - 1
        BY <1>1, <3>1, FS_RemoveElement
      <3>3. /\ IsFiniteSet(kept \cup {k})
            /\ Cardinality(kept \cup {k}) = Cardinality(kept) + 1
        BY <2>5, <3>2, FS_AddElement
      <3>4. Cardinality(kept \cup {k}) <= MaxKeys
        BY <1>1, <1>2, <3>2, <3>3
      <3>5. QED
        BY <1>3, <2>2, <3>3, <3>4
    <2>6. QED
      BY <2>3, <2>4, <2>5
  <1>7. ASSUME NEW k \in Keys, Clear(k)
        PROVE  TrackedBounded'
    <2>1. Tracked(failures') \subseteq Tracked(failures)
      BY <1>7 DEF Clear, Tracked, Deques
    <2>2. QED
      BY <1>4, <2>1
  <1>8. CASE Tick
    <2>1. \A k \in Keys : failures'[k] = Older(failures[k]) /\ Older(<<>>) = <<>>
      BY <1>8 DEF Tick, Older
    <2>2. Tracked(failures') \subseteq Tracked(failures)
      BY <2>1 DEF Tracked
    <2>3. QED
      BY <1>4, <2>2
  <1>9. CASE Restart
    <2>1. Tracked(failures') \subseteq Tracked(failures)
      BY <1>9 DEF Restart, NoFailures, Tracked
    <2>2. QED
      BY <1>4, <2>1
  <1>10. CASE UNCHANGED limiter
    BY <1>10 DEF limiter, TrackedBounded, Tracked
  <1>11. \A n \in Names : Key[n] \in Keys
    BY DEF AccessAssumption
  <1>12. QED
    BY <1>5, <1>6, <1>7, <1>8, <1>9, <1>10, <1>11, LimiterCases

\* The limiter never tracks more keys than it may.
THEOREM MemoryBounded == ASSUME AccessAssumption PROVE Spec => []TrackedBounded
  <1>1. Init => TrackedBounded
    <2>1. Init => Tracked(failures) = {}
      BY DEF Init, NoFailures, Tracked
    <2>2. Cardinality({}) = 0 /\ 0 <= MaxKeys
      BY FS_EmptySet DEF AccessAssumption
    <2>3. QED
      BY <2>1, <2>2 DEF TrackedBounded
  <1>2. TypeOK /\ TrackedBounded /\ [Next]_vars => TrackedBounded'
    BY TypeParts, BoundStep
  <1>3. QED
    BY <1>1, <1>2, AccessTyped, PTL DEF Spec

-----------------------------------------------------------------------------
\* The limiter implements LoginWindow.

AgedDeque(s) == \A i, j \in 1..Len(s) : i <= j => s[i] >= s[j]

LEMMA AgedFacts ==
    ASSUME AccessAssumption, NEW s \in Seq(Ages), AgedDeque(s)
    PROVE  /\ AgedDeque(Discard(s))
           /\ AgedDeque(Append(Discard(s), 0))
           /\ AgedDeque(Older(s))
           /\ \A i \in 1..Len(Discard(s)) : Discard(s)[i] < Window
  <1> DEFINE e == Expired(s)
             t == Discard(s)
  <1>1. /\ e \in 0..Len(s) /\ Len(s) \in Nat /\ Window \in Nat
        /\ e < Len(s) => s[e + 1] < Window
    BY ExpiredFacts DEF AccessAssumption
  <1>2. \A i \in 1..Len(s) : s[i] \in 0..Window
    BY DEF Ages
  <1>3. /\ t \in Seq(Ages) /\ Len(t) = Len(s) - e
        /\ \A i \in 1..Len(t) : t[i] = s[e + i]
    BY DiscardFacts
  <1>4. Len(Older(s)) = Len(s) /\ \A i \in 1..Len(s) :
            Older(s)[i] = IF s[i] < Window THEN s[i] + 1 ELSE Window
    BY OlderFacts
  <1> HIDE DEF e, t
  <1>5. AgedDeque(t)
    BY <1>1, <1>3 DEF AgedDeque
  <1>6. \A i \in 1..Len(t) : t[i] < Window
    <2>1. ASSUME NEW i \in 1..Len(t)
          PROVE  t[i] < Window
      <3>1. e + i \in 1..Len(s) /\ e + 1 \in 1..Len(s) /\ e + 1 <= e + i /\ e < Len(s)
        BY <1>1, <1>3, <2>1
      <3>2. s[e + 1] >= s[e + i] /\ s[e + 1] < Window /\ t[i] = s[e + i]
        BY <1>1, <1>3, <2>1, <3>1 DEF AgedDeque
      <3>3. QED
        BY <1>1, <1>2, <3>1, <3>2
    <2>2. QED
      BY <2>1
  <1>7. AgedDeque(Append(t, 0))
    <2>1. /\ Len(Append(t, 0)) = Len(t) + 1 /\ Len(t) \in Nat
          /\ \A i \in 1..Len(t) : Append(t, 0)[i] = t[i] /\ t[i] \in 0..Window
          /\ Append(t, 0)[Len(t) + 1] = 0
      BY <1>3 DEF Ages
    <2>2. QED
      BY <1>1, <1>5, <2>1 DEF AgedDeque
  <1>8. AgedDeque(Older(s))
    BY <1>1, <1>2, <1>4 DEF AgedDeque
  <1>9. QED
    BY <1>5, <1>6, <1>7, <1>8 DEF t

\* What time does to what counts of a deque.
LEMMA TickFacts ==
    ASSUME AccessAssumption, NEW s \in Seq(Ages), AgedDeque(s)
    PROVE  LET t == Discard(s)
               u == Discard(Older(s))
               n == Len(t) - Len(u)
           IN  /\ n >= 0
               /\ \A i \in 1..n : t[i] + 1 >= Window
               /\ \A i \in 1..Len(u) : u[i] = t[n + i] + 1 /\ u[i] < Window
  <1> DEFINE o == Older(s)
             e == Expired(s)
             d == Expired(o)
             t == Discard(s)
             u == Discard(o)
  <1>1. /\ o \in Seq(Ages) /\ Len(o) = Len(s) /\ Len(s) \in Nat /\ Window \in Nat
        /\ \A i \in 1..Len(s) : o[i] = IF s[i] < Window THEN s[i] + 1 ELSE Window
        /\ \A i \in 1..Len(s) : s[i] \in 0..Window
    BY OlderFacts DEF AccessAssumption, Ages
  <1>2. /\ e \in 0..Len(s) /\ d \in 0..Len(o)
        /\ \A i \in 1..e : s[i] >= Window
        /\ \A i \in 1..d : o[i] >= Window
        /\ d < Len(o) => o[d + 1] < Window
    BY <1>1, ExpiredFacts
  <1>3. /\ Len(t) = Len(s) - e /\ Len(u) = Len(o) - d
        /\ \A i \in 1..Len(t) : t[i] = s[e + i]
        /\ \A i \in 1..Len(u) : u[i] = o[d + i]
    BY <1>1, DiscardFacts
  <1>4. /\ \A i \in 1..Len(t) : t[i] < Window
        /\ \A i \in 1..Len(u) : u[i] < Window
    <2>1. AgedDeque(o)
      BY AgedFacts
    <2>2. QED
      BY <1>1, <2>1, AgedFacts
  <1> HIDE DEF o, e, d, t, u
  <1>5. e <= d
    <2>1. ~(d < e)
      BY <1>1, <1>2
    <2>2. QED
      BY <1>1, <1>2, <2>1
  <1>6. Len(t) - Len(u) = d - e /\ d - e >= 0
    BY <1>1, <1>2, <1>3, <1>5
  <1>7. ASSUME NEW i \in 1..(d - e)
        PROVE  t[i] + 1 >= Window
    <2>1. i \in 1..Len(t) /\ e + i \in 1..d /\ e + i \in 1..Len(s)
      BY <1>1, <1>2, <1>3, <1>5, <1>7
    <2>2. o[e + i] >= Window /\ t[i] = s[e + i]
      BY <1>2, <1>3, <2>1
    <2>3. QED
      BY <1>1, <1>4, <2>1, <2>2
  <1>8. ASSUME NEW i \in 1..Len(u)
        PROVE  u[i] = t[(d - e) + i] + 1
    <2>1. /\ (d - e) + i \in 1..Len(t) /\ d + i \in 1..Len(s)
          /\ e + ((d - e) + i) = d + i
      BY <1>1, <1>2, <1>3, <1>5, <1>8
    <2>2. t[(d - e) + i] = s[d + i] /\ s[d + i] < Window
      BY <1>3, <1>4, <2>1
    <2>3. QED
      BY <1>1, <1>3, <1>8, <2>1, <2>2
  <1>9. QED
    BY <1>4, <1>6, <1>7, <1>8 DEF o, t, u

LEMMA AgedStep ==
    ASSUME AccessAssumption, Deques, Aged, [Next]_vars
    PROVE  Aged'
  <1>1. ASSUME NEW k \in Keys
        PROVE  /\ failures[k] \in Seq(Ages) /\ AgedDeque(failures[k])
               /\ AgedDeque(Discard(failures[k]))
               /\ AgedDeque(Append(Discard(failures[k]), 0))
               /\ AgedDeque(Older(failures[k]))
    <2>1. failures[k] \in Seq(Ages) /\ AgedDeque(failures[k])
      BY DEF Deques, Aged, AgedDeque
    <2>2. QED
      BY <2>1, AgedFacts
  <1>2. AgedDeque(<<>>)
    BY DEF AgedDeque
  <1>3. ASSUME \A k \in Keys : AgedDeque(failures'[k])
        PROVE  Aged'
    BY <1>3 DEF Aged, AgedDeque
  <1>4. ASSUME NEW k \in Keys, Refuse(k)
        PROVE  Aged'
    BY <1>1, <1>3, <1>4, RefuseFacts
  <1>5. ASSUME NEW k \in Keys, Record(k)
        PROVE  Aged'
    <2>1. PICK kept \in SUBSET Survivors : Recorded(k, kept)
      BY <1>5, RecordFacts
    <2>2. \A j \in Keys : AgedDeque(failures'[j])
      BY <1>1, <1>2, <2>1 DEF Recorded
    <2>3. QED
      BY <1>3, <2>2
  <1>6. ASSUME NEW k \in Keys, Clear(k)
        PROVE  Aged'
    BY <1>1, <1>2, <1>3, <1>6 DEF Clear, Deques
  <1>7. CASE Tick
    BY <1>1, <1>3, <1>7 DEF Tick
  <1>8. CASE Restart
    BY <1>2, <1>3, <1>8 DEF Restart, NoFailures
  <1>9. CASE UNCHANGED limiter
    BY <1>9 DEF limiter, Aged
  <1>10. \A n \in Names : Key[n] \in Keys
    BY DEF AccessAssumption
  <1>11. QED
    BY <1>4, <1>5, <1>6, <1>7, <1>8, <1>9, <1>10, LimiterCases

Recent == [k \in Keys |-> Discard(failures[k])]

\* The instance counts as this module does.
LEMMA SameCardinality == ASSUME NEW S PROVE Promise!Cardinality(S) = Cardinality(S)
  BY DEF Promise!Cardinality, Cardinality, Promise!IsFiniteSet, IsFiniteSet

\* Each step of the limiter is one its promise allows, or none of its own.
LEMMA PromiseStep ==
    ASSUME AccessAssumption, Deques, Deques', Aged, [Next]_vars
    PROVE  [Promise!Next]_Recent
  <1>1. ASSUME NEW k \in Keys
        PROVE  /\ failures[k] \in Seq(Ages) /\ AgedDeque(failures[k])
               /\ Recent[k] = Discard(failures[k])
               /\ Recent'[k] = Discard(failures'[k])
               /\ Discard(failures[k]) \in Seq(Ages)
    <2>1. failures[k] \in Seq(Ages) /\ AgedDeque(failures[k])
      BY DEF Deques, Aged, AgedDeque
    <2>2. QED
      BY <2>1, DiscardFacts DEF Recent
  <1>2. ASSUME NEW k \in Keys, Refuse(k)
        PROVE  Recent' = Recent
    <2>1. \A j \in Keys : Discard(failures'[j]) = Discard(failures[j])
      BY <1>1, <1>2, RefuseFacts, DiscardTwice
    <2>2. QED
      BY <2>1 DEF Recent
  <1>3. ASSUME NEW k \in Keys, Allows(k), Record(k)
        PROVE  Promise!Fail(k)
    <2>1. PICK kept \in SUBSET Survivors : Recorded(k, kept)
      BY <1>3, RecordFacts
    <2>2. Len(Recent[k]) < Limit
      BY <1>1, <1>3 DEF Allows
    <2>3. Promise!Failed = Survivors
      BY <1>1, SurvivorFacts DEF Promise!Failed, Recent
    <2> DEFINE forgotten == Survivors \ (kept \cup {k})
    <2>4. forgotten \in SUBSET (Keys \ {k})
      BY SurvivorFacts
    <2>5. forgotten # {} =>
              /\ Recent[k] = <<>>
              /\ \E v \in Survivors : forgotten = {v} /\ Cardinality(Survivors) >= MaxKeys
      <3>1. ASSUME forgotten # {}
            PROVE  /\ Recent[k] = <<>>
                   /\ \E v \in Survivors : forgotten = {v} /\ Cardinality(Survivors) >= MaxKeys
        <4>1. k \notin Survivors /\ Cardinality(Survivors) >= MaxKeys
          BY <2>1, <3>1 DEF Recorded
        <4>2. PICK v \in Survivors : kept = Survivors \ {v}
          BY <2>1, <3>1 DEF Recorded
        <4>3. forgotten = {v}
          BY <4>1, <4>2
        <4>4. Recent[k] = <<>>
          BY <1>1, <4>1, SurvivorFacts
        <4>5. QED
          BY <4>1, <4>3, <4>4
      <3>2. QED
        BY <3>1
    <2>6. ASSUME NEW j \in Keys
          PROVE  Recent'[j] = IF j = k THEN Append(Recent[k], 0)
                              ELSE IF j \in forgotten THEN <<>> ELSE Recent[j]
      <3>1. CASE j = k
        BY <1>1, <2>1, <3>1, DiscardAppend DEF Recorded
      <3>2. CASE j # k /\ j \in kept
        BY <1>1, <2>1, <3>2, DiscardTwice DEF Recorded
      <3>3. CASE j # k /\ j \notin kept
        <4>1. Recent'[j] = <<>>
          BY <1>1, <2>1, <3>3, DiscardEmpty DEF Recorded
        <4>2. j \notin forgotten => Recent[j] = <<>>
          BY <1>1, <3>3, SurvivorFacts
        <4>3. QED
          BY <3>3, <4>1, <4>2
      <3>4. QED
        BY <3>1, <3>2, <3>3
    <2>7. Recent' = [j \in Keys |-> IF j = k THEN Append(Recent[k], 0)
                              ELSE IF j \in forgotten THEN <<>> ELSE Recent[j]]
      BY <2>6 DEF Recent
    <2> HIDE DEF forgotten
    <2>8. /\ Len(Recent[k]) < Limit
          /\ \E gone \in SUBSET (Keys \ {k}) :
              /\ gone # {} =>
                    /\ Recent[k] = <<>>
                    /\ \E v \in Promise!Failed :
                          gone = {v} /\ Promise!Cardinality(Promise!Failed) >= MaxKeys
              /\ Recent' = [j \in Keys |->
                    IF j = k THEN Append(Recent[k], 0)
                    ELSE IF j \in gone THEN <<>> ELSE Recent[j]]
      BY <2>2, <2>3, <2>4, <2>5, <2>7, SameCardinality
    <2>9. QED
      BY <2>8 DEF Promise!Fail, Recent
  <1>4. ASSUME NEW k \in Keys, Allows(k), Clear(k)
        PROVE  Promise!Succeed(k)
    <2>1. Len(Recent[k]) < Limit
      BY <1>1, <1>4 DEF Allows
    <2>2. \A j \in Keys : Recent'[j] = IF j = k THEN <<>> ELSE Recent[j]
      BY <1>1, <1>4, DiscardEmpty DEF Clear, Deques
    <2>3. Recent' = [Recent EXCEPT ![k] = <<>>]
      BY <2>2 DEF Recent
    <2>4. QED
      BY <2>1, <2>3 DEF Promise!Succeed, Recent
  <1>5. ASSUME Tick
        PROVE  Promise!Tick
    <2>1. \A k \in Keys : failures'[k] = Older(failures[k])
      BY <1>5 DEF Tick
    <2>2. Recent' \in [Keys -> Seq(0..Window)]
      BY <1>1, <2>1, OlderFacts, DiscardFacts DEF Recent, Ages
    <2>3. ASSUME NEW k \in Keys
          PROVE  LET n == Len(Recent[k]) - Len(Recent'[k]) IN
                 /\ n >= 0
                 /\ \A i \in 1..n : Recent[k][i] + 1 >= Window
                 /\ \A i \in DOMAIN Recent'[k] :
                      /\ Recent'[k][i] = Recent[k][n + i] + 1
                      /\ Recent'[k][i] < Window
      <3>1. Recent'[k] \in Seq(0..Window)
        BY <2>2
      <3>2. DOMAIN Recent'[k] = 1..Len(Recent'[k])
        BY <3>1
      <3> DEFINE t == Discard(failures[k])
                 u == Discard(Older(failures[k]))
      <3>3. /\ Len(t) - Len(u) >= 0
            /\ \A i \in 1..(Len(t) - Len(u)) : t[i] + 1 >= Window
            /\ \A i \in 1..Len(u) : u[i] = t[(Len(t) - Len(u)) + i] + 1 /\ u[i] < Window
        BY <1>1, TickFacts
      <3>4. Recent[k] = t /\ Recent'[k] = u
        BY <1>1, <2>1
      <3> HIDE DEF t, u
      <3>5. QED
        BY <3>2, <3>3, <3>4
    <2>4. /\ Recent' \in [Keys -> Seq(0..Window)]
          /\ \A k \in Keys :
                LET n == Len(Recent[k]) - Len(Recent'[k]) IN
                /\ n >= 0
                /\ \A i \in 1..n : Recent[k][i] + 1 >= Window
                /\ \A i \in DOMAIN Recent'[k] :
                    /\ Recent'[k][i] = Recent[k][n + i] + 1
                    /\ Recent'[k][i] < Window
      BY <2>2, <2>3
    <2>5. QED
      BY <2>4 DEF Promise!Tick, Recent
  <1>6. ASSUME Restart
        PROVE  Promise!Restart
    <2>1. \A k \in Keys : Recent'[k] = <<>>
      BY <1>1, <1>6, DiscardEmpty DEF Restart, NoFailures
    <2>2. Recent' = Promise!NoneFailed
      BY <2>1 DEF Recent, Promise!NoneFailed
    <2>3. QED
      BY <2>2 DEF Promise!Restart, Recent
  <1>7. CASE UNCHANGED limiter
    BY <1>7 DEF limiter, Recent
  <1>8. \A n \in Names : Key[n] \in Keys
    BY DEF AccessAssumption
  <1>9. QED
    BY <1>2, <1>3, <1>4, <1>5, <1>6, <1>7, <1>8, LimiterCases DEF Promise!Next

\* What counts of the deques behaves as LoginWindow says.
THEOREM LimiterImplements == ASSUME AccessAssumption PROVE Spec => LimiterContract
  <1>1. Init => Promise!Init
    BY DiscardEmpty DEF Init, NoFailures, Promise!Init, Promise!NoneFailed
  <1>2. Init => Aged
    BY DEF Init, NoFailures, Aged
  <1>3. TypeOK /\ Aged /\ [Next]_vars => Aged'
    BY TypeParts, AgedStep
  <1>4. TypeOK /\ TypeOK' /\ Aged /\ [Next]_vars
            => [Promise!Next]_([k \in Keys |-> Discard(failures[k])])
    <2>1. TypeOK' => Deques'
      BY DEF TypeOK, Deques, Ages
    <2>2. QED
      BY <2>1, TypeParts, PromiseStep DEF Recent
  <1>5. QED
    BY <1>1, <1>2, <1>3, <1>4, AccessTyped, PTL DEF Spec, LimiterContract, Promise!Spec

-----------------------------------------------------------------------------
\* The key that makes room.

\* A strict total order of a finite set has a first element, and one only.
LEMMA FirstOfOrder ==
    ASSUME NEW S, IsFiniteSet(S), S # {}, NEW R,
           \A i, j \in S : <<i, j>> \in R <=> i # j /\ <<j, i>> \notin R,
           \A i, j, k \in S : <<i, j>> \in R /\ <<j, k>> \in R => <<i, k>> \in R
    PROVE  \E k \in S : /\ \A j \in S : <<j, k>> \notin R
                        /\ \A i \in S : (\A j \in S : <<j, i>> \notin R) => i = k
  <1> DEFINE Below(k) == {j \in S : <<j, k>> \in R}
             T == {Below(k) : k \in S}
  <1>1. IsWellFoundedOn(StrictSubsetOrdering(S), FiniteSubsetsOf(S))
    BY FS_StrictSubsetOrderingWellFounded
  <1>2. T \subseteq FiniteSubsetsOf(S) /\ T # {}
    <2>1. ASSUME NEW k \in S
          PROVE  Below(k) \in FiniteSubsetsOf(S)
      <3>1. Below(k) \in SUBSET S
        OBVIOUS
      <3>2. IsFiniteSet(Below(k))
        BY <3>1, FS_Subset
      <3>3. QED
        BY <3>1, <3>2 DEF FiniteSubsetsOf
    <2> HIDE DEF Below
    <2>2. QED
      BY <2>1
  <1> DEFINE O == StrictSubsetOrdering(S)
             F == FiniteSubsetsOf(S)
  <1>3. \E X \in T : \A Y \in T : <<Y, X>> \notin O
    <2>1. IsWellFoundedOn(O, F) /\ T \subseteq F /\ T # {}
      BY <1>1, <1>2
    <2> HIDE DEF O, F, T
    <2>2. QED
      BY <2>1, WFMin
  <1>4. PICK k \in S : \A j \in S : <<Below(j), Below(k)>> \notin O
    <2> HIDE DEF Below, O
    <2>1. QED
      BY <1>3
  <1>5. ASSUME NEW j \in S, <<j, k>> \in R
        PROVE  FALSE
    <2>1. Below(j) \subseteq Below(k)
      BY <1>5
    <2>2. j \in Below(k) /\ j \notin Below(j)
      BY <1>5
    <2>3. Below(j) \in SUBSET S /\ Below(k) \in SUBSET S /\ Below(j) # Below(k)
      BY <2>2
    <2>4. <<Below(j), Below(k)>> \in O
      <3> HIDE DEF Below
      <3>1. QED
        BY <2>1, <2>3 DEF StrictSubsetOrdering
    <2>5. QED
      BY <1>4, <2>4
  <1>6. ASSUME NEW i \in S, \A j \in S : <<j, i>> \notin R
        PROVE  i = k
    BY <1>5, <1>6
  <1>7. QED
    BY <1>5, <1>6

\* The keys that stay keep their order, and a new one is last.
LEMMA OrderedRecord ==
    ASSUME AccessAssumption, Deques, Ordered, NEW k \in Keys, Record(k)
    PROVE  Ordered'
  <1>1. PICK kept \in SUBSET Survivors : Store(k, kept, Discard(failures[k]))
    BY DEF Record
  <1>2. ASSUME NEW j \in Keys
        PROVE  Append(Discard(failures[j]), 0) # <<>>
    <2>1. Discard(failures[j]) \in Seq(Ages) /\ 0 \in Ages
      BY DiscardFacts DEF Deques, Ages, AccessAssumption
    <2>2. Len(Append(Discard(failures[j]), 0)) = Len(Discard(failures[j])) + 1
          /\ Len(Discard(failures[j])) \in Nat
      BY <2>1
    <2>3. Len(<<>>) = 0
      OBVIOUS
    <2>4. QED
      BY <2>2, <2>3
  <1>3. kept \subseteq Tracked(failures)
    <2>1. ASSUME NEW j \in Keys, Discard(failures[j]) # <<>>
          PROVE  failures[j] # <<>>
      BY <2>1, DiscardEmpty
    <2>2. QED
      BY <2>1, SurvivorFacts DEF Tracked
  <1>4. Tracked(failures)' = kept \cup {k}
    <2>1. failures' = [j \in Keys |->
               IF j = k THEN Append(Discard(failures[k]), 0)
               ELSE IF j \in kept THEN Discard(failures[j]) ELSE <<>>]
      BY <1>1 DEF Store
    <2>2. kept \subseteq Keys /\ \A j \in kept : Discard(failures[j]) # <<>>
      BY SurvivorFacts
    <2>3. \A j \in Keys : failures'[j] # <<>> <=> j \in kept \cup {k}
      BY <1>2, <2>1, <2>2
    <2>4. QED
      BY <2>2, <2>3 DEF Tracked
  <1>5. /\ before' = Only(kept) \cup IF k \in kept THEN {} ELSE kept \X {k}
        /\ kept \subseteq Keys
    BY <1>1, SurvivorFacts DEF Store
  <1>6. \A i, j \in kept \cup {k} : <<i, j>> \in before' <=>
            \/ i \in kept /\ j \in kept /\ <<i, j>> \in before
            \/ i \in kept /\ j = k /\ k \notin kept
    BY <1>5 DEF Only
  <1>7. before' \subseteq (kept \cup {k}) \X (kept \cup {k})
    BY <1>5 DEF Only
  <1>8. /\ \A i, j \in kept : <<i, j>> \in before <=> i # j /\ <<j, i>> \notin before
        /\ \A i, j, l \in kept : <<i, j>> \in before /\ <<j, l>> \in before => <<i, l>> \in before
    BY <1>3 DEF Ordered
  <1>9. \A i, j \in kept \cup {k} : <<i, j>> \in before' <=> i # j /\ <<j, i>> \notin before'
    BY <1>6, <1>8
  <1>10. \A i, j, l \in kept \cup {k} :
             <<i, j>> \in before' /\ <<j, l>> \in before' => <<i, l>> \in before'
    BY <1>6, <1>8
  <1>11. QED
    BY <1>4, <1>7, <1>9, <1>10 DEF Ordered

\* What leaves the keys the limiter has, or takes one away.
LEMMA OrderedRest ==
    ASSUME Ordered, Tracked(failures)' \subseteq Tracked(failures),
           before' = before \cap (Tracked(failures)' \X Tracked(failures)')
    PROVE  Ordered'
  <1> DEFINE T == Tracked(failures)
             U == Tracked(failures)'
  <1>1. /\ \A i, j \in T : <<i, j>> \in before <=> i # j /\ <<j, i>> \notin before
        /\ \A i, j, k \in T : <<i, j>> \in before /\ <<j, k>> \in before => <<i, k>> \in before
    BY DEF Ordered
  <1> HIDE DEF T, U
  <1>2. U \subseteq T /\ before' = before \cap (U \X U)
    BY DEF T, U
  <1>3. /\ before' \subseteq U \X U
        /\ \A i, j \in U : <<i, j>> \in before' <=> i # j /\ <<j, i>> \notin before'
        /\ \A i, j, k \in U : <<i, j>> \in before' /\ <<j, k>> \in before' => <<i, k>> \in before'
    BY <1>1, <1>2
  <1>4. QED
    BY <1>3 DEF Ordered, U

LEMMA OrderedStep ==
    ASSUME AccessAssumption, Deques, Ordered, [Next]_vars
    PROVE  Ordered'
  <1>1. CASE UNCHANGED limiter
    BY <1>1 DEF limiter, Ordered, Tracked
  <1>2. ASSUME NEW n \in Names, Refuse(Key[n])
        PROVE  Ordered'
    <2>1. Key[n] \in Keys
      BY DEF AccessAssumption
    <2>2. Discard(failures[Key[n]]) # <<>>
      <3>1. Discard(failures[Key[n]]) = <<>> => Len(Discard(failures[Key[n]])) = 0
        OBVIOUS
      <3>2. Limit \in Nat \ {0}
        BY DEF AccessAssumption
      <3>3. QED
        BY <1>2, <3>1, <3>2 DEF Refuse, Allows
    <2>3. failures[Key[n]] # <<>>
      BY <2>2, DiscardEmpty
    <2>4. Tracked(failures)' = Tracked(failures)
      BY <1>2, <2>1, <2>2, <2>3 DEF Refuse, Deques, Tracked
    <2>5. before' = before
      BY <1>2 DEF Refuse
    <2>6. QED
      BY <2>4, <2>5, OrderedRest DEF Ordered
  <1>3. ASSUME NEW n \in Names, Record(Key[n])
        PROVE  Ordered'
    BY <1>3, OrderedRecord DEF AccessAssumption
  <1>4. ASSUME NEW n \in Names, Clear(Key[n])
        PROVE  Ordered'
    <2>1. Key[n] \in Keys
      BY DEF AccessAssumption
    <2>2. Tracked(failures)' = Tracked(failures) \ {Key[n]}
      BY <1>4, <2>1 DEF Clear, Deques, Tracked
    <2>3. before' = before \cap ((Keys \ {Key[n]}) \X (Keys \ {Key[n]}))
      BY <1>4 DEF Clear, Only
    <2>4. before \subseteq Tracked(failures) \X Tracked(failures) /\ Tracked(failures) \subseteq Keys
      BY DEF Ordered, Tracked
    <2>5. before' = before \cap (Tracked(failures)' \X Tracked(failures)')
      BY <2>2, <2>3, <2>4
    <2>6. QED
      BY <2>2, <2>5, OrderedRest
  <1>5. CASE Tick
    <2>1. \A k \in Keys : Older(failures[k]) # <<>> <=> failures[k] # <<>>
      BY OlderFacts DEF Deques
    <2>2. Tracked(failures)' = Tracked(failures) /\ before' = before
      BY <1>5, <2>1 DEF Tick, Tracked
    <2>3. QED
      BY <2>2, OrderedRest DEF Ordered
  <1>6. CASE Restart
    <2>1. before' = {} /\ Tracked(failures)' = {}
      BY <1>6 DEF Restart, NoFailures, Tracked
    <2>2. QED
      BY <2>1 DEF Ordered
  <1>7. QED
    BY <1>1, <1>2, <1>3, <1>4, <1>5, <1>6, LimiterCases

\* Whoever has to give way is found, and is one key.
LEMMA OneIsFirst == ASSUME AccessAssumption PROVE Spec => []EvictionDecided
  <1>1. Init => Ordered
    BY DEF Init, NoFailures, Ordered, Tracked
  <1>2. TypeOK /\ Ordered /\ [Next]_vars => Ordered'
    BY TypeParts, OrderedStep
  <1>3. TypeOK /\ Ordered => EvictionDecided
    <2>1. SUFFICES ASSUME TypeOK, Ordered, Survivors # {}
                   PROVE  \E k \in Survivors : First(k) /\ \A j \in Survivors : First(j) => j = k
      BY DEF EvictionDecided
    <2>2. Survivors \subseteq Tracked(failures) /\ IsFiniteSet(Survivors)
      <3>1. ASSUME NEW j \in Keys, Discard(failures[j]) # <<>>
            PROVE  failures[j] # <<>>
        BY <3>1, DiscardEmpty
      <3>2. Survivors \subseteq Tracked(failures)
        BY <3>1, SurvivorFacts DEF Tracked
      <3>3. QED
        BY <3>2, SurvivorFacts, FS_Subset DEF AccessAssumption
    <2>3. /\ \A i, j \in Survivors : <<i, j>> \in before <=> i # j /\ <<j, i>> \notin before
          /\ \A i, j, k \in Survivors :
                 <<i, j>> \in before /\ <<j, k>> \in before => <<i, k>> \in before
      BY <2>1, <2>2 DEF Ordered
    <2>4. \E k \in Survivors : /\ \A j \in Survivors : <<j, k>> \notin before
                               /\ \A i \in Survivors :
                                     (\A j \in Survivors : <<j, i>> \notin before) => i = k
      BY <2>1, <2>2, <2>3, FirstOfOrder
    <2>5. QED
      BY <2>4 DEF First
  <1>4. QED
    BY <1>1, <1>2, <1>3, AccessTyped, PTL DEF Spec

\* The order of the dictionary, and what of a deque counts when another step is
\* taken: only a failed login of a full limiter takes the failures of a key that
\* neither logs in nor loses them in a restart.
LEMMA ForgettingStep ==
    ASSUME AccessAssumption, Deques, Ordered, [Next]_vars,
           holder \in [Tokens -> Names \cup {None}],
           NEW k \in Survivors, failures'[k] = <<>>
    PROVE  \/ \E n \in Names, t \in issued' \ issued : Key[n] = k /\ holder'[t] = n
           \/ failures' = NoFailures /\ UNCHANGED accounts
           \/ /\ Cardinality(Survivors) >= MaxKeys
              /\ \A j \in Survivors \ {k} : <<k, j>> \in before /\ failures'[j] # <<>>
              /\ \E j \in Keys \ Survivors : failures'[j] # <<>>
  <1>1. k \in Keys /\ Discard(failures[k]) # <<>> /\ failures[k] # <<>>
    BY SurvivorFacts, DiscardEmpty
  <1>2. CASE UNCHANGED limiter
    BY <1>1, <1>2 DEF limiter
  <1>3. ASSUME NEW n \in Names, Refuse(Key[n])
        PROVE  FALSE
    BY <1>1, <1>3 DEF Refuse, Deques
  <1>4. ASSUME NEW n \in Names, Record(Key[n])
        PROVE  /\ Cardinality(Survivors) >= MaxKeys
               /\ \A j \in Survivors \ {k} : <<k, j>> \in before /\ failures'[j] # <<>>
               /\ \E j \in Keys \ Survivors : failures'[j] # <<>>
    <2> DEFINE new == Key[n]
    <2>1. new \in Keys
      BY DEF AccessAssumption
    <2>2. PICK kept \in SUBSET Survivors :
              /\ \/ kept = Survivors
                 \/ /\ new \notin Survivors /\ Cardinality(Survivors) >= MaxKeys
                    /\ \E j \in Survivors : First(j) /\ kept = Survivors \ {j}
              /\ Store(new, kept, Discard(failures[new]))
      BY <1>4 DEF Record
    <2> HIDE DEF new
    <2>3. \A j \in Keys : failures'[j] = IF j = new THEN Append(Discard(failures[new]), 0)
                                          ELSE IF j \in kept THEN Discard(failures[j]) ELSE <<>>
      BY <2>2 DEF Store
    <2>4. Append(Discard(failures[new]), 0) # <<>>
      <3>1. Discard(failures[new]) \in Seq(Ages) /\ 0 \in Ages
        BY <2>1, DiscardFacts DEF Deques, Ages, AccessAssumption
      <3>2. Len(Append(Discard(failures[new]), 0)) = Len(Discard(failures[new])) + 1
            /\ Len(Discard(failures[new])) \in Nat
        BY <3>1
      <3>3. Len(<<>>) = 0
        OBVIOUS
      <3> QED BY <3>2, <3>3
    <2>5. k # new /\ k \notin kept
      BY <1>1, <2>3, <2>4
    <2>6. /\ new \notin Survivors /\ Cardinality(Survivors) >= MaxKeys
          /\ First(k) /\ kept = Survivors \ {k}
      BY <2>2, <2>5
    <2>7. ASSUME NEW j \in Survivors \ {k}
          PROVE  <<k, j>> \in before /\ failures'[j] # <<>>
      <3>1. Discard(failures[j]) # <<>> /\ j \in Keys
        BY SurvivorFacts
      <3>2. j \in Tracked(failures) /\ k \in Tracked(failures)
        BY <1>1, <3>1, DiscardEmpty DEF Tracked
      <3>3. <<j, k>> \notin before
        BY <2>6 DEF First
      <3>4. <<k, j>> \in before
        BY <3>2, <3>3 DEF Ordered
      <3>5. failures'[j] # <<>>
        BY <2>3, <2>4, <2>6, <3>1
      <3> QED BY <3>4, <3>5
    <2> QED BY <2>1, <2>3, <2>4, <2>6, <2>7
  <1>5. ASSUME NEW n \in Names, NEW t \in Tokens, Login(n, t)
        PROVE  \E m \in Names, u \in issued' \ issued : Key[m] = k /\ holder'[u] = m
    <2>1. Key[n] = k
      BY <1>1, <1>5 DEF Login, Clear, Deques
    <2>2. t \in issued' \ issued /\ holder'[t] = n
      BY <1>5 DEF Login, NewSession
    <2> QED BY <2>1, <2>2
  <1>6. CASE Tick
    BY <1>1, <1>6, OlderFacts DEF Tick, Deques
  <1>7. CASE Restart
    BY <1>7 DEF Restart
  <1> QED
    BY <1>2, <1>3, <1>4, <1>5, <1>6, <1>7
       DEF Next, vars, LoginRefused, LoginFails, CreateAdmin, Logout, Expire, CreateUser,
           Choose, SetAccess

\* Failures that still count are forgotten by a login of their key, by a restart,
\* or one key at a time, the one that was inserted before all the others, when
\* max_keys keys have such failures and another one fails (record_failure).
THEOREM ForgottenOldestFirst == ASSUME AccessAssumption PROVE Spec => ForgottenInOrder
  <1>1. Init => Ordered
    BY DEF Init, NoFailures, Ordered, Tracked
  <1>2. TypeOK /\ Ordered /\ [Next]_vars => Ordered'
    BY TypeParts, OrderedStep
  <1>3. TypeOK /\ Ordered /\ [Next]_vars =>
            [\A k \in Survivors : failures'[k] = <<>> =>
               \/ \E n \in Names, t \in issued' \ issued : Key[n] = k /\ holder'[t] = n
               \/ failures' = NoFailures /\ UNCHANGED accounts
               \/ /\ Cardinality(Survivors) >= MaxKeys
                  /\ \A j \in Survivors \ {k} : <<k, j>> \in before /\ failures'[j] # <<>>
                  /\ \E j \in Keys \ Survivors : failures'[j] # <<>>]_vars
    BY TypeParts, ForgettingStep DEF TypeOK
  <1> QED
    BY <1>1, <1>2, <1>3, AccessTyped, PTL DEF Spec, ForgottenInOrder
=============================================================================
