-------------------------- MODULE SessionAuthProofs ---------------------------
(***************************************************************************)
(* Proofs about SessionAuth for any number of tasks and sessions, and, at  *)
(* the end, about the settings that a session is opened with (Settings),   *)
(* for any words, hosts, environments and files.                           *)
(***************************************************************************)
EXTENDS SessionAuth, Settings, SequenceTheorems, WellFoundedInduction, TLAPS

\* A task refers to a session exactly between the answer to its login, or the
\* start of a call with the cached session, and its end; the session it refers
\* to has been issued.
SidShape ==
    \A t \in Tasks :
        /\ pc[t] \in {"granted", "version", "api", "logout"} <=> sid[t] # NoSid
        /\ sid[t] # NoSid => dsm[sid[t]] # "free"

\* The cached session has been issued.
CachedIssued == session # NoSid => dsm[session] # "free"

\* A task past its login has sent one; auth_login always sends one.
LoginShape ==
    \A t \in Tasks :
        /\ pc[t] \in {"login", "granted", "version"} => logins[t] = 1
        /\ tool[t] = "auth_login" => logins[t] = 1

Typed == TypeOK /\ SidShape /\ CachedIssued /\ LoginShape

\* The process starts with no session and no task.
LEMMA InitTyped == Init => Typed
  BY NoSidAssumption
     DEF Init, Typed, TypeOK, SidShape, CachedIssued, LoginShape,
         Tools, Places, Results

\* The first stretch of a tool preserves the invariant: it takes the cached
\* session, or none.
LEMMA StartTyped ==
  ASSUME Typed, NEW t \in Tasks,
         StartCall(t) \/ StartLogin(t) \/ StartWhoami(t) \/ StartLogout(t)
  PROVE  Typed'
<1> USE NoSidAssumption
    DEF Typed, TypeOK, SidShape, CachedIssued, LoginShape, Tools, Places, Results, Start
<1>1. CASE StartCall(t)
  BY <1>1 DEF StartCall
<1>2. CASE StartLogin(t)
  BY <1>2 DEF StartLogin
<1>3. CASE StartWhoami(t)
  BY <1>3 DEF StartWhoami
<1>4. CASE StartLogout(t)
  BY <1>4 DEF StartLogout
<1> QED
  BY <1>1, <1>2, <1>3, <1>4

\* So does every later stretch.
LEMMA ContinueTyped ==
  ASSUME Typed, NEW t \in Tasks, Continue(t)
  PROVE  Typed'
<1> USE NoSidAssumption
    DEF Typed, TypeOK, SidShape, CachedIssued, LoginShape, Tools, Places, Results
<1>1. CASE DsmGrants(t)
  BY <1>1 DEF DsmGrants
<1>2. CASE LoginFailed(t)
  BY <1>2 DEF LoginFailed, Finish
<1>3. CASE LoginLost(t)
  BY <1>3 DEF LoginLost, Finish
<1>4. CASE LoginStored(t)
  BY <1>4 DEF LoginStored
<1>5. CASE VersionAnswered(t)
  BY <1>5 DEF VersionAnswered, Finish
<1>6. CASE ApiAnswered(t)
  BY <1>6 DEF ApiAnswered, Finish
<1>7. CASE ApiFailed(t)
  BY <1>7 DEF ApiFailed, Finish
<1>8. CASE LogoutAnswered(t)
  BY <1>8 DEF LogoutAnswered, Finish
<1>9. CASE LogoutLost(t)
  BY <1>9 DEF LogoutLost, Finish
<1> QED
  BY <1>1, <1>2, <1>3, <1>4, <1>5, <1>6, <1>7, <1>8, <1>9 DEF Continue

\* The types, with what makes them inductive.
LEMMA TypedAlways == Spec => []Typed
<1>1. Typed /\ [Next]_vars => Typed'
  <2> SUFFICES ASSUME Typed, [Next]_vars PROVE Typed'
    OBVIOUS
  <2> USE NoSidAssumption DEF Typed, TypeOK, SidShape, CachedIssued, LoginShape
  <2>1. CASE UNCHANGED vars
    BY <2>1 DEF vars
  <2>2. ASSUME NEW s \in Sids, DsmEnds(s)
        PROVE  Typed'
    BY <2>2 DEF DsmEnds
  <2>3. CASE Shutdown
    BY <2>3 DEF Shutdown, Places
  <2> QED
    BY <2>1, <2>2, <2>3, StartTyped, ContinueTyped DEF Next
<1> QED
  BY InitTyped, <1>1, PTL DEF Spec

\* Types hold for any number of tasks and sessions.
THEOREM TypeCorrect == Spec => []TypeOK
<1>1. Typed => TypeOK
  BY DEF Typed
<1> QED
  BY <1>1, TypedAlways, PTL

\* Whatever the tasks do to the cache between two awaits of a task, the task's
\* own request carries a session DSM issued.
THEOREM InFlightAlwaysCarriesSession == Spec => []InFlightCarriesSession
<1>1. Typed => InFlightCarriesSession
  BY DEF Typed, SidShape, InFlightCarriesSession
<1> QED
  BY <1>1, TypedAlways, PTL

\* At most one login per tool call, exactly one behind every auth_login.
THEOREM LoginsBounded == Spec => []LoginsSent
<1>1. Typed => LoginsSent
  <2> SUFFICES ASSUME Typed, NEW t \in Tasks
               PROVE  logins[t] <= 1 /\ (tool[t] = "auth_login" => logins[t] = 1)
    BY DEF LoginsSent
  <2>1. logins[t] \in 0..1
    BY DEF Typed, TypeOK
  <2> QED
    BY <2>1 DEF Typed, LoginShape
<1> QED
  BY <1>1, TypedAlways, PTL

-------------------------------------------------------------------------------

\* In a clean history at most one task is in flight, so what it read from the
\* cache is still there: before its login is stored the cache is empty, and
\* afterwards it holds the task's session.
Exclusive ==
    clean => \A t, u \in Tasks : t # u => pc[t] = "idle" \/ pc[u] = "idle"

OwnsCache ==
    clean => \A t \in Tasks :
        /\ pc[t] \in {"login", "granted"} => session = NoSid
        /\ pc[t] \in {"version", "api", "logout"} => sid[t] = session

\* A live session is referred to by the cache or by a task, or was replaced.
Referenced ==
    up /\ clean => \A s \in Sids : dsm[s] = "live" =>
        session = s \/ s \in replaced \/ \E t \in Tasks : sid[t] = s

CleanInv == Exclusive /\ OwnsCache /\ Referenced

\* A tool that starts alone keeps the history clean and drops nothing but what
\* auth_login replaces: it takes the cached session, or none.
LEMMA StartClean ==
  ASSUME Typed, CleanInv, NEW t \in Tasks,
         StartCall(t) \/ StartLogin(t) \/ StartWhoami(t) \/ StartLogout(t)
  PROVE  CleanInv'
<1> DEFINE Begins(name, next, s) ==
             /\ Start(t, name, next, s)
             /\ next = "login" => session' = NoSid
             /\ next \in {"api", "logout"} => s = session'
             /\ \/ session' = session
                \/ session' = NoSid /\ session \in replaced' \cup {NoSid}
             /\ replaced \subseteq replaced'
<1> HIDE DEF Begins
<1>1. PICK name \in Tools, next \in {"idle", "login", "api", "logout"},
            s \in Sids \cup {NoSid} : Begins(name, next, s)
  <2>1. CASE StartLogin(t)
    <3>1. session' = NoSid /\ session \in replaced' \cup {NoSid}
      BY <2>1 DEF StartLogin, Start, Typed, TypeOK
    <3>2. Begins("auth_login", "login", NoSid)
      BY <2>1, <3>1 DEF Begins, StartLogin
    <3> QED
      BY <3>2, Zenon DEF Tools
  <2>2. CASE StartCall(t) /\ session = NoSid
    <3>1. Begins("call", "login", session)
      BY <2>2 DEF Begins, StartCall
    <3> QED
      BY <3>1, <2>2, Zenon DEF Tools
  <2>3. CASE StartCall(t) /\ session # NoSid
    <3>1. Begins("call", "api", session) /\ session \in Sids \cup {NoSid}
      BY <2>3 DEF Begins, StartCall, Typed, TypeOK
    <3> QED
      BY <3>1, Zenon DEF Tools
  <2>4. CASE StartWhoami(t) /\ session = NoSid
    <3>1. Begins("auth_whoami", "login", NoSid)
      BY <2>4 DEF Begins, StartWhoami
    <3> QED
      BY <3>1, Zenon DEF Tools
  <2>5. CASE StartWhoami(t) /\ session # NoSid
    <3>1. Begins("auth_whoami", "idle", NoSid)
      BY <2>5 DEF Begins, StartWhoami
    <3> QED
      BY <3>1, Zenon DEF Tools
  <2>6. CASE StartLogout(t) /\ session = NoSid
    <3>1. Begins("auth_logout", "idle", session)
      BY <2>6 DEF Begins, StartLogout
    <3> QED
      BY <3>1, <2>6, Zenon DEF Tools
  <2>7. CASE StartLogout(t) /\ session # NoSid
    <3>1. Begins("auth_logout", "logout", session) /\ session \in Sids \cup {NoSid}
      BY <2>7 DEF Begins, StartLogout, Typed, TypeOK
    <3> QED
      BY <3>1, Zenon DEF Tools
  <2> QED
    BY <2>1, <2>2, <2>3, <2>4, <2>5, <2>6, <2>7
<1>2. CASE ~clean'
  BY <1>2 DEF CleanInv, Exclusive, OwnsCache, Referenced
<1>3. CASE clean'
  <2>1. clean /\ \A u \in Tasks \ {t} : pc[u] = "idle"
    BY <1>1, <1>3 DEF Begins, Start, Alone
  <2>2. \A u \in Tasks : sid[u] = NoSid
    BY <1>1, <2>1 DEF Begins, Start, Typed, TypeOK, SidShape
  <2>3. Exclusive' /\ OwnsCache'
    BY <1>1, <2>1 DEF Begins, Start, Typed, TypeOK, Exclusive, OwnsCache
  <2>4. Referenced'
    BY <1>1, <2>1, <2>2, NoSidAssumption
       DEF Begins, Start, Typed, TypeOK, CleanInv, Referenced
  <2> QED
    BY <2>3, <2>4 DEF CleanInv
<1> QED
  BY <1>2, <1>3

\* A task that drops a session either leaves it in the cache or has ended it.
LEMMA ContinueClean ==
  ASSUME Typed, CleanInv, NEW t \in Tasks, Continue(t)
  PROVE  CleanInv'
<1> USE NoSidAssumption
    DEF Typed, TypeOK, SidShape, CleanInv, Exclusive, OwnsCache, Referenced
<1>1. CASE DsmGrants(t)
  BY <1>1 DEF DsmGrants
<1>2. CASE LoginFailed(t)
  BY <1>2 DEF LoginFailed, Finish
<1>3. CASE LoginLost(t)
  BY <1>3 DEF LoginLost, Finish
<1>4. CASE LoginStored(t)
  BY <1>4 DEF LoginStored
<1>5. CASE VersionAnswered(t)
  BY <1>5 DEF VersionAnswered, Finish
<1>6. CASE ApiAnswered(t)
  BY <1>6 DEF ApiAnswered, Finish
<1>7. CASE ApiFailed(t)
  BY <1>7 DEF ApiFailed, Finish
<1>8. CASE LogoutAnswered(t)
  BY <1>8 DEF LogoutAnswered, Finish
<1>9. CASE LogoutLost(t)
  BY <1>9 DEF LogoutLost, Finish
<1> QED
  BY <1>1, <1>2, <1>3, <1>4, <1>5, <1>6, <1>7, <1>8, <1>9 DEF Continue

\* Used sequentially and without lost answers, the process never loses track of
\* a session it opened on the NAS, except of those that auth_login replaced.
THEOREM CleanLeavesNoOrphan == Spec => []NoOrphanWhenClean
<1>1. Init => CleanInv
  BY DEF Init, CleanInv, Exclusive, OwnsCache, Referenced
<1>2. Typed /\ CleanInv /\ [Next]_vars => CleanInv'
  <2> SUFFICES ASSUME Typed, CleanInv, [Next]_vars PROVE CleanInv'
    OBVIOUS
  <2> USE NoSidAssumption DEF Typed, TypeOK, CleanInv, Exclusive, OwnsCache, Referenced
  <2>1. CASE UNCHANGED vars
    BY <2>1 DEF vars
  <2>2. ASSUME NEW s \in Sids, DsmEnds(s)
        PROVE  CleanInv'
    BY <2>2 DEF DsmEnds
  <2>3. CASE Shutdown
    BY <2>3 DEF Shutdown
  <2> QED
    BY <2>1, <2>2, <2>3, StartClean, ContinueClean DEF Next
<1>3. CleanInv => NoOrphanWhenClean
  BY DEF CleanInv, Referenced, NoOrphanWhenClean, Orphans
<1> QED
  BY <1>1, <1>2, <1>3, TypedAlways, PTL DEF Spec

-------------------------------------------------------------------------------

\* A session that DSM has just granted to a task is not known to the cache, nor
\* granted to another task.
GrantedFresh ==
    /\ \A s \in cached : dsm[s] # "free"
    /\ \A t, u \in Tasks :
         pc[t] = "granted" =>
           /\ sid[t] \notin cached
           /\ pc[u] = "granted" /\ t # u => sid[t] # sid[u]

\* The first stretch of a tool grants nothing and stores nothing.
LEMMA StartFresh ==
  ASSUME Typed, GrantedFresh, NEW t \in Tasks,
         StartCall(t) \/ StartLogin(t) \/ StartWhoami(t) \/ StartLogout(t)
  PROVE  GrantedFresh' /\ session' \in {session, NoSid}
<1> USE DEF Typed, TypeOK, GrantedFresh, Start
<1>1. CASE StartCall(t)
  BY <1>1 DEF StartCall
<1>2. CASE StartLogin(t)
  BY <1>2 DEF StartLogin
<1>3. CASE StartWhoami(t)
  BY <1>3 DEF StartWhoami
<1>4. CASE StartLogout(t)
  BY <1>4 DEF StartLogout
<1> QED
  BY <1>1, <1>2, <1>3, <1>4

\* Later on a session enters the cache from a task it was granted to.
LEMMA ContinueFresh ==
  ASSUME Typed, GrantedFresh, NEW t \in Tasks, Continue(t)
  PROVE  GrantedFresh' /\ (session' \notin {session, NoSid} => session' \notin cached)
<1> USE NoSidAssumption DEF Typed, TypeOK, SidShape, GrantedFresh
<1>1. CASE DsmGrants(t)
  BY <1>1 DEF DsmGrants
<1>2. CASE LoginFailed(t)
  BY <1>2 DEF LoginFailed, Finish
<1>3. CASE LoginLost(t)
  BY <1>3 DEF LoginLost, Finish
<1>4. CASE LoginStored(t)
  BY <1>4 DEF LoginStored
<1>5. CASE VersionAnswered(t)
  BY <1>5 DEF VersionAnswered, Finish
<1>6. CASE ApiAnswered(t)
  BY <1>6 DEF ApiAnswered, Finish
<1>7. CASE ApiFailed(t)
  BY <1>7 DEF ApiFailed, Finish
<1>8. CASE LogoutAnswered(t)
  BY <1>8 DEF LogoutAnswered, Finish
<1>9. CASE LogoutLost(t)
  BY <1>9 DEF LogoutLost, Finish
<1> QED
  BY <1>1, <1>2, <1>3, <1>4, <1>5, <1>6, <1>7, <1>8, <1>9 DEF Continue

\* No task brings back a session that has left the cache, however its awaits
\* interleave with the logouts and logins of others.
THEOREM NeverResurrected == Spec => NoResurrection
<1>1. Init => GrantedFresh
  BY DEF Init, GrantedFresh
<1>2. Typed /\ GrantedFresh /\ [Next]_vars =>
        GrantedFresh' /\ (session' \notin {session, NoSid} => session' \notin cached)
  <2> SUFFICES ASSUME Typed, GrantedFresh, [Next]_vars
               PROVE  GrantedFresh' /\ (session' \notin {session, NoSid} => session' \notin cached)
    OBVIOUS
  <2> USE DEF Typed, TypeOK, GrantedFresh
  <2>1. CASE UNCHANGED vars
    BY <2>1 DEF vars
  <2>2. ASSUME NEW s \in Sids, DsmEnds(s)
        PROVE  GrantedFresh' /\ session' = session
    BY <2>2 DEF DsmEnds
  <2>3. CASE Shutdown
    BY <2>3 DEF Shutdown
  <2> QED
    BY <2>1, <2>2, <2>3, StartFresh, ContinueFresh DEF Next
<1>3. Typed /\ GrantedFresh /\ [Next]_vars =>
        [session' \notin {session, NoSid} => session' \notin cached]_vars
  BY <1>2
<1> QED
  BY <1>1, <1>2, <1>3, TypedAlways, PTL DEF Spec, NoResurrection

-------------------------------------------------------------------------------
(* The settings of a host                                                  *)

\* The order of the naturals, as a relation.
NatLess == OpToRel(<, Nat)

\* Its pairs.
LEMMA NatLessIs == NatLess = {ss \in Nat \X Nat : ss[1] < ss[2]}
  BY Zenon DEF NatLess, OpToRel

\* There is no infinite descent in it.
LEMMA NatLessFounded == IsWellFoundedOn(NatLess, Nat)
  BY Zenon, NatLessThanWellFounded DEF NatLess

\* A set of naturals that is not empty has a least one.
LEMMA FirstHit ==
  ASSUME NEW T \in SUBSET Nat, T # {}
  PROVE  \E m \in T : \A j \in T : m <= j
<1>1. PICK x \in T : \A y \in T : ~ (<<y, x>> \in NatLess)
  BY NatLessFounded, WFMin
<1>2. \A y \in T : ~ (y < x)
  BY <1>1, NatLessIs
<1>3. \A y \in T : x <= y
  BY <1>2
<1> QED
  BY <1>3

\* `First` is at the least of the positions that hold one of K.
LEMMA FirstOne ==
  ASSUME NEW S, NEW s \in Seq(S), NEW K, \E i \in DOMAIN s : s[i] \in K
  PROVE  \E i \in DOMAIN s :
            /\ First(s, K) = s[i]
            /\ s[i] \in K
            /\ \A j \in 1 .. i - 1 : s[j] \notin K
<1> DEFINE T == {i \in DOMAIN s : s[i] \in K}
<1>0. DOMAIN s = 1 .. Len(s) /\ Len(s) \in Nat
  OBVIOUS
<1>1. T \in SUBSET Nat /\ T # {}
  BY <1>0
<1>2. PICK m \in T : \A j \in T : m <= j
  BY <1>1, FirstHit
<1> DEFINE P(i) == s[i] \in K /\ \A j \in 1 .. i - 1 : s[j] \notin K
<1>3. m \in DOMAIN s /\ P(m)
  <2>1. ASSUME NEW j \in 1 .. m - 1, s[j] \in K
        PROVE  FALSE
    BY <2>1, <1>0, <1>2
  <2> QED
    BY <2>1, <1>2
<1>4. PICK i \in DOMAIN s : First(s, K) = s[i] /\ P(i)
  <2> DEFINE c == CHOOSE i \in DOMAIN s : P(i)
  <2>1. c \in DOMAIN s /\ P(c)
    BY <1>3
  <2>2. First(s, K) = s[c]
    BY DEF First
  <2> QED
    BY <2>1, <2>2
<1> QED
  BY <1>4

\* _first_alias finds the first key that is there, and None if none is.
LEMMA FirstOfFirst ==
  ASSUME NEW S, NEW keys \in Seq(S), NEW table
  PROVE  /\ (\A k \in DOMAIN keys : keys[k] \notin DOMAIN table) => FirstOf(keys, table) = None
         /\ \A i \in DOMAIN keys :
              keys[i] \in DOMAIN table /\ (\A j \in 1 .. i - 1 : keys[j] \notin DOMAIN table)
                => FirstOf(keys, table) = table[keys[i]]
<1> DEFINE hits == {k \in DOMAIN keys : keys[k] \in DOMAIN table}
<1>0. DOMAIN keys = 1 .. Len(keys) /\ Len(keys) \in Nat
  OBVIOUS
<1>1. FirstOf(keys, table) = IF hits = {} THEN None ELSE table[keys[Min(hits)]]
  BY DEF FirstOf
<1>2. ASSUME NEW i \in DOMAIN keys, keys[i] \in DOMAIN table,
             \A j \in 1 .. i - 1 : keys[j] \notin DOMAIN table
      PROVE  FirstOf(keys, table) = table[keys[i]]
  <2>1. i \in hits /\ \A y \in hits : i =< y
    BY <1>0, <1>2
  <2>2. Min(hits) = i
    <3> DEFINE m == Min(hits)
    <3>1. m \in hits /\ \A y \in hits : m =< y
      BY <2>1 DEF Min
    <3>2. m \in Nat /\ i \in Nat
      BY <3>1, <2>1, <1>0
    <3>3. m <= i /\ i <= m
      BY <3>1, <2>1
    <3> HIDE DEF m
    <3>4. m = i
      BY <3>2, <3>3
    <3> QED
      BY <3>4 DEF m
  <2> QED
    BY <2>1, <2>2, <1>1
<1> QED
  BY <1>1, <1>2

\* Short tuples are sequences.
LEMMA Lists ==
  ASSUME NEW T
  PROVE  /\ \A a \in T : <<a>> \in Seq(T)
         /\ \A a, b \in T : <<a, b>> \in Seq(T)
         /\ \A a, b, c \in T : <<a, b, c>> \in Seq(T)
  OBVIOUS

\* The variables' names are made of words.
LEMMA VariablesTyped ==
  ASSUME NEW f \in Fields
  PROVE  EnvAliases[f] \in Seq(Seq(Words))
<1> USE SettingsAssumption
<1> DEFINE A == Seq(Words)
<1>a. \A x \in AliasWords : <<x>> \in A
  BY Lists, Zenon
<1>b. \A x, y \in AliasWords : <<x, y>> \in A
  BY Lists, Zenon
<1>c. \A x, y, z \in AliasWords : <<x, y, z>> \in A
  BY Lists, Zenon
<1>d. \A x \in A : <<x>> \in Seq(A)
  BY Lists, Zenon
<1>e. \A x, y \in A : <<x, y>> \in Seq(A)
  BY Lists, Zenon
<1>f. \A x, y, z \in A : <<x, y, z>> \in Seq(A)
  BY Lists, Zenon
<1> HIDE DEF A
<1>1. CASE f = "ip"
  <2>1. EnvAliases[f] = <<<<"IP">>, <<"HOST">>, <<"ADDRESS">>>>
    BY <1>1 DEF EnvAliases
  <2>2. <<"IP">> \in A /\ <<"HOST">> \in A /\ <<"ADDRESS">> \in A
    BY <1>a, Zenon DEF AliasWords
  <2> QED
    BY <2>1, <2>2, <1>f, Zenon DEF A
<1>2. CASE f = "account"
  <2>1. EnvAliases[f] = <<<<"ACCOUNT">>, <<"USERNAME">>>>
    BY <1>2 DEF EnvAliases
  <2>2. <<"ACCOUNT">> \in A /\ <<"USERNAME">> \in A
    BY <1>a, Zenon DEF AliasWords
  <2> QED
    BY <2>1, <2>2, <1>e, Zenon DEF A
<1>3. CASE f = "password"
  <2>1. EnvAliases[f] = <<<<"PASSWORD">>, <<"PASS">>>>
    BY <1>3 DEF EnvAliases
  <2>2. <<"PASSWORD">> \in A /\ <<"PASS">> \in A
    BY <1>a, Zenon DEF AliasWords
  <2> QED
    BY <2>1, <2>2, <1>e, Zenon DEF A
<1>4. CASE f = "otp_code"
  <2>1. EnvAliases[f] = <<<<"OTP", "CODE">>, <<"OTP">>>>
    BY <1>4 DEF EnvAliases
  <2>2. <<"OTP", "CODE">> \in A /\ <<"OTP">> \in A
    BY <1>a, <1>b, Zenon DEF AliasWords
  <2> QED
    BY <2>1, <2>2, <1>e, Zenon DEF A
<1>5. CASE f = "port"
  <2>1. EnvAliases[f] = <<<<"PORT">>>>
    BY <1>5 DEF EnvAliases
  <2>2. <<"PORT">> \in A
    BY <1>a, Zenon DEF AliasWords
  <2> QED
    BY <2>1, <2>2, <1>d, Zenon DEF A
<1>6. CASE f = "use_https"
  <2>1. EnvAliases[f] = <<<<"USE", "HTTPS">>>>
    BY <1>6 DEF EnvAliases
  <2>2. <<"USE", "HTTPS">> \in A
    BY <1>b, Zenon DEF AliasWords
  <2> QED
    BY <2>1, <2>2, <1>d, Zenon DEF A
<1>7. CASE f = "verify_tls"
  <2>1. EnvAliases[f] = <<<<"VERIFY", "TLS">>>>
    BY <1>7 DEF EnvAliases
  <2>2. <<"VERIFY", "TLS">> \in A
    BY <1>b, Zenon DEF AliasWords
  <2> QED
    BY <2>1, <2>2, <1>d, Zenon DEF A
<1>8. CASE f = "connect_timeout"
  <2>1. EnvAliases[f] = <<<<"CONNECT", "TIMEOUT">>>>
    BY <1>8 DEF EnvAliases
  <2>2. <<"CONNECT", "TIMEOUT">> \in A
    BY <1>b, Zenon DEF AliasWords
  <2> QED
    BY <2>1, <2>2, <1>d, Zenon DEF A
<1>9. CASE f = "read_timeout"
  <2>1. EnvAliases[f] = <<<<"READ", "TIMEOUT">>>>
    BY <1>9 DEF EnvAliases
  <2>2. <<"READ", "TIMEOUT">> \in A
    BY <1>b, Zenon DEF AliasWords
  <2> QED
    BY <2>1, <2>2, <1>d, Zenon DEF A
<1>10. CASE f = "ssh_username"
  <2>1. EnvAliases[f] = <<<<"SSH", "USERNAME">>, <<"SSH", "USER">>>>
    BY <1>10 DEF EnvAliases
  <2>2. <<"SSH", "USERNAME">> \in A /\ <<"SSH", "USER">> \in A
    BY <1>b, Zenon DEF AliasWords
  <2> QED
    BY <2>1, <2>2, <1>e, Zenon DEF A
<1>11. CASE f = "ssh_port"
  <2>1. EnvAliases[f] = <<<<"SSH", "PORT">>>>
    BY <1>11 DEF EnvAliases
  <2>2. <<"SSH", "PORT">> \in A
    BY <1>b, Zenon DEF AliasWords
  <2> QED
    BY <2>1, <2>2, <1>d, Zenon DEF A
<1>12. CASE f = "ssh_key_path"
  <2>1. EnvAliases[f] = <<<<"SSH", "KEY", "PATH">>, <<"SSH", "KEY">>>>
    BY <1>12 DEF EnvAliases
  <2>2. <<"SSH", "KEY", "PATH">> \in A /\ <<"SSH", "KEY">> \in A
    BY <1>b, <1>c, Zenon DEF AliasWords
  <2> QED
    BY <2>1, <2>2, <1>e, Zenon DEF A
<1>13. CASE f = "user_home_volume"
  <2>1. EnvAliases[f] = <<<<"USER", "HOME", "VOLUME">>>>
    BY <1>13 DEF EnvAliases
  <2>2. <<"USER", "HOME", "VOLUME">> \in A
    BY <1>c, Zenon DEF AliasWords
  <2> QED
    BY <2>1, <2>2, <1>d, Zenon DEF A
<1> QED
  BY <1>1, <1>2, <1>3, <1>4, <1>5, <1>6, <1>7, <1>8, <1>9, <1>10, <1>11, <1>12, <1>13
     DEF Fields, EnvAliases

\* What a table may have.
TableKeys == Fields \cup {"host", "address", "username"}

\* The keys of a field are keys of a table.
LEMMA FileAliasesTyped == \A f \in Fields : FileAliases(f) \in Seq(TableKeys)
<1> SUFFICES ASSUME NEW f \in Fields PROVE FileAliases(f) \in Seq(TableKeys)
  OBVIOUS
<1>1. f \in TableKeys /\ {"ip", "account"} \subseteq TableKeys
  BY DEF TableKeys, Fields, EnvAliases
<1>2. {"host", "address", "username"} \subseteq TableKeys
  BY DEF TableKeys
<1>3. <<"ip", "host", "address">> \in Seq(TableKeys) /\ <<"account", "username">> \in Seq(TableKeys)
  BY <1>1, <1>2, Lists, Zenon
<1>4. <<f>> \in Seq(TableKeys)
  BY <1>1, Lists, Zenon
<1> QED
  BY <1>3, <1>4, Zenon DEF FileAliases

\* Which fields there are.  Those with a boolean or a number have one key.
LEMMA FieldKinds ==
  /\ \A f \in Bools \cup Numbers : FileAliases(f) = <<f>>
  /\ Bools \subseteq Fields /\ Numbers \subseteq Fields
  /\ {"ip", "account"} \subseteq Fields
  /\ {"ip", "account"} \cap (Bools \cup Numbers) = {}
  /\ Bools \cap Numbers = {}
<1>1. Fields = {"ip", "account", "password", "otp_code", "port", "use_https", "verify_tls",
                "connect_timeout", "read_timeout", "ssh_username", "ssh_port",
                "ssh_key_path", "user_home_volume"}
  BY DEF Fields, EnvAliases
<1>4. \A f \in Bools \cup Numbers : FileAliases(f) = <<f>>
  BY DEF FileAliases, Bools, Numbers
<1> QED
  BY <1>1, <1>4 DEF Bools, Numbers

\* The variables of the host with one alias that are not empty; the aliases of a
\* field that have one; and the environment without the empty variables.
Mine(set, host, a) == {s \in set : s.host = host /\ s.alias = a /\ s.value # ""}
Vars(set, host, f) == {a \in Range(EnvAliases[f]) : Mine(set, host, a) # {}}
NonEmpty(env) == Restrict(env, {k \in DOMAIN env : env[k] # ""})

\* Where no name is borrowed, a variable that the host reads is its own: two names
\* that begin with the host's words are one only if their aliases are.
LEMMA VariableIs ==
  ASSUME NEW set, NEW host \in Hosts, SetUp(set), ~ Borrows(set, host),
         NEW f \in Fields, NEW a \in Range(EnvAliases[f])
  PROVE  LET env == NonEmpty(Environment(set)) IN
         /\ Key(host, a) \in DOMAIN env <=> Mine(set, host, a) # {}
         /\ \A s \in Mine(set, host, a) : env[Key(host, a)] = s.value
<1> DEFINE e   == Environment(set)
           k   == Key(host, a)
           c   == CHOOSE s \in set : Key(s.host, s.alias) = k
           env == NonEmpty(e)
<1>1. /\ k \in DOMAIN e <=> \E s \in set : Key(s.host, s.alias) = k
      /\ k \in DOMAIN e => e[k] = c.value
  BY DEF Environment
<1>2. a \in Seq(Words)
  <2>1. EnvAliases[f] \in Seq(Seq(Words))
    BY VariablesTyped
  <2> QED
    BY <2>1 DEF Range
<1>3. ASSUME NEW s \in set, Key(s.host, s.alias) = k
      PROVE  s.host = host /\ s.alias = a
  <2>1. s.host = host
    BY <1>3 DEF Borrows
  <2>2. host.words \o s.alias = host.words \o a
    BY <1>3, <2>1 DEF Key
  <2>3. s.alias \in Seq(Words) /\ host.words \in Seq(Words)
    BY SettingsAssumption DEF SetUp
  <2> HIDE DEF k
  <2>4. s.alias = a
    BY <2>2, <2>3, <1>2, ConcatSimplifications
  <2> QED
    BY <2>1, <2>4
<1>4. ASSUME k \in DOMAIN e
      PROVE  c \in set /\ c.host = host /\ c.alias = a
  <2>1. c \in set /\ Key(c.host, c.alias) = k
    BY <1>1, <1>4
  <2> QED
    BY <2>1, <1>3
<1>5. \A s \in set : s.host = host /\ s.alias = a => k \in DOMAIN e /\ e[k] = s.value
  <2> SUFFICES ASSUME NEW s \in set, s.host = host, s.alias = a
               PROVE  k \in DOMAIN e /\ e[k] = s.value
    OBVIOUS
  <2>1. k \in DOMAIN e
    BY <1>1
  <2>2. c.value = s.value
    BY <2>1, <1>4 DEF SetUp
  <2> QED
    BY <2>1, <2>2, <1>1
<1>6. /\ DOMAIN env = {x \in DOMAIN e : e[x] # ""}
      /\ \A x \in DOMAIN env : env[x] = e[x]
  BY DEF NonEmpty, Restrict
<1> HIDE DEF e, k, c, env
<1>7. ASSUME k \in DOMAIN env PROVE Mine(set, host, a) # {}
  BY <1>7, <1>6, <1>4, <1>1 DEF Mine
<1>8. ASSUME NEW s \in Mine(set, host, a) PROVE k \in DOMAIN env /\ env[k] = s.value
  BY <1>8, <1>5, <1>6 DEF Mine
<1> QED
  BY <1>7, <1>8 DEF e, k, env

\* The environment's part: nothing where no variable is set, and what is said else.
LEMMA OverlayIs ==
  ASSUME NEW set, NEW host \in Hosts, NEW file, SetUp(set), ~ Borrows(set, host),
         NEW f \in Fields
  PROVE  LET o == Overlay(Environment(set), host)[f]
             v == Said(set, file, host, f)
         IN  /\ Vars(set, host, f) = {} => o = None
             /\ Vars(set, host, f) # {} =>
                  /\ v # None
                  /\ o = IF f \in Bools THEN EnvBool(v) ELSE v
<1> DEFINE E   == EnvAliases[f]
           vs  == Variables(host, f)
           env == NonEmpty(Environment(set))
           V   == Vars(set, host, f)
           o   == Overlay(Environment(set), host)[f]
           v   == Said(set, file, host, f)
<1>1. E \in Seq(Seq(Words))
  BY VariablesTyped
<1> DEFINE T == {vs[i] : i \in DOMAIN E}
<1>2. /\ vs \in Seq(T)
      /\ DOMAIN vs = DOMAIN E
      /\ \A i \in DOMAIN E : vs[i] = Key(host, E[i])
  <2>1. /\ vs = [i \in DOMAIN E |-> vs[i]]
        /\ \A i \in DOMAIN E : vs[i] = Key(host, E[i])
    BY DEF Variables
  <2>2. DOMAIN E = 1 .. Len(E) /\ Len(E) \in Nat
    BY <1>1
  <2> HIDE DEF vs, E
  <2>3. vs \in [1 .. Len(E) -> T]
    BY <2>1, <2>2
  <2> QED
    BY <2>1, <2>2, <2>3
<1>3. o = IF FirstOf(vs, env) # None /\ f \in Bools
          THEN EnvBool(FirstOf(vs, env)) ELSE FirstOf(vs, env)
  BY DEF Overlay, NonEmpty
<1>4. \A i \in DOMAIN E : vs[i] \in DOMAIN env <=> E[i] \in V
  BY <1>2, VariableIs DEF Vars, Range
<1>5. CASE V = {}
  <2>1. \A i \in DOMAIN vs : vs[i] \notin DOMAIN env
    BY <1>5, <1>2, <1>4
  <2> HIDE DEF vs, env, T
  <2>2. FirstOf(vs, env) = None
    BY <2>1, <1>2, FirstOfFirst
  <2> QED
    BY <2>2, <1>3, <1>5
<1>6. CASE V # {}
  <2>1. \E i \in DOMAIN E : E[i] \in V
    BY <1>6 DEF Vars, Range
  <2>2. PICK i \in DOMAIN E : /\ First(E, V) = E[i]
                              /\ E[i] \in V
                              /\ \A j \in 1 .. i - 1 : E[j] \notin V
    <3> HIDE DEF E, V
    <3> QED
      BY <2>1, <1>1, FirstOne
  <2>3. \A j \in 1 .. i - 1 : j \in DOMAIN E
    BY <1>1
  <2>4. FirstOf(vs, env) = env[vs[i]]
    <3>1. \A j \in 1 .. i - 1 : vs[j] \notin DOMAIN env
      BY <2>2, <2>3, <1>4
    <3>2. vs[i] \in DOMAIN env /\ i \in DOMAIN vs
      BY <2>2, <1>4, <1>2
    <3> HIDE DEF vs, env, T
    <3> QED
      BY <3>1, <3>2, <1>2, FirstOfFirst
  <2> DEFINE M == Mine(set, host, E[i])
             s == CHOOSE s \in M : TRUE
  <2>5. s \in M
    BY <2>2 DEF Vars
  <2>6. v = s.value
    BY <2>2, <1>6 DEF Said, Vars, Mine
  <2>7. env[vs[i]] = s.value
    BY <2>5, <1>2, VariableIs DEF Range
  <2>8. s.value # None
    BY <2>5 DEF Mine, SetUp
  <2> HIDE DEF E, vs, env, V, o, v, M, s
  <2>9. v # None /\ o = IF f \in Bools THEN EnvBool(v) ELSE v
    BY <2>4, <2>6, <2>7, <2>8, <1>3
  <2> QED
    BY <2>9, <1>6 DEF o, v, V
<1> QED
  BY <1>5, <1>6

\* What is left where neither the environment nor the table says anything.
Default(file, f) == IF f \in DOMAIN file.defaults THEN file.defaults[f]
                    ELSE IF f \in DOMAIN BuiltIn THEN BuiltIn[f] ELSE None

\* The defaults of a file are what is meant; only booleans and numbers have one.
LEMMA DefaultsAre ==
  ASSUME NEW file, Written(file), NEW f \in Fields
  PROVE  LET d == Default(file, f) IN
         /\ f \in DOMAIN Defaults(file) <=> f \in Bools \cup Numbers
         /\ f \notin Bools \cup Numbers => d = None
         /\ f \in Bools \cup Numbers =>
              /\ d # None
              /\ Defaults(file)[f] = Meant(f, d)
              /\ Defaults(file)[f] # None
              /\ f \in Numbers /\ Loads(file) => d # "bad"
<1>1. DOMAIN BuiltIn = Bools \cup Numbers /\ DOMAIN Defaults(file) = Bools \cup Numbers
  BY DEF BuiltIn, Defaults
<1>2. CASE f \notin Bools \cup Numbers
  BY <1>1, <1>2 DEF Default, Written
<1>3. CASE f \in Bools
  <2>1. Default(file, f) \in {"true", "off"}
    BY <1>1, <1>3 DEF Default, Written, IsValue, BuiltIn
  <2>2. Defaults(file)[f] = IF f \in DOMAIN file.defaults THEN FileBool(file.defaults[f]) ELSE "true"
    BY <1>3, <1>1 DEF Defaults, BuiltIn
  <2>3. f \notin Numbers
    BY <1>3, FieldKinds
  <2>4. Defaults(file)[f] = FileBool(Default(file, f))
    BY <2>2, <1>1, <1>3 DEF Default, FileBool, BuiltIn
  <2> QED
    BY <2>1, <2>3, <2>4, <1>1, <1>3 DEF FileBool, Meant, None
<1>4. CASE f \in Numbers
  <2>1. f \notin Bools
    BY <1>4, FieldKinds
  <2>2. BuiltIn[f] = "built in"
    BY <1>4, <2>1 DEF BuiltIn
  <2>3. Defaults(file)[f] = Default(file, f)
    BY <1>4, <1>1, <2>1 DEF Defaults, Default
  <2>4. Default(file, f) # None
    BY <2>2, <1>1, <1>4 DEF Default, Written, IsValue, None
  <2>5. Loads(file) => Default(file, f) # "bad"
    BY <2>2, <1>1, <1>4 DEF Default, Loads
  <2> QED
    BY <2>1, <2>3, <2>4, <2>5, <1>1, <1>4 DEF Meant
<1> QED
  BY <1>2, <1>3, <1>4

\* The table's part, where the environment says nothing: what is meant, which is
\* nothing only for a field without a default.
LEMMA TableIs ==
  ASSUME NEW set, NEW host, NEW file, Written(file), host \in DOMAIN file.hosts,
         NEW f \in Fields, Vars(set, host, f) = {}
  PROVE  LET t == ParsedHost(file, host)[f]
             v == Said(set, file, host, f)
         IN  /\ t = Meant(f, v)
             /\ t = None => f \notin Bools \cup Numbers
             /\ f \in Numbers /\ Loads(file) => v # "bad"
<1> DEFINE table == file.hosts[host]
           A     == FileAliases(f)
           keys  == Range(A) \cap DOMAIN table
           w     == FirstOf(A, table)
           t     == ParsedHost(file, host)[f]
           v     == Said(set, file, host, f)
<1>1. A \in Seq(TableKeys)
  BY FileAliasesTyped
<1>2. t = IF w = None THEN IF f \in DOMAIN BuiltIn THEN Defaults(file)[f] ELSE None
          ELSE IF f \in Bools THEN FileBool(w) ELSE w
  BY DEF ParsedHost
<1>3. v = IF keys # {} THEN table[First(A, keys)] ELSE Default(file, f)
  BY DEF Said, Vars, Mine, Default
<1>4. DOMAIN BuiltIn = Bools \cup Numbers /\ DOMAIN Defaults(file) = Bools \cup Numbers
  BY DEF BuiltIn, Defaults
<1>5. CASE keys = {}
  <2>1. w = None
    <3>1. \A i \in DOMAIN A : A[i] \notin DOMAIN table
      BY <1>5 DEF Range
    <3> HIDE DEF A, table
    <3> QED
      BY <3>1, <1>1, FirstOfFirst
  <2>2. v = Default(file, f)
    BY <1>3, <1>5
  <2> HIDE DEF w, v, t, keys, A, table
  <2>3. t = Meant(f, v) /\ (t = None => f \notin Bools \cup Numbers)
    BY <2>1, <2>2, <1>2, <1>4, DefaultsAre DEF Meant
  <2>4. f \in Numbers /\ Loads(file) => v # "bad"
    BY <2>2, DefaultsAre
  <2> QED
    BY <2>3, <2>4 DEF t, v
<1>6. CASE keys # {}
  <2>1. \E i \in DOMAIN A : A[i] \in keys
    BY <1>6 DEF Range
  <2>2. PICK i \in DOMAIN A : /\ First(A, keys) = A[i]
                              /\ A[i] \in keys
                              /\ \A j \in 1 .. i - 1 : A[j] \notin keys
    <3> HIDE DEF A, keys
    <3> QED
      BY <2>1, <1>1, FirstOne
  <2>3. \A j \in 1 .. i - 1 : j \in DOMAIN A
    BY <1>1
  <2>4. w = table[A[i]]
    <3>1. A[i] \in DOMAIN table /\ \A j \in 1 .. i - 1 : A[j] \notin DOMAIN table
      BY <2>2, <2>3 DEF Range
    <3> HIDE DEF A, table, keys
    <3> QED
      BY <3>1, <1>1, FirstOfFirst
  <2>5. v = w
    BY <2>2, <2>4, <1>3, <1>6
  <2>6. /\ A[i] \in DOMAIN table
        /\ f \in Bools \cup Numbers => A[i] = f
    <3>1. f \in Bools \cup Numbers => A = <<f>>
      BY FieldKinds
    <3> HIDE DEF A
    <3> QED
      BY <3>1, <2>2
  <2>7. w # None /\ (f \in Bools => w \in {"true", "off"})
    BY <2>4, <2>6 DEF Written, IsValue
  <2>8. f \in Numbers /\ Loads(file) => w # "bad"
    BY <2>4, <2>6 DEF Loads
  <2> HIDE DEF w, v, t, keys, A, table
  <2>9. t = Meant(f, v) /\ t # None
    BY <2>5, <2>7, <1>2 DEF Meant, FileBool, None
  <2> QED
    BY <2>5, <2>8, <2>9 DEF t, v
<1> QED
  BY <1>5, <1>6

\* The table of a host, or one that says nothing.
Table(file, host) ==
    IF host \in DOMAIN file.hosts THEN ParsedHost(file, host) ELSE [f \in Fields |-> None]

\* Merged, a field is what is meant; a number is bad only in the environment.
LEMMA MergedIs ==
  ASSUME NEW set, NEW host \in Hosts, NEW file,
         SetUp(set), ~ Borrows(set, host), Written(file), NEW f \in Fields
  PROVE  LET over == Overlay(Environment(set), host)
             all  == Merged(over, Table(file, host), Defaults(file))
             v    == Said(set, file, host, f)
         IN  /\ all[f] = Meant(f, v)
             /\ over[f] = None /\ host \notin DOMAIN file.hosts => v = Default(file, f)
             /\ f \in Numbers /\ Loads(file) => (v = "bad" <=> over[f] = "bad")
<1> DEFINE over  == Overlay(Environment(set), host)
           o     == over[f]
           table == Table(file, host)
           t     == table[f]
           ds    == Defaults(file)
           a     == Merged(over, table, ds)[f]
           v     == Said(set, file, host, f)
           d     == Default(file, f)
           V     == Vars(set, host, f)
<1>1. a = IF o # None THEN o ELSE IF t # None THEN t ELSE IF f \in DOMAIN ds THEN ds[f] ELSE None
  BY DEF Merged
<1>2. /\ V = {} => o = None
      /\ V # {} => v # None /\ o = IF f \in Bools THEN EnvBool(v) ELSE v
  BY OverlayIs
<1>3. V = {} /\ host \in DOMAIN file.hosts =>
        /\ t = Meant(f, v)
        /\ t = None => f \notin Bools \cup Numbers
        /\ f \in Numbers /\ Loads(file) => v # "bad"
  BY TableIs DEF Table
<1>4. V = {} /\ host \notin DOMAIN file.hosts => v = d /\ t = None
  <2>1. ASSUME V = {}, host \notin DOMAIN file.hosts
        PROVE  v = d
    <3> DEFINE keys == Range(FileAliases(f)) \cap DOMAIN (<<>>)
    <3>1. keys = {}
      OBVIOUS
    <3> HIDE DEF keys
    <3>2. v = IF keys # {} THEN (<<>>)[First(FileAliases(f), keys)] ELSE d
      BY <2>1 DEF Said, Vars, Mine, Default, keys
    <3> QED
      BY <3>1, <3>2
  <2>2. host \notin DOMAIN file.hosts => t = None
    BY DEF Table
  <2> QED
    BY <2>1, <2>2
<1>5. /\ f \in DOMAIN ds <=> f \in Bools \cup Numbers
      /\ f \notin Bools \cup Numbers => d = None
      /\ f \in Bools \cup Numbers =>
           /\ ds[f] = Meant(f, d)
           /\ f \in Numbers /\ Loads(file) => d # "bad"
  BY DefaultsAre
<1>6. Numbers \cap Bools = {}
  BY FieldKinds
<1> HIDE DEF over, o, table, t, ds, a, v, d, V
<1>7. V # {} => o # None /\ o = Meant(f, v)
  BY <1>2 DEF EnvBool, Meant, None
<1>8. a = Meant(f, v)
  <2>1. CASE V # {}
    BY <2>1, <1>7, <1>1
  <2>2. CASE V = {} /\ host \in DOMAIN file.hosts
    BY <2>2, <1>1, <1>2, <1>3, <1>5
  <2>3. CASE V = {} /\ host \notin DOMAIN file.hosts
    BY <2>3, <1>1, <1>2, <1>4, <1>5 DEF Meant
  <2> QED
    BY <2>1, <2>2, <2>3
<1>9. o = None /\ host \notin DOMAIN file.hosts => v = d
  BY <1>7, <1>4
<1>10. f \in Numbers /\ Loads(file) => (v = "bad" <=> o = "bad")
  <2> SUFFICES ASSUME f \in Numbers, Loads(file) PROVE v = "bad" <=> o = "bad"
    OBVIOUS
  <2>1. CASE V # {}
    BY <2>1, <1>2, <1>6
  <2>2. CASE V = {}
    BY <2>2, <1>2, <1>3, <1>4, <1>5 DEF None
  <2> QED
    BY <2>1, <2>2
<1> QED
  BY <1>8, <1>9, <1>10 DEF over, o, table, ds, a, v, d

\* get_host answers what is meant, and refuses for the reasons given and no other.
LEMMA GetHostLayers ==
  ASSUME NEW set, NEW host \in Hosts, NEW file,
         SetUp(set), ~ Borrows(set, host), Written(file), Loads(file)
  PROVE  Layers(set, file, host, get_host(Environment(set), file, host))
<1> DEFINE env  == Environment(set)
           over == Overlay(env, host)
           all  == Merged(over, Table(file, host), Defaults(file))
           out  == get_host(env, file, host)
           said(f) == Said(set, file, host, f)
<1>1. \A f \in Fields :
        /\ all[f] = Meant(f, said(f))
        /\ over[f] = None /\ host \notin DOMAIN file.hosts => said(f) = Default(file, f)
        /\ f \in Numbers /\ Loads(file) => (said(f) = "bad" <=> over[f] = "bad")
  BY MergedIs
<1>2. /\ {"ip", "account"} \subseteq Fields /\ Numbers \subseteq Fields
      /\ {"ip", "account"} \cap (Bools \cup Numbers) = {}
  BY FieldKinds
<1>3. all.ip = said("ip") /\ all.account = said("account")
  <2>1. all["ip"] = said("ip") /\ all["account"] = said("account")
    BY <1>1, <1>2 DEF Meant
  <2> QED
    BY <2>1
<1> HIDE DEF all
<1> DEFINE bad     == \E f \in Numbers : over[f] = "bad"
           unknown == host \notin DOMAIN file.hosts /\ \A f \in Fields : over[f] = None
<1>a. ~ (bad /\ unknown)
  BY <1>2 DEF None
<1>b. out = CASE bad     -> Error("number")
              [] unknown -> Error("unknown")
              [] OTHER   -> IF all.ip \in {None, ""} THEN Error("ip")
                            ELSE IF all.account \in {None, ""} THEN Error("account")
                            ELSE [ok |-> TRUE, is |-> all]
  BY DEF get_host, Table, all
<1> HIDE DEF over, out
<1>4. out = IF bad THEN Error("number")
            ELSE IF unknown THEN Error("unknown")
            ELSE IF all.ip \in {None, ""} THEN Error("ip")
            ELSE IF all.account \in {None, ""} THEN Error("account")
            ELSE [ok |-> TRUE, is |-> all]
  BY <1>a, <1>b
<1> USE DEF over, out
<1> DEFINE good == /\ {said("ip"), said("account")} \cap {None, ""} = {}
                   /\ \A f \in Numbers : said(f) # "bad"
<1>5. ASSUME host \notin DOMAIN file.hosts, \A f \in Fields : over[f] = None
      PROVE  said("ip") = None
  BY <1>1, <1>2, <1>5, DefaultsAre
<1> HIDE DEF over, all, out, said
<1>6. good => out = [ok |-> TRUE, is |-> all]
  BY <1>1, <1>2, <1>3, <1>4, <1>5
<1>7. ~ good => out.ok = FALSE
  <2>1. CASE \E f \in Numbers : said(f) = "bad"
    BY <2>1, <1>1, <1>2, <1>4 DEF Error
  <2>2. CASE {said("ip"), said("account")} \cap {None, ""} # {}
    BY <2>2, <1>3, <1>4 DEF Error
  <2> QED
    BY <2>1, <2>2
<1>8. out.ok <=> good
  BY <1>6, <1>7
<1>9. out.ok => \A f \in Fields : out.is[f] = Meant(f, said(f))
  <2> SUFFICES ASSUME out.ok PROVE \A f \in Fields : out.is[f] = Meant(f, said(f))
    OBVIOUS
  <2>1. out.is = all
    BY <1>6, <1>8
  <2> QED
    BY <2>1, <1>1
<1> QED
  BY <1>8, <1>9 DEF Layers, out, said

\* A server answers only with a file that loads, and as get_host does.
SettingsInv ==
    /\ environ \in Environs
    /\ config \in Files
    /\ serving => Loads(config)
    /\ \A host \in asked :
          /\ host \in Hosts
          /\ serving
          /\ answer = get_host(Environment(environ), config, host)

\* It holds at the start.
LEMMA SettingsInvInit == SettingsInit => SettingsInv
  BY DEF SettingsInit, SettingsInv

\* A load and a lookup keep it.
LEMMA SettingsInvStep == SettingsInv /\ [SettingsNext]_settingsVars => SettingsInv'
<1> SUFFICES ASSUME SettingsInv, [SettingsNext]_settingsVars PROVE SettingsInv'
  OBVIOUS
<1> USE DEF SettingsInv
<1>1. CASE Load
  BY <1>1 DEF Load
<1>2. ASSUME NEW host \in Hosts, Lookup(host) PROVE SettingsInv'
  BY <1>2 DEF Lookup
<1>3. CASE UNCHANGED settingsVars
  BY <1>3 DEF settingsVars
<1> QED
  BY <1>1, <1>2, <1>3 DEF SettingsNext

\* It makes the answers layered.
LEMMA SettingsInvLayered == SettingsInv => Layered
<1> SUFFICES ASSUME SettingsInv, NEW host \in asked, ~ Borrows(environ, host)
             PROVE  Layers(environ, config, host, answer)
  BY DEF Layered
<1>1. SetUp(environ) /\ Written(config)
  BY SettingsAssumption DEF SettingsInv
<1> QED
  BY <1>1, GetHostLayers DEF SettingsInv

\* Layered: every answer get_host gives for a host has each setting from the first
\* source that makes it, for all words, hosts, environments and files.
THEOREM AlwaysLayered == SettingsSpec => []Layered
<1>1. SettingsSpec => []SettingsInv
  BY SettingsInvInit, SettingsInvStep, PTL DEF SettingsSpec
<1> QED
  BY <1>1, SettingsInvLayered, PTL
===============================================================================
